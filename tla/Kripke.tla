------------------------------- MODULE Kripke -------------------------------
(***************************************************************************)
(* Epistemic states, the model checker for formulas, and bisimulation      *)
(* contraction (state.cpp, bisimulation.cpp).                              *)
(*                                                                         *)
(* A state is a multi-pointed Kripke model                                 *)
(*     W  the worlds          V[w]     the atoms true at w                 *)
(*     D  the designated ones R[i][w]  the worlds agent i considers at w   *)
(* The code stores each successor set once and lets worlds point at it;    *)
(* here a set is its value, so that sharing is equality.  Worlds may be    *)
(* any values: a contracted state has the worlds 0 .. n - 1, a product has *)
(* pairs of a world and an event.                                          *)
(*                                                                         *)
(* A formula is a tuple whose first component is its kind.  Formulas is    *)
(* closed under subformulas: the universe that the code interns.           *)
(***************************************************************************)
EXTENDS Sequences, FiniteSetsExt, TLC

CONSTANTS Agents,    \* the agents, numbers in the order of the task
          Atoms,     \* the atoms, numbers in the order of the task
          Formulas   \* the interned formulas

ASSUME AgentsAssumption == Agents \subseteq Nat /\ IsFiniteSet(Agents)
ASSUME AtomsAssumption  == Atoms \subseteq Nat /\ IsFiniteSet(Atoms)

\* The formulas that f is built from.
Subformulas(f) ==
  CASE f[1] = "Not" -> {f[2]}
    [] f[1] \in {"And", "Or"} -> Range(f[2])
    [] f[1] \in {"Belief", "Kw", "Common"} -> {f[3]}
    [] f[1] \in {"Top", "Bot", "Atom"} -> {}

\* How deep a formula is.
Height ==
  LET height[f \in Formulas] ==
        IF Subformulas(f) = {} THEN 0 ELSE 1 + Max({height[g] : g \in Subformulas(f)})
  IN  height

\* A formula is interned after those it is built from.
ASSUME FormulasAssumption ==
  \A f \in Formulas :
     /\ f[1] \in {"Top", "Bot", "Atom", "Not", "And", "Or", "Belief", "Kw", "Common"}
     /\ Height[f] \in Nat
     /\ \A g \in Subformulas(f) : g \in Formulas /\ Height[g] < Height[f]

\* f speaks of the agents and atoms of the task.
Meaningful(f) ==
  /\ f[1] = "Atom" => f[2] \in Atoms
  /\ f[1] \in {"Belief", "Kw"} => f[2] \in Agents
  /\ f[1] = "Common" => f[2] \subseteq Agents

\* f itself; the comparison makes TLC compute its values once instead of at
\* every use.
Table(f) == IF f = f THEN f ELSE << >>

IsState(s) ==
  /\ s.V \in [s.W -> SUBSET Atoms]
  /\ s.D \subseteq s.W
  /\ s.R \in [Agents -> [s.W -> SUBSET s.W]]

-----------------------------------------------------------------------------
(***************************************************************************)
(* The model checker                                                       *)
(***************************************************************************)

\* The worlds of s at which agent i believes what holds in X, and those at
\* which it knows whether it does.
Box(s, i, X) == {w \in s.W : s.R[i][w] \subseteq X}
KnowsWhether(s, i, X) == {w \in s.W : s.R[i][w] \subseteq X \/ s.R[i][w] \cap X = {}}

\* The worlds from which a path of the agents of G, of any length, leaves X:
\* grown backwards from the worlds outside X.
Leaving(s, G, X) ==
  LET bad[Y \in SUBSET s.W] ==
        LET Z == Y \cup {w \in s.W : \E i \in G : s.R[i][w] \cap Y # {}}
        IN  IF Z = Y THEN Y ELSE bad[Z]
  IN  bad[s.W \ X]

\* The worlds of s where f holds, sat being those where its subformulas do.
Clause(s, sat, f) ==
  CASE f[1] = "Top"    -> s.W
    [] f[1] = "Bot"    -> {}
    [] f[1] = "Atom"   -> {w \in s.W : f[2] \in s.V[w]}
    [] f[1] = "Not"    -> s.W \ sat[f[2]]
    [] f[1] = "And"    -> s.W \ UNION {s.W \ sat[c] : c \in Range(f[2])}
    [] f[1] = "Or"     -> UNION {sat[c] : c \in Range(f[2])}
    [] f[1] = "Belief" -> IF f[2] \in Agents THEN Box(s, f[2], sat[f[3]]) ELSE {}
    [] f[1] = "Kw"     -> IF f[2] \in Agents THEN KnowsWhether(s, f[2], sat[f[3]]) ELSE {}
    [] f[1] = "Common" -> s.W \ Leaving(s, f[2] \cap Agents, sat[f[3]])

\* The worlds of s that satisfy each formula.
Sat(s) == LET sat[f \in Formulas] == Clause(s, sat, f) IN Table(sat)

\* A formula holds in a state if it holds at every designated world.
Satisfies(s, f) == s.D \subseteq Sat(s)[f]

-----------------------------------------------------------------------------
(***************************************************************************)
(* Contraction                                                             *)
(***************************************************************************)

\* s without the worlds outside keep.
RestrictState(s, keep) ==
  [W |-> s.W \cap keep, D |-> s.D \cap keep, V |-> Table([w \in s.W \cap keep |-> s.V[w]]),
   R |-> Table([i \in Agents |-> Table([w \in s.W \cap keep |-> s.R[i][w] \cap keep])])]

\* The worlds that a path of the agents reaches from a designated world.
Reachable(s) ==
  LET reach[X \in SUBSET s.W] ==
        LET Y == X \cup UNION {s.R[i][w] : i \in Agents, w \in X}
        IN  IF Y = X THEN X ELSE reach[Y]
  IN  reach[s.D]

\* Orders the code sorts by: valuations as lists of signed 32-bit words; sets of
\* classes by size, then as sorted lists; keys by class, then by the sets of the
\* agents.
ValuationLess(P, Q) ==
  /\ P # Q
  /\ LET word == Min({p \div 32 : p \in SymDiff(P, Q)})
         high == Max({p \in SymDiff(P, Q) : p \div 32 = word})
     IN  IF high % 32 = 31 THEN high \in P ELSE high \in Q
ClassesLess(A, B) ==
  \/ Cardinality(A) < Cardinality(B)
  \/ Cardinality(A) = Cardinality(B) /\ A # B /\ Min(SymDiff(A, B)) \in A
PointLess(p, q) ==
  \/ ~p.designated /\ q.designated
  \/ p.designated = q.designated /\ ValuationLess(p.val, q.val)
KeyLess(p, q) ==
  \/ p.class < q.class
  \/ /\ p.class = q.class
     /\ p.near # q.near
     /\ LET i == Min({j \in Agents : p.near[j] # q.near[j]})
        IN  ClassesLess(p.near[i], q.near[i])

\* Every world gets the rank of its key among the keys that occur.
Ranks(key, Less(_, _)) ==
  LET keys == Range(key)
      rank == Table([k \in keys |-> Cardinality({j \in keys : Less(j, k)})])
  IN  Table([w \in DOMAIN key |-> rank[key[w]]])

\* Fault: the keys are numbered as the worlds come, without sorting them.
Unsorted(s) ==
  LET key(w) == <<w \in s.D, s.V[w]>>
      number[X \in SUBSET s.W] ==
        IF X = {} THEN << >>
        ELSE LET w == CHOOSE w \in X : TRUE
                 K == {v \in X : key(v) = key(w)}
             IN  [v \in K |-> Cardinality({key(u) : u \in s.W \ X})] @@ number[X \ K]
  IN  number[s.W]

\* Round 0 tells worlds apart by designation and valuation, a later round by
\* the classes of their successors.
FirstClasses(s) ==
  Ranks([w \in s.W |-> [designated |-> w \in s.D, val |-> s.V[w]]], PointLess)
Split(s, class) ==
  Ranks(Table([w \in s.W |->
                [class |-> class[w],
                 near  |-> Table([i \in Agents |-> {class[v] : v \in s.R[i][w]}])]]),
        KeyLess)

\* Fault: one round is taken to be enough.
RefinedOnce(s) == Split(s, FirstClasses(s))

\* Rounds go on until one splits nothing.
FinalClasses(s) ==
  LET refine[class \in [s.W -> 0 .. Cardinality(s.W)]] ==
        LET next == Split(s, class)
        IN  IF Cardinality(Range(next)) = Cardinality(Range(class)) THEN class
            ELSE refine[next]
  IN  refine[FirstClasses(s)]

\* World c of the quotient is class c, read off one of its members.
Quotient(s, class) ==
  LET classes == Range(class)
      repr    == Table([c \in classes |-> CHOOSE w \in s.W : class[w] = c])
  IN  [W |-> classes,
       V |-> Table([c \in classes |-> s.V[repr[c]]]),
       D |-> {c \in classes : repr[c] \in s.D},
       R |-> Table([i \in Agents |->
                      Table([c \in classes |-> {class[v] : v \in s.R[i][repr[c]]}])])]

BisimContract(s) ==
  LET m == RestrictState(s, Reachable(s))
  IN  Quotient(m, FinalClasses(m))
=============================================================================
