------------------------------ MODULE Symmetry ------------------------------
(***************************************************************************)
(* Agent symmetry (symmetry.cpp): the swaps of two agents that map a task  *)
(* onto itself, those that fix a state, and the actions a search may skip  *)
(* because a kept one is their image.                                      *)
(*                                                                         *)
(* A name is a sequence of tokens; the token that names agent i is i.      *)
(* A task is a record                                                      *)
(*     init, goal   the initial state and the goal formula                 *)
(*     atomNames    the name of every atom                                 *)
(*     actions      a function from action names to actions                *)
(*     seriality    what becomes of agents left without a world            *)
(***************************************************************************)
EXTENDS Update

SwapTokens(name, a, b) ==
  [k \in DOMAIN name |-> CASE name[k] = a -> b [] name[k] = b -> a [] OTHER -> name[k]]

\* The swap of a and b as a renaming of agents, atoms and actions, if every
\* renamed name exists.
SwapExists(t, a, b) ==
  /\ \A p \in Atoms : SwapTokens(t.atomNames[p], a, b) \in Range(t.atomNames)
  /\ \A x \in DOMAIN t.actions : SwapTokens(x, a, b) \in DOMAIN t.actions
MakeSwap(t, a, b) ==
  [agent  |-> Table([i \in Agents |-> CASE i = a -> b [] i = b -> a [] OTHER -> i]),
   atom   |-> Table([p \in Atoms |->
                 CHOOSE q \in Atoms : t.atomNames[q] = SwapTokens(t.atomNames[p], a, b)]),
   action |-> Table([x \in DOMAIN t.actions |-> SwapTokens(x, a, b)])]

\* Renaming the first formula of p gives the second, same being the verdicts
\* on their parts.
PartsMatch(sw, same, p) ==
  /\ p[1][1] = p[2][1]
  /\ CASE p[1][1] \in {"Top", "Bot"} -> TRUE
       [] p[1][1] = "Atom" -> sw.atom[p[1][2]] = p[2][2]
       [] p[1][1] = "Not"  -> same[<<p[1][2], p[2][2]>>]
       [] p[1][1] \in {"Belief", "Kw"} ->
            sw.agent[p[1][2]] = p[2][2] /\ same[<<p[1][3], p[2][3]>>]
       [] p[1][1] = "Common" ->
            {sw.agent[i] : i \in p[1][2]} = p[2][2] /\ same[<<p[1][3], p[2][3]>>]
       [] p[1][1] \in {"And", "Or"} ->
            \E pairing \in Bijection(DOMAIN p[1][2], DOMAIN p[2][2]) :
               \A k \in DOMAIN pairing : same[<<p[1][2][k], p[2][2][pairing[k]]>>]

\* Renaming f gives g, up to the order of conjuncts and disjuncts.
RenamesTo(sw, f, g) ==
  LET same[p \in Formulas \X Formulas] == PartsMatch(sw, same, p)
  IN  same[<<f, g>>]

EffectsMatch(sw, x, y) ==
  /\ {sw.atom[p] : p \in DOMAIN x} = DOMAIN y
  /\ \A p \in DOMAIN x : RenamesTo(sw, x[p], y[sw.atom[p]])

\* The swap maps action x onto y.  The event relation of agents without a
\* matching case is not compared.
MapsAction(sw, x, y) ==
  /\ Events(x) = Events(y)
  /\ x.designated = y.designated
  /\ \A e \in Events(x) :
        /\ RenamesTo(sw, x.events[e].pre, y.events[e].pre)
        /\ EffectsMatch(sw, x.events[e].add, y.events[e].add)
        /\ EffectsMatch(sw, x.events[e].del, y.events[e].del)
  /\ \A i \in Agents :
        LET cx == Cases(x, i)
            cy == Cases(y, sw.agent[i])
        IN  /\ Len(cx) = Len(cy)
            /\ \A c \in DOMAIN cx :
                  cx[c].rel = cy[c].rel /\ RenamesTo(sw, cx[c].cond, cy[c].cond)

\* The state with the two agents and their atoms exchanged.
Rename(s, sw) ==
  [W |-> s.W, D |-> s.D,
   V |-> Table([w \in s.W |-> {sw.atom[p] : p \in s.V[w]}]),
   R |-> [i \in Agents |-> s.R[sw.agent[i]]]]

Fixes(sw, s) == BisimContract(Rename(s, sw)) = BisimContract(s)

\* The symmetries of the task.
Detect(t) ==
  { sw \in { MakeSwap(t, p[1], p[2]) :
               p \in { q \in Agents \X Agents : q[1] < q[2] /\ SwapExists(t, q[1], q[2]) } } :
      /\ RenamesTo(sw, t.goal, t.goal)
      /\ \A x \in DOMAIN t.actions : MapsAction(sw, t.actions[x], t.actions[sw.action[x]])
      /\ Fixes(sw, t.init) }

\* A swap that moves an agent to one with other row sizes, or an atom to one
\* true at another number of worlds, is not tried.
Candidate(sw, s) ==
  LET rows(i) == [n \in 0 .. Cardinality(s.W) |->
                    Cardinality({w \in s.W : Cardinality(s.R[i][w]) = n})]
      column(p) == Cardinality({w \in s.W : p \in s.V[w]})
  IN  /\ \A i \in Agents : rows(i) = rows(sw.agent[i])
      /\ \A p \in Atoms : column(p) = column(sw.atom[p])

\* Fault: the cheap test is taken for the exact one.
LikelyStabiliser(swaps, s) == {sw \in swaps : Candidate(sw, s)}

Stabiliser(swaps, s) == {sw \in swaps : Candidate(sw, s) /\ Fixes(sw, s)}

\* The agents that the swaps connect with agent i.
Component(stab, i) ==
  LET linked[C \in SUBSET Agents] ==
        LET E == C \cup {sw.agent[j] : sw \in stab, j \in C}
        IN  IF E = C THEN C ELSE linked[E]
  IN  linked[{i}]

\* An action is kept if, in every component, the agents it names first appear
\* in ascending order and are the smallest members.
Keep(stab, name) ==
  \A k \in DOMAIN name :
     LET C       == Component(stab, name[k])
         earlier == {name[j] : j \in 1 .. k - 1}
     IN  \/ name[k] \notin Agents
         \/ Cardinality(C) = 1
         \/ name[k] \in earlier
         \/ name[k] = Min(C \ earlier)
=============================================================================
