----------------------------- MODULE StateSpace -----------------------------
(***************************************************************************)
(* The space the searches explore, from the epistemic semantics up: a      *)
(* search starts from the contraction of the initial state and follows     *)
(* successors, each the contraction of a product update (search.cpp,       *)
(* build_successor and ao_star's expand).  raw repeats every update on the *)
(* whole, uncontracted model: what the path means.                         *)
(***************************************************************************)
EXTENDS Symmetry, TaskPath

VARIABLE state        \* the state the search holds

vars == <<task, state, raw, depth>>

Init ==
  /\ task \in Tasks
  /\ raw = Task[task].init
  /\ state = BisimContract(Task[task].init)
  /\ depth = 0

\* A linear search (GBFS, EHC) keeps all outcomes of an action in one state.
Expand(x) ==
  LET a == T.actions[x]
      next == Successor(state, a, T.seriality, T.cap)
  IN  /\ depth < MaxDepth
      /\ next.ok
      /\ state' = next.state
      /\ raw' = ProductUpdate(raw, a, T.seriality, Pairs(raw, a)).state
      /\ depth' = depth + 1
      /\ UNCHANGED task

\* AO* and replanning follow one outcome of an action.
ExpandOutcome(x) ==
  LET a == T.actions[x]
      next == Branches(state, a, T.seriality, T.cap)
  IN  /\ depth < MaxDepth
      /\ \E e \in DOMAIN next :
            /\ state' = next[e]
            /\ raw' = ProductUpdateSplit(raw, a, T.seriality, Pairs(raw, a))[e]
      /\ depth' = depth + 1
      /\ UNCHANGED task

Next == \E x \in DOMAIN T.actions : Expand(x) \/ ExpandOutcome(x)

Spec == Init /\ [][Next]_vars

-----------------------------------------------------------------------------
(***************************************************************************)
(* Properties                                                              *)
(***************************************************************************)

\* Both sides of the path are Kripke models over the task's language.
TypeOK ==
  /\ task \in Tasks
  /\ IsState(state) /\ IsState(raw)
  /\ depth \in 0 .. MaxDepth

\* The largest bisimulation between two models, as pairs of worlds: the
\* definition that contraction is measured by.
LargestBisimulation(s, t) ==
  LET bis[B \in SUBSET (s.W \X t.W)] ==
        LET C == {p \in B : \A i \in Agents :
                    /\ \A u \in s.R[i][p[1]] : \E v \in t.R[i][p[2]] : <<u, v>> \in B
                    /\ \A v \in t.R[i][p[2]] : \E u \in s.R[i][p[1]] : <<u, v>> \in B}
        IN  IF C = B THEN B ELSE bis[C]
  IN  bis[{p \in s.W \X t.W : s.V[p[1]] = t.V[p[2]] /\ (p[1] \in s.D <=> p[2] \in t.D)}]

\* Contracting after every update, and not only at the end, is exact: every
\* world of the uncontracted path that matters has exactly one bisimilar world
\* in the state, and every world of the state has some.
ContractionIsExact ==
  LET B == LargestBisimulation(RestrictState(raw, Reachable(raw)), state)
  IN  /\ \A w \in Reachable(raw) : \E v \in state.W : \A u \in state.W :
            <<w, u>> \in B <=> u = v
      /\ \A v \in state.W : \E w \in Reachable(raw) : <<w, v>> \in B

\* The numbering of a contracted state depends on the situation alone: the
\* worlds of the uncontracted path in any order yield the very same state, so
\* closed lists may compare fingerprints.
NumberingIsCanonical ==
  /\ BisimContract(raw) = state
  /\ BisimContract(state) = state

\* If the task requires or repairs consistency, no agent ever believes a
\* contradiction: no goal or precondition holds for want of a world.  The
\* initial state is taken as it is given.
BeliefsStayConsistent ==
  T.seriality # "Ignore" =>
    \/ ~Collapses(state) /\ ~Collapses(raw)
    \/ depth = 0 /\ Collapses(T.init)

\* The states of S that the swaps of stab make of s, however many it takes.
Orbit(stab, S, s) ==
  LET orbit[Q \in SUBSET S] ==
        LET P == Q \cup ({BisimContract(Rename(q, sw)) : q \in Q, sw \in stab} \cap S)
        IN  IF P = Q THEN Q ELSE orbit[P]
  IN  orbit[{s}]

\* Every successor that a search skips for symmetry is, up to exchanging
\* agents, a successor it builds, also if the deadline let detect find only
\* some of the swaps (symmetry.cpp, detect: "pruning by fewer of them is still
\* sound").
SymmetryLosesNothing ==
  LET next == [x \in DOMAIN T.actions |->
                 Successor(state, T.actions[x], T.seriality, T.cap)]
      able == {x \in DOMAIN T.actions : next[x].ok}
      successors == {next[x].state : x \in able}
  IN  \A stab \in SUBSET Stabiliser(Detect(T), state) :
         LET kept == {x \in able : Keep(stab, x)}
         IN  \A x \in able \ kept : \E y \in kept :
                next[y].state \in Orbit(stab, successors, next[x].state)

\* Where that is proved: actions that detect takes for images of each other
\* agree on the relation of agents without a matching case, which it does not
\* compare, and names tell atoms apart.
IsName(x) == Len(x) \in Nat /\ x = [k \in 1 .. Len(x) |-> x[k]]
SwapsAreSymmetries(t) ==
  /\ \A f \in Formulas : Meaningful(f)
  /\ IsFiniteSet(DOMAIN t.actions) /\ \A x \in DOMAIN t.actions : IsName(x)
  /\ DOMAIN t.atomNames = Atoms
  /\ \A p, q \in Atoms : /\ IsName(t.atomNames[p])
                         /\ t.atomNames[p] = t.atomNames[q] => p = q
  /\ \A sw \in Detect(t), x \in DOMAIN t.actions :
        t.actions[x].default = t.actions[sw.action[x]].default

=============================================================================
