----------------------------- MODULE MCAOStar ------------------------------
(***************************************************************************)
(* AOStar on two families of small tasks, with and without sensing, and on *)
(* a part of the first with a limit on the depth of the iterations.        *)
(***************************************************************************)
EXTENDS AOStar, TaskFamilies

Ranks == 1..(Size - 1)

LimitedGraph == Family(MixedLists, ShortLists, ShortLists)

\* Tables are definitions, which TLC evaluates once.
GraphTable == Append(ContingentGraph \o LinearGraph \o LimitedGraph, AtGoalGraph)
TaskNumbers == 1..Len(GraphTable)
TableGraph(t) == GraphTable[t]

Unlimited == Len(ContingentGraph) + Len(LinearGraph)
DepthLimit(t) == IF t <= Unlimited THEN 0 ELSE 2

\* The heights that policies have.
HeightTable ==
  SubSeq([t \in TaskNumbers |->
            SubSeq([s \in States |-> PolicyHeights(t, s)], 1, Size)], 1, Len(GraphTable))
TableHeights(t, s) == HeightTable[t][s]

\* The two references agree: a state without a policy is one in a trap.
ASSUME ReferencesAgree ==
  \A t \in TaskNumbers : \A s \in States : Solvable(t, s) <=> ~Doomed(t, s)
=============================================================================
