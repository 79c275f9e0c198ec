------------------------------ MODULE MCGBFS -------------------------------
(***************************************************************************)
(* GBFS on small tasks without sensing: three actions in state 1, up to    *)
(* two in state 2 and at most one in state 3; part of them with a limit.   *)
(***************************************************************************)
EXTENDS GBFS, TaskFamilies

WideStart == {<< <<x>>, <<y>>, <<z>> >> : x \in 1..2, y \in 2..3, z \in 1..4}

FreeGraph == Family(Listed(WideStart), OnticLists, Listed(None \cup One(Ontic)))
LimitedGraph == Family(Listed(WideStart), Listed(One(Ontic)), Listed(One(Ontic)))

SearchTable == Append(FreeGraph \o LimitedGraph, AtGoalGraph)
SearchNumbers == 1..Len(SearchTable)
SearchGraph(t) == SearchTable[t]
NodeLimit(t) == IF t <= Len(FreeGraph) THEN 0 ELSE 2
=============================================================================
