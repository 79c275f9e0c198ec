----------------------------- MODULE MCReplan ------------------------------
(***************************************************************************)
(* Replan on the family of small tasks with sensing.                       *)
(***************************************************************************)
EXTENDS Replan, TaskFamilies

GraphTable == Append(ContingentGraph, AtGoalGraph)
TaskNumbers == 1..Len(GraphTable)
TableGraph(t) == GraphTable[t]
=============================================================================
