------------------------------ MODULE TaskPath ------------------------------
(***************************************************************************)
(* A planning task, and a state that a path of product updates makes of    *)
(* one of its states.                                                      *)
(***************************************************************************)
EXTENDS Update

CONSTANTS Tasks,      \* names of planning tasks
          Task,       \* the task of a name
          MaxDepth    \* how many updates a path has at most

ASSUME TasksAssumption ==
  /\ MaxDepth \in Nat
  /\ \A t \in Tasks :
        /\ IsState(Task[t].init) /\ IsFiniteSet(Task[t].init.W)
        /\ Task[t].seriality \in {"Ignore", "Require", "Repair"}
        /\ \A x \in DOMAIN Task[t].actions : IsAction(Task[t].actions[x])

VARIABLES task,       \* the task
          raw,        \* the state the path leads to, never contracted on the way
          depth       \* the number of updates made

T == Task[task]
=============================================================================
