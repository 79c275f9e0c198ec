---------------------------- MODULE ParallelLoop ----------------------------
(***************************************************************************)
(* What par::for_each_index promises (parallel.hpp): a call with n indices *)
(* executes the body once for every index below n, in any order and at any *)
(* degree of parallelism, and returns when all of them have finished.      *)
(* Several loops may be active at once: calls by different threads, and    *)
(* calls made from inside a body.                                          *)
(***************************************************************************)
EXTENDS Naturals

CONSTANTS
  Loop,     \* the places from which a loop can be called
  Sizes     \* the numbers of indices

VARIABLE loop   \* the loop that each place is executing, or Idle

Idle == [active |-> FALSE, size |-> 0, started |-> {}, finished |-> {}]

Indices(n) == {i \in 0..n : i < n}

LoopType ==
  [active : BOOLEAN, size : Sizes \cup {0}, started : SUBSET Nat, finished : SUBSET Nat]

Update(id, state) == loop' = [loop EXCEPT ![id] = state]

-----------------------------------------------------------------------------
Call(id, n) ==
  /\ ~loop[id].active
  /\ Update(id, [Idle EXCEPT !.active = TRUE, !.size = n])

Start(id, i) ==
  /\ loop[id].active
  /\ i \in Indices(loop[id].size) \ loop[id].started
  /\ Update(id, [loop[id] EXCEPT !.started = @ \cup {i}])

Finish(id, i) ==
  /\ loop[id].active
  /\ i \in loop[id].started \ loop[id].finished
  /\ Update(id, [loop[id] EXCEPT !.finished = @ \cup {i}])

Return(id) ==
  /\ loop[id].active
  /\ loop[id].finished = Indices(loop[id].size)
  /\ Update(id, Idle)

Init == loop = [id \in Loop |-> Idle]

Next ==
  \E id \in Loop :
    \/ \E n \in Sizes : Call(id, n)
    \/ \E i \in Indices(loop[id].size) : Start(id, i) \/ Finish(id, i)
    \/ Return(id)

Spec == Init /\ [][Next]_loop
=============================================================================
