----------------------------- MODULE ThreadPool -----------------------------
(***************************************************************************)
(* par::Pool and par::run (parallel.cpp): a pool of parked workers that    *)
(* executes one data-parallel loop at a time, with the calling thread      *)
(* taking part.  Critical sections of m_ are one step; every access        *)
(* outside them is a step of its own, and so is every notification.  A     *)
(* thread blocked in a condition variable is in asleep until a             *)
(* notification takes it out, so a lost wake-up leaves it there.           *)
(***************************************************************************)
EXTENDS Naturals, Sequences, FiniteSets

CONSTANTS
  Callers,      \* threads that call par::run: the main thread, portfolio members
  Main,         \* the main thread, which destroys the pool when the process exits
  Workers,      \* the threads of the pool; threads() = Cardinality(Workers) + 1
  Sizes,        \* the numbers of indices of the loops called
  MaxCalls,     \* bound on the loops that one caller starts
  MaxNesting,   \* bound on the depth of the calls
  Nesters,      \* bound on the threads whose bodies call loops
  NestedSizes,  \* the numbers of indices of the loops that bodies call
  None          \* no thread, or no loop

ASSUME ThreadsAssumption ==
  /\ Main \in Callers
  /\ Callers \cap Workers = {}
  /\ None \notin Callers \cup Workers
  /\ IsFiniteSet(Workers)
ASSUME BoundsAssumption ==
  /\ Sizes \subseteq Nat /\ NestedSizes \subseteq Sizes
  /\ MaxCalls \in Nat /\ MaxNesting \in Nat \ {0}
  /\ Nesters \subseteq Callers \cup Workers

VARIABLES
  pool,      \* g_pool exists
  owner,     \* the thread that holds owner_, or None
  count,     \* n_
  body,      \* ctx_ and fn_: the loop whose body the pool executes
  next,      \* next_
  busy,      \* busy_
  epoch,     \* epoch_
  stop,      \* stop_
  asleep,    \* threads blocked in wake_ or done_
  seen,      \* per worker: the local variable seen of work
  in_loop,   \* per thread: the thread-local flag
  claimed,   \* per thread: the local variable i of drain
  frames,    \* per thread: the bodies it is executing, innermost last
  pc,        \* per thread: what it does next
  calls,     \* per caller: how many loops it has called from outside any body
  loop       \* history: for each place, the loop it is executing and what was done of it

shared == <<pool, owner, count, body, next, busy, epoch, stop>>
local == <<seen, in_loop, claimed, frames, calls>>
vars == <<shared, local, asleep, pc, loop>>

Threads == Callers \cup Workers

\* A loop is identified by the thread that called it and the depth of the call.
Loops == Threads \X (1..MaxNesting)

Abstract == INSTANCE ParallelLoop WITH Loop <- Loops

Frame == [loop : Loops, index : Nat, pooled : BOOLEAN, nested : BOOLEAN]

Labels ==
  {"idle", "run", "serial", "publish", "notify", "drain", "test", "body", "await",
   "unborn", "look", "checkout", "signal", "wake_all", "join", "gone"}

-----------------------------------------------------------------------------
Goto(t, label) == pc' = [pc EXCEPT ![t] = label]

Innermost(t) == frames[t][Len(frames[t])]

\* The loop that thread t calls next from where it is.
Place(t) == <<t, Len(frames[t]) + 1>>

Size(t) == loop[Place(t)].size

Enter(t, id, i, pooled) ==
  /\ frames' = [frames EXCEPT
       ![t] = Append(@, [loop |-> id, index |-> i, pooled |-> pooled, nested |-> FALSE])]
  /\ loop' = [loop EXCEPT ![id].started = @ \cup {i}]
  /\ Goto(t, "body")

\* par::run returns to the code that called it: a body or the thread's own code.
Returned(t) == Goto(t, IF frames[t] = <<>> THEN "idle" ELSE "body")

-----------------------------------------------------------------------------
(* par::run. *)

\* A thread calls for_each_index from outside any loop.
CallLoop(t) ==
  /\ pc[t] = "idle"
  /\ calls[t] < MaxCalls
  /\ \E n \in Sizes : loop' = [loop EXCEPT ![Place(t)] = [@ EXCEPT !.active = TRUE, !.size = n]]
  /\ calls' = [calls EXCEPT ![t] = @ + 1]
  /\ Goto(t, "run")
  /\ UNCHANGED <<shared, asleep, seen, in_loop, claimed, frames>>

\* A body calls it, at most once per index.
CallNested(t) ==
  /\ t \in Nesters
  /\ pc[t] = "body"
  /\ Len(frames[t]) < MaxNesting
  /\ ~Innermost(t).nested
  /\ \E n \in NestedSizes : loop' = [loop EXCEPT ![Place(t)] = [@ EXCEPT !.active = TRUE, !.size = n]]
  /\ frames' = [frames EXCEPT ![t][Len(frames[t])].nested = TRUE]
  /\ Goto(t, "run")
  /\ UNCHANGED <<shared, asleep, seen, in_loop, claimed, calls>>

ReturnLoop(t) ==
  /\ loop' = [loop EXCEPT ![Place(t)] = Abstract!Idle]
  /\ Returned(t)

NothingToDo(t) ==
  /\ pc[t] = "run"
  /\ Size(t) = 0
  /\ ReturnLoop(t)
  /\ UNCHANGED <<shared, local, asleep>>

MustBeSerial(t) == Workers = {} \/ Size(t) = 1 \/ in_loop[t]

\* The serial loop, from its first index.
SerialBody(t) ==
  /\ Enter(t, Place(t), 0, FALSE)
  /\ UNCHANGED <<shared, asleep, seen, in_loop, claimed, calls>>

RunSerially(t) ==
  /\ pc[t] = "run"
  /\ Size(t) > 0
  /\ MustBeSerial(t)
  /\ SerialBody(t)

\* The pool is made on first use, under g_pool_init; its workers start.
MakePool(t) ==
  /\ pc[t] = "run"
  /\ Size(t) > 0 /\ ~MustBeSerial(t)
  /\ ~pool
  /\ pool' = TRUE
  /\ pc' = [u \in Threads |-> IF u \in Workers THEN "look" ELSE pc[u]]
  /\ UNCHANGED <<owner, count, body, next, busy, epoch, stop, local, asleep, loop>>

\* try_run fails to take owner_, and the caller runs serially.
PoolTaken(t) ==
  /\ pc[t] = "run"
  /\ Size(t) > 0 /\ ~MustBeSerial(t)
  /\ pool /\ owner # None
  /\ SerialBody(t)

TakePool(t) ==
  /\ pc[t] = "run"
  /\ Size(t) > 0 /\ ~MustBeSerial(t)
  /\ pool /\ owner = None
  /\ owner' = t
  /\ Goto(t, "publish")
  /\ UNCHANGED <<pool, count, body, next, busy, epoch, stop, local, asleep, loop>>

-----------------------------------------------------------------------------
(* Pool::try_run, after owner_ is taken. *)

\* Fault: the new loop is not announced by a new epoch.
PublishSilently(t) ==
  /\ pc[t] = "publish"
  /\ count' = Size(t)
  /\ body' = Place(t)
  /\ next' = 0
  /\ busy' = Cardinality(Workers)
  /\ Goto(t, "notify")
  /\ UNCHANGED <<pool, owner, stop, epoch, local, asleep, loop>>

\* Fault: busy_ leaves one worker out.
PublishShort(t) ==
  /\ pc[t] = "publish"
  /\ count' = Size(t)
  /\ body' = Place(t)
  /\ next' = 0
  /\ busy' = Cardinality(Workers) - 1
  /\ epoch' = epoch + 1
  /\ Goto(t, "notify")
  /\ UNCHANGED <<pool, owner, stop, local, asleep, loop>>

Publish(t) ==
  /\ pc[t] = "publish"
  /\ count' = Size(t)
  /\ body' = Place(t)
  /\ next' = 0
  /\ busy' = Cardinality(Workers)
  /\ epoch' = epoch + 1
  /\ Goto(t, "notify")
  /\ UNCHANGED <<pool, owner, stop, local, asleep, loop>>

\* Fault: drain does not mark its thread as inside a loop.
MarkNothing(t) == UNCHANGED in_loop

\* drain begins.
Mark(t) == in_loop' = [in_loop EXCEPT ![t] = TRUE]

WakeWorkers(t) ==
  /\ pc[t] = "notify"
  /\ asleep' = asleep \ Workers
  /\ Mark(t)
  /\ Goto(t, "drain")
  /\ UNCHANGED <<shared, seen, claimed, frames, calls, loop>>

\* Fault: the caller returns as soon as there is no index left to take.
AwaitNobody(t) ==
  /\ pc[t] = "await"
  /\ t \notin asleep
  /\ owner' = None
  /\ ReturnLoop(t)
  /\ UNCHANGED <<pool, count, body, next, busy, epoch, stop, local, asleep>>

\* The wait for the workers, and the end of try_run once busy_ is zero.
Await(t) ==
  /\ pc[t] = "await"
  /\ t \notin asleep
  /\ \/ /\ busy = 0
        /\ owner' = None
        /\ ReturnLoop(t)
        /\ UNCHANGED asleep
     \/ /\ busy # 0
        /\ asleep' = asleep \cup {t}
        /\ UNCHANGED <<owner, pc, loop>>
  /\ UNCHANGED <<pool, count, body, next, busy, epoch, stop, local>>

-----------------------------------------------------------------------------
(* Pool::drain, executed by the caller and by every worker. *)

Claim(t) ==
  /\ pc[t] = "drain"
  /\ claimed' = [claimed EXCEPT ![t] = next]
  /\ next' = next + 1
  /\ Goto(t, "test")
  /\ UNCHANGED <<pool, owner, count, body, busy, epoch, stop, seen, in_loop, frames, calls,
                 asleep, loop>>

\* n_, ctx_ and fn_ are read here, without a lock.
ExecuteIndex(t) ==
  /\ pc[t] = "test"
  /\ claimed[t] < count
  /\ Enter(t, body, claimed[t], TRUE)
  /\ UNCHANGED <<shared, asleep, seen, in_loop, claimed, calls>>

NoIndexLeft(t) ==
  /\ pc[t] = "test"
  /\ claimed[t] >= count
  /\ in_loop' = [in_loop EXCEPT ![t] = FALSE]
  /\ Goto(t, IF t \in Workers THEN "checkout" ELSE "await")
  /\ UNCHANGED <<shared, asleep, seen, claimed, frames, calls, loop>>

-----------------------------------------------------------------------------
(* A body ends: back to drain, to the next index of a serial loop, or out. *)

FinishedIndex(t) ==
  [loop EXCEPT ![Innermost(t).loop].finished = @ \cup {Innermost(t).index}]

Popped(t) == [frames EXCEPT ![t] = SubSeq(@, 1, Len(@) - 1)]

EndPooledBody(t) ==
  /\ pc[t] = "body"
  /\ Innermost(t).pooled
  /\ loop' = FinishedIndex(t)
  /\ frames' = Popped(t)
  /\ Goto(t, "drain")
  /\ UNCHANGED <<shared, asleep, seen, in_loop, claimed, calls>>

EndSerialBody(t) ==
  /\ pc[t] = "body"
  /\ ~Innermost(t).pooled
  /\ loop' = FinishedIndex(t)
  /\ frames' = Popped(t)
  /\ claimed' = [claimed EXCEPT ![t] = Innermost(t).index + 1]
  /\ Goto(t, "serial")
  /\ UNCHANGED <<shared, asleep, seen, in_loop, calls>>

NextSerialIndex(t) ==
  /\ pc[t] = "serial"
  /\ claimed[t] < Size(t)
  /\ Enter(t, Place(t), claimed[t], FALSE)
  /\ UNCHANGED <<shared, asleep, seen, in_loop, claimed, calls>>

EndSerialLoop(t) ==
  /\ pc[t] = "serial"
  /\ claimed[t] >= Size(t)
  /\ ReturnLoop(t)
  /\ UNCHANGED <<shared, asleep, local>>

-----------------------------------------------------------------------------
(* Pool::work, executed by the workers. *)

Look(t) ==
  /\ pc[t] = "look"
  /\ t \notin asleep
  /\ \/ /\ stop
        /\ Goto(t, "gone")
        /\ UNCHANGED <<asleep, seen, in_loop>>
     \/ /\ ~stop /\ epoch # seen[t]
        /\ seen' = [seen EXCEPT ![t] = epoch]
        /\ Mark(t)
        /\ Goto(t, "drain")
        /\ UNCHANGED asleep
     \/ /\ ~stop /\ epoch = seen[t]
        /\ asleep' = asleep \cup {t}
        /\ UNCHANGED <<seen, in_loop, pc>>
  /\ UNCHANGED <<shared, claimed, frames, calls, loop>>

Checkout(t) ==
  /\ pc[t] = "checkout"
  /\ busy' = busy - 1
  /\ Goto(t, "signal")
  /\ UNCHANGED <<pool, owner, count, body, next, epoch, stop, local, asleep, loop>>

\* notify_one on done_, whether or not somebody waits there.
Signal(t) ==
  /\ pc[t] = "signal"
  /\ LET waiting == {u \in asleep : pc[u] = "await"} IN
       \/ \E u \in waiting : asleep' = asleep \ {u}
       \/ waiting = {} /\ UNCHANGED asleep
  /\ Goto(t, "look")
  /\ UNCHANGED <<shared, local, loop>>

-----------------------------------------------------------------------------
(* The end of the threads that call loops, and ~Pool when main has returned. *)

Leave(t) ==
  /\ pc[t] = "idle"
  /\ t # Main
  /\ Goto(t, "gone")
  /\ UNCHANGED <<shared, local, asleep, loop>>

DestroyPool(t) ==
  /\ pc[t] = "idle"
  /\ t = Main
  /\ \A u \in Callers \ {Main} : pc[u] = "gone"
  /\ stop' = pool
  /\ Goto(t, IF pool THEN "wake_all" ELSE "gone")
  /\ UNCHANGED <<pool, owner, count, body, next, busy, epoch, local, asleep, loop>>

WakeAll(t) ==
  /\ pc[t] = "wake_all"
  /\ asleep' = asleep \ Workers
  /\ Goto(t, "join")
  /\ UNCHANGED <<shared, local, loop>>

Join(t) ==
  /\ pc[t] = "join"
  /\ \A w \in Workers : pc[w] = "gone"
  /\ pool' = FALSE
  /\ Goto(t, "gone")
  /\ UNCHANGED <<owner, count, body, next, busy, epoch, stop, local, asleep, loop>>

Finished == (\A t \in Callers : pc[t] = "gone") /\ UNCHANGED vars

-----------------------------------------------------------------------------
Init ==
  /\ pool = FALSE
  /\ owner = None
  /\ count = 0
  /\ body = None
  /\ next = 0
  /\ busy = 0
  /\ epoch = 0
  /\ stop = FALSE
  /\ asleep = {}
  /\ seen = [t \in Threads |-> 0]
  /\ in_loop = [t \in Threads |-> FALSE]
  /\ claimed = [t \in Threads |-> 0]
  /\ frames = [t \in Threads |-> <<>>]
  /\ pc = [t \in Threads |-> IF t \in Callers THEN "idle" ELSE "unborn"]
  /\ calls = [t \in Threads |-> 0]
  /\ loop = [id \in Loops |-> Abstract!Idle]

RunStep(t) ==
  \/ CallLoop(t) \/ CallNested(t) \/ NothingToDo(t) \/ RunSerially(t)
  \/ MakePool(t) \/ PoolTaken(t) \/ TakePool(t)
  \/ EndSerialBody(t) \/ NextSerialIndex(t) \/ EndSerialLoop(t)

PoolStep(t) ==
  \/ Publish(t) \/ WakeWorkers(t) \/ Await(t)
  \/ Claim(t) \/ ExecuteIndex(t) \/ NoIndexLeft(t) \/ EndPooledBody(t)
  \/ Look(t) \/ Checkout(t) \/ Signal(t)

ExitStep(t) == Leave(t) \/ DestroyPool(t) \/ WakeAll(t) \/ Join(t)

Step(t) == RunStep(t) \/ PoolStep(t) \/ ExitStep(t)

Next == (\E t \in Threads : Step(t)) \/ Finished

Spec == Init /\ [][Next]_vars

\* Every thread is scheduled.
FairSpec == Spec /\ \A t \in Threads : WF_vars(Step(t))

-----------------------------------------------------------------------------
(* Properties. *)

TypeOK ==
  /\ pool \in BOOLEAN
  /\ owner \in Threads \cup {None}
  /\ count \in Nat
  /\ body \in Loops \cup {None}
  /\ next \in Nat
  /\ busy \in 0..Cardinality(Workers)
  /\ epoch \in Nat
  /\ stop \in BOOLEAN
  /\ asleep \subseteq Threads
  /\ seen \in [Threads -> Nat]
  /\ in_loop \in [Threads -> BOOLEAN]
  /\ claimed \in [Threads -> Nat]
  /\ frames \in [Threads -> Seq(Frame)]
  /\ pc \in [Threads -> Labels]
  /\ calls \in [Threads -> 0..MaxCalls]
  /\ loop \in [Loops -> Abstract!LoopType]

(***************************************************************************)
(* A loop run by the pool is a loop: every index is executed once, none    *)
(* after par::run has returned (its context is on the caller's stack), and *)
(* par::run returns only when every index is finished.                     *)
(***************************************************************************)
ImplementsLoops == Abstract!Spec

(***************************************************************************)
(* Nobody is inside drain while owner_ is free, so the next loop may       *)
(* overwrite n_, ctx_ and next_, which drain reads without a lock; and no  *)
(* worker can sleep through a loop that still counts on it.                *)
(***************************************************************************)
FreePoolIsQuiet ==
  owner = None =>
    /\ busy = 0
    /\ \A w \in Workers : pc[w] \in {"unborn", "look", "signal", "gone"}
    /\ pool => \A w \in Workers : seen[w] = epoch \/ pc[w] = "gone"

(***************************************************************************)
(* A thread never tries to lock owner_ while it holds it, which would be   *)
(* undefined: from inside a pooled loop it always takes the serial path.   *)
(***************************************************************************)
OwnerNeverRelocks ==
  \A t \in Threads :
    pc[t] = "run" /\ Size(t) > 0 /\ ~MustBeSerial(t) => owner # t

(***************************************************************************)
(* Every loop that a caller starts returns, and so do the loops its bodies *)
(* call: no wake-up is lost, and nobody waits for a worker that waits for  *)
(* a loop.  Once main destroys the pool every worker ends, so that the     *)
(* process can exit.                                                       *)
(***************************************************************************)
CallsReturn ==
  /\ \A t \in Callers : loop[<<t, 1>>].active ~> ~loop[<<t, 1>>].active
  /\ stop ~> \A t \in Threads : pc[t] = "gone"
=============================================================================
