------------------------- MODULE ThreadPoolProofs --------------------------
(***************************************************************************)
(* Proofs about ThreadPool for every number of callers and workers and any *)
(* depth of nested calls: types, that the pool is quiet when free and      *)
(* never taken twice by one thread, and, from RInv on, that it implements  *)
(* the loops of ParallelLoop: each index of each loop is executed once,    *)
(* and par::run returns exactly when all of them have finished.            *)
(***************************************************************************)
EXTENDS ThreadPool, SequenceTheorems, FiniteSetTheorems, TLAPS

-----------------------------------------------------------------------------
(* The inductive invariant: what is true of each thread, and of the count. *)

Outside == {"idle", "unborn", "look", "checkout", "signal", "wake_all", "join", "gone"}
Placed == {"run", "serial", "publish", "notify", "drain", "test", "await"}
InBody == {"body", "run", "serial"}
Engaged == {"drain", "test", "body", "run", "serial", "checkout"}
WorkerLabels == Engaged \cup {"unborn", "look", "signal", "gone"}
CallerLabels == Labels \ {"unborn", "look", "checkout", "signal"}

\* A thread is inside a body that the pool gave it.
Inside(t) == \E k \in 1..Len(frames[t]) : frames[t][k].pooled

\* The bodies a thread is in agree with what it does next.
FramesFit(t) ==
  /\ Len(frames[t]) <= MaxNesting
  /\ pc[t] \in Outside => frames[t] = <<>>
  /\ pc[t] \in Placed => Len(frames[t]) < MaxNesting
  /\ pc[t] = "body" => frames[t] # <<>>

\* in_loop marks the threads inside drain, whose one pooled body may be the
\* caller of serial ones.
MarkFits(t) ==
  /\ in_loop[t] <=> (pc[t] \in {"drain", "test"} \/ Inside(t))
  /\ Inside(t) => pc[t] \in InBody
  /\ \A j, k \in 1..Len(frames[t]) : frames[t][j].pooled /\ frames[t][k].pooled => j = k

\* Workers do nothing but take part in loops.
RoleFits(t) ==
  /\ t \in Workers =>
       /\ pc[t] \in WorkerLabels
       /\ pc[t] \in {"drain", "test"} => frames[t] = <<>>
       /\ pc[t] \in InBody => frames[t] # <<>> /\ frames[t][1].pooled
  /\ t \in Callers => pc[t] \in CallerLabels
  /\ t # Main => pc[t] \notin {"wake_all", "join"}

\* owner_ is held from the publication of a loop to the end of the wait.
OwnerFits(t) ==
  owner = t <=> (pc[t] \in {"publish", "notify", "await"} \/ (t \in Callers /\ in_loop[t]))

BodyFits(t) == pc[t] \in {"notify", "drain", "test"} \/ in_loop[t] => body \in Loops

Fits(t) == FramesFit(t) /\ MarkFits(t) /\ RoleFits(t) /\ OwnerFits(t) /\ BodyFits(t)

\* The workers that the current loop still counts on: those that have not
\* noticed it and those that are in it.
Owes(w) == pc[w] \in Engaged \/ seen[w] # epoch
Owing == {w \in Workers : Owes(w)}

Counted ==
  /\ busy = Cardinality(Owing)
  /\ \A w \in Workers : pc[w] \in Engaged => seen[w] = epoch
  /\ owner = None => Owing = {}
  /\ \A t \in Threads : pc[t] = "publish" => Owing = {}
  /\ Owing # {} => body \in Loops

\* Workers live as long as the pool, which main destroys when it is alone.
Ending ==
  /\ ~pool => \A w \in Workers : pc[w] \in {"unborn", "gone"}
  /\ (\E w \in Workers : pc[w] = "gone") => stop
  /\ stop => pc[Main] \in {"wake_all", "join", "gone"}
  /\ pc[Main] \in {"wake_all", "join", "gone"} => \A u \in Callers \ {Main} : pc[u] = "gone"

IInv == TypeOK /\ (\A t \in Threads : Fits(t)) /\ Counted /\ Ending

-----------------------------------------------------------------------------
(* Facts used in every step. *)

\* Only thread t moves.
Alone(t) ==
  \A u \in Threads \ {t} :
    /\ pc'[u] = pc[u] /\ frames'[u] = frames[u]
    /\ in_loop'[u] = in_loop[u] /\ seen'[u] = seen[u]

(***************************************************************************)
(* A step of one thread disturbs what is true of another one only through  *)
(* owner_, which it may take or give back, and through the body published. *)
(***************************************************************************)
LEMMA OthersFit ==
  ASSUME IInv, NEW t \in Threads, Alone(t),
         owner' = owner \/ {owner, owner'} \subseteq {t, None},
         body' = body \/ body' \in Loops
  PROVE  \A u \in Threads \ {t} : Fits(u)'
<1> SUFFICES ASSUME NEW u \in Threads, u # t PROVE Fits(u)'
  OBVIOUS
<1>1. /\ pc'[u] = pc[u] /\ frames'[u] = frames[u] /\ in_loop'[u] = in_loop[u]
      /\ Fits(u)
  BY DEF Alone, IInv
<1>2. FramesFit(u)'
  BY <1>1 DEF Fits, FramesFit
<1>3. MarkFits(u)'
  BY <1>1 DEF Fits, MarkFits, Inside
<1>4. RoleFits(u)'
  BY <1>1 DEF Fits, RoleFits
<1>5. OwnerFits(u)'
  <2>1. owner' = u <=> owner = u
    BY ThreadsAssumption DEF Threads
  <2> QED BY <2>1, <1>1 DEF Fits, OwnerFits
<1>6. BodyFits(u)'
  BY <1>1 DEF Fits, BodyFits
<1> QED BY <1>2, <1>3, <1>4, <1>5, <1>6 DEF Fits

(***************************************************************************)
(* Between two notices of a loop the workers that owe stay the same.       *)
(***************************************************************************)
LEMMA SameDebts ==
  ASSUME IInv, NEW t \in Threads, Alone(t), epoch' = epoch, seen' = seen, busy' = busy,
         t \in Workers => (pc'[t] \in Engaged <=> pc[t] \in Engaged),
         owner' = None => owner = None \/ busy = 0,
         pc'[t] = "publish" => owner = None,
         body' = body
  PROVE  Counted'
<1>1. \A w \in Workers : pc'[w] \in Engaged <=> pc[w] \in Engaged
  BY DEF Alone, Threads
<1>2. Owing' = Owing
  BY <1>1 DEF Owing, Owes
<1>3. IsFiniteSet(Owing)
  BY FS_Subset, ThreadsAssumption DEF Owing
<1>4. busy = 0 => Owing = {}
  BY <1>3, FS_EmptySet DEF IInv, Counted
<1>5. \A u \in Threads : pc'[u] = "publish" => Owing = {}
  BY <1>4 DEF Alone, IInv, Counted
<1> QED BY <1>1, <1>2, <1>4, <1>5 DEF IInv, Counted

(***************************************************************************)
(* What happens inside one thread does not concern the end of the pool.    *)
(***************************************************************************)
LEMMA SameEnding ==
  ASSUME IInv, NEW t \in Threads, Alone(t), pool' = pool, stop' = stop,
         pc[t] \notin {"unborn", "gone"},
         t \in Workers => pc'[t] # "gone",
         pc[t] \notin {"wake_all", "join"}, pc'[t] \notin {"wake_all", "join"},
         pc'[t] # "gone"
  PROVE  Ending'
<1>1. Main \in Threads /\ Workers \subseteq Threads /\ Callers \subseteq Threads
  BY ThreadsAssumption DEF Threads
<1>2. \A u \in Threads \ {t} : pc'[u] = pc[u]
  BY DEF Alone
<1>3. ~pool => t \notin Workers
  BY DEF IInv, Ending
<1>4. stop => t # Main
  BY DEF IInv, Ending
<1>5. pc[Main] \in {"wake_all", "join", "gone"} => t \notin Callers
  BY <1>1 DEF IInv, Ending
<1>6. pc'[Main] \in {"wake_all", "join", "gone"} <=> pc[Main] \in {"wake_all", "join", "gone"}
  BY <1>1, <1>2
<1> QED BY <1>1, <1>2, <1>3, <1>4, <1>5, <1>6 DEF IInv, Ending

-----------------------------------------------------------------------------
(* Entering a body, leaving it, and calling a loop from it. *)

(***************************************************************************)
(* What Enter does to the entering thread.                                 *)
(***************************************************************************)
LEMMA EnterFacts ==
  ASSUME IInv, NEW t \in Threads, NEW id \in Loops, NEW i \in Nat, NEW p \in BOOLEAN,
         Enter(t, id, i, p)
  PROVE  /\ frames' \in [Threads -> Seq(Frame)]
         /\ Len(frames'[t]) = Len(frames[t]) + 1
         /\ \A k \in 1..Len(frames[t]) : frames'[t][k] = frames[t][k]
         /\ frames'[t][Len(frames[t]) + 1].pooled = p
         /\ \A u \in Threads \ {t} : frames'[u] = frames[u] /\ pc'[u] = pc[u]
         /\ pc' \in [Threads -> Labels] /\ pc'[t] = "body"
         /\ loop' \in [Loops -> Abstract!LoopType]
<1> DEFINE fr == [loop |-> id, index |-> i, pooled |-> p, nested |-> FALSE]
<1>1. frames' = [frames EXCEPT ![t] = Append(frames[t], fr)] /\ fr \in Frame
  BY DEF Enter, Frame
<1>2. frames[t] \in Seq(Frame) /\ frames \in [Threads -> Seq(Frame)]
  BY DEF IInv, TypeOK
<1>3. frames'[t] = Append(frames[t], fr)
  BY <1>1, <1>2
<1>4. /\ Append(frames[t], fr) \in Seq(Frame)
      /\ Len(Append(frames[t], fr)) = Len(frames[t]) + 1
      /\ \A k \in 1..Len(frames[t]) : Append(frames[t], fr)[k] = frames[t][k]
      /\ Append(frames[t], fr)[Len(frames[t]) + 1] = fr
  BY <1>1, <1>2, AppendProperties
<1>5. frames' \in [Threads -> Seq(Frame)] /\ \A u \in Threads \ {t} : frames'[u] = frames[u]
  BY <1>1, <1>2, <1>4
<1>6. pc' = [pc EXCEPT ![t] = "body"] /\ pc \in [Threads -> Labels]
  BY DEF Enter, Goto, IInv, TypeOK
<1>7. "body" \in Labels
  BY DEF Labels
<1>8. loop' \in [Loops -> Abstract!LoopType]
  <2>1. loop' = [loop EXCEPT ![id].started = @ \cup {i}] /\ loop \in [Loops -> Abstract!LoopType]
    BY DEF Enter, IInv, TypeOK
  <2>2. [loop[id] EXCEPT !.started = @ \cup {i}] \in Abstract!LoopType
    BY <2>1 DEF Abstract!LoopType
  <2> QED BY <2>1, <2>2
<1> QED BY <1>3, <1>4, <1>5, <1>6, <1>7, <1>8

(***************************************************************************)
(* A body of a serial loop begins: at most the outermost pooled body is    *)
(* above it.                                                               *)
(***************************************************************************)
LEMMA SerialEntry ==
  ASSUME IInv, NEW t \in Threads, NEW id \in Loops, NEW i \in Nat, Enter(t, id, i, FALSE),
         pc[t] \in {"run", "serial"},
         UNCHANGED <<shared, asleep, seen, in_loop, claimed, calls>>
  PROVE  IInv'
<1>1. /\ frames' \in [Threads -> Seq(Frame)]
      /\ Len(frames'[t]) = Len(frames[t]) + 1
      /\ \A k \in 1..Len(frames[t]) : frames'[t][k] = frames[t][k]
      /\ frames'[t][Len(frames[t]) + 1].pooled = FALSE
      /\ \A u \in Threads \ {t} : frames'[u] = frames[u] /\ pc'[u] = pc[u]
      /\ pc' \in [Threads -> Labels] /\ pc'[t] = "body"
      /\ loop' \in [Loops -> Abstract!LoopType]
  BY EnterFacts
<1>2. UNCHANGED <<pool, owner, count, body, next, busy, epoch, stop, asleep, seen, in_loop,
                  claimed, calls>>
  BY DEF shared
<1>3. Alone(t)
  BY <1>1, <1>2 DEF Alone
<1>4. TypeOK'
  BY <1>1, <1>2 DEF IInv, TypeOK
<1>5. Len(frames[t]) \in Nat /\ Len(frames'[t]) \in Nat /\ frames'[t] \in Seq(Frame) /\ frames[t] \in Seq(Frame)
  BY <1>1, LenProperties DEF IInv, TypeOK
<1>6. \A k \in 1..Len(frames'[t]) :
        frames'[t][k].pooled => k \in 1..Len(frames[t]) /\ frames[t][k].pooled
  BY <1>1, <1>5
<1>7. Inside(t)' <=> Inside(t)
  BY <1>1, <1>5, <1>6 DEF Inside
<1>8. FramesFit(t)'
  BY <1>1, <1>5, BoundsAssumption DEF IInv, Fits, FramesFit, Placed, Outside
<1>9. MarkFits(t)'
  BY <1>1, <1>2, <1>6, <1>7 DEF IInv, Fits, MarkFits, InBody
<1>10. RoleFits(t)'
  <2>1. t \in Workers => frames'[t] # <<>> /\ frames'[t][1].pooled
    BY <1>1, <1>5 DEF IInv, Fits, RoleFits, InBody
  <2> QED BY <2>1, <1>1 DEF IInv, Fits, RoleFits, InBody, WorkerLabels, CallerLabels, Engaged, Labels
<1>11. OwnerFits(t)' /\ BodyFits(t)'
  BY <1>1, <1>2 DEF IInv, Fits, OwnerFits, BodyFits
<1>12. \A u \in Threads : Fits(u)'
  BY <1>2, <1>3, <1>8, <1>9, <1>10, <1>11, OthersFit DEF Fits
<1>13. Counted'
  BY <1>1, <1>2, <1>3, SameDebts DEF Engaged
<1>14. Ending'
  BY <1>1, <1>2, <1>3, SameEnding
<1> QED BY <1>4, <1>12, <1>13, <1>14 DEF IInv

(***************************************************************************)
(* A step inside one thread, which leaves what threads share alone.        *)
(***************************************************************************)
LEMMA LocalStep ==
  ASSUME IInv, NEW t \in Threads, Alone(t), TypeOK', Fits(t)',
         UNCHANGED <<pool, owner, body, busy, epoch, stop, seen>>,
         t \in Workers => (pc'[t] \in Engaged <=> pc[t] \in Engaged),
         pc[t] \notin {"unborn", "gone", "wake_all", "join"},
         pc'[t] \notin {"publish", "gone", "wake_all", "join"}
  PROVE  IInv'
<1>1. \A u \in Threads : Fits(u)'
  BY OthersFit
<1>2. Counted'
  BY SameDebts
<1>3. Ending'
  BY SameEnding
<1> QED BY <1>1, <1>2, <1>3 DEF IInv

(***************************************************************************)
(* What Goto does.                                                         *)
(***************************************************************************)
LEMMA GotoFacts ==
  ASSUME IInv, NEW t \in Threads, NEW label \in Labels, Goto(t, label)
  PROVE  /\ pc' \in [Threads -> Labels] /\ pc'[t] = label
         /\ \A u \in Threads \ {t} : pc'[u] = pc[u]
BY DEF Goto, IInv, TypeOK

LEMMA PooledEntry ==
  ASSUME IInv, NEW t \in Threads, ExecuteIndex(t)
  PROVE  IInv'
<1>0. pc[t] = "test" /\ Enter(t, body, claimed[t], TRUE)
  BY DEF ExecuteIndex
<1>a. body \in Loops /\ claimed[t] \in Nat
  BY <1>0 DEF IInv, Fits, BodyFits, TypeOK
<1>1. /\ frames' \in [Threads -> Seq(Frame)]
      /\ Len(frames'[t]) = Len(frames[t]) + 1
      /\ \A k \in 1..Len(frames[t]) : frames'[t][k] = frames[t][k]
      /\ frames'[t][Len(frames[t]) + 1].pooled = TRUE
      /\ \A u \in Threads \ {t} : frames'[u] = frames[u] /\ pc'[u] = pc[u]
      /\ pc' \in [Threads -> Labels] /\ pc'[t] = "body"
      /\ loop' \in [Loops -> Abstract!LoopType]
  BY <1>0, <1>a, EnterFacts
<1>2. UNCHANGED <<pool, owner, count, body, next, busy, epoch, stop, asleep, seen, in_loop,
                  claimed, calls>>
  BY DEF ExecuteIndex, shared
<1>3. Alone(t)
  BY <1>1, <1>2 DEF Alone
<1>4. TypeOK'
  BY <1>1, <1>2 DEF IInv, TypeOK
<1>5. Len(frames[t]) \in Nat /\ Len(frames'[t]) \in Nat /\ frames'[t] \in Seq(Frame) /\ frames[t] \in Seq(Frame)
  BY <1>1, LenProperties DEF IInv, TypeOK
<1>6. ~Inside(t) /\ in_loop[t]
  BY <1>0 DEF IInv, Fits, MarkFits, InBody
<1>7. Inside(t)' /\ \A k \in 1..Len(frames'[t]) : frames'[t][k].pooled => k = Len(frames[t]) + 1
  BY <1>1, <1>5, <1>6 DEF Inside
<1>8. FramesFit(t)'
  BY <1>0, <1>1, <1>5, BoundsAssumption DEF IInv, Fits, FramesFit, Placed, Outside
<1>9. MarkFits(t)'
  BY <1>1, <1>2, <1>6, <1>7 DEF MarkFits, InBody
<1>10. RoleFits(t)'
  <2>1. t \in Workers => frames'[t] # <<>> /\ frames'[t][1].pooled
    BY <1>0, <1>1, <1>5 DEF IInv, Fits, RoleFits
  <2> QED BY <2>1, <1>1 DEF IInv, Fits, RoleFits, InBody, WorkerLabels, CallerLabels, Engaged, Labels
<1>11. OwnerFits(t)' /\ BodyFits(t)'
  BY <1>0, <1>1, <1>2 DEF IInv, Fits, OwnerFits, BodyFits
<1> QED BY <1>0, <1>1, <1>2, <1>3, <1>4, <1>8, <1>9, <1>10, <1>11, LocalStep DEF Fits, Engaged

(***************************************************************************)
(* What the end of a body does to the frames and to the loop.              *)
(***************************************************************************)
LEMMA PopFacts ==
  ASSUME IInv, NEW t \in Threads, pc[t] = "body", frames' = Popped(t), loop' = FinishedIndex(t)
  PROVE  /\ frames' \in [Threads -> Seq(Frame)] /\ frames[t] \in Seq(Frame)
         /\ Len(frames[t]) \in Nat /\ Len(frames'[t]) = Len(frames[t]) - 1
         /\ Len(frames[t]) > 0
         /\ \A k \in 1..Len(frames'[t]) : frames'[t][k] = frames[t][k]
         /\ \A u \in Threads \ {t} : frames'[u] = frames[u]
         /\ loop' \in [Loops -> Abstract!LoopType]
         /\ Innermost(t) = frames[t][Len(frames[t])] /\ Innermost(t) \in Frame
<1> DEFINE n == Len(frames[t])
<1>0. frames[t] # <<>>
  BY DEF IInv, Fits, FramesFit
<1>1. frames[t] \in Seq(Frame) /\ frames \in [Threads -> Seq(Frame)] /\ frames[t] # <<>>
  BY <1>0 DEF IInv, TypeOK
<1>2. n \in Nat /\ n > 0 /\ \A k \in 1..n : frames[t][k] \in Frame
  BY <1>1, LenProperties, EmptySeq
<1>3. /\ SubSeq(frames[t], 1, n - 1) \in Seq(Frame)
      /\ Len(SubSeq(frames[t], 1, n - 1)) = n - 1
      /\ \A k \in 1..(n - 1) : SubSeq(frames[t], 1, n - 1)[k] = frames[t][k]
  <2>1. n - 1 \in Int /\ 1 \in Int /\ n - 1 - 1 + 1 = n - 1 /\ \A k \in 1..(n - 1) : frames[t][k] \in Frame
    BY <1>2
  <2>2. /\ SubSeq(frames[t], 1, n - 1) \in Seq(Frame)
        /\ Len(SubSeq(frames[t], 1, n - 1)) = IF 1 <= n - 1 THEN (n - 1) - 1 + 1 ELSE 0
        /\ \A k \in 1..((n - 1) - 1 + 1) : SubSeq(frames[t], 1, n - 1)[k] = frames[t][1 + k - 1]
    BY <2>1, SubSeqProperties
  <2>3. \A k \in 1..(n - 1) : 1 + k - 1 = k
    OBVIOUS
  <2> QED BY <2>2, <2>3, <1>2
<1>4. frames' = [frames EXCEPT ![t] = SubSeq(frames[t], 1, n - 1)]
  BY DEF Popped
<1>5. /\ frames' \in [Threads -> Seq(Frame)] /\ frames'[t] = SubSeq(frames[t], 1, n - 1)
      /\ \A u \in Threads \ {t} : frames'[u] = frames[u]
  BY <1>1, <1>3, <1>4
<1>6. Innermost(t) = frames[t][n] /\ Innermost(t) \in Frame
  BY <1>2 DEF Innermost
<1>7. loop' \in [Loops -> Abstract!LoopType]
  <2>1. loop \in [Loops -> Abstract!LoopType] /\ Innermost(t).loop \in Loops /\ Innermost(t).index \in Nat
    BY <1>6 DEF IInv, TypeOK, Frame
  <2>2. [loop[Innermost(t).loop] EXCEPT !.finished = @ \cup {Innermost(t).index}] \in Abstract!LoopType
    BY <2>1 DEF Abstract!LoopType
  <2> QED BY <2>1, <2>2 DEF FinishedIndex
<1> QED BY <1>1, <1>2, <1>3, <1>5, <1>6, <1>7

LEMMA PooledExit ==
  ASSUME IInv, NEW t \in Threads, EndPooledBody(t)
  PROVE  IInv'
<1>0. pc[t] = "body" /\ Innermost(t).pooled /\ frames' = Popped(t) /\ loop' = FinishedIndex(t)
  BY DEF EndPooledBody
<1>1. /\ frames' \in [Threads -> Seq(Frame)] /\ frames[t] \in Seq(Frame)
      /\ Len(frames[t]) \in Nat /\ Len(frames'[t]) = Len(frames[t]) - 1
      /\ Len(frames[t]) > 0
      /\ \A k \in 1..Len(frames'[t]) : frames'[t][k] = frames[t][k]
      /\ \A u \in Threads \ {t} : frames'[u] = frames[u]
      /\ loop' \in [Loops -> Abstract!LoopType]
      /\ Innermost(t) = frames[t][Len(frames[t])] /\ Innermost(t) \in Frame
  BY <1>0, PopFacts
<1>2. /\ UNCHANGED <<pool, owner, count, body, next, busy, epoch, stop, asleep, seen, in_loop,
                     claimed, calls>>
      /\ pc' \in [Threads -> Labels] /\ pc'[t] = "drain"
      /\ \A u \in Threads \ {t} : pc'[u] = pc[u]
  BY GotoFacts DEF EndPooledBody, shared, Labels
<1>3. Alone(t) /\ TypeOK'
  BY <1>1, <1>2 DEF Alone, IInv, TypeOK
<1>4. in_loop[t] /\ \A k \in 1..Len(frames[t]) : frames[t][k].pooled => k = Len(frames[t])
  BY <1>0, <1>1 DEF IInv, Fits, MarkFits, Inside
<1>5. \A k \in 1..Len(frames'[t]) : ~frames'[t][k].pooled
  <2>1. \A k \in 1..Len(frames'[t]) : k \in 1..Len(frames[t]) /\ k # Len(frames[t])
    BY <1>1
  <2> QED BY <1>1, <1>4, <2>1
<1>6. FramesFit(t)'
  BY <1>1, <1>2, BoundsAssumption DEF IInv, Fits, FramesFit, Placed, Outside
<1>7. MarkFits(t)'
  BY <1>2, <1>4, <1>5 DEF MarkFits, Inside
<1>8. RoleFits(t)'
  <2>0. t \in Workers => frames[t][1].pooled
    BY <1>0 DEF IInv, Fits, RoleFits, InBody
  <2>1. t \in Workers => Len(frames[t]) = 1
    <3>1. 1 \in 1..Len(frames[t])
      BY <1>1
    <3> QED BY <3>1, <2>0, <1>4, Zenon
  <2>2. t \in Workers => frames'[t] = <<>>
    BY <2>1, <1>1, EmptySeq
  <2> QED BY <2>2, <1>2 DEF RoleFits, InBody, WorkerLabels, CallerLabels, Engaged, Labels
<1>9. OwnerFits(t)'
  BY <1>0, <1>2 DEF IInv, Fits, OwnerFits
<1>10. BodyFits(t)'
  BY <1>2, <1>4 DEF IInv, Fits, BodyFits
<1> QED BY <1>0, <1>2, <1>3, <1>6, <1>7, <1>8, <1>9, <1>10, LocalStep DEF Fits, Engaged

LEMMA SerialExit ==
  ASSUME IInv, NEW t \in Threads, EndSerialBody(t)
  PROVE  IInv'
<1>0. pc[t] = "body" /\ ~Innermost(t).pooled /\ frames' = Popped(t) /\ loop' = FinishedIndex(t)
  BY DEF EndSerialBody
<1>1. /\ frames' \in [Threads -> Seq(Frame)] /\ frames[t] \in Seq(Frame)
      /\ Len(frames[t]) \in Nat /\ Len(frames'[t]) = Len(frames[t]) - 1
      /\ Len(frames[t]) > 0
      /\ \A k \in 1..Len(frames'[t]) : frames'[t][k] = frames[t][k]
      /\ \A u \in Threads \ {t} : frames'[u] = frames[u]
      /\ loop' \in [Loops -> Abstract!LoopType]
      /\ Innermost(t) = frames[t][Len(frames[t])] /\ Innermost(t) \in Frame
  BY <1>0, PopFacts
<1>2. /\ UNCHANGED <<pool, owner, count, body, next, busy, epoch, stop, asleep, seen, in_loop, calls>>
      /\ pc' \in [Threads -> Labels] /\ pc'[t] = "serial"
      /\ \A u \in Threads \ {t} : pc'[u] = pc[u]
  BY GotoFacts DEF EndSerialBody, shared, Labels
<1>3. claimed' \in [Threads -> Nat]
  BY <1>1 DEF EndSerialBody, IInv, TypeOK, Frame
<1>4. Alone(t) /\ TypeOK'
  BY <1>1, <1>2, <1>3 DEF Alone, IInv, TypeOK
<1>5. Inside(t)' <=> Inside(t)
  <2>1. \A k \in 1..Len(frames[t]) : frames[t][k].pooled => k \in 1..Len(frames'[t])
    BY <1>0, <1>1
  <2>2. 1..Len(frames'[t]) \subseteq 1..Len(frames[t])
    BY <1>1
  <2> QED BY <2>1, <2>2, <1>1 DEF Inside
<1>6. FramesFit(t)'
  BY <1>1, <1>2, BoundsAssumption DEF IInv, Fits, FramesFit, Placed, Outside
<1>7. MarkFits(t)'
  <2>1. 1..Len(frames'[t]) \subseteq 1..Len(frames[t])
    BY <1>1
  <2> QED BY <2>1, <1>0, <1>1, <1>2, <1>5 DEF IInv, Fits, MarkFits, InBody
<1>8. RoleFits(t)'
  <2>1. t \in Workers => frames[t][1].pooled
    BY <1>0 DEF IInv, Fits, RoleFits, InBody
  <2>2. t \in Workers => Len(frames'[t]) > 0 /\ frames'[t][1].pooled
    BY <2>1, <1>0, <1>1
  <2>3. t \in Workers => frames'[t] # <<>>
    BY <2>2, <1>1, EmptySeq
  <2> QED BY <2>2, <2>3, <1>2 DEF RoleFits, InBody, WorkerLabels, CallerLabels, Engaged, Labels
<1>9. OwnerFits(t)' /\ BodyFits(t)'
  BY <1>0, <1>2 DEF IInv, Fits, OwnerFits, BodyFits
<1> QED BY <1>0, <1>2, <1>4, <1>6, <1>7, <1>8, <1>9, LocalStep DEF Fits, Engaged

-----------------------------------------------------------------------------
(* The steps of par::run outside the pool. *)

\* The loop that a thread is about to call or is executing has a place.
LEMMA PlaceIsLoop ==
  ASSUME IInv, NEW t \in Threads, pc[t] \in Placed
  PROVE  /\ Place(t) \in Loops /\ Size(t) \in Nat
         /\ Len(frames[t]) \in Nat /\ frames[t] \in Seq(Frame)
<1>1. frames[t] \in Seq(Frame) /\ Len(frames[t]) \in Nat
  BY LenProperties DEF IInv, TypeOK
<1>2. Len(frames[t]) < MaxNesting
  BY DEF IInv, Fits, FramesFit
<1>3. Place(t) \in Loops
  BY <1>1, <1>2, BoundsAssumption DEF Place, Loops
<1>4. Size(t) \in Nat
  <2>1. loop[Place(t)] \in Abstract!LoopType
    BY <1>3 DEF IInv, TypeOK
  <2>2. loop[Place(t)].size \in Sizes \cup {0}
    BY <2>1 DEF Abstract!LoopType
  <2>3. Sizes \cup {0} \subseteq Nat
    BY BoundsAssumption
  <2> QED BY <2>2, <2>3, Zenon DEF Size
<1> QED BY <1>1, <1>3, <1>4

LEMMA LoopReturns ==
  ASSUME IInv, NEW t \in Threads, pc[t] \in {"run", "serial"}, ReturnLoop(t),
         UNCHANGED <<shared, local, asleep>>
  PROVE  IInv'
<1>1. UNCHANGED <<pool, owner, count, body, next, busy, epoch, stop, asleep, seen, in_loop,
                  claimed, frames, calls>>
  BY DEF shared, local
<1>2. /\ pc' \in [Threads -> Labels] /\ pc'[t] = (IF frames[t] = <<>> THEN "idle" ELSE "body")
      /\ \A u \in Threads \ {t} : pc'[u] = pc[u]
  BY GotoFacts DEF ReturnLoop, Returned, Labels
<1>3. loop' \in [Loops -> Abstract!LoopType]
  <2>1. Abstract!Idle \in Abstract!LoopType
    BY DEF Abstract!Idle, Abstract!LoopType
  <2> QED BY <2>1 DEF ReturnLoop, IInv, TypeOK
<1>4. Alone(t) /\ TypeOK'
  BY <1>1, <1>2, <1>3 DEF Alone, IInv, TypeOK
<1>5. FramesFit(t)'
  BY <1>1, <1>2 DEF IInv, Fits, FramesFit, Placed, Outside
<1>6. MarkFits(t)'
  <2>1. Inside(t) => frames[t] # <<>>
    BY DEF Inside
  <2> QED BY <2>1, <1>1, <1>2 DEF IInv, Fits, MarkFits, InBody, Inside
<1>7. RoleFits(t)'
  BY <1>1, <1>2 DEF IInv, Fits, RoleFits, InBody, WorkerLabels, CallerLabels, Engaged, Labels
<1>8. OwnerFits(t)' /\ BodyFits(t)'
  BY <1>1, <1>2 DEF IInv, Fits, OwnerFits, BodyFits
<1>9. t \in Workers => pc'[t] = "body"
  BY <1>2 DEF IInv, Fits, RoleFits, InBody
<1> QED BY <1>1, <1>2, <1>4, <1>5, <1>6, <1>7, <1>8, <1>9, LocalStep DEF Fits, Engaged

LEMMA OutsideCall ==
  ASSUME IInv, NEW t \in Threads, CallLoop(t)
  PROVE  IInv'
<1>0. pc[t] = "idle" /\ calls[t] < MaxCalls /\ frames[t] = <<>> /\ t \notin Workers
  BY DEF CallLoop, IInv, Fits, FramesFit, Outside, RoleFits, WorkerLabels, Engaged
<1>1. UNCHANGED <<pool, owner, count, body, next, busy, epoch, stop, asleep, seen, in_loop,
                  claimed, frames>>
  BY DEF CallLoop, shared
<1>2. /\ pc' \in [Threads -> Labels] /\ pc'[t] = "run"
      /\ \A u \in Threads \ {t} : pc'[u] = pc[u]
  BY GotoFacts DEF CallLoop, Labels
<1>3. loop' \in [Loops -> Abstract!LoopType]
  <2>1. PICK n \in Sizes : loop' = [loop EXCEPT ![Place(t)] = [@ EXCEPT !.active = TRUE, !.size = n]]
    BY DEF CallLoop
  <2>2. loop \in [Loops -> Abstract!LoopType]
    BY DEF IInv, TypeOK
  <2>3. \A r \in Abstract!LoopType : [r EXCEPT !.active = TRUE, !.size = n] \in Abstract!LoopType
    BY DEF Abstract!LoopType
  <2> QED BY <2>1, <2>2, <2>3
<1>4. calls' \in [Threads -> 0..MaxCalls]
  BY <1>0, BoundsAssumption DEF CallLoop, IInv, TypeOK
<1>5. Alone(t) /\ TypeOK'
  BY <1>1, <1>2, <1>3, <1>4 DEF Alone, IInv, TypeOK
<1>6. FramesFit(t)'
  <2>1. Len(<<>>) = 0
    BY EmptySeq
  <2> QED BY <2>1, <1>0, <1>1, <1>2, BoundsAssumption DEF FramesFit, Outside
<1>7. MarkFits(t)' /\ RoleFits(t)' /\ OwnerFits(t)' /\ BodyFits(t)'
  BY <1>0, <1>1, <1>2 DEF IInv, Fits, MarkFits, Inside, InBody, RoleFits, CallerLabels, Labels,
     OwnerFits, BodyFits
<1> QED BY <1>0, <1>1, <1>2, <1>5, <1>6, <1>7, LocalStep DEF Fits, Engaged

LEMMA NestedCall ==
  ASSUME IInv, NEW t \in Threads, CallNested(t)
  PROVE  IInv'
<1> DEFINE n == Len(frames[t])
<1>0. pc[t] = "body" /\ n < MaxNesting /\ frames[t] # <<>>
  BY DEF CallNested, IInv, Fits, FramesFit
<1>1. UNCHANGED <<pool, owner, count, body, next, busy, epoch, stop, asleep, seen, in_loop,
                  claimed, calls>>
  BY DEF CallNested, shared
<1>2. /\ pc' \in [Threads -> Labels] /\ pc'[t] = "run"
      /\ \A u \in Threads \ {t} : pc'[u] = pc[u]
  BY GotoFacts DEF CallNested, Labels
<1>3. frames[t] \in Seq(Frame) /\ n \in Nat /\ n > 0 /\ frames \in [Threads -> Seq(Frame)]
  BY <1>0, LenProperties, EmptySeq DEF IInv, TypeOK
<1>4. /\ frames' \in [Threads -> Seq(Frame)]
      /\ Len(frames'[t]) = n
      /\ \A k \in 1..n : frames'[t][k].pooled = frames[t][k].pooled
      /\ \A u \in Threads \ {t} : frames'[u] = frames[u]
  <2>1. frames' = [frames EXCEPT ![t][n].nested = TRUE]
    BY DEF CallNested
  <2> DEFINE g == [frames[t] EXCEPT ![n] = [@ EXCEPT !.nested = TRUE]]
  <2>2. frames' = [frames EXCEPT ![t] = g]
    BY <2>1
  <2>a. frames[t][n] \in Frame
    BY <1>3
  <2>3. frames[t][n] \in Frame /\ [frames[t][n] EXCEPT !.nested = TRUE] \in Frame
    BY <2>a DEF Frame
  <2>4. g \in Seq(Frame) /\ Len(g) = n
    BY <1>3, <2>3
  <2>5. \A k \in 1..n : g[k].pooled = frames[t][k].pooled
    BY <1>3, <2>3 DEF Frame
  <2> QED BY <2>2, <2>4, <2>5, <1>3
<1>5. loop' \in [Loops -> Abstract!LoopType]
  <2>1. PICK m \in NestedSizes : loop' = [loop EXCEPT ![Place(t)] = [@ EXCEPT !.active = TRUE, !.size = m]]
    BY DEF CallNested
  <2>2. loop \in [Loops -> Abstract!LoopType] /\ m \in Sizes
    BY BoundsAssumption DEF IInv, TypeOK
  <2>3. \A r \in Abstract!LoopType : [r EXCEPT !.active = TRUE, !.size = m] \in Abstract!LoopType
    BY <2>2 DEF Abstract!LoopType
  <2> QED BY <2>1, <2>2, <2>3
<1>6. Alone(t) /\ TypeOK'
  BY <1>1, <1>2, <1>4, <1>5 DEF Alone, IInv, TypeOK
<1>7. FramesFit(t)'
  BY <1>0, <1>2, <1>3, <1>4, BoundsAssumption DEF FramesFit, Outside
<1>8. MarkFits(t)'
  BY <1>0, <1>1, <1>2, <1>4 DEF IInv, Fits, MarkFits, Inside, InBody
<1>9. RoleFits(t)'
  <2>1. t \in Workers => frames[t][1].pooled
    BY <1>0 DEF IInv, Fits, RoleFits, InBody
  <2>2. frames'[t] # <<>> /\ (t \in Workers => frames'[t][1].pooled)
    BY <2>1, <1>3, <1>4, EmptySeq
  <2> QED BY <2>2, <1>2 DEF RoleFits, InBody, WorkerLabels, CallerLabels, Engaged, Labels
<1>10. OwnerFits(t)' /\ BodyFits(t)'
  BY <1>0, <1>1, <1>2 DEF IInv, Fits, OwnerFits, BodyFits
<1> QED BY <1>0, <1>1, <1>2, <1>6, <1>7, <1>8, <1>9, <1>10, LocalStep DEF Fits, Engaged

LEMMA PoolMade ==
  ASSUME IInv, NEW t \in Threads, MakePool(t)
  PROVE  IInv'
<1>0. pc[t] = "run" /\ ~pool /\ pool' = TRUE
  BY DEF MakePool
<1>1. UNCHANGED <<owner, count, body, next, busy, epoch, stop, asleep, seen, in_loop,
                  claimed, frames, calls, loop>>
  BY DEF MakePool, local
<1>2. pc' = [u \in Threads |-> IF u \in Workers THEN "look" ELSE pc[u]]
  BY DEF MakePool
<1>3. Workers \subseteq Threads /\ Callers \subseteq Threads /\ Main \in Callers
  BY ThreadsAssumption DEF Threads
<1>4. t \in Callers
  BY <1>0 DEF IInv, Ending, Threads
<1>5. ~stop
  BY <1>0, <1>3, <1>4 DEF IInv, Ending
<1>6. \A w \in Workers : pc[w] = "unborn" /\ pc'[w] = "look"
  BY <1>0, <1>2, <1>3, <1>5 DEF IInv, Ending
<1>7. \A u \in Threads \ Workers : pc'[u] = pc[u]
  BY <1>2
<1>8. pc' \in [Threads -> Labels]
  <2>1. \A u \in Threads : pc[u] \in Labels /\ "look" \in Labels
    BY DEF IInv, TypeOK, Labels
  <2> QED BY <2>1, <1>2
<1>9. TypeOK'
  BY <1>0, <1>1, <1>8 DEF IInv, TypeOK
<1>10. \A u \in Threads : Fits(u)'
  <2> SUFFICES ASSUME NEW u \in Threads PROVE Fits(u)'
    OBVIOUS
  <2>1. CASE u \notin Workers
    <3>1. pc'[u] = pc[u] /\ Fits(u)
      BY <2>1, <1>7 DEF IInv
    <3>2. FramesFit(u)' /\ MarkFits(u)'
      BY <3>1, <1>1 DEF Fits, FramesFit, MarkFits, Inside
    <3>3. RoleFits(u)' /\ OwnerFits(u)' /\ BodyFits(u)'
      BY <3>1, <1>1 DEF Fits, RoleFits, OwnerFits, BodyFits
    <3> QED BY <3>2, <3>3 DEF Fits
  <2>2. CASE u \in Workers
    <3>1. pc'[u] = "look" /\ pc[u] = "unborn" /\ Fits(u) /\ u \notin Callers
      BY <2>2, <1>6, ThreadsAssumption DEF IInv
    <3>2. FramesFit(u)' /\ MarkFits(u)'
      BY <3>1, <1>1 DEF Fits, FramesFit, MarkFits, Inside, Outside, Placed, InBody
    <3>3. RoleFits(u)' /\ OwnerFits(u)' /\ BodyFits(u)'
      BY <3>1, <1>1 DEF Fits, RoleFits, OwnerFits, BodyFits, WorkerLabels, InBody
    <3> QED BY <3>2, <3>3 DEF Fits
  <2> QED BY <2>1, <2>2
<1>11. Counted'
  <2>1. \A w \in Workers : Owes(w)' <=> Owes(w)
    BY <1>1, <1>6 DEF Owes, Engaged
  <2>2. Owing' = Owing
    BY <2>1 DEF Owing
  <2>3. \A w \in Workers : pc'[w] \notin Engaged
    BY <1>6 DEF Engaged
  <2>4. \A u \in Threads : pc'[u] = "publish" => pc[u] = "publish"
    BY <1>6, <1>7
  <2> QED BY <2>2, <2>3, <2>4, <1>1 DEF IInv, Counted
<1>12. Ending'
  BY <1>0, <1>1, <1>3, <1>5, <1>6, <1>7, ThreadsAssumption DEF IInv, Ending, Threads
<1> QED BY <1>9, <1>10, <1>11, <1>12 DEF IInv

-----------------------------------------------------------------------------
(* The steps inside the pool. *)

LEMMA PoolIsTaken ==
  ASSUME IInv, NEW t \in Threads, TakePool(t)
  PROVE  IInv'
<1>0. pc[t] = "run" /\ owner = None /\ owner' = t /\ ~in_loop[t]
  BY DEF TakePool, MustBeSerial
<1>1. UNCHANGED <<pool, count, body, next, busy, epoch, stop, asleep, seen, in_loop,
                  claimed, frames, calls, loop>>
  BY DEF TakePool, local
<1>2. /\ pc' \in [Threads -> Labels] /\ pc'[t] = "publish"
      /\ \A u \in Threads \ {t} : pc'[u] = pc[u]
  BY GotoFacts DEF TakePool, Labels
<1>3. Alone(t) /\ TypeOK'
  BY <1>0, <1>1, <1>2 DEF Alone, IInv, TypeOK
<1>4. ~Inside(t)
  BY <1>0 DEF IInv, Fits, MarkFits
<1>5. t \notin Workers /\ t \in Callers
  <2>1. t \in Workers => frames[t] # <<>> /\ frames[t][1].pooled
    BY <1>0 DEF IInv, Fits, RoleFits, InBody
  <2>2. t \in Workers => 1 \in 1..Len(frames[t])
    BY <2>1, LenProperties, EmptySeq DEF IInv, TypeOK
  <2> QED BY <2>1, <2>2, <1>4 DEF Inside, Threads
<1>6. FramesFit(t)' /\ MarkFits(t)'
  BY <1>0, <1>1, <1>2, <1>4 DEF IInv, Fits, FramesFit, Placed, Outside, MarkFits, Inside, InBody
<1>7. RoleFits(t)' /\ OwnerFits(t)' /\ BodyFits(t)'
  BY <1>0, <1>1, <1>2, <1>5 DEF IInv, Fits, RoleFits, CallerLabels, Labels, OwnerFits, BodyFits
<1>8. \A u \in Threads : Fits(u)'
  BY <1>0, <1>1, <1>3, <1>6, <1>7, OthersFit DEF Fits
<1>9. Counted'
  BY <1>0, <1>1, <1>3, <1>5, SameDebts, ThreadsAssumption DEF Threads
<1>10. Ending'
  BY <1>0, <1>1, <1>2, <1>3, SameEnding
<1> QED BY <1>3, <1>8, <1>9, <1>10 DEF IInv

LEMMA LoopIsPublished ==
  ASSUME IInv, NEW t \in Threads, Publish(t)
  PROVE  IInv'
<1>0. /\ pc[t] = "publish" /\ owner = t /\ count' = Size(t) /\ body' = Place(t)
      /\ next' = 0 /\ busy' = Cardinality(Workers) /\ epoch' = epoch + 1
  BY DEF Publish, IInv, Fits, OwnerFits
<1>1. UNCHANGED <<pool, owner, stop, asleep, seen, in_loop, claimed, frames, calls, loop>>
  BY DEF Publish, local
<1>2. /\ pc' \in [Threads -> Labels] /\ pc'[t] = "notify"
      /\ \A u \in Threads \ {t} : pc'[u] = pc[u]
  BY GotoFacts DEF Publish, Labels
<1>3. Place(t) \in Loops /\ Size(t) \in Nat
  BY <1>0, PlaceIsLoop DEF Placed
<1>4. Cardinality(Workers) \in Nat /\ Cardinality(Workers) \in 0..Cardinality(Workers)
  BY ThreadsAssumption, FS_CardinalityType
<1>5. Alone(t)
  BY <1>1, <1>2 DEF Alone
<1>6. TypeOK'
  BY <1>0, <1>1, <1>2, <1>3, <1>4 DEF IInv, TypeOK
<1>7. t \notin Workers
  BY <1>0 DEF IInv, Fits, RoleFits, WorkerLabels, Engaged
<1>8. FramesFit(t)' /\ MarkFits(t)'
  BY <1>0, <1>1, <1>2 DEF IInv, Fits, FramesFit, Placed, Outside, MarkFits, Inside, InBody
<1>9. RoleFits(t)' /\ OwnerFits(t)' /\ BodyFits(t)'
  BY <1>0, <1>1, <1>2, <1>3, <1>7 DEF IInv, Fits, RoleFits, CallerLabels, Labels, OwnerFits, BodyFits
<1>10. \A u \in Threads : Fits(u)'
  BY <1>0, <1>1, <1>3, <1>5, <1>8, <1>9, OthersFit DEF Fits
<1>11. Counted'
  <2>1. Owing = {}
    BY <1>0 DEF IInv, Counted
  <2>2. \A w \in Workers : w \in Threads /\ w # t /\ pc[w] \notin Engaged /\ seen[w] = epoch
    BY <2>1, <1>7 DEF Owing, Owes, Threads
  <2>3. \A w \in Workers : pc'[w] \notin Engaged /\ seen'[w] # epoch'
    BY <2>2, <1>0, <1>1, <1>2 DEF IInv, TypeOK
  <2>4. Owing' = Workers
    BY <2>3 DEF Owing, Owes
  <2>5. \A u \in Threads : pc'[u] # "publish"
    BY <1>0, <1>2 DEF IInv, Fits, OwnerFits
  <2>6. owner' # None
    BY <1>0, <1>1, ThreadsAssumption DEF Threads
  <2> QED BY <2>3, <2>4, <2>5, <2>6, <1>0, <1>3 DEF Counted
<1>12. Ending'
  BY <1>0, <1>1, <1>2, <1>5, SameEnding
<1> QED BY <1>6, <1>10, <1>11, <1>12 DEF IInv

LEMMA WorkersAreWoken ==
  ASSUME IInv, NEW t \in Threads, WakeWorkers(t)
  PROVE  IInv'
<1>0. pc[t] = "notify" /\ in_loop' = [in_loop EXCEPT ![t] = TRUE] /\ asleep' = asleep \ Workers
  BY DEF WakeWorkers, Mark
<1>1. UNCHANGED <<pool, owner, count, body, next, busy, epoch, stop, seen, claimed, frames, calls, loop>>
  BY DEF WakeWorkers, shared
<1>2. /\ pc' \in [Threads -> Labels] /\ pc'[t] = "drain"
      /\ \A u \in Threads \ {t} : pc'[u] = pc[u]
  BY GotoFacts DEF WakeWorkers, Labels
<1>3. /\ in_loop' \in [Threads -> BOOLEAN] /\ in_loop'[t]
      /\ \A u \in Threads \ {t} : in_loop'[u] = in_loop[u]
  BY <1>0 DEF IInv, TypeOK
<1>4. Alone(t) /\ TypeOK'
  BY <1>0, <1>1, <1>2, <1>3 DEF Alone, IInv, TypeOK
<1>5. t \notin Workers /\ t \in Callers
  BY <1>0 DEF IInv, Fits, RoleFits, WorkerLabels, Engaged, Threads
<1>6. FramesFit(t)' /\ MarkFits(t)'
  BY <1>0, <1>1, <1>2, <1>3 DEF IInv, Fits, FramesFit, Placed, Outside, MarkFits, Inside, InBody
<1>7. RoleFits(t)' /\ OwnerFits(t)' /\ BodyFits(t)'
  BY <1>0, <1>1, <1>2, <1>3, <1>5 DEF IInv, Fits, RoleFits, CallerLabels, Labels, OwnerFits, BodyFits
<1> QED BY <1>0, <1>1, <1>2, <1>4, <1>5, <1>6, <1>7, LocalStep DEF Fits

LEMMA IndexIsClaimed ==
  ASSUME IInv, NEW t \in Threads, Claim(t)
  PROVE  IInv'
<1>0. pc[t] = "drain" /\ claimed' = [claimed EXCEPT ![t] = next] /\ next' = next + 1
  BY DEF Claim
<1>1. UNCHANGED <<pool, owner, count, body, busy, epoch, stop, asleep, seen, in_loop, frames, calls, loop>>
  BY DEF Claim
<1>2. /\ pc' \in [Threads -> Labels] /\ pc'[t] = "test"
      /\ \A u \in Threads \ {t} : pc'[u] = pc[u]
  BY GotoFacts DEF Claim, Labels
<1>3. claimed' \in [Threads -> Nat] /\ next' \in Nat
  BY <1>0 DEF IInv, TypeOK
<1>4. Alone(t) /\ TypeOK'
  BY <1>1, <1>2, <1>3 DEF Alone, IInv, TypeOK
<1>5. FramesFit(t)' /\ MarkFits(t)'
  BY <1>0, <1>1, <1>2 DEF IInv, Fits, FramesFit, Placed, Outside, MarkFits, Inside, InBody
<1>6. RoleFits(t)' /\ OwnerFits(t)' /\ BodyFits(t)'
  BY <1>0, <1>1, <1>2 DEF IInv, Fits, RoleFits, CallerLabels, WorkerLabels, Engaged, InBody, Labels,
     OwnerFits, BodyFits
<1> QED BY <1>0, <1>1, <1>2, <1>4, <1>5, <1>6, LocalStep DEF Fits, Engaged

LEMMA IndicesRunOut ==
  ASSUME IInv, NEW t \in Threads, NoIndexLeft(t)
  PROVE  IInv'
<1>0. pc[t] = "test" /\ in_loop' = [in_loop EXCEPT ![t] = FALSE]
  BY DEF NoIndexLeft
<1>1. UNCHANGED <<pool, owner, count, body, next, busy, epoch, stop, asleep, seen, claimed, frames,
                  calls, loop>>
  BY DEF NoIndexLeft, shared
<1>2. /\ pc' \in [Threads -> Labels] /\ pc'[t] = (IF t \in Workers THEN "checkout" ELSE "await")
      /\ \A u \in Threads \ {t} : pc'[u] = pc[u]
  BY GotoFacts DEF NoIndexLeft, Labels
<1>3. /\ in_loop' \in [Threads -> BOOLEAN] /\ ~in_loop'[t]
      /\ \A u \in Threads \ {t} : in_loop'[u] = in_loop[u]
  BY <1>0 DEF IInv, TypeOK
<1>4. Alone(t) /\ TypeOK'
  BY <1>1, <1>2, <1>3 DEF Alone, IInv, TypeOK
<1>5. FramesFit(t)'
  BY <1>0, <1>1, <1>2 DEF IInv, Fits, FramesFit, RoleFits, Placed, Outside
<1>6. MarkFits(t)'
  BY <1>0, <1>1, <1>2, <1>3 DEF IInv, Fits, MarkFits, Inside, InBody
<1>7. RoleFits(t)'
  BY <1>0, <1>2, ThreadsAssumption DEF IInv, Fits, RoleFits, CallerLabels, WorkerLabels, Engaged,
     InBody, Labels
<1>8. OwnerFits(t)' /\ BodyFits(t)'
  <2>1. in_loop[t]
    BY <1>0 DEF IInv, Fits, MarkFits
  <2>2. t \in Workers => t \notin Callers
    BY ThreadsAssumption
  <2> QED BY <2>1, <2>2, <1>0, <1>1, <1>2, <1>3 DEF IInv, Fits, OwnerFits, BodyFits, Threads
<1> QED BY <1>0, <1>1, <1>2, <1>4, <1>5, <1>6, <1>7, <1>8, LocalStep DEF Fits, Engaged

LEMMA WaitEnds ==
  ASSUME IInv, NEW t \in Threads, Await(t)
  PROVE  IInv'
<1>0. pc[t] = "await" /\ owner = t
  BY DEF Await, IInv, Fits, OwnerFits
<1>1. UNCHANGED <<pool, count, body, next, busy, epoch, stop, seen, in_loop, claimed, frames, calls>>
  BY DEF Await, local
<1>a. t \notin Workers /\ t \in Callers /\ ~in_loop[t] /\ ~Inside(t)
  BY <1>0 DEF IInv, Fits, RoleFits, WorkerLabels, Engaged, Threads, MarkFits, InBody
<1>2. CASE busy = 0 /\ owner' = None /\ ReturnLoop(t) /\ UNCHANGED asleep
  <2>1. /\ pc' \in [Threads -> Labels] /\ pc'[t] = (IF frames[t] = <<>> THEN "idle" ELSE "body")
        /\ \A u \in Threads \ {t} : pc'[u] = pc[u]
    BY <1>2, GotoFacts DEF ReturnLoop, Returned, Labels
  <2>2. loop' \in [Loops -> Abstract!LoopType]
    <3>1. Abstract!Idle \in Abstract!LoopType
      BY DEF Abstract!Idle, Abstract!LoopType
    <3> QED BY <3>1, <1>2 DEF ReturnLoop, IInv, TypeOK
  <2>3. Alone(t) /\ TypeOK'
    BY <1>1, <1>2, <2>1, <2>2 DEF Alone, IInv, TypeOK
  <2>4. FramesFit(t)'
    BY <1>1, <2>1 DEF IInv, Fits, FramesFit, Placed, Outside
  <2>5. MarkFits(t)'
    BY <1>1, <1>a, <2>1 DEF IInv, Fits, MarkFits, Inside
  <2>6. RoleFits(t)' /\ OwnerFits(t)' /\ BodyFits(t)'
    BY <1>1, <1>2, <1>a, <2>1, ThreadsAssumption
    DEF RoleFits, CallerLabels, Labels, OwnerFits, BodyFits, Threads
  <2>7. \A u \in Threads : Fits(u)'
    BY <1>0, <1>1, <1>2, <2>3, <2>4, <2>5, <2>6, OthersFit DEF Fits
  <2>8. Counted'
    BY <1>1, <1>2, <1>a, <2>1, <2>3, SameDebts
  <2>9. Ending'
    BY <1>0, <1>1, <2>1, <2>3, SameEnding
  <2> QED BY <2>3, <2>7, <2>8, <2>9 DEF IInv
<1>3. CASE asleep' = asleep \cup {t} /\ UNCHANGED <<owner, pc, loop>>
  <2>1. TypeOK' /\ Alone(t)
    BY <1>1, <1>3 DEF IInv, TypeOK, Alone
  <2>2. Fits(t)'
    BY <1>1, <1>3 DEF IInv, Fits, FramesFit, MarkFits, Inside, RoleFits, OwnerFits, BodyFits
  <2> QED BY <1>0, <1>1, <1>3, <2>1, <2>2, LocalStep
<1> QED BY <1>2, <1>3 DEF Await

-----------------------------------------------------------------------------
(* The steps of the workers. *)

LEMMA WorkerLooks ==
  ASSUME IInv, NEW t \in Threads, Look(t)
  PROVE  IInv'
<1>0. pc[t] = "look" /\ UNCHANGED <<pool, owner, count, body, next, busy, epoch, stop, claimed, frames,
                                   calls, loop>>
  BY DEF Look, shared
<1>1. t \in Workers /\ t \notin Callers /\ frames[t] = <<>> /\ ~Inside(t) /\ ~in_loop[t]
  BY <1>0, ThreadsAssumption
  DEF IInv, Fits, RoleFits, CallerLabels, Threads, FramesFit, Outside, MarkFits, InBody
<1>2. CASE stop /\ Goto(t, "gone") /\ UNCHANGED <<asleep, seen, in_loop>>
  <2>1. /\ pc' \in [Threads -> Labels] /\ pc'[t] = "gone"
        /\ \A u \in Threads \ {t} : pc'[u] = pc[u]
    BY <1>2, GotoFacts DEF Labels
  <2>2. Alone(t) /\ TypeOK'
    BY <1>0, <1>2, <2>1 DEF Alone, IInv, TypeOK
  <2>3. Fits(t)'
    BY <1>0, <1>1, <1>2, <2>1 DEF IInv, Fits, FramesFit, Placed, MarkFits, Inside, InBody,
       RoleFits, WorkerLabels, OwnerFits, BodyFits
  <2>4. \A u \in Threads : Fits(u)'
    BY <1>0, <2>2, <2>3, OthersFit
  <2>5. Counted'
    BY <1>0, <1>2, <2>1, <2>2, SameDebts DEF Engaged
  <2>6. Ending'
    BY <1>0, <1>1, <1>2, <2>1, ThreadsAssumption DEF IInv, Ending, Threads
  <2> QED BY <2>2, <2>4, <2>5, <2>6 DEF IInv
<1>3. CASE /\ ~stop /\ epoch # seen[t]
           /\ seen' = [seen EXCEPT ![t] = epoch]
           /\ Mark(t) /\ Goto(t, "drain") /\ UNCHANGED asleep
  <2>1. /\ pc' \in [Threads -> Labels] /\ pc'[t] = "drain"
        /\ \A u \in Threads \ {t} : pc'[u] = pc[u]
    BY <1>3, GotoFacts DEF Labels
  <2>2. /\ in_loop' \in [Threads -> BOOLEAN] /\ in_loop'[t]
        /\ \A u \in Threads \ {t} : in_loop'[u] = in_loop[u]
    BY <1>3 DEF Mark, IInv, TypeOK
  <2>3. /\ seen' \in [Threads -> Nat] /\ seen'[t] = epoch
        /\ \A u \in Threads \ {t} : seen'[u] = seen[u]
    BY <1>3 DEF IInv, TypeOK
  <2>4. Alone(t) /\ TypeOK'
    BY <1>0, <1>3, <2>1, <2>2, <2>3 DEF Alone, IInv, TypeOK
  <2>5. Owing # {}
    BY <1>1, <1>3 DEF Owing, Owes
  <2>6. FramesFit(t)' /\ MarkFits(t)'
    BY <1>0, <1>1, <2>1, <2>2, BoundsAssumption, EmptySeq
    DEF FramesFit, Outside, MarkFits, Inside, InBody
  <2>7. RoleFits(t)'
    BY <1>0, <1>1, <2>1 DEF RoleFits, WorkerLabels, Engaged, InBody
  <2>8. OwnerFits(t)' /\ BodyFits(t)'
    BY <1>0, <1>1, <2>1, <2>2, <2>5 DEF IInv, Fits, OwnerFits, BodyFits, Counted
  <2>9. \A u \in Threads : Fits(u)'
    BY <1>0, <2>4, <2>6, <2>7, <2>8, OthersFit DEF Fits
  <2>10. Counted'
    <3>1. \A w \in Workers \ {t} : w \in Threads /\ pc'[w] = pc[w] /\ seen'[w] = seen[w]
      BY <2>1, <2>3 DEF Threads
    <3>2. Owes(t)' /\ Owes(t)
      BY <1>3, <2>1 DEF Owes, Engaged
    <3>3. Owing' = Owing
      BY <1>0, <3>1, <3>2 DEF Owing, Owes
    <3>4. \A w \in Workers : pc'[w] \in Engaged => seen'[w] = epoch
      BY <3>1, <2>3 DEF IInv, Counted
    <3>5. \A u \in Threads : pc'[u] = "publish" => pc[u] = "publish"
      BY <2>1
    <3> QED BY <1>0, <3>3, <3>4, <3>5 DEF IInv, Counted
  <2>11. Ending'
    BY <1>0, <2>1, <2>4, SameEnding
  <2> QED BY <2>4, <2>9, <2>10, <2>11 DEF IInv
<1>4. CASE asleep' = asleep \cup {t} /\ UNCHANGED <<seen, in_loop, pc>>
  <2>1. Alone(t) /\ TypeOK'
    BY <1>0, <1>4 DEF Alone, IInv, TypeOK
  <2>2. Fits(t)'
    BY <1>0, <1>4 DEF IInv, Fits, FramesFit, MarkFits, Inside, RoleFits, OwnerFits, BodyFits
  <2> QED BY <1>0, <1>4, <2>1, <2>2, LocalStep
<1> QED BY <1>2, <1>3, <1>4 DEF Look

LEMMA WorkerChecksOut ==
  ASSUME IInv, NEW t \in Threads, Checkout(t)
  PROVE  IInv'
<1>0. pc[t] = "checkout" /\ busy' = busy - 1
  BY DEF Checkout
<1>1. UNCHANGED <<pool, owner, count, body, next, epoch, stop, asleep, seen, in_loop, claimed, frames,
                  calls, loop>>
  BY DEF Checkout, local
<1>2. /\ pc' \in [Threads -> Labels] /\ pc'[t] = "signal"
      /\ \A u \in Threads \ {t} : pc'[u] = pc[u]
  BY GotoFacts DEF Checkout, Labels
<1>3. t \in Workers /\ t \notin Callers
  BY <1>0, ThreadsAssumption DEF IInv, Fits, RoleFits, CallerLabels, Threads
<1>4. Owing' = Owing \ {t} /\ t \in Owing
  <2>1. \A w \in Workers \ {t} : pc'[w] = pc[w]
    BY <1>2 DEF Threads
  <2>2. seen[t] = epoch
    BY <1>0, <1>3 DEF IInv, Counted, Engaged
  <2> QED BY <2>1, <2>2, <1>0, <1>1, <1>2, <1>3 DEF Owing, Owes, Engaged
<1>5. IsFiniteSet(Owing) /\ Cardinality(Owing) \in Nat
  BY FS_Subset, FS_CardinalityType, ThreadsAssumption DEF Owing
<1>6. busy' = Cardinality(Owing') /\ busy' \in 0..Cardinality(Workers)
  <2>1. Cardinality(Owing') = Cardinality(Owing) - 1
    BY <1>4, <1>5, FS_RemoveElement
  <2>2. IsFiniteSet(Owing') /\ Cardinality(Owing') \in Nat
    BY <1>4, <1>5, FS_RemoveElement, FS_CardinalityType
  <2>3. Cardinality(Owing') <= Cardinality(Workers) /\ Cardinality(Workers) \in Nat
    BY <1>4, FS_Subset, FS_CardinalityType, ThreadsAssumption DEF Owing
  <2> QED BY <2>1, <2>2, <2>3, <1>0 DEF IInv, Counted
<1>7. Alone(t) /\ TypeOK'
  BY <1>1, <1>2, <1>6 DEF Alone, IInv, TypeOK
<1>8. FramesFit(t)' /\ MarkFits(t)'
  BY <1>0, <1>1, <1>2 DEF IInv, Fits, FramesFit, Placed, Outside, MarkFits, Inside, InBody
<1>9. RoleFits(t)' /\ OwnerFits(t)' /\ BodyFits(t)'
  BY <1>0, <1>1, <1>2, <1>3 DEF IInv, Fits, RoleFits, WorkerLabels, InBody, OwnerFits, BodyFits
<1>10. \A u \in Threads : Fits(u)'
  BY <1>1, <1>7, <1>8, <1>9, OthersFit DEF Fits
<1>11. Counted'
  <2>1. \A w \in Workers : pc'[w] \in Engaged => pc[w] \in Engaged
    BY <1>0, <1>2 DEF Engaged, Threads
  <2>2. \A u \in Threads : pc'[u] = "publish" => pc[u] = "publish"
    BY <1>2
  <2> QED BY <2>1, <2>2, <1>1, <1>4, <1>6 DEF IInv, Counted
<1>12. Ending'
  BY <1>0, <1>1, <1>2, <1>7, SameEnding
<1> QED BY <1>7, <1>10, <1>11, <1>12 DEF IInv

LEMMA WorkerSignals ==
  ASSUME IInv, NEW t \in Threads, Signal(t)
  PROVE  IInv'
<1>0. pc[t] = "signal" /\ asleep' \subseteq asleep
  BY DEF Signal
<1>1. UNCHANGED <<pool, owner, count, body, next, busy, epoch, stop, seen, in_loop, claimed, frames,
                  calls, loop>>
  BY DEF Signal, shared, local
<1>2. /\ pc' \in [Threads -> Labels] /\ pc'[t] = "look"
      /\ \A u \in Threads \ {t} : pc'[u] = pc[u]
  BY GotoFacts DEF Signal, Labels
<1>3. t \in Workers /\ t \notin Callers
  BY <1>0, ThreadsAssumption DEF IInv, Fits, RoleFits, CallerLabels, Threads
<1>4. Alone(t) /\ TypeOK'
  BY <1>0, <1>1, <1>2 DEF Alone, IInv, TypeOK
<1>5. FramesFit(t)' /\ MarkFits(t)'
  BY <1>0, <1>1, <1>2 DEF IInv, Fits, FramesFit, Placed, Outside, MarkFits, Inside, InBody
<1>6. RoleFits(t)' /\ OwnerFits(t)' /\ BodyFits(t)'
  BY <1>0, <1>1, <1>2, <1>3 DEF IInv, Fits, RoleFits, WorkerLabels, InBody, OwnerFits, BodyFits
<1> QED BY <1>0, <1>1, <1>2, <1>4, <1>5, <1>6, LocalStep DEF Fits, Engaged

-----------------------------------------------------------------------------
(* The end of the threads and of the pool. *)

\* What a step outside every loop keeps.
LEMMA ExitKeeps ==
  ASSUME IInv, NEW t \in Callers, pc[t] \in {"idle", "wake_all", "join"},
         pc' \in [Threads -> Labels], pc'[t] \in {"gone", "wake_all", "join"},
         \A u \in Threads \ {t} : pc'[u] = pc[u],
         pc'[t] # "gone" => t = Main,
         UNCHANGED <<owner, count, body, next, busy, epoch, local, loop>>,
         pool' \in BOOLEAN, stop' \in BOOLEAN, asleep' \subseteq asleep
  PROVE  TypeOK' /\ (\A u \in Threads : Fits(u)') /\ Counted'
<1>1. t \in Threads /\ t \notin Workers /\ UNCHANGED <<seen, in_loop, claimed, frames, calls>>
  BY ThreadsAssumption DEF Threads, local
<1>2. Alone(t) /\ TypeOK'
  BY <1>1 DEF Alone, IInv, TypeOK
<1>3. FramesFit(t)' /\ MarkFits(t)'
  BY <1>1 DEF IInv, Fits, FramesFit, Placed, Outside, MarkFits, Inside, InBody
<1>4. RoleFits(t)' /\ OwnerFits(t)' /\ BodyFits(t)'
  BY <1>1 DEF IInv, Fits, RoleFits, CallerLabels, Labels, OwnerFits, BodyFits
<1>5. \A u \in Threads : Fits(u)'
  BY <1>1, <1>2, <1>3, <1>4, OthersFit DEF Fits
<1>6. Counted'
  BY <1>1, <1>2, SameDebts
<1> QED BY <1>2, <1>5, <1>6

LEMMA ThreadExits ==
  ASSUME IInv, NEW t \in Threads, ExitStep(t)
  PROVE  IInv'
<1>0. /\ pc[t] \in {"idle", "wake_all", "join"} /\ t \in Callers /\ Main \in Threads
      /\ Workers \subseteq Threads /\ Callers \subseteq Threads /\ t \notin Workers
      /\ pc[t] \in {"wake_all", "join"} => t = Main
  BY ThreadsAssumption
  DEF ExitStep, Leave, DestroyPool, WakeAll, Join, IInv, Fits, RoleFits, WorkerLabels, Engaged, Threads
<1>1. pool \in BOOLEAN /\ stop \in BOOLEAN
  BY DEF IInv, TypeOK
<1>2. CASE Leave(t)
  <2>1. /\ pc' \in [Threads -> Labels] /\ pc'[t] = "gone"
        /\ \A u \in Threads \ {t} : pc'[u] = pc[u]
    BY <1>2, GotoFacts DEF Leave, Labels
  <2>2. UNCHANGED <<shared, local, asleep, loop>> /\ t # Main
    BY <1>2 DEF Leave
  <2>3. TypeOK' /\ (\A u \in Threads : Fits(u)') /\ Counted'
    BY <1>0, <1>1, <2>1, <2>2, ExitKeeps DEF shared
  <2>4. Ending'
    BY <1>0, <2>1, <2>2 DEF IInv, Ending, shared
  <2> QED BY <2>3, <2>4 DEF IInv
<1>3. CASE DestroyPool(t)
  <2>1. /\ pc' \in [Threads -> Labels] /\ pc'[t] = (IF pool THEN "wake_all" ELSE "gone")
        /\ \A u \in Threads \ {t} : pc'[u] = pc[u]
    BY <1>3, GotoFacts DEF DestroyPool, Labels
  <2>2. /\ UNCHANGED <<pool, owner, count, body, next, busy, epoch, local, asleep, loop>>
        /\ t = Main /\ stop' = pool /\ pc[t] = "idle" /\ \A u \in Callers \ {Main} : pc[u] = "gone"
    BY <1>3 DEF DestroyPool
  <2>3. TypeOK' /\ (\A u \in Threads : Fits(u)') /\ Counted'
    BY <1>0, <1>1, <2>1, <2>2, ExitKeeps
  <2>4. ~stop
    BY <2>2 DEF IInv, Ending
  <2>5. Ending'
    BY <1>0, <1>1, <2>1, <2>2, <2>4 DEF IInv, Ending
  <2> QED BY <2>3, <2>5 DEF IInv
<1>4. CASE WakeAll(t)
  <2>1. /\ pc' \in [Threads -> Labels] /\ pc'[t] = "join"
        /\ \A u \in Threads \ {t} : pc'[u] = pc[u]
    BY <1>4, GotoFacts DEF WakeAll, Labels
  <2>2. UNCHANGED <<shared, local, loop>> /\ asleep' = asleep \ Workers /\ t = Main /\ pc[t] = "wake_all"
    BY <1>0, <1>4 DEF WakeAll
  <2>3. TypeOK' /\ (\A u \in Threads : Fits(u)') /\ Counted'
    BY <1>0, <1>1, <2>1, <2>2, ExitKeeps DEF shared
  <2>4. Ending'
    BY <1>0, <2>1, <2>2 DEF IInv, Ending, shared
  <2> QED BY <2>3, <2>4 DEF IInv
<1>5. CASE Join(t)
  <2>1. /\ pc' \in [Threads -> Labels] /\ pc'[t] = "gone"
        /\ \A u \in Threads \ {t} : pc'[u] = pc[u]
    BY <1>5, GotoFacts DEF Join, Labels
  <2>2. /\ UNCHANGED <<owner, count, body, next, busy, epoch, stop, local, asleep, loop>>
        /\ pool' = FALSE /\ t = Main /\ pc[t] = "join" /\ \A w \in Workers : pc[w] = "gone"
    BY <1>0, <1>5 DEF Join
  <2>3. TypeOK' /\ (\A u \in Threads : Fits(u)') /\ Counted'
    BY <1>0, <1>1, <2>1, <2>2, ExitKeeps
  <2>4. Ending'
    BY <1>0, <2>1, <2>2 DEF IInv, Ending
  <2> QED BY <2>3, <2>4 DEF IInv
<1> QED BY <1>2, <1>3, <1>4, <1>5 DEF ExitStep

-----------------------------------------------------------------------------
(* The invariant is inductive. *)

LEMMA InitIInv == Init => IInv
<1> SUFFICES ASSUME Init PROVE IInv
  OBVIOUS
<1>1. /\ seen = [t \in Threads |-> 0] /\ in_loop = [t \in Threads |-> FALSE]
      /\ claimed = [t \in Threads |-> 0] /\ frames = [t \in Threads |-> <<>>]
      /\ pc = [t \in Threads |-> IF t \in Callers THEN "idle" ELSE "unborn"]
      /\ calls = [t \in Threads |-> 0] /\ loop = [id \in Loops |-> Abstract!Idle]
      /\ pool = FALSE /\ owner = None /\ count = 0 /\ body = None /\ next = 0
      /\ busy = 0 /\ epoch = 0 /\ stop = FALSE /\ asleep = {}
  BY DEF Init
<1>2. seen \in [Threads -> Nat] /\ in_loop \in [Threads -> BOOLEAN] /\ claimed \in [Threads -> Nat]
  BY <1>1
<1>3. frames \in [Threads -> Seq(Frame)]
  <2>1. <<>> \in Seq(Frame)
    BY EmptySeq
  <2> QED BY <2>1, <1>1
<1>4. pc \in [Threads -> Labels]
  BY <1>1 DEF Labels
<1>5. calls \in [Threads -> 0..MaxCalls]
  BY <1>1, BoundsAssumption
<1>6. loop \in [Loops -> Abstract!LoopType]
  <2>1. Abstract!Idle \in Abstract!LoopType
    BY DEF Abstract!Idle, Abstract!LoopType
  <2> QED BY <2>1, <1>1
<1>7. Cardinality(Workers) \in Nat
  BY ThreadsAssumption, FS_CardinalityType
<1>8. TypeOK
  <2>1. /\ pool = FALSE /\ owner = None /\ count = 0 /\ body = None /\ next = 0
        /\ busy = 0 /\ epoch = 0 /\ stop = FALSE /\ asleep = {}
    BY <1>1
  <2>2. /\ pool \in BOOLEAN /\ owner \in Threads \cup {None} /\ count \in Nat
        /\ body \in Loops \cup {None} /\ next \in Nat /\ epoch \in Nat /\ stop \in BOOLEAN
        /\ asleep \subseteq Threads
    BY <2>1
  <2>3. busy \in 0..Cardinality(Workers)
    BY <2>1, <1>7
  <2> QED BY <2>2, <2>3, <1>2, <1>3, <1>4, <1>5, <1>6, Zenon DEF TypeOK
<1>9. \A t \in Threads : Fits(t)
  <2> SUFFICES ASSUME NEW t \in Threads PROVE Fits(t)
    OBVIOUS
  <2>1. /\ pc[t] = (IF t \in Callers THEN "idle" ELSE "unborn") /\ frames[t] = <<>> /\ ~in_loop[t]
        /\ owner # t /\ (t \in Workers <=> t \notin Callers)
    BY <1>1, ThreadsAssumption DEF Threads
  <2>2. Len(frames[t]) = 0
    BY <2>1, EmptySeq
  <2>3. FramesFit(t) /\ MarkFits(t)
    BY <2>1, <2>2, BoundsAssumption DEF FramesFit, Outside, Placed, MarkFits, Inside
  <2>4. RoleFits(t) /\ OwnerFits(t) /\ BodyFits(t)
    BY <2>1 DEF RoleFits, WorkerLabels, Engaged, InBody, CallerLabels, Labels, OwnerFits, BodyFits
  <2> QED BY <2>3, <2>4 DEF Fits
<1>10. \A w \in Workers : pc[w] = "unborn" /\ seen[w] = epoch
  BY <1>1, ThreadsAssumption DEF Threads
<1>11. Counted
  <2>1. Owing = {}
    BY <1>10 DEF Owing, Owes, Engaged
  <2>2. \A t \in Threads : pc[t] # "publish"
    BY <1>1
  <2> QED BY <2>1, <2>2, <1>1, <1>10, FS_EmptySet DEF Counted, Engaged
<1>12. Ending
  <2>1. pc[Main] = "idle"
    BY <1>1, ThreadsAssumption DEF Threads
  <2> QED BY <2>1, <1>1, <1>10 DEF Ending
<1> QED BY <1>8, <1>9, <1>11, <1>12 DEF IInv

LEMMA StepKeepsIInv ==
  ASSUME IInv, NEW t \in Threads, Step(t)
  PROVE  IInv'
<1>1. CASE CallLoop(t)
  BY <1>1, OutsideCall
<1>2. CASE CallNested(t)
  BY <1>2, NestedCall
<1>3. CASE NothingToDo(t) \/ EndSerialLoop(t)
  BY <1>3, LoopReturns DEF NothingToDo, EndSerialLoop
<1>4. CASE RunSerially(t) \/ PoolTaken(t)
  BY <1>4, SerialEntry, PlaceIsLoop DEF RunSerially, PoolTaken, SerialBody, Placed
<1>5. CASE NextSerialIndex(t)
  <2>1. claimed[t] \in Nat
    BY DEF IInv, TypeOK
  <2> QED BY <2>1, <1>5, SerialEntry, PlaceIsLoop DEF NextSerialIndex, Placed
<1>6. CASE MakePool(t)
  BY <1>6, PoolMade
<1>7. CASE TakePool(t)
  BY <1>7, PoolIsTaken
<1>8. CASE EndSerialBody(t)
  BY <1>8, SerialExit
<1>9. CASE Publish(t)
  BY <1>9, LoopIsPublished
<1>10. CASE WakeWorkers(t)
  BY <1>10, WorkersAreWoken
<1>11. CASE Await(t)
  BY <1>11, WaitEnds
<1>12. CASE Claim(t) \/ NoIndexLeft(t)
  BY <1>12, IndexIsClaimed, IndicesRunOut
<1>13. CASE ExecuteIndex(t) \/ EndPooledBody(t)
  BY <1>13, PooledEntry, PooledExit
<1>14. CASE Look(t) \/ Checkout(t) \/ Signal(t)
  BY <1>14, WorkerLooks, WorkerChecksOut, WorkerSignals
<1>15. CASE ExitStep(t)
  BY <1>15, ThreadExits
<1> QED
  BY <1>1, <1>2, <1>3, <1>4, <1>5, <1>6, <1>7, <1>8, <1>9, <1>10, <1>11, <1>12, <1>13, <1>14, <1>15
  DEF Step, RunStep, PoolStep

LEMMA NextIInv == IInv /\ [Next]_vars => IInv'
<1> SUFFICES ASSUME IInv, [Next]_vars PROVE IInv'
  OBVIOUS
<1>1. CASE \E t \in Threads : Step(t)
  BY <1>1, StepKeepsIInv
<1>2. CASE UNCHANGED vars
  <2>1. UNCHANGED <<pool, owner, count, body, next, busy, epoch, stop, asleep, seen, in_loop,
                    claimed, frames, pc, calls, loop>>
    BY <1>2 DEF vars, shared, local
  <2>2. TypeOK'
    BY <2>1 DEF IInv, TypeOK
  <2>3. ASSUME NEW t \in Threads PROVE Fits(t)'
    BY <2>1 DEF IInv, Fits, FramesFit, MarkFits, Inside, RoleFits, OwnerFits, BodyFits
  <2>4. Counted'
    <3>1. Owing' = Owing
      BY <2>1 DEF Owing, Owes
    <3> QED BY <3>1, <2>1 DEF IInv, Counted
  <2>5. Ending'
    BY <2>1 DEF IInv, Ending
  <2> QED BY <2>2, <2>3, <2>4, <2>5 DEF IInv
<1> QED BY <1>1, <1>2 DEF Next, Finished

THEOREM Invariance == Spec => []IInv
BY InitIInv, NextIInv, PTL DEF Spec

-----------------------------------------------------------------------------
(***************************************************************************)
(* Every variable of the pool and of its threads keeps its type; busy_ in  *)
(* particular never falls below zero or exceeds the number of workers.     *)
(***************************************************************************)
THEOREM PoolTypes == Spec => []TypeOK
<1>1. IInv => TypeOK
  BY DEF IInv
<1> QED BY <1>1, Invariance, PTL

(***************************************************************************)
(* While owner_ is free no worker is inside drain and none has yet to see  *)
(* the last loop, for any number of threads.                               *)
(***************************************************************************)
THEOREM FreeIsQuiet == Spec => []FreePoolIsQuiet
<1>1. IInv => FreePoolIsQuiet
  <2> SUFFICES ASSUME IInv, owner = None
               PROVE  /\ busy = 0
                      /\ \A w \in Workers : pc[w] \in {"unborn", "look", "signal", "gone"}
                      /\ \A w \in Workers : seen[w] = epoch
    BY DEF FreePoolIsQuiet
  <2>1. Owing = {} /\ busy = Cardinality(Owing)
    BY DEF IInv, Counted
  <2>2. \A w \in Workers : pc[w] \notin Engaged /\ seen[w] = epoch
    BY <2>1 DEF Owing, Owes
  <2>3. \A w \in Workers : pc[w] \in WorkerLabels
    BY DEF IInv, Fits, RoleFits, Threads
  <2> QED BY <2>1, <2>2, <2>3, FS_EmptySet DEF WorkerLabels
<1> QED BY <1>1, Invariance, PTL

(***************************************************************************)
(* A thread that would lock owner_ does not hold it, at any depth of calls *)
(* from inside bodies.                                                     *)
(***************************************************************************)
THEOREM NoRelock == Spec => []OwnerNeverRelocks
<1>1. IInv => OwnerNeverRelocks
  BY DEF IInv, Fits, OwnerFits, OwnerNeverRelocks, MustBeSerial
<1> QED BY <1>1, Invariance, PTL

-----------------------------------------------------------------------------
(* What every thread, and the pool, know of the loops in progress. *)

Below(n) == Abstract!Indices(n)

\* The thread has called a loop, and is not in one of its bodies.
Calling(t) ==
  \/ pc[t] \in {"run", "serial", "publish", "notify", "await"}
  \/ pc[t] \in {"drain", "test"} /\ t \in Callers

\* The k-th loop that the thread called has not returned.  The outermost body
\* of a worker belongs to a loop that somebody else called.
Live(t, k) ==
  /\ t \in Callers \/ k > 1
  /\ k <= Len(frames[t]) \/ (k = Len(frames[t]) + 1 /\ Calling(t))

PlacesFit(t) ==
  \A k \in 1..MaxNesting :
    /\ Live(t, k) => loop[<<t, k>>].active
    /\ ~Live(t, k) => loop[<<t, k>>] = Abstract!Idle

Reached(id, s, f) == loop[id].started = Below(s) /\ loop[id].finished = Below(f)

\* A body in a serial loop is the last one begun; those before have finished.
BodiesFit(t) ==
  \A k \in 1..Len(frames[t]) :
    /\ frames[t][k].pooled =>
         frames[t][k].loop = body /\ (t \in Callers => body = <<t, k>>)
    /\ ~frames[t][k].pooled =>
         /\ frames[t][k].loop = <<t, k>>
         /\ frames[t][k].index < loop[<<t, k>>].size
         /\ Reached(<<t, k>>, frames[t][k].index + 1, frames[t][k].index)

BetweenFits(t) ==
  /\ pc[t] \in {"run", "publish"} => Reached(Place(t), 0, 0)
  /\ pc[t] = "serial" => claimed[t] <= Size(t) /\ Reached(Place(t), claimed[t], claimed[t])

LoopsFit(t) == PlacesFit(t) /\ BodiesFit(t) /\ BetweenFits(t)

\* The pool executes a loop, which its owner called.
Running == owner # None /\ pc[owner] # "publish"

OwnersPlace ==
  \/ pc[owner] \in {"notify", "drain", "test", "await"} /\ body = Place(owner)
  \/ \E k \in 1..Len(frames[owner]) : frames[owner][k].pooled /\ body = <<owner, k>>

\* The index that a thread has taken from next_, and the one it executes.
Testing(t) == {i \in {claimed[t]} : pc[t] = "test"}
Executing(t) == {frames[t][k].index : k \in {j \in 1..Len(frames[t]) : frames[t][j].pooled}}

Begun == {i \in Below(count) : i < next /\ \A t \in Threads : i \notin Testing(t)}

ProgressFits ==
  /\ count = loop[body].size
  /\ loop[body].started = Begun
  /\ loop[body].finished = {i \in Begun : \A t \in Threads : i \notin Executing(t)}
  /\ pc[owner] = "await" => count <= next

\* No index is with two threads.
ClaimsFit ==
  /\ \A t \in Threads : \A i \in Testing(t) : i < next
  /\ \A t \in Threads : Executing(t) \subseteq Begun
  /\ \A t, u \in Threads : t # u =>
       Testing(t) \cap Testing(u) = {} /\ Executing(t) \cap Executing(u) = {}

PoolFits == Running => OwnersPlace /\ ProgressFits /\ ClaimsFit

RInv == (\A t \in Threads : LoopsFit(t)) /\ PoolFits

-----------------------------------------------------------------------------
(* Facts used in every step. *)

LEMMA FrameFacts ==
  ASSUME IInv, NEW t \in Threads
  PROVE  /\ frames[t] \in Seq(Frame) /\ Len(frames[t]) \in 0..MaxNesting
         /\ \A k \in 1..Len(frames[t]) : frames[t][k] \in Frame /\ k \in 1..MaxNesting
         /\ \A k \in 1..MaxNesting : <<t, k>> \in Loops
         /\ claimed[t] \in Nat
<1>1. frames[t] \in Seq(Frame) /\ Len(frames[t]) \in Nat /\ claimed[t] \in Nat
  BY LenProperties DEF IInv, TypeOK
<1>2. Len(frames[t]) <= MaxNesting /\ MaxNesting \in Nat
  BY BoundsAssumption DEF IInv, Fits, FramesFit
<1> QED BY <1>1, <1>2 DEF Loops

\* The loop of a place is one of the records that the abstract loops range over.
LEMMA LoopFacts ==
  ASSUME IInv, NEW id \in Loops
  PROVE  /\ loop[id] \in Abstract!LoopType
         /\ loop[id].size \in Nat
         /\ loop \in [Loops -> Abstract!LoopType]
<1>1. loop[id] \in Abstract!LoopType /\ loop \in [Loops -> Abstract!LoopType]
  BY DEF IInv, TypeOK
<1>2. loop[id].size \in Sizes \cup {0}
  BY <1>1 DEF Abstract!LoopType
<1>3. Sizes \cup {0} \subseteq Nat
  BY BoundsAssumption
<1> QED BY <1>1, <1>2, <1>3, Zenon

LEMMA BelowFacts ==
  ASSUME NEW n \in Nat
  PROVE  /\ \A i \in Nat : i \in Below(n) <=> i < n
         /\ Below(n) \subseteq Nat
         /\ Below(n + 1) = Below(n) \cup {n}
         /\ Below(0) = {}
<1>1. \A m \in Nat : \A i : i \in Below(m) <=> i \in Nat /\ i < m
  BY DEF Below, Abstract!Indices
<1>2. n + 1 \in Nat
  OBVIOUS
<1> QED BY <1>1, <1>2

\* owner_ is held by threads that call loops from outside the pool.
LEMMA OwnerCalls ==
  ASSUME IInv, owner # None
  PROVE  owner \in Callers /\ owner \in Threads /\ owner \notin Workers
<1>1. owner \in Threads /\ Fits(owner)
  BY DEF IInv, TypeOK
<1>2. pc[owner] \in {"publish", "notify", "await"} \/ owner \in Callers
  BY <1>1 DEF Fits, OwnerFits
<1>3. pc[owner] \in {"publish", "notify", "await"} => owner \notin Workers
  BY <1>1 DEF Fits, RoleFits, WorkerLabels, Engaged
<1> QED BY <1>1, <1>2, <1>3, ThreadsAssumption DEF Threads

(***************************************************************************)
(* A thread inside drain works on a loop that is running, and the callers  *)
(* among them own it.                                                      *)
(***************************************************************************)
LEMMA DrainingIsRunning ==
  ASSUME IInv, NEW t \in Threads, pc[t] \in {"drain", "test"} \/ Inside(t)
  PROVE  /\ Running /\ in_loop[t]
         /\ t \in Callers => owner = t
<1>1. in_loop[t] /\ (Inside(t) => pc[t] \in InBody)
  BY DEF IInv, Fits, MarkFits
<1>2. CASE t \in Callers
  <2>1. owner = t
    BY <1>1, <1>2 DEF IInv, Fits, OwnerFits
  <2> QED BY <2>1, <1>1, ThreadsAssumption DEF Running, InBody, Threads
<1>3. CASE t \in Workers
  <2>1. Owing # {}
    BY <1>1, <1>3 DEF Owing, Owes, Engaged, InBody
  <2>2. owner # None
    BY <2>1 DEF IInv, Counted
  <2>3. pc[owner] # "publish"
    BY <2>1, <2>2, OwnerCalls DEF IInv, Counted
  <2> QED BY <1>1, <1>3, <2>2, <2>3, ThreadsAssumption DEF Running
<1> QED BY <1>2, <1>3 DEF Threads

\* The loop that the pool executes has a place, and has not returned.
LEMMA BodyFacts ==
  ASSUME IInv, RInv, Running
  PROVE  /\ body \in Loops /\ owner \in Threads /\ owner \in Callers
         /\ loop[body].active
         /\ \E k \in 1..MaxNesting : body = <<owner, k>>
         /\ pc[owner] \notin {"notify", "drain", "test", "await"} => body # Place(owner)
         /\ \A k \in 1..Len(frames[owner]) : ~frames[owner][k].pooled => body # <<owner, k>>
<1>1. owner \in Callers /\ owner \in Threads
  BY OwnerCalls DEF Running
<1>2. /\ Len(frames[owner]) \in 0..MaxNesting /\ MaxNesting \in Nat
      /\ \A k \in 1..MaxNesting : <<owner, k>> \in Loops
  BY <1>1, FrameFacts, BoundsAssumption
<1>3. CASE pc[owner] \in {"notify", "drain", "test", "await"} /\ body = Place(owner)
  <2>1. Len(frames[owner]) < MaxNesting
    BY <1>1, <1>3 DEF IInv, Fits, FramesFit, Placed
  <2> DEFINE k == Len(frames[owner]) + 1
  <2>2. k \in 1..MaxNesting /\ body = <<owner, k>>
    BY <2>1, <1>2, <1>3 DEF Place
  <2>3. Live(owner, k)
    BY <1>1, <1>3 DEF Live, Calling
  <2>4. loop[body].active
    BY <2>2, <2>3, <1>1 DEF RInv, LoopsFit, PlacesFit
  <2> QED BY <2>2, <2>4, <1>1, <1>2, <1>3
<1>4. CASE \E k \in 1..Len(frames[owner]) : frames[owner][k].pooled /\ body = <<owner, k>>
  <2>1. PICK k \in 1..Len(frames[owner]) : frames[owner][k].pooled /\ body = <<owner, k>>
    BY <1>4
  <2>2. Live(owner, k) /\ k \in 1..MaxNesting
    BY <1>1, <1>2 DEF Live
  <2>3. loop[body].active
    BY <2>1, <2>2, <1>1 DEF RInv, LoopsFit, PlacesFit
  <2>4. body # Place(owner)
    BY <2>1, <1>2 DEF Place
  <2> QED BY <2>1, <2>2, <2>3, <2>4, <1>1, <1>2
<1> QED BY <1>3, <1>4 DEF RInv, PoolFits, OwnersPlace

(***************************************************************************)
(* What is true of a thread that does not move stays true when only the    *)
(* loops of others change, or the progress of the loop the pool executes.  *)
(***************************************************************************)
LEMMA StayingFits ==
  ASSUME IInv, RInv, NEW u \in Threads,
         pc'[u] = pc[u], frames'[u] = frames[u], claimed'[u] = claimed[u],
         body' = body \/ ~Inside(u),
         \A k \in 1..MaxNesting :
           \/ loop'[<<u, k>>] = loop[<<u, k>>]
           \/ /\ Running /\ <<u, k>> = body
              /\ loop'[body].active
  PROVE  LoopsFit(u)'
<1>1. LoopsFit(u)
  BY DEF RInv
<1>2. \A k \in 1..MaxNesting : Live(u, k)' <=> Live(u, k)
  BY DEF Live, Calling
<1>3. PlacesFit(u)'
  <2> SUFFICES ASSUME NEW k \in 1..MaxNesting
               PROVE  /\ Live(u, k) => loop'[<<u, k>>].active
                      /\ ~Live(u, k) => loop'[<<u, k>>] = Abstract!Idle
    BY <1>2 DEF PlacesFit
  <2>1. CASE loop'[<<u, k>>] = loop[<<u, k>>]
    BY <2>1, <1>1 DEF LoopsFit, PlacesFit
  <2>2. CASE Running /\ <<u, k>> = body /\ loop'[body].active
    <3>1. loop[body].active
      BY <2>2, BodyFacts
    <3>2. ~Abstract!Idle.active
      BY DEF Abstract!Idle
    <3>3. Live(u, k)
      BY <3>1, <3>2, <2>2, <1>1 DEF LoopsFit, PlacesFit
    <3> QED BY <3>3, <2>2
  <2> QED BY <2>1, <2>2
<1>4. ASSUME NEW k \in 1..MaxNesting, Running, <<u, k>> = body
      PROVE  u = owner
  <2>1. PICK j \in 1..MaxNesting : body = <<owner, j>>
    BY <1>4, BodyFacts
  <2> QED BY <2>1, <1>4
<1>5. BodiesFit(u)'
  <2> SUFFICES ASSUME NEW k \in 1..Len(frames[u])
               PROVE  /\ frames[u][k].pooled =>
                           frames[u][k].loop = body' /\ (u \in Callers => body' = <<u, k>>)
                      /\ ~frames[u][k].pooled =>
                           /\ frames[u][k].loop = <<u, k>>
                           /\ frames[u][k].index < loop'[<<u, k>>].size
                           /\ Reached(<<u, k>>, frames[u][k].index + 1, frames[u][k].index)'
    BY DEF BodiesFit, Reached
  <2>1. /\ frames[u][k].pooled =>
             frames[u][k].loop = body /\ (u \in Callers => body = <<u, k>>)
        /\ ~frames[u][k].pooled =>
             /\ frames[u][k].loop = <<u, k>>
             /\ frames[u][k].index < loop[<<u, k>>].size
             /\ Reached(<<u, k>>, frames[u][k].index + 1, frames[u][k].index)
    BY <1>1 DEF LoopsFit, BodiesFit
  <2>2. frames[u][k].pooled => body' = body
    BY DEF Inside
  <2>3. ASSUME ~frames[u][k].pooled PROVE loop'[<<u, k>>] = loop[<<u, k>>]
    <3>1. k \in 1..MaxNesting
      BY FrameFacts
    <3>2. Running /\ u = owner => body # <<u, k>>
      BY <2>3, BodyFacts
    <3> QED BY <3>1, <3>2, <1>4
  <2> QED BY <2>1, <2>2, <2>3 DEF Reached
<1>6. BetweenFits(u)'
  <2>1. Place(u)' = Place(u)
    BY DEF Place
  <2>2. ASSUME pc[u] \in {"run", "publish", "serial"}
        PROVE  loop'[Place(u)] = loop[Place(u)]
    <3>1. Len(frames[u]) + 1 \in 1..MaxNesting
      BY <2>2, FrameFacts, BoundsAssumption DEF IInv, Fits, FramesFit, Placed
    <3>2. Running /\ u = owner => body # Place(u)
      BY <2>2, BodyFacts
    <3> QED BY <3>1, <3>2, <1>4 DEF Place
  <2>3. BetweenFits(u)
    BY <1>1 DEF LoopsFit
  <2> QED BY <2>1, <2>2, <2>3 DEF BetweenFits, Reached, Size
<1> QED BY <1>3, <1>5, <1>6 DEF LoopsFit

(***************************************************************************)
(* The loop that the pool executes is where it was if nobody takes, begins *)
(* or finishes one of its indices.                                         *)
(***************************************************************************)
LEMMA SamePool ==
  ASSUME IInv, RInv, owner' = owner, UNCHANGED <<body, count, next>>,
         Running' => Running,
         Running => OwnersPlace' /\ loop'[body] = loop[body],
         Running /\ pc'[owner] = "await" => pc[owner] = "await",
         \A u \in Threads : Testing(u)' = Testing(u) /\ Executing(u)' = Executing(u)
  PROVE  PoolFits'
<1> SUFFICES ASSUME Running' PROVE (OwnersPlace /\ ProgressFits /\ ClaimsFit)'
  BY DEF PoolFits
<1>1. Running /\ ProgressFits /\ ClaimsFit /\ OwnersPlace'
  BY DEF RInv, PoolFits
<1>2. Begun' = Begun
  BY DEF Begun
<1>3. ProgressFits'
  BY <1>1, <1>2 DEF ProgressFits
<1>4. ClaimsFit'
  BY <1>1, <1>2 DEF ClaimsFit
<1> QED BY <1>1, <1>3, <1>4

-----------------------------------------------------------------------------
(* Steps that the loops do not see. *)

(***************************************************************************)
(* A step that takes no index and begins, ends or calls nothing.           *)
(***************************************************************************)
LEMMA QuietStep ==
  ASSUME IInv, RInv, UNCHANGED <<owner, body, count, next, claimed, frames, loop>>,
         \A u \in Threads :
           \/ pc'[u] = pc[u]
           \/ pc[u] \in Outside /\ pc'[u] \in Outside
           \/ pc[u] = "notify" /\ pc'[u] = "drain" /\ u \in Callers
           \/ pc[u] = "look" /\ pc'[u] = "drain" /\ u \notin Callers
  PROVE  RInv'
<1>1. ASSUME NEW u \in Threads PROVE LoopsFit(u)'
  <2>1. LoopsFit(u) /\ (Calling(u)' <=> Calling(u))
    BY DEF RInv, Calling, Outside
  <2>2. PlacesFit(u)'
    BY <2>1 DEF LoopsFit, PlacesFit, Live
  <2>3. BodiesFit(u)'
    BY <2>1 DEF LoopsFit, BodiesFit, Reached
  <2>4. BetweenFits(u)'
    <3>1. pc'[u] \in {"run", "publish", "serial"} => pc'[u] = pc[u]
      BY DEF Outside
    <3> QED BY <2>1, <3>1 DEF LoopsFit, BetweenFits, Reached, Place, Size
  <2> QED BY <2>2, <2>3, <2>4 DEF LoopsFit
<1>2. PoolFits'
  <2>1. ASSUME owner # None PROVE owner \in Callers /\ owner \in Threads
    BY <2>1, OwnerCalls
  <2>2. Running' => Running
    BY <2>1 DEF Running, Outside
  <2>3. Running => OwnersPlace'
    <3> SUFFICES ASSUME Running PROVE OwnersPlace'
      OBVIOUS
    <3>1. OwnersPlace /\ owner \in Threads /\ owner \in Callers
      BY <2>1 DEF RInv, PoolFits, Running
    <3>2. pc[owner] \in {"notify", "drain", "test", "await"}
            => pc'[owner] \in {"notify", "drain", "test", "await"}
      BY <3>1 DEF Outside
    <3>3. Place(owner)' = Place(owner)
      BY DEF Place
    <3> QED BY <3>1, <3>2, <3>3 DEF OwnersPlace
  <2>4. Running /\ pc'[owner] = "await" => pc[owner] = "await"
    BY <2>1 DEF Running, Outside
  <2>5. \A u \in Threads : Testing(u)' = Testing(u) /\ Executing(u)' = Executing(u)
    BY DEF Testing, Executing, Outside
  <2> QED BY <2>2, <2>3, <2>4, <2>5, SamePool
<1> QED BY <1>1, <1>2 DEF RInv

LEMMA MakePoolKeeps ==
  ASSUME IInv, RInv, NEW t \in Threads, MakePool(t)
  PROVE  RInv' /\ UNCHANGED loop
<1>1. ~pool /\ UNCHANGED <<owner, count, body, next, claimed, frames, loop>>
  BY DEF MakePool, local
<1>2. \A u \in Threads : pc'[u] = pc[u] \/ (u \in Workers /\ pc'[u] = "look")
  BY DEF MakePool
<1>3. \A w \in Workers : pc[w] \in Outside
  BY <1>1 DEF IInv, Ending, Outside
<1> QED BY <1>1, <1>2, <1>3, QuietStep DEF Outside

LEMMA WakeWorkersKeeps ==
  ASSUME IInv, RInv, NEW t \in Threads, WakeWorkers(t)
  PROVE  RInv' /\ UNCHANGED loop
<1>1. pc[t] = "notify" /\ UNCHANGED <<owner, count, body, next, claimed, frames, loop>>
  BY DEF WakeWorkers, shared
<1>2. pc'[t] = "drain" /\ \A u \in Threads \ {t} : pc'[u] = pc[u]
  BY GotoFacts DEF WakeWorkers, Labels
<1>3. t \in Callers
  BY <1>1 DEF IInv, Fits, RoleFits, WorkerLabels, Engaged, Threads
<1> QED BY <1>1, <1>2, <1>3, QuietStep

LEMMA WorkerKeeps ==
  ASSUME IInv, RInv, NEW t \in Threads, Look(t) \/ Checkout(t) \/ Signal(t)
  PROVE  RInv' /\ UNCHANGED loop
<1>1. UNCHANGED <<owner, count, body, next, claimed, frames, loop>>
  BY DEF Look, Checkout, Signal, shared, local
<1>2. \A u \in Threads \ {t} : pc'[u] = pc[u]
  BY GotoFacts DEF Look, Checkout, Signal, Labels
<1>3. t \notin Callers
  BY DEF Look, Checkout, Signal, IInv, Fits, RoleFits, CallerLabels
<1>4. CASE Look(t)
  <2>1. pc[t] = "look" /\ (pc' = pc \/ pc'[t] \in {"gone", "drain"})
    BY <1>4, GotoFacts DEF Look, Labels
  <2> QED BY <2>1, <1>1, <1>2, <1>3, QuietStep DEF Outside
<1>5. CASE Checkout(t) \/ Signal(t)
  <2>1. pc[t] \in {"checkout", "signal"} /\ pc'[t] \in {"signal", "look"}
    BY <1>5, GotoFacts DEF Checkout, Signal, Labels
  <2> QED BY <2>1, <1>1, <1>2, QuietStep DEF Outside
<1> QED BY <1>4, <1>5

LEMMA ExitKeepsLoops ==
  ASSUME IInv, RInv, NEW t \in Threads, ExitStep(t)
  PROVE  RInv' /\ UNCHANGED loop
<1>1. UNCHANGED <<owner, count, body, next, claimed, frames, loop>>
  BY DEF ExitStep, Leave, DestroyPool, WakeAll, Join, shared, local
<1>2. \A u \in Threads \ {t} : pc'[u] = pc[u]
  BY GotoFacts DEF ExitStep, Leave, DestroyPool, WakeAll, Join, Labels
<1>3. pc[t] \in Outside /\ pc'[t] \in Outside
  BY GotoFacts DEF ExitStep, Leave, DestroyPool, WakeAll, Join, Labels, Outside
<1> QED BY <1>1, <1>2, <1>3, QuietStep

-----------------------------------------------------------------------------
(* The pool changes hands, and hands out indices. *)

LEMMA TakePoolKeeps ==
  ASSUME IInv, RInv, NEW t \in Threads, TakePool(t)
  PROVE  RInv' /\ UNCHANGED loop
<1>1. /\ pc[t] = "run" /\ owner = None /\ owner' = t
      /\ UNCHANGED <<count, body, next, claimed, frames, loop>>
  BY DEF TakePool, local
<1>2. pc'[t] = "publish" /\ \A u \in Threads \ {t} : pc'[u] = pc[u]
  BY GotoFacts DEF TakePool, Labels
<1>3. ASSUME NEW u \in Threads \ {t} PROVE LoopsFit(u)'
  BY <1>1, <1>2, StayingFits
<1>4. LoopsFit(t)'
  <2>1. LoopsFit(t) /\ (Calling(t)' <=> Calling(t))
    BY <1>1, <1>2 DEF RInv, Calling
  <2>2. PlacesFit(t)'
    BY <2>1, <1>1 DEF LoopsFit, PlacesFit, Live
  <2>3. BodiesFit(t)' /\ BetweenFits(t)'
    BY <2>1, <1>1, <1>2 DEF LoopsFit, BodiesFit, BetweenFits, Reached, Place
  <2> QED BY <2>2, <2>3 DEF LoopsFit
<1>5. ~Running'
  BY <1>1, <1>2 DEF Running
<1> QED BY <1>1, <1>3, <1>4, <1>5 DEF RInv, PoolFits

(***************************************************************************)
(* A loop is published while the pool is quiet, and none of its indices    *)
(* has been taken.                                                         *)
(***************************************************************************)
LEMMA PublishKeeps ==
  ASSUME IInv, RInv, NEW t \in Threads, Publish(t)
  PROVE  RInv' /\ UNCHANGED loop
<1>1. /\ pc[t] = "publish" /\ owner = t /\ owner' = t
      /\ count' = Size(t) /\ body' = Place(t) /\ next' = 0
      /\ UNCHANGED <<claimed, frames, loop>>
  BY DEF Publish, local, IInv, Fits, OwnerFits
<1>2. pc'[t] = "notify" /\ \A u \in Threads \ {t} : pc'[u] = pc[u]
  BY GotoFacts DEF Publish, Labels
<1>3. ~Running
  BY <1>1 DEF Running
<1>4. \A u \in Threads : ~Inside(u) /\ pc[u] # "test"
  BY <1>3, DrainingIsRunning
<1>5. ASSUME NEW u \in Threads \ {t} PROVE LoopsFit(u)'
  BY <1>1, <1>2, <1>4, StayingFits
<1>6. LoopsFit(t)'
  <2>1. LoopsFit(t) /\ (Calling(t)' <=> Calling(t))
    BY <1>1, <1>2 DEF RInv, Calling
  <2>2. PlacesFit(t)'
    BY <2>1, <1>1 DEF LoopsFit, PlacesFit, Live
  <2>3. BodiesFit(t)'
    BY <2>1, <1>1, <1>4 DEF LoopsFit, BodiesFit, Reached, Inside
  <2>4. BetweenFits(t)'
    BY <1>2 DEF BetweenFits
  <2> QED BY <2>2, <2>3, <2>4 DEF LoopsFit
<1>7. PoolFits'
  <2>1. \A u \in Threads : Testing(u)' = {} /\ Executing(u)' = {}
    BY <1>1, <1>2, <1>4 DEF Testing, Executing, Inside
  <2>2. OwnersPlace'
    BY <1>1, <1>2 DEF OwnersPlace, Place
  <2>3. Place(t) \in Loops /\ Size(t) \in Nat
    BY <1>1, PlaceIsLoop DEF Placed
  <2>4. Begun' = {}
    BY <1>1, <2>3, BelowFacts DEF Begun
  <2>5. Reached(Place(t), 0, 0)
    BY <1>1 DEF RInv, LoopsFit, BetweenFits
  <2>6. loop'[body'].started = {} /\ loop'[body'].finished = {} /\ count' = loop'[body'].size
    BY <2>5, <1>1, BelowFacts DEF Reached, Size
  <2>7. ProgressFits'
    BY <2>4, <2>6, <1>1, <1>2 DEF ProgressFits
  <2>8. ClaimsFit'
    BY <2>1, <2>4 DEF ClaimsFit
  <2> QED BY <2>2, <2>7, <2>8 DEF PoolFits
<1> QED BY <1>1, <1>5, <1>6, <1>7 DEF RInv

(***************************************************************************)
(* An index is taken from next_: nobody else has it, and it has not begun. *)
(***************************************************************************)
LEMMA ClaimKeeps ==
  ASSUME IInv, RInv, NEW t \in Threads, Claim(t)
  PROVE  RInv' /\ UNCHANGED loop
<1>1. /\ pc[t] = "drain" /\ claimed' = [claimed EXCEPT ![t] = next] /\ next' = next + 1
      /\ UNCHANGED <<owner, count, body, frames, loop>>
  BY DEF Claim
<1>2. pc'[t] = "test" /\ \A u \in Threads \ {t} : pc'[u] = pc[u]
  BY GotoFacts DEF Claim, Labels
<1>3. /\ claimed'[t] = next /\ \A u \in Threads \ {t} : claimed'[u] = claimed[u]
      /\ next \in Nat /\ count \in Nat
  BY <1>1 DEF IInv, TypeOK
<1>4. Running /\ OwnersPlace /\ ProgressFits /\ ClaimsFit /\ owner \in Threads
  BY <1>1, DrainingIsRunning, OwnerCalls DEF RInv, PoolFits, Running
<1>5. ASSUME NEW u \in Threads \ {t} PROVE LoopsFit(u)'
  BY <1>1, <1>2, <1>3, StayingFits
<1>6. LoopsFit(t)'
  <2>1. LoopsFit(t) /\ (Calling(t)' <=> Calling(t))
    BY <1>1, <1>2 DEF RInv, Calling
  <2>2. PlacesFit(t)'
    BY <2>1, <1>1 DEF LoopsFit, PlacesFit, Live
  <2>3. BodiesFit(t)' /\ BetweenFits(t)'
    BY <2>1, <1>1, <1>2 DEF LoopsFit, BodiesFit, BetweenFits, Reached
  <2> QED BY <2>2, <2>3 DEF LoopsFit
<1>7. PoolFits'
  <2>1. /\ Testing(t) = {} /\ Testing(t)' = {next}
        /\ \A u \in Threads \ {t} : Testing(u)' = Testing(u)
        /\ \A u \in Threads : Executing(u)' = Executing(u)
    BY <1>1, <1>2, <1>3 DEF Testing, Executing
  <2>2. \A u \in Threads : \A i \in Testing(u) : i \in Nat /\ i < next
    BY <1>4 DEF ClaimsFit, Testing, IInv, TypeOK
  <2>3. \A i \in Nat : i < next' <=> i < next \/ i = next
    BY <1>1, <1>3
  <2>4. \A i \in Nat : (\A u \in Threads : i \notin Testing(u)') <=>
                         i # next /\ \A u \in Threads : i \notin Testing(u)
    BY <2>1
  <2>5. Begun' = Begun
    <3>1. Below(count)' = Below(count) /\ Below(count) \subseteq Nat
      BY <1>1, <1>3, BelowFacts
    <3>2. \A i \in Below(count) :
            (i < next' /\ \A u \in Threads : i \notin Testing(u)') <=>
              (i < next /\ \A u \in Threads : i \notin Testing(u))
      BY <3>1, <2>3, <2>4, <1>3
    <3> QED BY <3>1, <3>2 DEF Begun
  <2>6. OwnersPlace'
    <3>1. pc[owner] \in {"notify", "drain", "test", "await"}
            => pc'[owner] \in {"notify", "drain", "test", "await"}
      BY <1>2, <1>4
    <3>2. Place(owner)' = Place(owner)
      BY <1>1 DEF Place
    <3> QED BY <1>1, <1>4, <3>1, <3>2 DEF OwnersPlace
  <2>7. ProgressFits'
    <3>1. pc'[owner] = "await" => pc[owner] = "await"
      BY <1>2, <1>4
    <3>2. pc'[owner] = "await" => count <= next'
      BY <3>1, <1>1, <1>3, <1>4 DEF ProgressFits
    <3> QED BY <1>1, <1>4, <2>1, <2>5, <3>2 DEF ProgressFits
  <2>8. ClaimsFit'
    <3>1. \A u \in Threads : \A i \in Testing(u)' : i < next'
      BY <2>1, <2>2, <2>3, <1>1, <1>3
    <3>2. \A u \in Threads : next \notin Testing(u)
      BY <2>2, <1>3
    <3>3. \A u, v \in Threads : u # v => Testing(u)' \cap Testing(v)' = {}
      BY <2>1, <3>2, <1>4 DEF ClaimsFit
    <3> QED BY <3>1, <3>3, <2>1, <2>5, <1>4 DEF ClaimsFit
  <2> QED BY <2>6, <2>7, <2>8 DEF PoolFits
<1> QED BY <1>1, <1>5, <1>6, <1>7 DEF RInv

(***************************************************************************)
(* An index beyond the last one is dropped; next_ has then passed n_.      *)
(***************************************************************************)
LEMMA NoIndexLeftKeeps ==
  ASSUME IInv, RInv, NEW t \in Threads, NoIndexLeft(t)
  PROVE  RInv' /\ UNCHANGED loop
<1>1. /\ pc[t] = "test" /\ claimed[t] >= count
      /\ UNCHANGED <<owner, count, body, next, claimed, frames, loop>>
  BY DEF NoIndexLeft, shared
<1>2. /\ pc'[t] = (IF t \in Workers THEN "checkout" ELSE "await")
      /\ \A u \in Threads \ {t} : pc'[u] = pc[u]
  BY GotoFacts DEF NoIndexLeft, Labels
<1>3. next \in Nat /\ count \in Nat /\ claimed[t] \in Nat
  BY DEF IInv, TypeOK
<1>4. /\ Running /\ OwnersPlace /\ ProgressFits /\ ClaimsFit
      /\ owner \in Threads /\ owner \in Callers /\ owner \notin Workers
      /\ t \in Callers => owner = t
  BY <1>1, DrainingIsRunning, OwnerCalls DEF RInv, PoolFits, Running
<1>5. ASSUME NEW u \in Threads \ {t} PROVE LoopsFit(u)'
  BY <1>1, <1>2, StayingFits
<1>6. LoopsFit(t)'
  <2>1. LoopsFit(t) /\ (Calling(t)' <=> Calling(t))
    BY <1>1, <1>2, ThreadsAssumption DEF RInv, Calling, Threads
  <2>2. PlacesFit(t)'
    BY <2>1, <1>1 DEF LoopsFit, PlacesFit, Live
  <2>3. BodiesFit(t)' /\ BetweenFits(t)'
    BY <2>1, <1>1, <1>2 DEF LoopsFit, BodiesFit, BetweenFits, Reached
  <2> QED BY <2>2, <2>3 DEF LoopsFit
<1>7. PoolFits'
  <2>1. /\ Testing(t) = {claimed[t]} /\ Testing(t)' = {}
        /\ \A u \in Threads \ {t} : Testing(u)' = Testing(u)
        /\ \A u \in Threads : Executing(u)' = Executing(u)
    BY <1>1, <1>2 DEF Testing, Executing
  <2>2. Begun' = Begun
    <3>1. claimed[t] \notin Below(count) /\ Below(count)' = Below(count)
      BY <1>1, <1>3, BelowFacts
    <3>2. \A i \in Below(count) : (\A u \in Threads : i \notin Testing(u)') <=>
                                    (\A u \in Threads : i \notin Testing(u))
      BY <2>1, <3>1
    <3> QED BY <3>1, <3>2, <1>1 DEF Begun
  <2>3. OwnersPlace'
    <3>1. pc[owner] \in {"notify", "drain", "test", "await"}
            => pc'[owner] \in {"notify", "drain", "test", "await"}
      BY <1>2, <1>4
    <3>2. Place(owner)' = Place(owner)
      BY <1>1 DEF Place
    <3> QED BY <1>1, <1>4, <3>1, <3>2 DEF OwnersPlace
  <2>4. pc'[owner] = "await" => count <= next
    <3>1. CASE owner = t
      BY <3>1, <1>1, <1>3, <1>4, <2>1 DEF ClaimsFit
    <3>2. CASE owner # t
      BY <3>2, <1>2, <1>4 DEF ProgressFits
    <3> QED BY <3>1, <3>2
  <2>5. ProgressFits'
    BY <1>1, <1>4, <2>1, <2>2, <2>4 DEF ProgressFits
  <2>6. ClaimsFit'
    BY <1>1, <1>4, <2>1, <2>2 DEF ClaimsFit
  <2> QED BY <2>3, <2>5, <2>6 DEF PoolFits
<1> QED BY <1>1, <1>5, <1>6, <1>7 DEF RInv

-----------------------------------------------------------------------------
(* Steps of one thread in one of its own loops, which the pool does not    *)
(* execute.                                                                *)

\* The bodies that the pool gave the thread are the same after the step.
SamePooled(t) ==
  /\ \A k \in 1..Len(frames[t]) : frames[t][k].pooled =>
       /\ k \in 1..Len(frames'[t]) /\ frames'[t][k].pooled
       /\ frames'[t][k].index = frames[t][k].index
  /\ \A k \in 1..Len(frames'[t]) : frames'[t][k].pooled =>
       k \in 1..Len(frames[t]) /\ frames[t][k].pooled

(***************************************************************************)
(* Such a step disturbs neither the other threads nor the pool.            *)
(***************************************************************************)
LEMMA OwnStep ==
  ASSUME IInv, RInv, NEW t \in Threads, NEW k \in 1..MaxNesting, NEW r,
         loop' = [loop EXCEPT ![<<t, k>>] = r],
         \A u \in Threads \ {t} :
           pc'[u] = pc[u] /\ frames'[u] = frames[u] /\ claimed'[u] = claimed[u],
         UNCHANGED <<owner, count, body, next>>,
         pc[t] \in {"idle", "run", "body", "serial"},
         pc'[t] \in {"idle", "run", "body", "serial"},
         k = Len(frames[t]) + 1 \/ (k \in 1..Len(frames[t]) /\ ~frames[t][k].pooled),
         SamePooled(t), LoopsFit(t)'
  PROVE  RInv'
<1>1. \A u \in Threads, j \in 1..MaxNesting :
        <<u, j>> # <<t, k>> => loop'[<<u, j>>] = loop[<<u, j>>]
  BY FrameFacts DEF IInv, TypeOK
<1>2. ASSUME NEW u \in Threads \ {t} PROVE LoopsFit(u)'
  <2>1. \A j \in 1..MaxNesting : loop'[<<u, j>>] = loop[<<u, j>>]
    BY <1>1
  <2> QED BY <2>1, StayingFits
<1>3. PoolFits'
  <2>1. owner # None => owner \in Threads
    BY OwnerCalls
  <2>2. Running' <=> Running
    BY <2>1 DEF Running
  <2>3. ASSUME Running PROVE OwnersPlace' /\ loop'[body] = loop[body]
    <3>1. OwnersPlace /\ owner \in Threads
      BY <2>1, <2>3 DEF RInv, PoolFits, Running
    <3>2. PICK j \in 1..MaxNesting : body = <<owner, j>>
      BY <2>3, BodyFacts
    <3>3. body # <<t, k>>
      <4>1. CASE owner # t
        BY <4>1, <3>2
      <4>2. CASE owner = t
        BY <4>2, <2>3, BodyFacts DEF Place
      <4> QED BY <4>1, <4>2
    <3>4. loop'[body] = loop[body]
      BY <3>1, <3>2, <3>3, <1>1
    <3>5. OwnersPlace'
      <4>1. CASE owner # t
        <5>1. Place(owner)' = Place(owner)
          BY <4>1, <3>1 DEF Place
        <5> QED BY <4>1, <5>1, <3>1 DEF OwnersPlace
      <4>2. CASE owner = t
        <5>1. PICK i \in 1..Len(frames[t]) : frames[t][i].pooled /\ body = <<t, i>>
          BY <4>2, <3>1 DEF OwnersPlace
        <5>2. i \in 1..Len(frames'[t]) /\ frames'[t][i].pooled
          BY <5>1 DEF SamePooled
        <5> QED BY <4>2, <5>1, <5>2 DEF OwnersPlace
      <4> QED BY <4>1, <4>2
    <3> QED BY <3>4, <3>5
  <2>4. Running /\ pc'[owner] = "await" => pc[owner] = "await"
    BY <2>1 DEF Running
  <2>5. \A u \in Threads : Testing(u)' = Testing(u)
    BY DEF Testing
  <2>6. Executing(t)' = Executing(t)
    <3>1. PICK A : A = {j \in 1..Len(frames[t]) : frames[t][j].pooled}
      OBVIOUS
    <3>2. A = {j \in 1..Len(frames'[t]) : frames'[t][j].pooled}
      BY <3>1 DEF SamePooled
    <3>3. \A j \in A : frames'[t][j].index = frames[t][j].index
      BY <3>1 DEF SamePooled
    <3>4. Executing(t) = {frames[t][j].index : j \in A}
      BY <3>1 DEF Executing
    <3>5. Executing(t)' = {frames'[t][j].index : j \in A}
      BY <3>2 DEF Executing
    <3> QED BY <3>3, <3>4, <3>5
  <2>7. \A u \in Threads \ {t} : Executing(u)' = Executing(u)
    BY DEF Executing
  <2> QED BY <2>2, <2>3, <2>4, <2>5, <2>6, <2>7, SamePool
<1> QED BY <1>2, <1>3 DEF RInv

\* A loop of n indices that has just been called.
Fresh(n) == [Abstract!Idle EXCEPT !.active = TRUE, !.size = n]

LEMMA FreshFacts ==
  ASSUME NEW n \in Nat
  PROVE  Fresh(n).active /\ Fresh(n).started = {} /\ Fresh(n).finished = {}
BY DEF Abstract!Idle, Fresh

\* A thread that is about to call a loop has no loop at the place it calls from.
LEMMA PlaceIsFree ==
  ASSUME IInv, RInv, NEW t \in Threads, pc[t] \in {"idle", "body"}, Len(frames[t]) < MaxNesting
  PROVE  Place(t) \in Loops /\ loop[Place(t)] = Abstract!Idle
<1>1. Len(frames[t]) + 1 \in 1..MaxNesting /\ <<t, Len(frames[t]) + 1>> \in Loops
  BY FrameFacts, BoundsAssumption
<1>2. ~Live(t, Len(frames[t]) + 1)
  BY FrameFacts DEF Live, Calling
<1> QED BY <1>1, <1>2 DEF RInv, LoopsFit, PlacesFit, Place

LEMMA CallIsFresh ==
  ASSUME IInv, RInv, NEW t \in Threads, NEW n \in Nat, pc[t] \in {"idle", "body"},
         Len(frames[t]) < MaxNesting,
         loop' = [loop EXCEPT ![Place(t)] = [@ EXCEPT !.active = TRUE, !.size = n]]
  PROVE  loop' = [loop EXCEPT ![Place(t)] = Fresh(n)]
<1> DEFINE id == Place(t)
<1>1. loop[id] = Abstract!Idle
  BY PlaceIsFree
<1>2. loop' = [loop EXCEPT ![id] = [loop[id] EXCEPT !.active = TRUE, !.size = n]]
  BY Zenon
<1>3. [loop[id] EXCEPT !.active = TRUE, !.size = n] = Fresh(n)
  BY <1>1, Zenon DEF Fresh
<1> HIDE DEF id
<1>4. loop' = [loop EXCEPT ![id] = Fresh(n)]
  BY <1>2, <1>3, Zenon
<1> QED BY <1>4, Zenon DEF id

(***************************************************************************)
(* par::run begins: the place is free, and the call is the abstract one.   *)
(***************************************************************************)
LEMMA CallStep ==
  ASSUME IInv, RInv, NEW t \in Threads, NEW n \in Sizes,
         pc[t] \in {"idle", "body"}, pc'[t] = "run",
         \A u \in Threads \ {t} : pc'[u] = pc[u] /\ frames'[u] = frames[u],
         UNCHANGED <<owner, count, body, next, claimed>>,
         Len(frames[t]) < MaxNesting, t \in Callers \/ Len(frames[t]) > 0,
         Len(frames'[t]) = Len(frames[t]),
         \A k \in 1..Len(frames[t]) :
           /\ frames'[t][k].loop = frames[t][k].loop
           /\ frames'[t][k].index = frames[t][k].index
           /\ frames'[t][k].pooled = frames[t][k].pooled,
         loop' = [loop EXCEPT ![Place(t)] = Fresh(n)]
  PROVE  RInv' /\ [Abstract!Next]_loop
<1> DEFINE h == Len(frames[t])
           r == Fresh(n)
<1>1. h \in Nat /\ h + 1 \in 1..MaxNesting /\ Place(t) = <<t, h + 1>> /\ <<t, h + 1>> \in Loops
  BY FrameFacts, BoundsAssumption DEF Place
<1>2. LoopsFit(t)
  BY DEF RInv
<1>3. \A k \in 1..MaxNesting : Live(t, k) <=> (t \in Callers \/ k > 1) /\ k <= h
  BY DEF Live, Calling
<1>4. \A k \in 1..MaxNesting : Live(t, k)' <=> (t \in Callers \/ k > 1) /\ k <= h + 1
  BY <1>1 DEF Live, Calling
<1>5. loop[Place(t)] = Abstract!Idle
  BY PlaceIsFree
<1>6. loop' = [loop EXCEPT ![<<t, h + 1>>] = r]
  BY <1>1
<1>7. loop'[<<t, h + 1>>] = r /\ \A k \in 1..MaxNesting : k # h + 1 => loop'[<<t, k>>] = loop[<<t, k>>]
  BY <1>1, <1>6, FrameFacts DEF IInv, TypeOK
<1>8. r.active /\ r.started = {} /\ r.finished = {}
  BY BoundsAssumption, FreshFacts
<1> HIDE DEF r
<1>9. LoopsFit(t)'
  <2>1. PlacesFit(t)'
    <3> SUFFICES ASSUME NEW k \in 1..MaxNesting
                 PROVE  /\ Live(t, k)' => loop'[<<t, k>>].active
                        /\ ~Live(t, k)' => loop'[<<t, k>>] = Abstract!Idle
      BY DEF PlacesFit
    <3>1. CASE k = h + 1
      BY <3>1, <1>1, <1>4, <1>7, <1>8
    <3>2. CASE k # h + 1
      <4>1. Live(t, k)' <=> Live(t, k)
        BY <3>2, <1>1, <1>3, <1>4
      <4> QED BY <4>1, <3>2, <1>2, <1>7 DEF LoopsFit, PlacesFit
    <3> QED BY <3>1, <3>2
  <2>2. BodiesFit(t)'
    <3>1. \A k \in 1..h : loop'[<<t, k>>] = loop[<<t, k>>]
      BY <1>1, <1>7
    <3> QED BY <3>1, <1>2 DEF LoopsFit, BodiesFit, Reached
  <2>3. BetweenFits(t)'
    <3>1. Place(t)' = <<t, h + 1>>
      BY DEF Place
    <3> QED BY <3>1, <1>7, <1>8, BelowFacts DEF BetweenFits, Reached
  <2> QED BY <2>1, <2>2, <2>3 DEF LoopsFit
<1>10. RInv'
  <2>1. SamePooled(t)
    BY DEF SamePooled
  <2> QED BY <1>1, <1>6, <1>9, <2>1, OwnStep
<1>11. Abstract!Next
  <2>1. ~loop[<<t, h + 1>>].active
    BY <1>1, <1>5 DEF Abstract!Idle
  <2>2. Abstract!Call(<<t, h + 1>>, n)
    BY <2>1, <1>6, Zenon DEF r, Fresh, Abstract!Call, Abstract!Update
  <2> QED BY <2>2, <1>1 DEF Abstract!Next
<1> QED BY <1>10, <1>11

LEMMA CallLoopStep ==
  ASSUME IInv, RInv, NEW t \in Threads, CallLoop(t)
  PROVE  RInv' /\ [Abstract!Next]_loop
<1>1. PICK n \in Sizes : loop' = [loop EXCEPT ![Place(t)] = [@ EXCEPT !.active = TRUE, !.size = n]]
  BY DEF CallLoop
<1>2. pc[t] = "idle" /\ UNCHANGED <<owner, count, body, next, claimed, frames>>
  BY DEF CallLoop, shared
<1>3. pc'[t] = "run" /\ \A u \in Threads \ {t} : pc'[u] = pc[u]
  BY GotoFacts DEF CallLoop, Labels
<1>4. frames[t] = <<>> /\ t \in Callers
  BY <1>2 DEF IInv, Fits, FramesFit, Outside, RoleFits, WorkerLabels, Engaged, Threads
<1>5. Len(frames[t]) < MaxNesting
  BY <1>4, EmptySeq, BoundsAssumption
<1>6. loop' = [loop EXCEPT ![Place(t)] = Fresh(n)]
  <2>1. pc[t] \in {"idle", "body"} /\ n \in Nat
    BY <1>2, BoundsAssumption
  <2> QED BY <1>1, <1>5, <2>1, CallIsFresh, Zenon

<1> QED BY <1>2, <1>3, <1>4, <1>5, <1>6, CallStep

LEMMA CallNestedStep ==
  ASSUME IInv, RInv, NEW t \in Threads, CallNested(t)
  PROVE  RInv' /\ [Abstract!Next]_loop
<1> DEFINE h == Len(frames[t])
<1>1. PICK n \in Sizes : loop' = [loop EXCEPT ![Place(t)] = [@ EXCEPT !.active = TRUE, !.size = n]]
  BY BoundsAssumption DEF CallNested
<1>2. pc[t] = "body" /\ h < MaxNesting /\ UNCHANGED <<owner, count, body, next, claimed>>
  BY DEF CallNested, shared
<1>3. pc'[t] = "run" /\ \A u \in Threads \ {t} : pc'[u] = pc[u]
  BY GotoFacts DEF CallNested, Labels
<1>4. frames[t] \in Seq(Frame) /\ frames \in [Threads -> Seq(Frame)] /\ h \in Nat /\ h > 0
  BY <1>2, LenProperties, EmptySeq DEF IInv, TypeOK, Fits, FramesFit
<1>5. /\ Len(frames'[t]) = h
      /\ \A k \in 1..h : /\ frames'[t][k].loop = frames[t][k].loop
                         /\ frames'[t][k].index = frames[t][k].index
                         /\ frames'[t][k].pooled = frames[t][k].pooled
      /\ \A u \in Threads \ {t} : frames'[u] = frames[u]
  <2> DEFINE g == [frames[t] EXCEPT ![h] = [@ EXCEPT !.nested = TRUE]]
  <2>1. frames' = [frames EXCEPT ![t][h].nested = TRUE]
    BY DEF CallNested
  <2>2. frames' = [frames EXCEPT ![t] = g]
    BY <2>1
  <2>3. \A k \in 1..h : frames[t][k] \in Frame
    BY <1>4
  <2>a. frames[t][h] \in Frame
    BY <1>4, <2>3
  <2>4. [frames[t][h] EXCEPT !.nested = TRUE] \in Frame
    BY <2>a DEF Frame
  <2>5. Len(g) = h
    BY <1>4, <2>4
  <2>6. \A k \in 1..h : /\ g[k].loop = frames[t][k].loop
                        /\ g[k].index = frames[t][k].index
                        /\ g[k].pooled = frames[t][k].pooled
    BY <1>4, <2>3 DEF Frame
  <2> QED BY <2>2, <2>5, <2>6, <1>4
<1>6. loop' = [loop EXCEPT ![Place(t)] = Fresh(n)]
  <2>1. pc[t] \in {"idle", "body"} /\ n \in Nat
    BY <1>2, BoundsAssumption
  <2> QED BY <1>1, <1>2, <2>1, CallIsFresh, Zenon
<1> QED BY <1>2, <1>3, <1>4, <1>5, <1>6, CallStep

(***************************************************************************)
(* par::run ends: when every index of the loop has finished, the return is *)
(* the abstract one, and leaves the place free.                            *)
(***************************************************************************)
LEMMA ReturnFits ==
  ASSUME IInv, RInv, NEW t \in Threads, pc[t] \in {"run", "serial", "await"},
         ReturnLoop(t), UNCHANGED <<frames, body>>,
         loop[Place(t)].finished = Below(Size(t))
  PROVE  /\ LoopsFit(t)' /\ Abstract!Next
         /\ Place(t) \in Loops /\ Place(t) = <<t, Len(frames[t]) + 1>>
         /\ Len(frames[t]) + 1 \in 1..MaxNesting
         /\ loop' = [loop EXCEPT ![<<t, Len(frames[t]) + 1>>] = Abstract!Idle]
         /\ pc'[t] \in {"idle", "body"} /\ \A u \in Threads \ {t} : pc'[u] = pc[u]
<1> DEFINE h == Len(frames[t])
<1>1. h \in Nat /\ Place(t) = <<t, h + 1>> /\ <<t, h + 1>> \in Loops /\ h + 1 \in 1..MaxNesting
  BY FrameFacts, PlaceIsLoop, BoundsAssumption DEF Place, Placed, IInv, Fits, FramesFit
<1>2. loop' = [loop EXCEPT ![<<t, h + 1>>] = Abstract!Idle]
  BY <1>1 DEF ReturnLoop
<1>3. pc'[t] \in {"idle", "body"} /\ \A u \in Threads \ {t} : pc'[u] = pc[u]
  BY GotoFacts DEF ReturnLoop, Returned, Labels
<1>4. LoopsFit(t)
  BY DEF RInv
<1>5. t \in Callers \/ h > 0
  <2>1. t \in Workers => frames[t] # <<>>
    BY DEF IInv, Fits, RoleFits, InBody, WorkerLabels, Engaged
  <2>2. frames[t] # <<>> => h > 0
    BY FrameFacts, EmptySeq
  <2> QED BY <2>1, <2>2 DEF Threads
<1>6. \A k \in 1..MaxNesting : Live(t, k) <=> (t \in Callers \/ k > 1) /\ k <= h + 1
  BY <1>1 DEF Live, Calling
<1>7. \A k \in 1..MaxNesting : Live(t, k)' <=> (t \in Callers \/ k > 1) /\ k <= h
  BY <1>1, <1>3 DEF Live, Calling
<1>8. /\ loop'[<<t, h + 1>>] = Abstract!Idle
      /\ \A k \in 1..MaxNesting : k # h + 1 => loop'[<<t, k>>] = loop[<<t, k>>]
  BY <1>1, <1>2, FrameFacts DEF IInv, TypeOK
<1>9. LoopsFit(t)'
  <2>1. PlacesFit(t)'
    <3> SUFFICES ASSUME NEW k \in 1..MaxNesting
                 PROVE  /\ Live(t, k)' => loop'[<<t, k>>].active
                        /\ ~Live(t, k)' => loop'[<<t, k>>] = Abstract!Idle
      BY DEF PlacesFit
    <3>1. CASE k = h + 1
      BY <3>1, <1>1, <1>7, <1>8
    <3>2. CASE k # h + 1
      <4>1. Live(t, k)' <=> Live(t, k)
        BY <3>2, <1>1, <1>6, <1>7
      <4> QED BY <4>1, <3>2, <1>4, <1>8 DEF LoopsFit, PlacesFit
    <3> QED BY <3>1, <3>2
  <2>2. BodiesFit(t)'
    <3>1. \A k \in 1..h : k \in 1..MaxNesting /\ k # h + 1
      BY <1>1, BoundsAssumption
    <3>2. \A k \in 1..h : loop'[<<t, k>>] = loop[<<t, k>>]
      BY <3>1, <1>8
    <3> QED BY <3>2, <1>4 DEF LoopsFit, BodiesFit, Reached
  <2>3. BetweenFits(t)'
    BY <1>3 DEF BetweenFits
  <2> QED BY <2>1, <2>2, <2>3 DEF LoopsFit
<1>10. Abstract!Next
  <2>1. Live(t, h + 1)
    BY <1>1, <1>5, <1>6
  <2>2. loop[<<t, h + 1>>].active
    BY <2>1, <1>1, <1>4 DEF LoopsFit, PlacesFit
  <2>3. loop[<<t, h + 1>>].finished = Abstract!Indices(loop[<<t, h + 1>>].size)
    BY <1>1 DEF Below, Size
  <2>4. Abstract!Return(<<t, h + 1>>)
    BY <2>2, <2>3, <1>2 DEF Abstract!Return, Abstract!Update
  <2> QED BY <2>4, <1>1 DEF Abstract!Next
<1> QED BY <1>1, <1>2, <1>3, <1>9, <1>10

LEMMA SerialReturn ==
  ASSUME IInv, RInv, NEW t \in Threads, NothingToDo(t) \/ EndSerialLoop(t)
  PROVE  RInv' /\ [Abstract!Next]_loop
<1>1. /\ pc[t] \in {"run", "serial"} /\ ReturnLoop(t)
      /\ UNCHANGED <<owner, count, body, next, claimed, frames>>
  BY DEF NothingToDo, EndSerialLoop, shared, local
<1>2. Size(t) \in Nat /\ claimed[t] \in Nat
  BY <1>1, PlaceIsLoop, FrameFacts DEF Placed
<1>3. loop[Place(t)].finished = Below(Size(t))
  <2>1. CASE NothingToDo(t)
    BY <2>1 DEF NothingToDo, RInv, LoopsFit, BetweenFits, Reached
  <2>2. CASE EndSerialLoop(t)
    <3>1. claimed[t] = Size(t)
      BY <2>2, <1>2 DEF EndSerialLoop, RInv, LoopsFit, BetweenFits
    <3> QED BY <2>2, <3>1 DEF EndSerialLoop, RInv, LoopsFit, BetweenFits, Reached
  <2> QED BY <2>1, <2>2
<1>4. SamePooled(t)
  <2>1. frames' = frames
    BY <1>1
  <2> QED BY <2>1 DEF SamePooled
<1>5. /\ LoopsFit(t)' /\ Abstract!Next
      /\ Len(frames[t]) + 1 \in 1..MaxNesting
      /\ loop' = [loop EXCEPT ![<<t, Len(frames[t]) + 1>>] = Abstract!Idle]
      /\ pc'[t] \in {"idle", "body"} /\ \A u \in Threads \ {t} : pc'[u] = pc[u]
  BY <1>1, <1>3, ReturnFits
<1>6. \A u \in Threads \ {t} :
        pc'[u] = pc[u] /\ frames'[u] = frames[u] /\ claimed'[u] = claimed[u]
  BY <1>1, <1>5
<1>7. RInv'
  <2>1. PICK k \in 1..MaxNesting : k = Len(frames[t]) + 1
    BY <1>5
  <2>2. loop' = [loop EXCEPT ![<<t, k>>] = Abstract!Idle]
    BY <1>5, <2>1
  <2> QED BY <1>1, <1>4, <1>5, <1>6, <2>1, <2>2, OwnStep
<1> QED BY <1>5, <1>7

(***************************************************************************)
(* The wait ends when no worker is in the loop any more: every index has   *)
(* been taken, and no body is being executed.                              *)
(***************************************************************************)
LEMMA AwaitStep ==
  ASSUME IInv, RInv, NEW t \in Threads, Await(t)
  PROVE  RInv' /\ [Abstract!Next]_loop
<1>1. pc[t] = "await" /\ owner = t /\ UNCHANGED <<count, body, next, claimed, frames>>
  BY DEF Await, local, IInv, Fits, OwnerFits
<1>2. CASE UNCHANGED <<owner, pc, loop>>
  BY <1>1, <1>2, QuietStep
<1>3. CASE busy = 0 /\ owner' = None /\ ReturnLoop(t)
  <2>1. Running
    BY <1>1, ThreadsAssumption DEF Running, Threads
  <2>2. OwnersPlace /\ ProgressFits
    BY <2>1 DEF RInv, PoolFits
  <2>3. ASSUME NEW u \in Threads PROVE pc[u] # "test" /\ ~Inside(u)
    <3>1. CASE u = t
      BY <3>1, <1>1 DEF IInv, Fits, MarkFits, InBody
    <3>2. CASE u # t /\ u \in Callers
      BY <3>2, <1>1, DrainingIsRunning
    <3>3. CASE u \in Workers
      <4>1. IsFiniteSet(Owing)
        BY FS_Subset, ThreadsAssumption DEF Owing
      <4>2. Owing = {}
        BY <4>1, <1>3, FS_EmptySet DEF IInv, Counted
      <4>3. pc[u] \notin Engaged
        BY <3>3, <4>2 DEF Owing, Owes
      <4> QED BY <4>3 DEF Engaged, InBody, IInv, Fits, MarkFits
    <3> QED BY <3>1, <3>2, <3>3 DEF Threads
  <2>4. \A u \in Threads : Testing(u) = {} /\ Executing(u) = {}
    BY <2>3 DEF Testing, Executing, Inside
  <2>5. body = Place(t)
    BY <1>1, <2>2, <2>3 DEF OwnersPlace, Inside
  <2>6. count = Size(t) /\ count <= next /\ count \in Nat /\ next \in Nat
    BY <1>1, <2>2, <2>5 DEF ProgressFits, Size, IInv, TypeOK
  <2>7. Begun = Below(count)
    <3>1. \A i \in Below(count) : i < next
      BY <2>6, BelowFacts
    <3> QED BY <3>1, <2>4 DEF Begun
  <2>8. loop[Place(t)].finished = Below(Size(t))
    BY <2>2, <2>4, <2>5, <2>6, <2>7 DEF ProgressFits
  <2>9. /\ LoopsFit(t)' /\ Abstract!Next
        /\ loop' = [loop EXCEPT ![<<t, Len(frames[t]) + 1>>] = Abstract!Idle]
        /\ \A u \in Threads \ {t} : pc'[u] = pc[u]
    BY <1>1, <1>3, <2>8, ReturnFits
  <2>10. ASSUME NEW u \in Threads \ {t} PROVE LoopsFit(u)'
    <3>1. \A k \in 1..MaxNesting : loop'[<<u, k>>] = loop[<<u, k>>]
      BY <2>9, FrameFacts DEF IInv, TypeOK
    <3> QED BY <3>1, <1>1, <2>9, StayingFits
  <2>11. PoolFits'
    BY <1>3 DEF PoolFits, Running
  <2> QED BY <2>9, <2>10, <2>11 DEF RInv
<1> QED BY <1>2, <1>3 DEF Await

(***************************************************************************)
(* What entering a body does, to the innermost frame and to the loop.      *)
(***************************************************************************)
LEMMA EntryFacts ==
  ASSUME IInv, NEW t \in Threads, NEW id \in Loops, NEW i \in Nat, NEW p \in BOOLEAN,
         Enter(t, id, i, p)
  PROVE  LET h == Len(frames[t]) IN
         /\ Len(frames'[t]) = h + 1
         /\ \A k \in 1..h : frames'[t][k] = frames[t][k]
         /\ frames'[t][h + 1].loop = id /\ frames'[t][h + 1].index = i
         /\ frames'[t][h + 1].pooled = p
         /\ pc'[t] = "body"
         /\ \A u \in Threads \ {t} : frames'[u] = frames[u] /\ pc'[u] = pc[u]
         /\ loop' = [loop EXCEPT ![id] = [loop[id] EXCEPT !.started = loop[id].started \cup {i}]]
         /\ loop'[id].started = loop[id].started \cup {i}
         /\ loop'[id].finished = loop[id].finished
         /\ loop'[id].size = loop[id].size /\ loop'[id].active = loop[id].active
<1> DEFINE h == Len(frames[t])
           fr == [loop |-> id, index |-> i, pooled |-> p, nested |-> FALSE]
           r == [loop[id] EXCEPT !.started = loop[id].started \cup {i}]
<1>1. frames' = [frames EXCEPT ![t] = Append(frames[t], fr)] /\ fr \in Frame
  BY DEF Enter, Frame
<1>2. frames[t] \in Seq(Frame) /\ frames \in [Threads -> Seq(Frame)]
  BY DEF IInv, TypeOK
<1>3. frames'[t] = Append(frames[t], fr) /\ \A u \in Threads \ {t} : frames'[u] = frames[u]
  BY <1>1, <1>2
<1>4. /\ Len(Append(frames[t], fr)) = h + 1
      /\ \A k \in 1..h : Append(frames[t], fr)[k] = frames[t][k]
      /\ Append(frames[t], fr)[h + 1] = fr
  BY <1>1, <1>2, AppendProperties
<1>5. fr.loop = id /\ fr.index = i /\ fr.pooled = p
  OBVIOUS
<1>6. pc'[t] = "body" /\ \A u \in Threads \ {t} : pc'[u] = pc[u]
  BY GotoFacts DEF Enter, Labels
<1>7. loop[id] \in Abstract!LoopType /\ loop \in [Loops -> Abstract!LoopType]
  BY LoopFacts
<1>8. loop' = [loop EXCEPT ![id] = r]
  BY DEF Enter
<1>9. /\ r.started = loop[id].started \cup {i} /\ r.finished = loop[id].finished
      /\ r.size = loop[id].size /\ r.active = loop[id].active
  BY <1>7 DEF Abstract!LoopType
<1>10. loop'[id] = r
  BY <1>7, <1>8
<1> HIDE DEF fr, r
<1> QED BY <1>3, <1>4, <1>5, <1>6, <1>8, <1>9, <1>10 DEF r

(***************************************************************************)
(* A serial loop goes on to the index after those that have finished.      *)
(***************************************************************************)
LEMMA SerialStart ==
  ASSUME IInv, RInv, NEW t \in Threads, NEW i \in Nat, pc[t] \in {"run", "serial"},
         Enter(t, Place(t), i, FALSE), UNCHANGED <<owner, count, body, next, claimed>>,
         i < Size(t), Reached(Place(t), i, i)
  PROVE  RInv' /\ [Abstract!Next]_loop
<1> DEFINE h == Len(frames[t])
           id == <<t, h + 1>>
           r == [loop[id] EXCEPT !.started = loop[id].started \cup {i}]
<1>1. /\ h \in Nat /\ Place(t) = id /\ id \in Loops /\ h + 1 \in 1..MaxNesting
      /\ MaxNesting \in Nat /\ Size(t) \in Nat
  BY FrameFacts, PlaceIsLoop, BoundsAssumption DEF Place, Placed, IInv, Fits, FramesFit
<1>2. /\ Len(frames'[t]) = h + 1
      /\ \A k \in 1..h : frames'[t][k] = frames[t][k]
      /\ frames'[t][h + 1].loop = id /\ frames'[t][h + 1].index = i
      /\ frames'[t][h + 1].pooled = FALSE
      /\ pc'[t] = "body"
      /\ \A u \in Threads \ {t} : frames'[u] = frames[u] /\ pc'[u] = pc[u]
      /\ loop' = [loop EXCEPT ![id] = r]
      /\ loop'[id].started = loop[id].started \cup {i}
      /\ loop'[id].finished = loop[id].finished
      /\ loop'[id].size = loop[id].size /\ loop'[id].active = loop[id].active
  <2>1. Enter(t, id, i, FALSE) /\ id \in Loops /\ FALSE \in BOOLEAN
    BY <1>1
  <2> HIDE DEF id
  <2> QED BY <2>1, EntryFacts
<1>3. LoopsFit(t)
  BY DEF RInv
<1>4. \A k \in 1..h : k \in 1..MaxNesting /\ loop'[<<t, k>>] = loop[<<t, k>>]
  BY <1>1, <1>2, FrameFacts DEF IInv, TypeOK
<1>5. \A k \in 1..MaxNesting : k # h + 1 => loop'[<<t, k>>] = loop[<<t, k>>]
  BY <1>2, FrameFacts DEF IInv, TypeOK
<1>6. \A k \in 1..MaxNesting : Live(t, k)' <=> Live(t, k)
  BY <1>1, <1>2 DEF Live, Calling
<1>7. t \in Callers \/ h > 0
  <2>1. t \in Workers => frames[t] # <<>>
    BY DEF IInv, Fits, RoleFits, InBody
  <2>2. frames[t] # <<>> => h > 0
    BY FrameFacts, EmptySeq
  <2> QED BY <2>1, <2>2 DEF Threads
<1>8. Live(t, h + 1) /\ loop[id].active
  <2>1. Live(t, h + 1)
    BY <1>1, <1>7 DEF Live, Calling
  <2> QED BY <2>1, <1>1, <1>3 DEF LoopsFit, PlacesFit
<1>9. LoopsFit(t)'
  <2>1. PlacesFit(t)'
    <3> SUFFICES ASSUME NEW k \in 1..MaxNesting
                 PROVE  /\ Live(t, k) => loop'[<<t, k>>].active
                        /\ ~Live(t, k) => loop'[<<t, k>>] = Abstract!Idle
      BY <1>6 DEF PlacesFit
    <3>1. CASE k = h + 1
      BY <3>1, <1>2, <1>8
    <3>2. CASE k # h + 1
      BY <3>2, <1>3, <1>5 DEF LoopsFit, PlacesFit
    <3> QED BY <3>1, <3>2
  <2>2. BodiesFit(t)'
    <3> SUFFICES ASSUME NEW k \in 1..(h + 1)
                 PROVE  /\ frames'[t][k].pooled =>
                             frames'[t][k].loop = body' /\ (t \in Callers => body' = <<t, k>>)
                        /\ ~frames'[t][k].pooled =>
                             /\ frames'[t][k].loop = <<t, k>>
                             /\ frames'[t][k].index < loop'[<<t, k>>].size
                             /\ loop'[<<t, k>>].started = Below(frames'[t][k].index + 1)
                             /\ loop'[<<t, k>>].finished = Below(frames'[t][k].index)
      BY <1>2 DEF BodiesFit, Reached, Below
    <3>1. CASE k = h + 1
      <4>0. loop[id].started = Below(i) /\ loop[id].finished = Below(i)
        BY <1>1 DEF Reached
      <4>a. Below(i) \cup {i} = Below(i + 1)
        BY BelowFacts
      <4>1. loop'[id].started = Below(i + 1) /\ loop'[id].finished = Below(i)
        BY <1>2, <4>0, <4>a
      <4>2. i < loop'[id].size
        BY <1>1, <1>2 DEF Size
      <4> QED BY <3>1, <4>1, <4>2, <1>2
    <3>2. CASE k # h + 1
      <4>1. k \in 1..h
        BY <3>2, <1>1
      <4> QED BY <4>1, <1>2, <1>3, <1>4 DEF LoopsFit, BodiesFit, Reached
    <3> QED BY <3>1, <3>2
  <2>3. BetweenFits(t)'
    BY <1>2 DEF BetweenFits
  <2> QED BY <2>1, <2>2, <2>3 DEF LoopsFit
<1>10. SamePooled(t)
  <2>1. \A k \in 1..(h + 1) : frames'[t][k].pooled => k \in 1..h
    BY <1>1, <1>2
  <2>2. 1..h \subseteq 1..(h + 1)
    BY <1>1
  <2> QED BY <2>1, <2>2, <1>2 DEF SamePooled
<1>11. RInv'
  <2> HIDE DEF r
  <2> QED BY <1>1, <1>2, <1>9, <1>10, OwnStep
<1>12. Abstract!Next
  <2>1. i \in Below(Size(t)) /\ i \notin Below(i)
    BY <1>1, BelowFacts
  <2>a. i \in Abstract!Indices(loop[id].size) /\ i \notin loop[id].started
    BY <2>1, <1>1 DEF Reached, Size, Below
  <2>2. Abstract!Start(id, i)
    BY <2>a, <1>2, <1>8 DEF Abstract!Start, Abstract!Update
  <2> QED BY <2>a, <2>2, <1>1 DEF Abstract!Next
<1> QED BY <1>11, <1>12

LEMMA SerialStartSteps ==
  ASSUME IInv, RInv, NEW t \in Threads, RunSerially(t) \/ PoolTaken(t) \/ NextSerialIndex(t)
  PROVE  RInv' /\ [Abstract!Next]_loop
<1>1. UNCHANGED <<owner, count, body, next, claimed>>
  BY DEF RunSerially, PoolTaken, NextSerialIndex, SerialBody, shared
<1>2. CASE RunSerially(t) \/ PoolTaken(t)
  <2>1. pc[t] = "run" /\ 0 < Size(t) /\ Enter(t, Place(t), 0, FALSE)
    BY <1>2 DEF RunSerially, PoolTaken, SerialBody
  <2>2. Reached(Place(t), 0, 0)
    BY <2>1 DEF RInv, LoopsFit, BetweenFits
  <2> QED BY <1>1, <2>1, <2>2, SerialStart
<1>3. CASE NextSerialIndex(t)
  <2>1. pc[t] = "serial" /\ claimed[t] < Size(t) /\ Enter(t, Place(t), claimed[t], FALSE)
    BY <1>3 DEF NextSerialIndex
  <2>2. Reached(Place(t), claimed[t], claimed[t]) /\ claimed[t] \in Nat
    BY <2>1, FrameFacts DEF RInv, LoopsFit, BetweenFits
  <2> QED BY <1>1, <2>1, <2>2, SerialStart
<1> QED BY <1>2, <1>3

(***************************************************************************)
(* What the end of a body does, to the frames and to the loop.             *)
(***************************************************************************)
LEMMA LeaveFacts ==
  ASSUME IInv, NEW t \in Threads, pc[t] = "body", frames' = Popped(t), loop' = FinishedIndex(t)
  PROVE  LET h == Len(frames[t])
             id == frames[t][h].loop
             i == frames[t][h].index IN
         /\ h \in 1..MaxNesting /\ Innermost(t) = frames[t][h]
         /\ id \in Loops /\ i \in Nat
         /\ Len(frames'[t]) = h - 1
         /\ \A k \in 1..(h - 1) : frames'[t][k] = frames[t][k]
         /\ \A u \in Threads \ {t} : frames'[u] = frames[u]
         /\ loop' = [loop EXCEPT ![id] = [loop[id] EXCEPT !.finished = loop[id].finished \cup {i}]]
         /\ loop'[id].started = loop[id].started
         /\ loop'[id].finished = loop[id].finished \cup {i}
         /\ loop'[id].size = loop[id].size /\ loop'[id].active = loop[id].active
<1> DEFINE h == Len(frames[t])
           id == frames[t][h].loop
           i == frames[t][h].index
           r == [loop[id] EXCEPT !.finished = loop[id].finished \cup {i}]
<1>1. /\ Len(frames[t]) \in Nat /\ Len(frames'[t]) = Len(frames[t]) - 1 /\ Len(frames[t]) > 0
      /\ \A k \in 1..Len(frames'[t]) : frames'[t][k] = frames[t][k]
      /\ \A u \in Threads \ {t} : frames'[u] = frames[u]
      /\ Innermost(t) = frames[t][Len(frames[t])] /\ Innermost(t) \in Frame
  BY PopFacts
<1>2. h \in 1..MaxNesting
  BY <1>1, FrameFacts
<1>3. id \in Loops /\ i \in Nat
  BY <1>1 DEF Frame
<1>4. loop' = [loop EXCEPT ![id] = r]
  BY <1>1 DEF FinishedIndex
<1>5. loop[id] \in Abstract!LoopType /\ loop \in [Loops -> Abstract!LoopType]
  BY <1>3, LoopFacts
<1>6. /\ r.started = loop[id].started /\ r.finished = loop[id].finished \cup {i}
      /\ r.size = loop[id].size /\ r.active = loop[id].active
  BY <1>5 DEF Abstract!LoopType
<1>7. loop'[id] = r
  BY <1>3, <1>4, <1>5
<1> HIDE DEF r, id, i
<1> QED BY <1>1, <1>2, <1>3, <1>4, <1>6, <1>7 DEF r, id, i

LEMMA SerialEnd ==
  ASSUME IInv, RInv, NEW t \in Threads, EndSerialBody(t)
  PROVE  RInv' /\ [Abstract!Next]_loop
<1> DEFINE h == Len(frames[t])
           id == <<t, h>>
           i == frames[t][h].index
           r == [loop[id] EXCEPT !.finished = loop[id].finished \cup {i}]
<1>1. /\ pc[t] = "body" /\ ~Innermost(t).pooled /\ frames' = Popped(t) /\ loop' = FinishedIndex(t)
      /\ claimed' = [claimed EXCEPT ![t] = Innermost(t).index + 1]
      /\ UNCHANGED <<owner, count, body, next>>
  BY DEF EndSerialBody, shared
<1>2. pc'[t] = "serial" /\ \A u \in Threads \ {t} : pc'[u] = pc[u]
  BY GotoFacts DEF EndSerialBody, Labels
<1>3. /\ h \in 1..MaxNesting /\ Innermost(t) = frames[t][h]
      /\ i \in Nat
      /\ Len(frames'[t]) = h - 1
      /\ \A k \in 1..(h - 1) : frames'[t][k] = frames[t][k]
      /\ \A u \in Threads \ {t} : frames'[u] = frames[u]
  BY <1>1, LeaveFacts
<1>4. LoopsFit(t) /\ ~frames[t][h].pooled /\ h \in Nat /\ MaxNesting \in Nat
  BY <1>1, <1>3, BoundsAssumption DEF RInv
<1>5. /\ frames[t][h].loop = id /\ i < loop[id].size
      /\ loop[id].started = Below(i + 1) /\ loop[id].finished = Below(i)
  BY <1>3, <1>4 DEF LoopsFit, BodiesFit, Reached
<1>6. /\ id \in Loops /\ loop' = [loop EXCEPT ![id] = r]
      /\ loop'[id].started = loop[id].started
      /\ loop'[id].finished = loop[id].finished \cup {i}
      /\ loop'[id].size = loop[id].size /\ loop'[id].active = loop[id].active
  BY <1>1, <1>5, LeaveFacts
<1>7. claimed'[t] = i + 1 /\ \A u \in Threads \ {t} : claimed'[u] = claimed[u]
  BY <1>1, <1>3 DEF IInv, TypeOK
<1>8. \A k \in 1..MaxNesting : k # h => loop'[<<t, k>>] = loop[<<t, k>>]
  <2> HIDE DEF r
  <2> QED BY <1>6, FrameFacts DEF IInv, TypeOK
<1>9. \A k \in 1..MaxNesting : Live(t, k)' <=> Live(t, k)
  BY <1>1, <1>2, <1>3 DEF Live, Calling
<1>10. Live(t, h) /\ loop[id].active
  <2>1. t \in Workers => frames[t][1].pooled
    BY <1>1 DEF IInv, Fits, RoleFits, InBody
  <2>2. t \in Callers \/ h > 1
    BY <2>1, <1>3, <1>4 DEF Threads
  <2>3. Live(t, h)
    BY <2>2, <1>3 DEF Live
  <2> QED BY <2>3, <1>3, <1>4 DEF LoopsFit, PlacesFit
<1>11. LoopsFit(t)'
  <2>1. PlacesFit(t)'
    <3> SUFFICES ASSUME NEW k \in 1..MaxNesting
                 PROVE  /\ Live(t, k) => loop'[<<t, k>>].active
                        /\ ~Live(t, k) => loop'[<<t, k>>] = Abstract!Idle
      BY <1>9 DEF PlacesFit
    <3>1. CASE k = h
      BY <3>1, <1>6, <1>10
    <3>2. CASE k # h
      BY <3>2, <1>4, <1>8 DEF LoopsFit, PlacesFit
    <3> QED BY <3>1, <3>2
  <2>2. BodiesFit(t)'
    <3>1. \A k \in 1..(h - 1) : k \in 1..h /\ k \in 1..MaxNesting /\ k # h
      BY <1>3, <1>4
    <3>2. \A k \in 1..(h - 1) : loop'[<<t, k>>] = loop[<<t, k>>] /\ frames'[t][k] = frames[t][k]
      BY <3>1, <1>3, <1>8
    <3>3. BodiesFit(t) /\ body' = body /\ Len(frames'[t]) = h - 1 /\ Len(frames[t]) = h
      BY <1>1, <1>3, <1>4 DEF LoopsFit
    <3> QED BY <3>1, <3>2, <3>3 DEF BodiesFit, Reached
  <2>3. BetweenFits(t)'
    <3>1. Place(t)' = id
      BY <1>3 DEF Place
    <3>2. i + 1 <= loop'[id].size
      BY <1>3, <1>5, <1>6, LoopFacts
    <3>3. loop'[id].started = Below(i + 1) /\ loop'[id].finished = Below(i + 1)
      BY <1>3, <1>5, <1>6, BelowFacts
    <3> QED BY <3>1, <3>2, <3>3, <1>2, <1>7 DEF BetweenFits, Reached, Size, Below
  <2> QED BY <2>1, <2>2, <2>3 DEF LoopsFit
<1>12. SamePooled(t)
  <2>1. \A k \in 1..h : frames[t][k].pooled => k \in 1..(h - 1)
    BY <1>3, <1>4
  <2>2. 1..(h - 1) \subseteq 1..h
    BY <1>3, <1>4
  <2> QED BY <2>1, <2>2, <1>3 DEF SamePooled
<1>13. RInv'
  <2>1. h \in 1..Len(frames[t]) /\ pc[t] = "body" /\ pc'[t] = "serial"
    BY <1>1, <1>2, <1>3, <1>4
  <2>2. loop' = [loop EXCEPT ![<<t, h>>] = r]
    BY <1>6
  <2>3. \A u \in Threads \ {t} :
          pc'[u] = pc[u] /\ frames'[u] = frames[u] /\ claimed'[u] = claimed[u]
    BY <1>2, <1>3, <1>7
  <2> HIDE DEF r
  <2> QED BY <2>1, <2>2, <2>3, <1>1, <1>3, <1>4, <1>11, <1>12, OwnStep
<1>14. Abstract!Next
  <2>1. i \in Below(i + 1) /\ i \notin Below(i) /\ i \in Below(loop[id].size)
    <3>1. \A n \in Nat : i \in Below(n) <=> i < n
      BY <1>3, BelowFacts
    <3>2. i < loop[id].size /\ loop[id].size \in Nat /\ i + 1 \in Nat /\ i \in Nat
      BY <1>3, <1>5, <1>6, LoopFacts
    <3> HIDE DEF i, id
    <3> QED BY <3>1, <3>2
  <2>2. i \in Abstract!Indices(loop[id].size) /\ i \in loop[id].started \ loop[id].finished
    BY <2>1, <1>5, <1>6, LoopFacts DEF Below
  <2>3. Abstract!Finish(id, i)
    BY <2>2, <1>6, <1>10 DEF Abstract!Finish, Abstract!Update
  <2> QED BY <2>2, <2>3, <1>6 DEF Abstract!Next
<1> QED BY <1>13, <1>14

-----------------------------------------------------------------------------
(* Steps in the loop that the pool executes. *)

(***************************************************************************)
(* Another thread does not see what becomes of an index of that loop.      *)
(***************************************************************************)
LEMMA OthersStay ==
  ASSUME IInv, RInv, NEW t \in Threads, NEW r, Running,
         loop' = [loop EXCEPT ![body] = r], loop'[body].active = loop[body].active,
         body' = body, NEW u \in Threads \ {t},
         pc'[u] = pc[u], frames'[u] = frames[u], claimed'[u] = claimed[u]
  PROVE  LoopsFit(u)'
<1>1. \A k \in 1..MaxNesting : <<u, k>> # body => loop'[<<u, k>>] = loop[<<u, k>>]
  BY FrameFacts DEF IInv, TypeOK
<1>2. loop'[body].active
  BY BodyFacts
<1> QED BY <1>1, <1>2, StayingFits

(***************************************************************************)
(* drain begins the body of the index that the thread has taken.           *)
(***************************************************************************)
LEMMA ExecuteStep ==
  ASSUME IInv, RInv, NEW t \in Threads, ExecuteIndex(t)
  PROVE  RInv' /\ [Abstract!Next]_loop
<1> DEFINE h == Len(frames[t])
           i == claimed[t]
           r == [loop[body] EXCEPT !.started = loop[body].started \cup {i}]
<1>1. /\ pc[t] = "test" /\ i < count /\ Enter(t, body, i, TRUE)
      /\ UNCHANGED <<owner, count, body, next, claimed>>
  BY DEF ExecuteIndex, shared
<1>2. /\ Running /\ OwnersPlace /\ ProgressFits /\ ClaimsFit
      /\ owner \in Callers /\ owner \in Threads /\ body \in Loops /\ loop[body].active
      /\ t \in Callers => owner = t
  BY <1>1, DrainingIsRunning, BodyFacts DEF RInv, PoolFits
<1>3. i \in Nat /\ count \in Nat /\ next \in Nat /\ h \in Nat /\ MaxNesting \in Nat /\ h + 1 \in 1..MaxNesting
  BY <1>1, FrameFacts, BoundsAssumption DEF IInv, TypeOK, Fits, FramesFit, Placed
<1>4. /\ Len(frames'[t]) = h + 1
      /\ \A k \in 1..h : frames'[t][k] = frames[t][k]
      /\ frames'[t][h + 1].loop = body /\ frames'[t][h + 1].index = i
      /\ frames'[t][h + 1].pooled = TRUE
      /\ pc'[t] = "body"
      /\ \A u \in Threads \ {t} : frames'[u] = frames[u] /\ pc'[u] = pc[u]
      /\ loop' = [loop EXCEPT ![body] = r]
      /\ loop'[body].started = loop[body].started \cup {i}
      /\ loop'[body].finished = loop[body].finished
      /\ loop'[body].size = loop[body].size /\ loop'[body].active = loop[body].active
  <2>1. i \in Nat /\ TRUE \in BOOLEAN /\ body \in Loops
    BY <1>2, <1>3
  <2> HIDE DEF i
  <2> QED BY <2>1, <1>1, EntryFacts
<1> HIDE DEF r
<1>5. ASSUME NEW u \in Threads \ {t} PROVE LoopsFit(u)'
  BY <1>1, <1>2, <1>4, OthersStay
<1>6. \A k \in 1..h : ~frames[t][k].pooled
  BY <1>1 DEF IInv, Fits, MarkFits, Inside, InBody
<1>7. t \in Callers => body = <<t, h + 1>>
  BY <1>2, <1>6 DEF OwnersPlace, Place
<1>8. t \notin Callers => h = 0
  <2>1. t \in Workers => frames[t] = <<>>
    BY <1>1 DEF IInv, Fits, RoleFits
  <2>2. Len(<<>>) = 0
    BY EmptySeq
  <2> QED BY <2>1, <2>2 DEF Threads
<1>9. \A k \in 1..MaxNesting : <<t, k>> # body => loop'[<<t, k>>] = loop[<<t, k>>]
  BY <1>4, FrameFacts DEF IInv, TypeOK
<1>10. LoopsFit(t)'
  <2>1. LoopsFit(t)
    BY DEF RInv
  <2>2. \A k \in 1..MaxNesting : Live(t, k)' <=> Live(t, k)
    BY <1>1, <1>3, <1>4, <1>8 DEF Live, Calling
  <2>3. PlacesFit(t)'
    <3> SUFFICES ASSUME NEW k \in 1..MaxNesting
                 PROVE  /\ Live(t, k) => loop'[<<t, k>>].active
                        /\ ~Live(t, k) => loop'[<<t, k>>] = Abstract!Idle
      BY <2>2 DEF PlacesFit
    <3>1. CASE <<t, k>> = body
      <4>1. Live(t, k)
        BY <3>1, <1>2, <2>1 DEF LoopsFit, PlacesFit, Abstract!Idle
      <4> QED BY <4>1, <3>1, <1>2, <1>4
    <3>2. CASE <<t, k>> # body
      BY <3>2, <1>9, <2>1 DEF LoopsFit, PlacesFit
    <3> QED BY <3>1, <3>2
  <2>4. BodiesFit(t)'
    <3> SUFFICES ASSUME NEW k \in 1..(h + 1)
                 PROVE  /\ frames'[t][k].pooled =>
                             frames'[t][k].loop = body /\ (t \in Callers => body = <<t, k>>)
                        /\ ~frames'[t][k].pooled =>
                             /\ frames'[t][k].loop = <<t, k>>
                             /\ frames'[t][k].index < loop'[<<t, k>>].size
                             /\ loop'[<<t, k>>].started = Below(frames'[t][k].index + 1)
                             /\ loop'[<<t, k>>].finished = Below(frames'[t][k].index)
      BY <1>1, <1>4 DEF BodiesFit, Reached, Below
    <3>1. CASE k = h + 1
      BY <3>1, <1>4, <1>7
    <3>2. CASE k # h + 1
      <4>1. k \in 1..h /\ k \in 1..MaxNesting
        BY <3>2, <1>3
      <4>2. <<t, k>> # body
        BY <4>1, <1>3, <1>7, <1>8
      <4> QED BY <4>1, <4>2, <1>4, <1>6, <1>9, <2>1 DEF LoopsFit, BodiesFit, Reached
    <3> QED BY <3>1, <3>2
  <2>5. BetweenFits(t)'
    BY <1>4 DEF BetweenFits
  <2> QED BY <2>3, <2>4, <2>5 DEF LoopsFit
<1>11. /\ Testing(t) = {i} /\ Testing(t)' = {} /\ Executing(t) = {} /\ Executing(t)' = {i}
       /\ \A u \in Threads \ {t} : Testing(u)' = Testing(u) /\ Executing(u)' = Executing(u)
  <2>1. Testing(t) = {i} /\ Testing(t)' = {}
    BY <1>1, <1>4 DEF Testing
  <2>2. Executing(t) = {}
    BY <1>6 DEF Executing
  <2>3. Executing(t)' = {i}
    <3>a. h + 1 \in 1..(h + 1) /\ \A j \in 1..(h + 1) : j # h + 1 => j \in 1..h
      BY <1>3
    <3>b. \A j \in 1..(h + 1) : frames'[t][j].pooled <=> j = h + 1
      BY <3>a, <1>4, <1>6
    <3>1. {j \in 1..(h + 1) : frames'[t][j].pooled} = {h + 1}
      BY <3>a, <3>b
    <3>2. Executing(t)' = {frames'[t][k].index : k \in {h + 1}}
      BY <3>1, <1>4 DEF Executing
    <3> QED BY <3>2, <1>4
  <2> HIDE DEF i
  <2>4. \A u \in Threads \ {t} : Testing(u)' = Testing(u) /\ Executing(u)' = Executing(u)
    BY <1>1, <1>4 DEF Testing, Executing
  <2> QED BY <2>1, <2>2, <2>3, <2>4
<1>12. i \in Below(count) /\ i < next /\ i \notin Begun
  <2>1. i \in Below(count)
    BY <1>1, <1>3, BelowFacts
  <2>2. i < next /\ i \notin Begun
    BY <1>2, <1>11 DEF ClaimsFit, Begun
  <2> QED BY <2>1, <2>2
<1>13. Begun' = Begun \cup {i}
  <2>1. Below(count)' = Below(count) /\ next' = next
    BY <1>1
  <2>2. \A u \in Threads \ {t} : i \notin Testing(u)
    BY <1>2, <1>11 DEF ClaimsFit
  <2> HIDE DEF i
  <2>3. \A j : (\A u \in Threads : j \notin Testing(u)') <=>
                 (j = i \/ \A u \in Threads : j \notin Testing(u))
    BY <2>2, <1>11
  <2> QED BY <2>1, <2>3, <1>12 DEF Begun
<1> HIDE DEF i
<1>14. OwnersPlace'
  <2>1. CASE owner = t
    <3>1. h + 1 \in 1..Len(frames'[t]) /\ frames'[t][h + 1].pooled /\ body = <<t, h + 1>>
      BY <2>1, <1>2, <1>3, <1>4, <1>7
    <3> QED BY <3>1, <2>1, <1>1 DEF OwnersPlace
  <2>2. CASE owner # t
    <3>1. Place(owner)' = Place(owner)
      BY <2>2, <1>1, <1>2, <1>4 DEF Place
    <3> QED BY <2>2, <3>1, <1>1, <1>2, <1>4 DEF OwnersPlace
  <2> QED BY <2>1, <2>2
<1>15. ProgressFits'
  <2>1. pc'[owner] = "await" => count <= next
    BY <1>2, <1>4 DEF ProgressFits
  <2>2. \A j \in Begun : (\A u \in Threads : j \notin Executing(u)') <=>
                           (\A u \in Threads : j \notin Executing(u))
    BY <1>11, <1>12
  <2>3. {j \in Begun \cup {i} : \A u \in Threads : j \notin Executing(u)'}
          = {j \in Begun : \A u \in Threads : j \notin Executing(u)}
    BY <2>2, <1>11
  <2> QED BY <2>1, <2>3, <1>1, <1>2, <1>4, <1>13 DEF ProgressFits
<1>16. ClaimsFit'
  <2>1. \A u \in Threads : \A j \in Testing(u)' : j < next
    BY <1>2, <1>11 DEF ClaimsFit
  <2>2. \A u \in Threads : Executing(u)' \subseteq Begun'
    BY <1>2, <1>11, <1>13 DEF ClaimsFit
  <2>3. \A u \in Threads : i \notin Executing(u)
    BY <1>2, <1>12 DEF ClaimsFit
  <2>4. \A u, v \in Threads : u # v =>
          Testing(u)' \cap Testing(v)' = {} /\ Executing(u)' \cap Executing(v)' = {}
    BY <2>3, <1>2, <1>11 DEF ClaimsFit
  <2> QED BY <2>1, <2>2, <2>4, <1>1 DEF ClaimsFit
<1>17. Abstract!Next
  <2>1. i \in Abstract!Indices(loop[body].size) /\ i \notin loop[body].started
    BY <1>2, <1>12 DEF ProgressFits, Below
  <2>2. Abstract!Start(body, i)
    BY <2>1, <1>2, <1>4 DEF Abstract!Start, Abstract!Update, r
  <2> QED BY <2>1, <2>2, <1>2 DEF Abstract!Next
<1> QED BY <1>5, <1>10, <1>14, <1>15, <1>16, <1>17 DEF RInv, PoolFits

(***************************************************************************)
(* The body of an index ends, and its thread goes back to drain.           *)
(***************************************************************************)
LEMMA PooledEnd ==
  ASSUME IInv, RInv, NEW t \in Threads, EndPooledBody(t)
  PROVE  RInv' /\ [Abstract!Next]_loop
<1> DEFINE h == Len(frames[t])
           i == frames[t][h].index
           r == [loop[body] EXCEPT !.finished = loop[body].finished \cup {i}]
<1>1. /\ pc[t] = "body" /\ Innermost(t).pooled /\ frames' = Popped(t) /\ loop' = FinishedIndex(t)
      /\ UNCHANGED <<owner, count, body, next, claimed>>
  BY DEF EndPooledBody, shared
<1>2. pc'[t] = "drain" /\ \A u \in Threads \ {t} : pc'[u] = pc[u]
  BY GotoFacts DEF EndPooledBody, Labels
<1>3. /\ h \in 1..MaxNesting /\ Innermost(t) = frames[t][h]
      /\ i \in Nat
      /\ Len(frames'[t]) = h - 1
      /\ \A k \in 1..(h - 1) : frames'[t][k] = frames[t][k]
      /\ \A u \in Threads \ {t} : frames'[u] = frames[u]
  BY <1>1, LeaveFacts
<1>4. LoopsFit(t) /\ frames[t][h].pooled /\ h \in Nat /\ MaxNesting \in Nat /\ h \in 1..h
  BY <1>1, <1>3, BoundsAssumption DEF RInv
<1>5. frames[t][h].loop = body /\ (t \in Callers => body = <<t, h>>)
  BY <1>4 DEF LoopsFit, BodiesFit
<1>6. /\ body \in Loops /\ loop' = [loop EXCEPT ![body] = r]
      /\ loop'[body].started = loop[body].started
      /\ loop'[body].finished = loop[body].finished \cup {i}
      /\ loop'[body].size = loop[body].size /\ loop'[body].active = loop[body].active
  BY <1>1, <1>5, LeaveFacts
<1> HIDE DEF r
<1>7. Inside(t)
  BY <1>4 DEF Inside
<1>8. /\ Running /\ OwnersPlace /\ ProgressFits /\ ClaimsFit
      /\ owner \in Callers /\ owner \in Threads /\ loop[body].active
      /\ t \in Callers => owner = t
  BY <1>7, DrainingIsRunning, BodyFacts DEF RInv, PoolFits
<1>9. ASSUME NEW u \in Threads \ {t} PROVE LoopsFit(u)'
  BY <1>1, <1>2, <1>3, <1>6, <1>8, OthersStay
<1>10. \A k \in 1..(h - 1) : ~frames[t][k].pooled
  <2>1. \A k \in 1..(h - 1) : k \in 1..h /\ k # h
    BY <1>4
  <2> QED BY <2>1, <1>4 DEF IInv, Fits, MarkFits
<1>11. t \notin Callers => h = 1
  <2>1. t \in Workers => frames[t][1].pooled
    BY <1>1 DEF IInv, Fits, RoleFits, InBody
  <2>2. h # 1 => 1 \in 1..(h - 1)
    <3>1. h \in Nat /\ h >= 1
      BY <1>4
    <3> HIDE DEF h
    <3> QED BY <3>1
  <2>3. h # 1 => ~frames[t][1].pooled
    BY <2>2, <1>10, Zenon
  <2> QED BY <2>1, <2>3, Zenon DEF Threads
<1>12. \A k \in 1..MaxNesting : <<t, k>> # body => loop'[<<t, k>>] = loop[<<t, k>>]
  BY <1>6, FrameFacts DEF IInv, TypeOK
<1>13. LoopsFit(t)'
  <2>1. \A k \in 1..MaxNesting : Live(t, k)' <=> Live(t, k)
    BY <1>1, <1>2, <1>3, <1>4, <1>11 DEF Live, Calling
  <2>2. PlacesFit(t)'
    <3> SUFFICES ASSUME NEW k \in 1..MaxNesting
                 PROVE  /\ Live(t, k) => loop'[<<t, k>>].active
                        /\ ~Live(t, k) => loop'[<<t, k>>] = Abstract!Idle
      BY <2>1 DEF PlacesFit
    <3>1. CASE <<t, k>> = body
      <4>1. Live(t, k)
        BY <3>1, <1>4, <1>8 DEF LoopsFit, PlacesFit, Abstract!Idle
      <4> QED BY <4>1, <3>1, <1>6, <1>8
    <3>2. CASE <<t, k>> # body
      BY <3>2, <1>4, <1>12 DEF LoopsFit, PlacesFit
    <3> QED BY <3>1, <3>2
  <2>3. BodiesFit(t)'
    <3>1. \A k \in 1..(h - 1) : k \in 1..h /\ k \in 1..MaxNesting /\ k # h
      BY <1>3, <1>4
    <3>2. \A k \in 1..(h - 1) : <<t, k>> # body
      BY <3>1, <1>5, <1>11
    <3>3. \A k \in 1..(h - 1) : loop'[<<t, k>>] = loop[<<t, k>>] /\ frames'[t][k] = frames[t][k]
      BY <3>1, <3>2, <1>3, <1>12
    <3> QED BY <3>1, <3>3, <1>3, <1>4, <1>10 DEF LoopsFit, BodiesFit, Reached
  <2>4. BetweenFits(t)'
    BY <1>2 DEF BetweenFits
  <2> QED BY <2>2, <2>3, <2>4 DEF LoopsFit
<1>14. /\ \A u \in Threads : Testing(u)' = Testing(u)
       /\ Executing(t) = {i} /\ Executing(t)' = {}
       /\ \A u \in Threads \ {t} : Executing(u)' = Executing(u)
  <2>1. \A u \in Threads : Testing(u)' = Testing(u)
    BY <1>1, <1>2 DEF Testing
  <2>2. {j \in 1..h : frames[t][j].pooled} = {h}
    BY <1>3, <1>4, <1>10
  <2>3. Executing(t) = {frames[t][k].index : k \in {h}}
    BY <2>2 DEF Executing
  <2>4. Executing(t) = {i}
    BY <2>3
  <2>5. Executing(t)' = {}
    BY <1>3, <1>10 DEF Executing
  <2>6. \A u \in Threads \ {t} : Executing(u)' = Executing(u)
    BY <1>3 DEF Executing
  <2> QED BY <2>1, <2>4, <2>5, <2>6
<1> HIDE DEF i
<1>15. Begun' = Begun
  BY <1>1, <1>14 DEF Begun
<1>16. i \in Begun /\ \A u \in Threads \ {t} : i \notin Executing(u)
  BY <1>8, <1>14 DEF ClaimsFit
<1>17. OwnersPlace'
  <2>1. CASE owner = t
    <3>1. Place(t)' = <<t, h>>
      BY <1>3, <1>4 DEF Place
    <3> QED BY <2>1, <3>1, <1>1, <1>2, <1>5, <1>8 DEF OwnersPlace
  <2>2. CASE owner # t
    <3>1. Place(owner)' = Place(owner)
      BY <2>2, <1>1, <1>3, <1>8 DEF Place
    <3> QED BY <2>2, <3>1, <1>1, <1>2, <1>3, <1>8 DEF OwnersPlace
  <2> QED BY <2>1, <2>2
<1>18. ProgressFits'
  <2>1. pc'[owner] = "await" => count <= next
    BY <1>2, <1>8 DEF ProgressFits
  <2>2. \A j \in Begun : (\A u \in Threads : j \notin Executing(u)') <=>
                           (j = i \/ \A u \in Threads : j \notin Executing(u))
    BY <1>14, <1>16
  <2>3. {j \in Begun : \A u \in Threads : j \notin Executing(u)'}
          = {j \in Begun : \A u \in Threads : j \notin Executing(u)} \cup {i}
    BY <2>2, <1>16
  <2> QED BY <2>1, <2>3, <1>1, <1>6, <1>8, <1>15 DEF ProgressFits
<1>19. ClaimsFit'
  <2>1. \A u \in Threads : Executing(u)' \subseteq Executing(u)
    BY <1>14
  <2> QED BY <2>1, <1>1, <1>8, <1>14, <1>15 DEF ClaimsFit
<1>20. Abstract!Next
  <2>1. i \in Abstract!Indices(loop[body].size) /\ i \in loop[body].started \ loop[body].finished
    BY <1>8, <1>14, <1>16 DEF ProgressFits, Begun, Below
  <2>2. Abstract!Finish(body, i)
    BY <2>1, <1>6, <1>8 DEF Abstract!Finish, Abstract!Update, r
  <2> QED BY <2>1, <2>2, <1>6 DEF Abstract!Next
<1> QED BY <1>9, <1>13, <1>17, <1>18, <1>19, <1>20 DEF RInv, PoolFits

-----------------------------------------------------------------------------
(* The whole system. *)

LEMMA InitRefines == Init => RInv /\ Abstract!Init
<1> SUFFICES ASSUME Init PROVE RInv /\ Abstract!Init
  OBVIOUS
<1>1. /\ \A t \in Threads : frames[t] = <<>> /\ pc[t] \in {"idle", "unborn"}
      /\ loop = [id \in Loops |-> Abstract!Idle] /\ owner = None
  BY DEF Init
<1>2. Len(<<>>) = 0
  BY EmptySeq
<1>3. ASSUME NEW t \in Threads PROVE LoopsFit(t)
  <2>1. Len(frames[t]) = 0
    BY <1>1, <1>2
  <2>2. \A k \in 1..MaxNesting : ~Live(t, k) /\ loop[<<t, k>>] = Abstract!Idle
    BY <1>1, <2>1 DEF Live, Calling, Loops
  <2> QED BY <1>1, <2>1, <2>2 DEF LoopsFit, PlacesFit, BodiesFit, BetweenFits
<1>4. PoolFits
  BY <1>1 DEF PoolFits, Running
<1> QED BY <1>1, <1>3, <1>4 DEF RInv, Abstract!Init

LEMMA StepRefines ==
  ASSUME IInv, RInv, NEW t \in Threads, Step(t)
  PROVE  RInv' /\ [Abstract!Next]_loop
<1>1. CASE CallLoop(t) \/ CallNested(t)
  BY <1>1, CallLoopStep, CallNestedStep
<1>2. CASE NothingToDo(t) \/ EndSerialLoop(t)
  BY <1>2, SerialReturn
<1>3. CASE RunSerially(t) \/ PoolTaken(t) \/ NextSerialIndex(t)
  BY <1>3, SerialStartSteps
<1>4. CASE EndSerialBody(t)
  BY <1>4, SerialEnd
<1>5. CASE MakePool(t) \/ TakePool(t)
  BY <1>5, MakePoolKeeps, TakePoolKeeps
<1>6. CASE Publish(t) \/ WakeWorkers(t)
  BY <1>6, PublishKeeps, WakeWorkersKeeps
<1>7. CASE Await(t)
  BY <1>7, AwaitStep
<1>8. CASE Claim(t) \/ NoIndexLeft(t)
  BY <1>8, ClaimKeeps, NoIndexLeftKeeps
<1>9. CASE ExecuteIndex(t) \/ EndPooledBody(t)
  BY <1>9, ExecuteStep, PooledEnd
<1>10. CASE Look(t) \/ Checkout(t) \/ Signal(t)
  BY <1>10, WorkerKeeps
<1>11. CASE ExitStep(t)
  BY <1>11, ExitKeepsLoops
<1> QED
  BY <1>1, <1>2, <1>3, <1>4, <1>5, <1>6, <1>7, <1>8, <1>9, <1>10, <1>11
  DEF Step, RunStep, PoolStep

LEMMA NextRefines ==
  ASSUME IInv, RInv, [Next]_vars
  PROVE  RInv' /\ [Abstract!Next]_loop
<1>1. CASE \E t \in Threads : Step(t)
  BY <1>1, StepRefines
<1>2. CASE UNCHANGED vars
  <2>1. UNCHANGED <<owner, body, count, next, claimed, frames, loop, pc>>
    BY <1>2 DEF vars, shared, local
  <2> QED BY <2>1, QuietStep
<1> QED BY <1>1, <1>2 DEF Next, Finished

(***************************************************************************)
(* par::run with its pool, its serial fallback and its nested calls does   *)
(* what par::for_each_index promises, for every number of callers, workers *)
(* and indices and every depth of calls: no index is executed twice, none  *)
(* after the call has returned, and none is missing when it returns.       *)
(***************************************************************************)
THEOREM PoolImplementsLoops == Spec => ImplementsLoops
<1>1. Init => RInv /\ Abstract!Init
  BY InitRefines
<1>2. IInv /\ RInv /\ [Next]_vars => RInv' /\ [Abstract!Next]_loop
  BY NextRefines
<1> QED BY <1>1, <1>2, Invariance, PTL DEF Spec, ImplementsLoops, Abstract!Spec
=============================================================================
