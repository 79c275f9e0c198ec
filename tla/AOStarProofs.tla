--------------------------- MODULE AOStarProofs ----------------------------
(***************************************************************************)
(* Proofs about AOStar for every set of states, every task and every depth *)
(* limit: types, the correctness of the two memos, that deepening is       *)
(* exact, and that an exhausted search without sensing is a proof.         *)
(***************************************************************************)
EXTENDS AOStar, SequenceTheorems, FiniteSetTheorems, WellFoundedInduction, TLAPS

-----------------------------------------------------------------------------
(* Facts about the reference: what a policy of height k consists of. *)

(***************************************************************************)
(* The table of heights holds positive numbers.                            *)
(***************************************************************************)
LEMMA HeightsType ==
  ASSUME NEW t \in Tasks, NEW s \in State, NEW r \in Heights(t, s)
  PROVE  r \in Nat \ {0}
<1>1. PICK p \in Policies(t) : s \in DOMAIN p /\ r = p[s]
  BY HeightsAssumption DEF PolicyHeights
<1>2. PICK D \in SUBSET (State \ Goal(t)) : p \in [D -> Rank]
  BY DEF Policies
<1> QED BY <1>1, <1>2, RankAssumption

(***************************************************************************)
(* A policy of height k is one of any greater height, which is why aostar  *)
(* may replay a refutation at a smaller depth.                             *)
(***************************************************************************)
LEMMA WithinMonotone ==
  ASSUME NEW t \in Tasks, NEW s \in State, NEW k \in Nat, NEW m \in Nat, k <= m,
         SolvableWithin(t, s, k)
  PROVE  SolvableWithin(t, s, m)
BY HeightsType DEF SolvableWithin

(***************************************************************************)
(* Nothing but a goal is solved without an action.                         *)
(***************************************************************************)
LEMMA NothingWithinZero ==
  ASSUME NEW t \in Tasks, NEW s \in State, s \notin Goal(t)
  PROVE  ~SolvableWithin(t, s, 0)
BY HeightsType DEF SolvableWithin

(***************************************************************************)
(* If a state that is not a goal has a policy of height k, then one of the *)
(* candidates of expand has a policy of height k - 1 for every outcome.    *)
(* The candidate is not one that expand drops, because dead ends have no   *)
(* policy.                                                                 *)
(***************************************************************************)
LEMMA PolicyStep ==
  ASSUME NEW t \in Tasks, NEW s \in State, NEW k \in Nat,
         s \notin Goal(t), SolvableWithin(t, s, k)
  PROVE  \E a \in Candidates(t, s) :
           \A j \in DOMAIN Actions(t, s)[a] :
             SolvableWithin(t, Actions(t, s)[a][j], k - 1)
<1>1. PICK p \in Policies(t) : s \in DOMAIN p /\ p[s] <= k
  BY HeightsAssumption DEF SolvableWithin, PolicyHeights
<1>2. PICK D \in SUBSET (State \ Goal(t)) : p \in [D -> Rank]
  BY DEF Policies
<1>3. PICK a \in DOMAIN Actions(t, s) :
        \A j \in DOMAIN Actions(t, s)[a] :
          LET b == Actions(t, s)[a][j] IN
            b \in Goal(t) \/ (b \in DOMAIN p /\ p[b] < p[s])
  BY <1>1 DEF Policies, IsPolicy, Covers
<1>4. ASSUME NEW j \in DOMAIN Actions(t, s)[a]
      PROVE  /\ SolvableWithin(t, Actions(t, s)[a][j], k - 1)
             /\ \/ Actions(t, s)[a][j] \in Goal(t)
                \/ Actions(t, s)[a][j] \notin Graph(t).dead
  <2> DEFINE b == Actions(t, s)[a][j]
  <2>1. CASE b \in Goal(t)
    BY <2>1 DEF SolvableWithin
  <2>2. CASE b \in DOMAIN p /\ p[b] < p[s]
    <3>1. b \in State /\ p[b] \in Nat /\ p[s] \in Nat
      BY <2>2, <1>1, <1>2, RankAssumption
    <3>2. p[b] \in Heights(t, b)
      BY <2>2, <3>1, HeightsAssumption DEF PolicyHeights
    <3>3. p[b] <= k - 1
      BY <3>1, <2>2, <1>1
    <3>4. Solvable(t, b)
      BY <3>2 DEF Solvable
    <3>5. b \notin Graph(t).dead
      BY <3>4, DeadEndAssumption
    <3> QED BY <3>2, <3>3, <3>5 DEF SolvableWithin
  <2> QED BY <1>3, <2>1, <2>2
<1>5. a \in Candidates(t, s)
  BY <1>4 DEF Candidates, Useful
<1> QED BY <1>4, <1>5

-----------------------------------------------------------------------------
(***************************************************************************)
(* The inductive invariant.  The two memo properties are not inductive:    *)
(* what dfs writes into a memo on its way out is right because of what the *)
(* frame has gathered since its way in, so the invariant says what every   *)
(* frame of the path has established about the actions and branches it has *)
(* already been through, and what a returned result promises its caller.   *)
(***************************************************************************)

\* Frame i is waiting for the result of a branch of its current action.
Trying(i) == i < Len(stack) \/ pc \in {"enter", "return"}

\* The memo holds a policy of height h or less for b.
Certified(b, h) ==
  b \in Goal(task) \/ (b \in DOMAIN solved /\ solved[b].height <= h)

\* Some outcome of action a of state s has no policy within depth d.
Hopeless(a, s, d) ==
  \E j \in DOMAIN Actions(task, s)[a] :
    ~SolvableWithin(task, Actions(task, s)[a][j], d)

\* The state of a frame is open: not a goal, and not solved within its depth.
OpenState(f) ==
  /\ f.state \notin Goal(task)
  /\ f.depth >= 1
  /\ f.state \in DOMAIN solved => solved[f.state].height > f.depth

\* The branches of the current action before the current one are solved.
PartlySolved(f) ==
  /\ f.action \in Candidates(task, f.state) \ f.todo
  /\ f.branch \in DOMAIN Branches(f)
  /\ f.height < f.depth
  /\ \A j \in 1..(f.branch - 1) : Certified(Branches(f)[j], f.height)

\* An untainted frame has refuted the actions it is through with.
PartlyRefuted(f, trying) ==
  ~f.tainted =>
    \A a \in Candidates(task, f.state) \ f.todo :
      Hopeless(a, f.state, f.depth - 1) \/ (trying /\ a = f.action)

FrameInv(i) ==
  /\ OpenState(stack[i])
  /\ stack[i].todo \subseteq Candidates(task, stack[i].state)
  /\ Trying(i) => PartlySolved(stack[i])
  /\ PartlyRefuted(stack[i], Trying(i))

FramesInv == \A i \in 1..Len(stack) : FrameInv(i)

\* Calls and frames fit together: each is the branch its caller is trying.
Linked(i) ==
  /\ stack[i + 1].state = Branch(stack[i])
  /\ stack[i + 1].depth = stack[i].depth - 1

PathInv ==
  /\ pc \in {"start", "deepen", "done"} => stack = <<>>
  /\ pc = "choose" => stack # <<>>
  /\ \A i \in 1..(Len(stack) - 1) : Linked(i)
  /\ pc \in {"enter", "return"} =>
       IF stack = <<>> THEN arg = [state |-> Initial(task), depth |-> depth]
       ELSE arg.state = Branch(Top) /\ arg.depth = Top.depth - 1
  /\ stack # <<>> => stack[1].state = Initial(task) /\ stack[1].depth = depth

\* What a returned result promises.
ResultInv ==
  pc = "return" =>
    /\ ret.solved => ret.height <= arg.depth /\ Certified(arg.state, ret.height)
    /\ ~ret.solved /\ ~ret.tainted => ~SolvableWithin(task, arg.state, arg.depth)

IInv ==
  /\ TypeOK
  /\ AncestorsAreThePath
  /\ PathInv
  /\ FramesInv
  /\ ResultInv
  /\ SolvedIsPolicy
  /\ RefutedIsUnsolvable

-----------------------------------------------------------------------------
(* Facts about the graph and the stack that every step needs. *)

(***************************************************************************)
(* What IsGraph says of the branches of a candidate.                       *)
(***************************************************************************)
LEMMA CandidateType ==
  ASSUME NEW t \in Tasks, NEW s \in State, NEW a \in Candidates(t, s)
  PROVE  /\ a \in Nat
         /\ a \in DOMAIN Actions(t, s)
         /\ Len(Actions(t, s)[a]) \in Nat \ {0}
         /\ DOMAIN Actions(t, s)[a] = 1..Len(Actions(t, s)[a])
         /\ \A j \in DOMAIN Actions(t, s)[a] : Actions(t, s)[a][j] \in State
<1>1. Actions(t, s) \in Seq(Seq(State) \ {<<>>})
  BY TaskAssumption DEF IsGraph, Actions
<1>2. DOMAIN Actions(t, s) = 1..Len(Actions(t, s)) /\ Len(Actions(t, s)) \in Nat
  BY <1>1
<1>3. a \in DOMAIN Actions(t, s)
  BY DEF Candidates
<1>4. Actions(t, s)[a] \in Seq(State) \ {<<>>}
  BY <1>1, <1>2, <1>3
<1> QED BY <1>2, <1>3, <1>4

(***************************************************************************)
(* Replacing the top frame, popping it, and pushing a new one.             *)
(***************************************************************************)
LEMMA ReplaceTopType ==
  ASSUME stack \in Seq(Frame), stack # <<>>, NEW f \in Frame
  PROVE  /\ ReplaceTop(f) \in Seq(Frame)
         /\ Len(ReplaceTop(f)) = Len(stack)
         /\ \A i \in 1..Len(stack) :
              ReplaceTop(f)[i] = IF i = Len(stack) THEN f ELSE stack[i]
<1>1. Len(stack) \in 1..Len(stack)
  BY EmptySeq
<1> QED BY <1>1, ExceptSeq DEF ReplaceTop

LEMMA BelowType ==
  ASSUME stack \in Seq(Frame), stack # <<>>
  PROVE  /\ Below \in Seq(Frame)
         /\ Len(Below) = Len(stack) - 1
         /\ \A i \in 1..(Len(stack) - 1) : Below[i] = stack[i]
<1>1. Len(stack) \in Nat \ {0}
  BY EmptySeq
<1>2. \A i \in 1..(Len(stack) - 1) : stack[i] \in Frame
  BY <1>1, ElementOfSeq
<1> DEFINE n == Len(stack) - 1
<1> n \in Nat
  BY <1>1
<1> HIDE DEF n
<1>3. /\ SubSeq(stack, 1, n) \in Seq(Frame)
      /\ Len(SubSeq(stack, 1, n)) = IF 1 <= n THEN n - 1 + 1 ELSE 0
      /\ \A i \in 1..(n - 1 + 1) : SubSeq(stack, 1, n)[i] = stack[1 + i - 1]
  <2>1. \A i \in 1..n : stack[i] \in Frame
    BY <1>2 DEF n
  <2> QED BY <2>1, SubSeqProperties
<1>4. /\ Len(SubSeq(stack, 1, n)) = n
      /\ \A i \in 1..n : SubSeq(stack, 1, n)[i] = stack[i]
  BY <1>3
<1> QED BY <1>3, <1>4 DEF Below, n

LEMMA TopType ==
  ASSUME stack \in Seq(Frame), stack # <<>>
  PROVE  /\ Len(stack) \in Nat \ {0}
         /\ Len(stack) \in 1..Len(stack)
         /\ Top \in Frame
         /\ Top = stack[Len(stack)]
<1>1. Len(stack) \in Nat \ {0}
  BY EmptySeq
<1> QED BY <1>1, ElementOfSeq DEF Top

(***************************************************************************)
(* The two shapes of a DfsResult.                                          *)
(***************************************************************************)
LEMMA ResultType ==
  /\ \A h \in Nat : Success(h) \in [solved : BOOLEAN, height : Nat, tainted : BOOLEAN]
  /\ \A b \in BOOLEAN : Failure(b) \in [solved : BOOLEAN, height : Nat, tainted : BOOLEAN]
  /\ Failure(TRUE) \in [solved : BOOLEAN, height : Nat, tainted : BOOLEAN]
  /\ Failure(FALSE) \in [solved : BOOLEAN, height : Nat, tainted : BOOLEAN]
BY DEF Success, Failure

-----------------------------------------------------------------------------
(* The steps that leave the memos, the ancestors and the stack alone. *)

(***************************************************************************)
(* Such a step only has to keep the path and the result in order.          *)
(***************************************************************************)
LEMMA QuietStep ==
  ASSUME IInv, UNCHANGED <<task, solved, failed_upto, stack, ancestors>>,
         TypeOK', PathInv', ResultInv',
         \/ stack = <<>>
         \/ pc' = pc
         \/ pc \in {"enter", "return"} /\ pc' \in {"enter", "return"}
  PROVE  IInv'
<1> USE DEF IInv
<1>1. AncestorsAreThePath'
  BY DEF AncestorsAreThePath
<1>2. FramesInv'
  <2> SUFFICES ASSUME NEW i \in 1..Len(stack)
               PROVE  FrameInv(i)'
    BY DEF FramesInv
  <2>1. stack # <<>>
    BY EmptySeq DEF TypeOK
  <2>2. Trying(i)' = Trying(i)
    BY <2>1 DEF Trying
  <2>3. FrameInv(i)
    BY DEF FramesInv
  <2> QED BY <2>2, <2>3 DEF FrameInv, OpenState, PartlySolved, PartlyRefuted,
                           Certified, Hopeless, Branches
<1>3. SolvedIsPolicy'
  BY DEF SolvedIsPolicy
<1>4. RefutedIsUnsolvable'
  BY DEF RefutedIsUnsolvable
<1> QED BY <1>1, <1>2, <1>3, <1>4

(***************************************************************************)
(* The deepening loop: the path is empty, and Deepen's clear of the        *)
(* ancestors clears nothing.                                               *)
(***************************************************************************)
LEMMA DeepeningStep ==
  ASSUME IInv, Deepening
  PROVE  IInv'
<1> USE DEF IInv
<1>1. stack = <<>> /\ UNCHANGED <<task, solved, failed_upto, stack>>
  BY DEF Deepening, AlreadyAtGoal, Start, GiveUpLate, GiveUpDeep, Deepen,
         FinishSolved, FinishExhausted, NextDepth, Stop, context, PathInv
<1>2. ancestors = {}
  BY <1>1, EmptySeq DEF AncestorsAreThePath, TypeOK
<1>3. UNCHANGED ancestors
  BY <1>2 DEF Deepening, AlreadyAtGoal, Start, GiveUpLate, GiveUpDeep, Deepen,
         FinishSolved, FinishExhausted, NextDepth, Stop, context
<1>4. Initial(task) \in State
  BY TaskAssumption DEF TypeOK, IsGraph, Initial
<1>5. TypeOK'
  <2> USE <1>1, <1>3 DEF TypeOK
  <2>1. CASE AlreadyAtGoal \/ GiveUpLate \/ GiveUpDeep \/ FinishSolved \/ FinishExhausted
    BY <2>1 DEF AlreadyAtGoal, GiveUpLate, GiveUpDeep, FinishSolved, FinishExhausted,
                Stop, context, Outcomes
  <2>2. CASE Start \/ NextDepth
    BY <2>2 DEF Start, NextDepth, context
  <2>3. CASE Deepen
    BY <2>3, <1>4 DEF Deepen, Call
  <2> QED BY <2>1, <2>2, <2>3 DEF Deepening
<1>6. PathInv'
  BY <1>1 DEF Deepening, AlreadyAtGoal, Start, GiveUpLate, GiveUpDeep, Deepen,
              FinishSolved, FinishExhausted, NextDepth, Stop, Call, context, PathInv, TypeOK
<1>7. ResultInv'
  BY DEF Deepening, AlreadyAtGoal, Start, GiveUpLate, GiveUpDeep, Deepen,
         FinishSolved, FinishExhausted, NextDepth, Stop, Call, ResultInv
<1> QED BY <1>1, <1>3, <1>5, <1>6, <1>7, QuietStep

(***************************************************************************)
(* The deadline may pass at any moment.                                    *)
(***************************************************************************)
LEMMA ExpireStep ==
  ASSUME IInv, Expire \/ UNCHANGED vars
  PROVE  IInv'
<1> USE DEF IInv
<1>1. UNCHANGED <<task, solved, failed_upto, stack, ancestors, pc, arg, ret, depth>>
  BY DEF Expire, control, context, vars
<1>2. TypeOK'
  BY DEF Expire, control, context, vars, TypeOK
<1>3. PathInv'
  BY <1>1 DEF PathInv, Linked, Branch, Branches, Top
<1>4. ResultInv'
  BY <1>1 DEF ResultInv, Certified
<1> QED BY <1>1, <1>2, <1>3, <1>4, QuietStep

(***************************************************************************)
(* The early returns of dfs: each returns a result that keeps its promise. *)
(***************************************************************************)
LEMMA EarlyReturnStep ==
  ASSUME IInv, AbandonLate \/ CutCycle \/ ReachGoal \/ ReuseSolved \/ HitBound \/ ReuseRefuted
  PROVE  IInv'
<1> USE DEF IInv
<1>1. /\ pc = "enter" /\ pc' = "return" /\ arg' = arg
      /\ UNCHANGED <<task, solved, failed_upto, stack, ancestors, depth>>
  BY DEF AbandonLate, CutCycle, ReachGoal, ReuseSolved, HitBound, ReuseRefuted,
         EarlyReturn, Return, TypeOK
<1>2. TypeOK'
  <2> USE <1>1 DEF TypeOK
  <2>1. UNCHANGED <<late, outcome>>
    BY DEF AbandonLate, CutCycle, ReachGoal, ReuseSolved, HitBound, ReuseRefuted, EarlyReturn
  <2>2. truncated' \in BOOLEAN
    BY DEF AbandonLate, CutCycle, ReachGoal, ReuseSolved, HitBound, ReuseRefuted, KnownRefuted
  <2>3. ret' \in [solved : BOOLEAN, height : Nat, tainted : BOOLEAN]
    <3>1. CASE ReuseSolved
      <4>1. solved[arg.state].height \in Nat
        BY <3>1 DEF ReuseSolved, KnownSolved
      <4> QED BY <3>1, <4>1, ResultType DEF ReuseSolved, EarlyReturn, Return
    <3>2. CASE ~ReuseSolved
      <4>1. ret' = Failure(TRUE) \/ ret' = Failure(FALSE) \/ ret' = Success(0)
        BY <3>2 DEF AbandonLate, CutCycle, ReachGoal, HitBound, ReuseRefuted,
                    EarlyReturn, Return
      <4> HIDE DEF IInv, TypeOK
      <4> QED BY <4>1, ResultType
    <3> QED BY <3>1, <3>2
  <2> QED BY <2>1, <2>2, <2>3
<1>3. PathInv'
  BY <1>1 DEF PathInv, Linked, Branch, Branches, Top
<1>4. ResultInv'
  <2> USE <1>1 DEF ResultInv, EarlyReturn, Return, Success, Failure, Certified
  <2>1. CASE AbandonLate \/ CutCycle
    BY <2>1 DEF AbandonLate, CutCycle
  <2>2. CASE ReachGoal
    BY <2>2 DEF ReachGoal, AtGoal, TypeOK
  <2>3. CASE ReuseSolved
    BY <2>3 DEF ReuseSolved, KnownSolved, TypeOK
  <2>4. CASE HitBound
    BY <2>4, NothingWithinZero DEF HitBound, AtBound, AtGoal, TypeOK
  <2>5. CASE ReuseRefuted
    <3>1. arg.state \in DOMAIN failed_upto /\ arg.depth <= failed_upto[arg.state].depth
      BY <2>5 DEF ReuseRefuted, KnownRefuted
    <3>2. ~SolvableWithin(task, arg.state, failed_upto[arg.state].depth)
      BY <3>1 DEF RefutedIsUnsolvable
    <3>3. ~SolvableWithin(task, arg.state, arg.depth)
      BY <3>1, <3>2, WithinMonotone DEF TypeOK
    <3> QED BY <2>5, <3>3 DEF ReuseRefuted
  <2> QED BY <2>1, <2>2, <2>3, <2>4, <2>5
<1> QED BY <1>1, <1>2, <1>3, <1>4, QuietStep

-----------------------------------------------------------------------------
(* The steps that change the top frame. *)

(***************************************************************************)
(* A frame that keeps its place and goes on waiting for its branch keeps   *)
(* its invariant as long as the solved memo only improves elsewhere.       *)
(***************************************************************************)
LEMMA FrameKept ==
  ASSUME IInv, NEW i \in 1..Len(stack), NEW f, stack[i] = f, stack'[i] = f,
         Trying(i), Trying(i)', task' = task,
         \A b \in State : \A h \in Nat : Certified(b, h) => Certified(b, h)',
         f.state \in DOMAIN solved' =>
           f.state \in DOMAIN solved /\ solved'[f.state] = solved[f.state]
  PROVE  FrameInv(i)'
<1>1. FrameInv(i) /\ f \in Frame /\ task \in Tasks
  BY ElementOfSeq DEF IInv, FramesInv, TypeOK
<1>2. OpenState(f)'
  BY <1>1 DEF FrameInv, OpenState
<1>3. PartlySolved(f)'
  <2>1. PartlySolved(f)
    BY <1>1 DEF FrameInv
  <2>2. Branches(f)' = Branches(f)
    BY DEF Branches
  <2>3. /\ DOMAIN Branches(f) = 1..Len(Branches(f))
        /\ Len(Branches(f)) \in Nat
        /\ \A j \in DOMAIN Branches(f) : Branches(f)[j] \in State
    BY <1>1, <2>1, CandidateType DEF PartlySolved, Branches, Frame
  <2>4. \A j \in 1..(f.branch - 1) : Branches(f)[j] \in State
    BY <2>3, <1>1, <2>1 DEF PartlySolved, Frame
  <2>5. f.height \in Nat
    BY <1>1 DEF Frame
  <2>6. ASSUME NEW j \in 1..(f.branch - 1)
        PROVE  Certified(Branches(f)[j], f.height)'
    <3>1. PICK b \in State : b = Branches(f)[j]
      BY <2>4
    <3>2. PICK h \in Nat : h = f.height
      BY <2>5
    <3>3. Certified(b, h)
      BY <2>1, <3>1, <3>2 DEF PartlySolved
    <3>4. Certified(b, h)'
      BY <3>3
    <3> QED BY <2>2, <3>1, <3>2, <3>4
  <2> QED BY <2>1, <2>2, <2>6 DEF PartlySolved
<1>4. PartlyRefuted(f, Trying(i))'
  BY <1>1 DEF FrameInv, PartlyRefuted, Hopeless
<1> QED BY <1>1, <1>2, <1>3, <1>4 DEF FrameInv

(***************************************************************************)
(* A step that replaces the top frame by one for the same call.            *)
(***************************************************************************)
LEMMA ReplaceStep ==
  ASSUME IInv, stack # <<>>, NEW f \in Frame, stack' = ReplaceTop(f),
         f.state = Top.state, f.depth = Top.depth,
         UNCHANGED <<task, depth, solved, failed_upto, ancestors>>,
         \/ pc' = "choose"
         \/ /\ pc' = "enter"
            /\ arg' = [state |-> Branch(f), depth |-> f.depth - 1],
         NEW n \in Nat, n = Len(stack), pc # "enter",
         FrameInv(n)', TypeOK'
  PROVE  IInv'
<1>1. /\ n \in Nat \ {0}
      /\ n \in 1..n
      /\ Top = stack[n]
      /\ Len(stack') = n
      /\ \A i \in 1..n : stack'[i] = IF i = n THEN f ELSE stack[i]
      /\ DOMAIN stack = 1..n
      /\ DOMAIN stack' = 1..n
  BY TopType, ReplaceTopType DEF IInv, TypeOK
<1>2. stack' # <<>>
  BY <1>1
<1>3. \A i \in 1..n : stack'[i].state = stack[i].state /\ stack'[i].depth = stack[i].depth
  BY <1>1
<1>4. AncestorsAreThePath'
  <2>1. AncestorsAreThePath
    BY DEF IInv
  <2> QED BY <1>1, <1>3, <2>1 DEF AncestorsAreThePath
<1>5. PathInv'
  <2>0. PathInv
    BY DEF IInv
  <2>1. ASSUME NEW i \in 1..(n - 1)
        PROVE  Linked(i)'
    <3>1. Linked(i) /\ i # n /\ i \in 1..n /\ i + 1 \in 1..n
      BY <1>1, <2>0 DEF PathInv
    <3>2. stack'[i] = stack[i]
      BY <1>1, <3>1
    <3> QED BY <3>1, <3>2, <1>3 DEF Linked, Branch, Branches
  <2>2. pc' \in {"enter", "return"} =>
          arg'.state = Branch(Top)' /\ arg'.depth = Top'.depth - 1
    <3>1. Top' = f
      BY <1>1 DEF Top
    <3> QED BY <3>1 DEF Branch, Branches
  <2>3. stack'[1].state = Initial(task)' /\ stack'[1].depth = depth'
    <3>1. 1 \in 1..n
      BY <1>1
    <3>2. stack[1].state = Initial(task) /\ stack[1].depth = depth
      BY <2>0 DEF PathInv
    <3> QED BY <3>1, <3>2, <1>3
  <2> QED BY <1>1, <1>2, <2>1, <2>2, <2>3 DEF PathInv
<1>6. FramesInv'
  <2> SUFFICES ASSUME NEW i \in 1..n
               PROVE  FrameInv(i)'
    BY <1>1 DEF FramesInv
  <2>1. CASE i = n
    BY <2>1
  <2>2. CASE i # n
    <3>1. i < n /\ i \in 1..Len(stack) /\ i < Len(stack) /\ i < Len(stack')
      BY <2>2, <1>1
    <3>2. Trying(i) /\ Trying(i)'
      BY <3>1 DEF Trying
    <3>3. stack'[i] = stack[i]
      BY <2>2, <1>1
    <3>4. \A b \in State : \A h \in Nat : Certified(b, h) => Certified(b, h)'
      BY DEF Certified
    <3> QED BY <3>1, <3>2, <3>3, <3>4, FrameKept
  <2> QED BY <2>1, <2>2
<1>7. ResultInv' /\ SolvedIsPolicy' /\ RefutedIsUnsolvable'
  BY DEF IInv, ResultInv, SolvedIsPolicy, RefutedIsUnsolvable
<1> QED BY <1>4, <1>5, <1>6, <1>7 DEF IInv

(***************************************************************************)
(* The call of dfs for a branch of the top frame.                          *)
(***************************************************************************)
LEMMA BranchState ==
  ASSUME NEW f \in Frame, task \in Tasks, f.action \in Candidates(task, f.state),
         f.branch \in DOMAIN Branches(f), f.depth >= 1
  PROVE  [state |-> Branch(f), depth |-> f.depth - 1] \in [state : State, depth : Nat]
<1>1. Branch(f) \in State
  BY CandidateType DEF Branch, Branches, Frame
<1>2. f.depth - 1 \in Nat
  BY DEF Frame
<1> QED BY <1>1, <1>2

(***************************************************************************)
(* The next candidate: nothing of it is solved yet, and the one before it, *)
(* if the frame is not tainted, is hopeless.                               *)
(***************************************************************************)
LEMMA TryActionStep ==
  ASSUME IInv, TryAction
  PROVE  IInv'
<1> DEFINE n == Len(stack)
<1>1. PICK a \in Top.todo :
        LET frame == [Top EXCEPT !.todo = @ \ {a}, !.action = a, !.branch = 1, !.height = 0]
        IN  stack' = ReplaceTop(frame) /\ Call(Branch(frame), Top.depth - 1)
  BY DEF TryAction
<1>2. pc = "choose" /\ UNCHANGED <<task, depth, ret, context, late, outcome>>
  BY DEF TryAction
<1>3. stack # <<>> /\ task \in Tasks /\ stack \in Seq(Frame)
  BY <1>2 DEF IInv, PathInv, TypeOK
<1>4. n \in Nat \ {0} /\ n \in 1..n /\ Top \in Frame /\ Top = stack[n]
  BY <1>3, TopType
<1> DEFINE f == [Top EXCEPT !.todo = @ \ {a}, !.action = a, !.branch = 1, !.height = 0]
<1>5. /\ OpenState(Top)
      /\ Top.todo \subseteq Candidates(task, Top.state)
      /\ PartlyRefuted(Top, FALSE)
  <2>1. FrameInv(n) /\ ~Trying(n)
    BY <1>2, <1>4 DEF IInv, FramesInv, Trying
  <2> QED BY <2>1, <1>4 DEF FrameInv, PartlyRefuted
<1>6. /\ a \in Candidates(task, Top.state)
      /\ a \in Nat
      /\ 1 \in DOMAIN Actions(task, Top.state)[a]
  BY <1>3, <1>4, <1>5, CandidateType DEF Frame
<1>7. f \in Frame
  BY <1>4, <1>6 DEF Frame
<1>8. /\ f.state = Top.state /\ f.depth = Top.depth /\ f.todo = Top.todo \ {a}
      /\ f.action = a /\ f.branch = 1 /\ f.height = 0 /\ f.tainted = Top.tainted
  BY <1>4 DEF Frame
<1>9. PICK g \in Frame : g = f
  BY <1>7
<1>10. stack' = ReplaceTop(g) /\ pc' = "enter" /\ arg' = [state |-> Branch(g), depth |-> g.depth - 1]
  BY <1>1, <1>8, <1>9 DEF Call
<1>11. /\ g.state = Top.state /\ g.depth = Top.depth /\ g.todo = Top.todo \ {a}
       /\ g.action = a /\ g.branch = 1 /\ g.height = 0 /\ g.tainted = Top.tainted
  BY <1>8, <1>9
<1> HIDE DEF f
<1>12. TypeOK'
  <2>1. arg' \in [state : State, depth : Nat]
    BY <1>3, <1>5, <1>6, <1>10, <1>11, BranchState DEF OpenState, Branches
  <2>2. stack' \in Seq(Frame)
    BY <1>3, <1>10, ReplaceTopType
  <2> QED BY <1>2, <1>10, <2>1, <2>2 DEF IInv, TypeOK, context
<1>13. PICK m \in Nat : m = n
  BY <1>4
<1>14. FrameInv(m)'
  <2>1. stack'[m] = g
    BY <1>3, <1>4, <1>10, <1>13, ReplaceTopType
  <2>2. Trying(m)'
    BY <1>10 DEF Trying
  <2>3. OpenState(g)'
    BY <1>2, <1>5, <1>11 DEF OpenState, context
  <2>4. PartlySolved(g)'
    <3>1. g.height < g.depth
      BY <1>4, <1>5, <1>11 DEF OpenState, Frame
    <3>2. g.action \in Candidates(task, g.state) \ g.todo /\ g.branch \in DOMAIN Branches(g)
      BY <1>6, <1>11 DEF Branches
    <3>3. 1..(g.branch - 1) = {}
      BY <1>11
    <3> QED BY <1>2, <3>1, <3>2, <3>3 DEF PartlySolved, Branches
  <2>5. PartlyRefuted(g, TRUE)'
    BY <1>2, <1>5, <1>11 DEF PartlyRefuted, Hopeless
  <2> QED BY <1>2, <1>5, <1>11, <2>1, <2>2, <2>3, <2>4, <2>5 DEF FrameInv
<1> QED BY <1>2, <1>3, <1>10, <1>11, <1>12, <1>13, <1>14, ReplaceStep DEF context

(***************************************************************************)
(* A returned branch: what the result promises, in terms of the top frame. *)
(***************************************************************************)
LEMMA ReturnedBranch ==
  ASSUME IInv, pc = "return", stack # <<>>
  PROVE  /\ OpenState(Top) /\ PartlySolved(Top) /\ PartlyRefuted(Top, TRUE)
         /\ Top.todo \subseteq Candidates(task, Top.state)
         /\ Branch(Top) \in State
         /\ ret.solved => ret.height <= Top.depth - 1 /\ Certified(Branch(Top), ret.height)
         /\ ~ret.solved /\ ~ret.tainted => Hopeless(Top.action, Top.state, Top.depth - 1)
<1> DEFINE n == Len(stack)
<1>1. stack \in Seq(Frame) /\ task \in Tasks /\ n \in 1..n /\ Top = stack[n] /\ Top \in Frame
  BY TopType DEF IInv, TypeOK
<1>2. FrameInv(n) /\ Trying(n)
  BY <1>1 DEF IInv, FramesInv, Trying
<1>3. OpenState(Top) /\ PartlySolved(Top) /\ PartlyRefuted(Top, TRUE)
      /\ Top.todo \subseteq Candidates(task, Top.state)
  BY <1>1, <1>2 DEF FrameInv, PartlyRefuted
<1>4. arg.state = Branch(Top) /\ arg.depth = Top.depth - 1
  BY DEF IInv, PathInv
<1>5. ResultInv
  BY DEF IInv
<1>6. Branch(Top) \in State
  BY <1>1, <1>3, CandidateType DEF PartlySolved, Branch, Branches, Frame
<1>7. ~ret.solved /\ ~ret.tainted => Hopeless(Top.action, Top.state, Top.depth - 1)
  <2> SUFFICES ASSUME ~ret.solved, ~ret.tainted
               PROVE  Hopeless(Top.action, Top.state, Top.depth - 1)
    OBVIOUS
  <2>1. ~SolvableWithin(task, Branch(Top), Top.depth - 1)
    BY <1>4, <1>5 DEF ResultInv
  <2>2. Top.branch \in DOMAIN Actions(task, Top.state)[Top.action]
    BY <1>3 DEF PartlySolved, Branches
  <2> QED BY <2>1, <2>2 DEF Hopeless, Branch, Branches
<1> QED BY <1>3, <1>4, <1>5, <1>6, <1>7 DEF ResultInv

(***************************************************************************)
(* A failed branch makes its action hopeless, unless the failure is        *)
(* tainted, and then the frame is.                                         *)
(***************************************************************************)
LEMMA DropActionStep ==
  ASSUME IInv, DropAction
  PROVE  IInv'
<1> DEFINE n == Len(stack)
<1>1. /\ pc = "return" /\ stack # <<>> /\ ~ret.solved /\ pc' = "choose"
      /\ UNCHANGED <<task, depth, arg, ret, context, late, outcome>>
      /\ stack' = ReplaceTop([Top EXCEPT !.tainted = @ \/ ret.tainted])
  BY DEF DropAction
<1>2. /\ task \in Tasks /\ stack \in Seq(Frame) /\ n \in Nat /\ n \in 1..n /\ Top \in Frame
      /\ ret.tainted \in BOOLEAN
  BY <1>1, TopType DEF IInv, TypeOK
<1>3. PICK g \in Frame : g = [Top EXCEPT !.tainted = @ \/ ret.tainted]
  BY <1>2 DEF Frame
<1>4. /\ g.state = Top.state /\ g.depth = Top.depth /\ g.todo = Top.todo
      /\ g.action = Top.action /\ (g.tainted <=> Top.tainted \/ ret.tainted)
  BY <1>2, <1>3 DEF Frame
<1>5. stack' = ReplaceTop(g)
  BY <1>1, <1>3
<1>6. PICK m \in Nat : m = n
  BY <1>2
<1>7. TypeOK'
  <2>1. stack' \in Seq(Frame)
    BY <1>1, <1>2, <1>5, ReplaceTopType
  <2> QED BY <1>1, <2>1 DEF IInv, TypeOK, context
<1>8. FrameInv(m)'
  <2>1. stack'[m] = g /\ Len(stack') = m
    BY <1>1, <1>2, <1>5, <1>6, ReplaceTopType
  <2>2. ~Trying(m)'
    BY <1>1, <2>1 DEF Trying
  <2>3. OpenState(g)'
    BY <1>1, <1>4, ReturnedBranch DEF OpenState, context
  <2>4. PartlyRefuted(g, FALSE)'
    <3>1. PartlyRefuted(g, FALSE)
      BY <1>1, <1>4, ReturnedBranch DEF PartlyRefuted
    <3> QED BY <1>1, <3>1 DEF PartlyRefuted, Hopeless
  <2>5. g.todo \subseteq Candidates(task, g.state)'
    BY <1>1, <1>4, ReturnedBranch DEF Candidates
  <2> QED BY <1>1, <2>1, <2>2, <2>3, <2>4, <2>5 DEF FrameInv, PartlyRefuted
<1> QED BY <1>1, <1>2, <1>4, <1>5, <1>6, <1>7, <1>8, ReplaceStep DEF context

(***************************************************************************)
(* A frame stays a frame when it advances to another branch.               *)
(***************************************************************************)
LEMMA AdvancedFrame ==
  ASSUME NEW f \in Frame, NEW j \in Nat, NEW k \in Nat, NEW b \in BOOLEAN
  PROVE  [f EXCEPT !.branch = j, !.height = k, !.tainted = b] \in Frame
BY DEF Frame

(***************************************************************************)
(* A solved branch: the frame's height covers it from now on.              *)
(***************************************************************************)
LEMMA NextBranchStep ==
  ASSUME IInv, NextBranch
  PROVE  IInv'
<1> DEFINE n == Len(stack)
           h == Maximum(Top.height, ret.height)
           f == [Top EXCEPT !.branch = @ + 1, !.height = Maximum(@, ret.height),
                            !.tainted = @ \/ ret.tainted]
<1>1. /\ pc = "return" /\ stack # <<>> /\ ret.solved /\ Top.branch < Len(Branches(Top))
      /\ UNCHANGED <<task, depth, ret, context, late, outcome>>
      /\ stack' = ReplaceTop(f)
      /\ pc' = "enter" /\ arg' = [state |-> Branch(f), depth |-> Top.depth - 1]
  BY DEF NextBranch, Call
<1>2. /\ task \in Tasks /\ stack \in Seq(Frame) /\ n \in Nat /\ n \in 1..n /\ Top \in Frame
      /\ ret.height \in Nat /\ ret.tainted \in BOOLEAN
  BY <1>1, TopType DEF IInv, TypeOK
<1>3. /\ Top.height \in Nat /\ Top.branch \in Nat /\ Top.depth \in Nat
      /\ h \in Nat /\ Top.height <= h /\ ret.height <= h /\ h <= Top.depth - 1
  BY <1>1, <1>2, ReturnedBranch DEF Frame, Maximum, PartlySolved
<1>4. f \in Frame
  <2>1. PICK k \in Nat : k = h
    BY <1>3
  <2>2. PICK b \in BOOLEAN : b = (Top.tainted \/ ret.tainted)
    BY <1>2 DEF Frame
  <2>3. f = [Top EXCEPT !.branch = Top.branch + 1, !.height = k, !.tainted = b]
    BY <1>2, <2>1, <2>2 DEF Frame
  <2>4. Top.branch + 1 \in Nat
    BY <1>3
  <2> HIDE DEF f
  <2> QED BY <1>2, <2>3, <2>4, AdvancedFrame
<1>5. PICK g \in Frame : g = f
  BY <1>4
<1>6. /\ g.state = Top.state /\ g.depth = Top.depth /\ g.todo = Top.todo
      /\ g.action = Top.action /\ g.branch = Top.branch + 1 /\ g.height = h
      /\ (g.tainted <=> Top.tainted \/ ret.tainted)
  BY <1>2, <1>5 DEF Frame
<1> HIDE DEF h, f
<1>7. stack' = ReplaceTop(g) /\ arg' = [state |-> Branch(g), depth |-> g.depth - 1]
  BY <1>1, <1>5, <1>6
<1>8. PICK m \in Nat : m = n
  BY <1>2
<1>9. PartlySolved(g)
  <2>1. g.action \in Candidates(task, g.state) \ g.todo
    BY <1>1, <1>6, ReturnedBranch DEF PartlySolved
  <2>2. /\ DOMAIN Branches(Top) = 1..Len(Branches(Top)) /\ Len(Branches(Top)) \in Nat
    BY <1>1, <1>2, ReturnedBranch, CandidateType DEF PartlySolved, Branches, Frame
  <2>3. Branches(g) = Branches(Top)
    BY <1>6 DEF Branches
  <2>4. g.branch \in DOMAIN Branches(g)
    BY <1>1, <1>3, <1>6, <2>2, <2>3
  <2>5. ASSUME NEW j \in 1..(g.branch - 1)
        PROVE  Certified(Branches(g)[j], g.height)
    <3>0. \A b \in DOMAIN solved : solved[b].height \in Nat
      BY DEF IInv, TypeOK
    <3>1. CASE j < Top.branch
      <4>1. Certified(Branches(Top)[j], Top.height)
        BY <1>1, <1>3, <1>6, <3>1, ReturnedBranch DEF PartlySolved
      <4> QED BY <1>3, <1>6, <2>3, <3>0, <4>1 DEF Certified
    <3>2. CASE j = Top.branch
      <4>1. Certified(Branches(Top)[j], ret.height)
        BY <1>1, <3>2, ReturnedBranch DEF Branch
      <4> QED BY <1>2, <1>3, <1>6, <2>3, <3>0, <4>1 DEF Certified
    <3> QED BY <1>3, <1>6, <3>1, <3>2
  <2> QED BY <1>3, <1>6, <2>1, <2>4, <2>5 DEF PartlySolved
<1>10. TypeOK'
  <2>1. stack' \in Seq(Frame)
    BY <1>1, <1>2, <1>7, ReplaceTopType
  <2>2. arg' \in [state : State, depth : Nat]
    <3>1. g.depth >= 1
      BY <1>1, <1>6, ReturnedBranch DEF OpenState
    <3> QED BY <1>2, <1>7, <1>9, <3>1, BranchState DEF PartlySolved
  <2> QED BY <1>1, <2>1, <2>2 DEF IInv, TypeOK, context
<1>11. FrameInv(m)'
  <2>1. stack'[m] = g
    BY <1>1, <1>2, <1>7, <1>8, ReplaceTopType
  <2>2. Trying(m)'
    BY <1>1 DEF Trying
  <2>3. OpenState(g)'
    BY <1>1, <1>6, ReturnedBranch DEF OpenState, context
  <2>4. PartlySolved(g)'
    BY <1>1, <1>9 DEF PartlySolved, Branches, Certified, context
  <2>5. PartlyRefuted(g, TRUE)'
    <3>1. PartlyRefuted(g, TRUE)
      BY <1>1, <1>6, ReturnedBranch DEF PartlyRefuted
    <3> QED BY <1>1, <3>1 DEF PartlyRefuted, Hopeless
  <2>6. g.todo \subseteq Candidates(task, g.state)'
    BY <1>1, <1>6, ReturnedBranch DEF Candidates
  <2> QED BY <1>1, <2>1, <2>2, <2>3, <2>4, <2>5, <2>6 DEF FrameInv, PartlyRefuted
<1> QED BY <1>1, <1>2, <1>6, <1>7, <1>8, <1>10, <1>11, ReplaceStep DEF context

-----------------------------------------------------------------------------
(* The steps that push and pop a frame. *)

(***************************************************************************)
(* A new frame: its state is not on the path, not a goal and not solved    *)
(* within its depth, and it has tried nothing yet.                         *)
(***************************************************************************)
LEMMA ExpandStep ==
  ASSUME IInv, Expand
  PROVE  IInv'
<1>1. /\ pc = "enter" /\ pc' = "choose"
      /\ arg.state \notin ancestors /\ arg.state \notin Goal(task)
      /\ ~(arg.state \in DOMAIN solved /\ solved[arg.state].height <= arg.depth)
      /\ arg.depth # 0
      /\ ancestors' = ancestors \cup {arg.state}
      /\ UNCHANGED <<task, depth, arg, ret, solved, failed_upto, truncated, late, outcome>>
  BY DEF Expand, OnPath, AtGoal, KnownSolved, AtBound
<1>2. /\ task \in Tasks /\ stack \in Seq(Frame) /\ Len(stack) \in Nat
      /\ arg.state \in State /\ arg.depth \in Nat /\ truncated \in BOOLEAN
      /\ \A b \in DOMAIN solved : solved[b].height \in Nat
  BY DEF IInv, TypeOK
<1>3. PICK g : /\ stack' = Append(stack, g)
               /\ g = [state |-> arg.state, depth |-> arg.depth,
                       todo |-> Candidates(task, arg.state), action |-> 0,
                       branch |-> 0, height |-> 0, tainted |-> FALSE,
                       truncated_before |-> truncated]
  BY DEF Expand
<1>4. g \in Frame
  <2>1. Candidates(task, arg.state) \in SUBSET Nat
    BY <1>2, CandidateType
  <2> QED BY <1>2, <1>3, <2>1 DEF Frame
<1>5. PICK n \in Nat : n = Len(stack)
  BY <1>2
<1>6. /\ stack' \in Seq(Frame) /\ Len(stack') = n + 1
      /\ DOMAIN stack = 1..n /\ DOMAIN stack' = 1..(n + 1)
      /\ \A i \in 1..n : stack'[i] = stack[i]
      /\ stack'[n + 1] = g
      /\ stack' # <<>>
  BY <1>2, <1>3, <1>4, <1>5
<1>7. TypeOK'
  BY <1>1, <1>6 DEF IInv, TypeOK
<1>8. AncestorsAreThePath'
  <2>1. AncestorsAreThePath /\ g.state = arg.state
    BY <1>3 DEF IInv
  <2>2. \A i \in 1..n : stack[i].state # g.state
    BY <1>1, <1>6, <2>1 DEF AncestorsAreThePath
  <2>3. ancestors' = {stack'[i].state : i \in DOMAIN stack'}
    <3>1. 1..(n + 1) = 1..n \cup {n + 1}
      OBVIOUS
    <3> QED BY <1>1, <1>6, <2>1, <3>1 DEF AncestorsAreThePath
  <2>4. \A i, j \in DOMAIN stack' : stack'[i].state = stack'[j].state => i = j
    <3>1. \A i \in 1..(n + 1) : i \in 1..n \/ i = n + 1
      OBVIOUS
    <3> QED BY <1>6, <2>1, <2>2, <3>1 DEF AncestorsAreThePath
  <2> QED BY <2>3, <2>4 DEF AncestorsAreThePath
<1>9. PathInv'
  <2>0. PathInv
    BY DEF IInv
  <2>1. ASSUME NEW i \in 1..n
        PROVE  Linked(i)'
    <3>1. CASE i < n
      <4>1. Linked(i) /\ i \in 1..n /\ i + 1 \in 1..n
        BY <1>5, <2>0, <3>1 DEF PathInv
      <4> QED BY <1>1, <1>6, <4>1 DEF Linked, Branch, Branches
    <3>2. CASE i = n
      <4>1. stack # <<>> /\ Top = stack[n]
        BY <1>5, <3>2 DEF Top
      <4>2. arg.state = Branch(stack[n]) /\ arg.depth = stack[n].depth - 1
        BY <1>1, <2>0, <4>1 DEF PathInv
      <4>3. stack'[i] = stack[n] /\ stack'[i + 1] = g /\ g.state = arg.state /\ g.depth = arg.depth
        BY <1>3, <1>6, <3>2
      <4> QED BY <1>1, <4>2, <4>3 DEF Linked, Branch, Branches
    <3> QED BY <3>1, <3>2
  <2>2. stack'[1].state = Initial(task)' /\ stack'[1].depth = depth'
    <3>1. CASE n = 0
      <4>1. stack = <<>>
        BY <1>2, <1>5, <3>1, EmptySeq
      <4>2. arg = [state |-> Initial(task), depth |-> depth]
        BY <1>1, <2>0, <4>1 DEF PathInv
      <4> QED BY <1>1, <1>3, <1>6, <3>1, <4>2
    <3>2. CASE n # 0
      <4>1. stack # <<>> /\ 1 \in 1..n
        BY <1>5, <3>2
      <4> QED BY <1>1, <1>6, <2>0, <4>1 DEF PathInv
    <3> QED BY <3>1, <3>2
  <2> QED BY <1>1, <1>6, <2>1, <2>2 DEF PathInv
<1>10. FramesInv'
  <2> SUFFICES ASSUME NEW i \in 1..(n + 1)
               PROVE  FrameInv(i)'
    BY <1>6 DEF FramesInv
  <2>1. CASE i = n + 1
    <3>1. stack'[i] = g /\ ~Trying(i)'
      BY <1>1, <1>6, <2>1 DEF Trying
    <3>2. /\ g.state = arg.state /\ g.depth = arg.depth
          /\ g.todo = Candidates(task, arg.state)
      BY <1>3
    <3>3. OpenState(g)'
      BY <1>1, <1>2, <3>2 DEF OpenState
    <3>4. PartlyRefuted(g, FALSE)'
      BY <1>1, <3>2 DEF PartlyRefuted, Candidates
    <3>5. g.todo \subseteq Candidates(task, g.state)'
      BY <1>1, <3>2 DEF Candidates
    <3> QED BY <3>1, <3>3, <3>4, <3>5 DEF FrameInv, PartlyRefuted
  <2>2. CASE i # n + 1
    <3>1. i \in 1..Len(stack) /\ i < Len(stack')
      BY <1>5, <1>6, <2>2
    <3>2. Trying(i) /\ Trying(i)'
      BY <1>1, <3>1 DEF Trying
    <3>3. stack'[i] = stack[i]
      BY <1>5, <1>6, <3>1
    <3>4. \A b \in State : \A h \in Nat : Certified(b, h) => Certified(b, h)'
      BY <1>1 DEF Certified
    <3> QED BY <1>1, <3>1, <3>2, <3>3, <3>4, FrameKept
  <2> QED BY <2>1, <2>2
<1>11. ResultInv' /\ SolvedIsPolicy' /\ RefutedIsUnsolvable'
  BY <1>1 DEF IInv, ResultInv, SolvedIsPolicy, RefutedIsUnsolvable
<1> QED BY <1>7, <1>8, <1>9, <1>10, <1>11 DEF IInv

(***************************************************************************)
(* Popping the top frame leaves the path in order and the result with the  *)
(* frame below; the other frames are as they were.                         *)
(***************************************************************************)
LEMMA PopStep ==
  ASSUME IInv, stack # <<>>, stack' = Below, ancestors' = ancestors \ {Top.state},
         UNCHANGED <<task, depth>>, pc' = "return",
         arg' = [state |-> Top.state, depth |-> Top.depth],
         \A b \in State : \A h \in Nat : Certified(b, h) => Certified(b, h)',
         \A b \in State : b # Top.state /\ b \in DOMAIN solved' =>
           b \in DOMAIN solved /\ solved'[b] = solved[b]
  PROVE  stack' \in Seq(Frame) /\ AncestorsAreThePath' /\ PathInv' /\ FramesInv'
<1>1. PICK n \in Nat : n = Len(stack)
  BY DEF IInv, TypeOK
<1>2. /\ stack \in Seq(Frame) /\ task \in Tasks
      /\ n \in Nat \ {0} /\ n \in 1..n /\ n - 1 \in Nat
      /\ Top = stack[n] /\ Top \in Frame
      /\ stack' \in Seq(Frame)
      /\ Len(stack') = n - 1
      /\ DOMAIN stack = 1..n /\ DOMAIN stack' = 1..(n - 1)
      /\ \A i \in 1..(n - 1) : stack'[i] = stack[i]
  BY <1>1, TopType, BelowType DEF IInv, TypeOK
<1>3. AncestorsAreThePath'
  <2>1. AncestorsAreThePath
    BY DEF IInv
  <2>2. \A i \in 1..(n - 1) : i \in 1..n /\ i # n
    BY <1>2
  <2>3. \A i \in 1..n : i # n => i \in 1..(n - 1)
    BY <1>2
  <2> QED BY <1>2, <2>1, <2>2, <2>3 DEF AncestorsAreThePath
<1>4. PathInv'
  <2>0. PathInv
    BY DEF IInv
  <2>1. ASSUME NEW i \in 1..(n - 2)
        PROVE  Linked(i)'
    <3>1. Linked(i) /\ i \in 1..(n - 1) /\ i + 1 \in 1..(n - 1)
      BY <1>1, <1>2, <2>0 DEF PathInv
    <3> QED BY <1>2, <3>1 DEF Linked, Branch, Branches
  <2>2. CASE n = 1
    <3>1. stack' = <<>>
      BY <1>2, <2>2, EmptySeq
    <3>2. arg' = [state |-> Initial(task), depth |-> depth]
      BY <1>2, <2>0, <2>2 DEF PathInv
    <3> QED BY <1>2, <2>1, <3>1, <3>2 DEF PathInv
  <2>3. CASE n # 1
    <3>1. 1 \in 1..(n - 1) /\ n - 1 \in 1..(n - 1) /\ n - 1 \in 1..(Len(stack) - 1)
      BY <1>1, <1>2, <2>3
    <3>2. stack' # <<>>
      BY <1>2, <2>3
    <3>3. Linked(n - 1)
      BY <2>0, <3>1 DEF PathInv
    <3>4. Top' = stack[n - 1]
      BY <1>2, <3>1 DEF Top
    <3>5. arg'.state = Branch(Top)' /\ arg'.depth = Top'.depth - 1
      BY <1>2, <3>3, <3>4 DEF Linked, Branch, Branches
    <3>6. stack'[1].state = Initial(task)' /\ stack'[1].depth = depth'
      BY <1>2, <2>0, <3>1 DEF PathInv
    <3> QED BY <1>2, <2>1, <3>2, <3>5, <3>6 DEF PathInv
  <2> QED BY <2>2, <2>3
<1>5. FramesInv'
  <2> SUFFICES ASSUME NEW i \in 1..(n - 1)
               PROVE  FrameInv(i)'
    BY <1>2 DEF FramesInv
  <2>1. i \in 1..Len(stack) /\ i < Len(stack) /\ i \in 1..n /\ i # n
    BY <1>1, <1>2
  <2>2. Trying(i) /\ Trying(i)'
    BY <2>1 DEF Trying
  <2>3. stack[i].state # Top.state /\ stack[i].state \in State
    <3>1. stack[i] \in Frame
      BY <1>2, <2>1, ElementOfSeq
    <3> QED BY <1>2, <2>1, <3>1 DEF IInv, AncestorsAreThePath, Frame
  <2>4. stack'[i] = stack[i]
    BY <1>2
  <2> QED BY <2>1, <2>2, <2>3, <2>4, FrameKept
<1> QED BY <1>2, <1>3, <1>4, <1>5

(***************************************************************************)
(* A frame that has tried everything: if it is not tainted then every      *)
(* candidate is hopeless within its depth, so no policy starts with one.   *)
(***************************************************************************)
LEMMA FailStateStep ==
  ASSUME IInv, FailState
  PROVE  IInv'
<1>1. /\ pc = "choose" /\ Top.todo = {} /\ pc' = "return"
      /\ failed_upto' = IF Top.tainted THEN failed_upto
                        ELSE Refute(Top.state, Top.depth, Top.truncated_before)
      /\ ancestors' = ancestors \ {Top.state}
      /\ stack' = Below
      /\ arg' = [state |-> Top.state, depth |-> Top.depth]
      /\ ret' = Failure(Top.tainted)
      /\ UNCHANGED <<task, depth, solved, truncated, late, outcome>>
  BY DEF FailState, Return
<1>2. stack # <<>> /\ stack \in Seq(Frame) /\ task \in Tasks
  BY <1>1 DEF IInv, PathInv, TypeOK
<1>3. PICK n : n = Len(stack) /\ n \in 1..n /\ Top = stack[n] /\ Top \in Frame /\ n \in Nat
  BY <1>2, TopType
<1>4. /\ OpenState(Top) /\ PartlyRefuted(Top, FALSE)
      /\ Top.state \in State /\ Top.depth \in Nat /\ Top.tainted \in BOOLEAN
  <2>1. FrameInv(n) /\ ~Trying(n)
    BY <1>1, <1>3 DEF IInv, FramesInv, Trying
  <2> QED BY <1>3, <2>1 DEF FrameInv, PartlyRefuted, Frame
<1>5. ~Top.tainted => ~SolvableWithin(task, Top.state, Top.depth)
  <2> SUFFICES ASSUME ~Top.tainted, SolvableWithin(task, Top.state, Top.depth)
               PROVE  FALSE
    OBVIOUS
  <2>1. PICK a \in Candidates(task, Top.state) :
          \A j \in DOMAIN Actions(task, Top.state)[a] :
            SolvableWithin(task, Actions(task, Top.state)[a][j], Top.depth - 1)
    BY <1>2, <1>4, PolicyStep DEF OpenState
  <2>2. Hopeless(a, Top.state, Top.depth - 1)
    BY <1>1, <1>4 DEF PartlyRefuted
  <2> QED BY <2>1, <2>2 DEF Hopeless
<1>6. stack' \in Seq(Frame) /\ AncestorsAreThePath' /\ PathInv' /\ FramesInv'
  BY <1>1, <1>2, PopStep DEF Certified
<1>7. /\ DOMAIN failed_upto' \subseteq State
      /\ failed_upto' \in [DOMAIN failed_upto' -> [depth : Nat, truncated : BOOLEAN]]
      /\ RefutedIsUnsolvable'
  <2>0. /\ DOMAIN failed_upto \subseteq State
        /\ failed_upto \in [DOMAIN failed_upto -> [depth : Nat, truncated : BOOLEAN]]
        /\ truncated \in BOOLEAN /\ Top.truncated_before \in BOOLEAN
        /\ RefutedIsUnsolvable
    BY <1>3 DEF IInv, TypeOK, Frame
  <2>1. CASE failed_upto' = failed_upto
    BY <1>1, <2>0, <2>1 DEF RefutedIsUnsolvable
  <2>2. CASE failed_upto' # failed_upto
    <3>1. PICK e : /\ e = [depth |-> Top.depth, truncated |-> truncated /\ ~Top.truncated_before]
                   /\ failed_upto' = Put(failed_upto, Top.state, e)
      BY <1>1, <2>2 DEF Refute
    <3>2. ~Top.tainted
      BY <1>1, <2>2
    <3>3. e \in [depth : Nat, truncated : BOOLEAN] /\ e.depth = Top.depth
      BY <1>4, <2>0, <3>1
    <3>4. /\ DOMAIN failed_upto' = DOMAIN failed_upto \cup {Top.state}
          /\ \A s \in DOMAIN failed_upto' :
               failed_upto'[s] = IF s = Top.state THEN e ELSE failed_upto[s]
          /\ failed_upto' = [s \in DOMAIN failed_upto' |-> failed_upto'[s]]
      BY <3>1 DEF Put
    <3>5. ASSUME NEW s \in DOMAIN failed_upto'
          PROVE  ~SolvableWithin(task, s, failed_upto'[s].depth)
      BY <1>5, <2>0, <3>2, <3>3, <3>4 DEF RefutedIsUnsolvable
    <3>6. \A s \in DOMAIN failed_upto' : failed_upto'[s] \in [depth : Nat, truncated : BOOLEAN]
      BY <2>0, <3>3, <3>4
    <3>7. RefutedIsUnsolvable'
      BY <1>1, <3>5 DEF RefutedIsUnsolvable
    <3> QED BY <1>4, <2>0, <3>4, <3>6, <3>7
  <2> QED BY <2>1, <2>2
<1>8. TypeOK'
  <2>1. ret' \in [solved : BOOLEAN, height : Nat, tainted : BOOLEAN]
    BY <1>1, <1>4, ResultType
  <2>2. arg' \in [state : State, depth : Nat]
    BY <1>1, <1>4
  <2> QED BY <1>1, <1>6, <1>7, <2>1, <2>2 DEF IInv, TypeOK
<1>9. ResultInv'
  BY <1>1, <1>5 DEF ResultInv, Failure
<1>10. SolvedIsPolicy'
  BY <1>1 DEF IInv, SolvedIsPolicy
<1> QED BY <1>6, <1>7, <1>8, <1>9, <1>10 DEF IInv

(***************************************************************************)
(* A frame whose last branch is solved.  Its height is within its depth,   *)
(* so it is lower than any height the memo held for the state: entries     *)
(* that point at the state keep pointing downwards.                        *)
(***************************************************************************)
LEMMA SolveStateStep ==
  ASSUME IInv, SolveState
  PROVE  IInv'
<1>1. PICK h : /\ h = Maximum(Top.height, ret.height) + 1
               /\ solved' = Put(solved, Top.state, [action |-> Top.action, height |-> h])
               /\ ret' = Success(h)
  BY DEF SolveState, Return
<1>2. /\ pc = "return" /\ pc' = "return" /\ stack # <<>>
      /\ ret.solved /\ Top.branch = Len(Branches(Top))
      /\ ancestors' = ancestors \ {Top.state}
      /\ stack' = Below
      /\ arg' = [state |-> Top.state, depth |-> Top.depth]
      /\ UNCHANGED <<task, depth, failed_upto, truncated, late, outcome>>
  BY DEF SolveState, Return
<1>3. /\ stack \in Seq(Frame) /\ task \in Tasks /\ Top \in Frame /\ ret.height \in Nat
      /\ DOMAIN solved \subseteq State
      /\ solved \in [DOMAIN solved -> [action : Nat, height : Nat]]
      /\ SolvedIsPolicy
  BY <1>2, TopType DEF IInv, TypeOK
<1>4. /\ OpenState(Top) /\ PartlySolved(Top)
      /\ ret.height <= Top.depth - 1 /\ Certified(Branch(Top), ret.height)
  BY <1>2, ReturnedBranch
<1>5. /\ Top.state \in State /\ Top.depth \in Nat /\ Top.height \in Nat
      /\ h \in Nat /\ h <= Top.depth /\ Top.height < h /\ ret.height < h
  <2>1. /\ Top.state \in State /\ Top.depth \in Nat /\ Top.height \in Nat
        /\ Top.height < Top.depth
    BY <1>3, <1>4 DEF Frame, PartlySolved
  <2> QED BY <1>1, <1>3, <1>4, <2>1 DEF Maximum
<1>6. Top.action \in Nat /\ Top.action \in DOMAIN Actions(task, Top.state)
  BY <1>3, <1>4, <1>5, CandidateType DEF PartlySolved
<1>7. /\ DOMAIN solved' = DOMAIN solved \cup {Top.state}
      /\ \A s \in DOMAIN solved' :
           solved'[s] = IF s = Top.state THEN [action |-> Top.action, height |-> h] ELSE solved[s]
      /\ solved' = [s \in DOMAIN solved' |-> solved'[s]]
  BY <1>1 DEF Put
<1>8. Top.state \in DOMAIN solved => solved[Top.state].height > h
  <2>1. Top.state \in DOMAIN solved => solved[Top.state].height \in Nat
    BY <1>3
  <2> QED BY <1>4, <1>5, <2>1 DEF OpenState
<1>9. solved'[Top.state].height = h /\ solved'[Top.state].action = Top.action
  BY <1>7
<1>10. \A b \in State : \A k \in Nat : Certified(b, k) => Certified(b, k)'
  <2> SUFFICES ASSUME NEW b \in State, NEW k \in Nat, Certified(b, k)
               PROVE  Certified(b, k)'
    OBVIOUS
  <2>1. CASE b \in Goal(task)
    BY <1>2, <2>1 DEF Certified
  <2>2. CASE b \in DOMAIN solved /\ solved[b].height <= k
    <3>1. solved[b].height \in Nat /\ b \in DOMAIN solved'
      BY <1>3, <1>7, <2>2
    <3>2. solved'[b].height <= k
      BY <1>5, <1>7, <1>8, <1>9, <2>2, <3>1
    <3> QED BY <3>1, <3>2 DEF Certified
  <2> QED BY <2>1, <2>2 DEF Certified
<1>11. stack' \in Seq(Frame) /\ AncestorsAreThePath' /\ PathInv' /\ FramesInv'
  <2>1. \A b \in State : b # Top.state /\ b \in DOMAIN solved' =>
          b \in DOMAIN solved /\ solved'[b] = solved[b]
    BY <1>7
  <2> QED BY <1>2, <1>10, <2>1, PopStep
<1>12. SolvedIsPolicy'
  <2>1. \A j \in DOMAIN Branches(Top) :
          Certified(Branches(Top)[j], Top.height) \/ Certified(Branches(Top)[j], ret.height)
    <3>1. DOMAIN Branches(Top) = 1..Len(Branches(Top)) /\ Len(Branches(Top)) \in Nat
      BY <1>3, <1>4, <1>5, CandidateType DEF PartlySolved, Branches
    <3>2. \A k \in Nat : \A j \in 1..k : j \in 1..(k - 1) \/ j = k
      OBVIOUS
    <3>3. \A j \in 1..Len(Branches(Top)) : j \in 1..(Top.branch - 1) \/ j = Top.branch
      BY <1>2, <3>1, <3>2
    <3> QED BY <1>4, <3>1, <3>3 DEF PartlySolved, Branch
  <2>2. ASSUME NEW b, Certified(b, Top.height) \/ Certified(b, ret.height)
        PROVE  b \in Goal(task) \/ (b \in DOMAIN solved' /\ solved'[b].height < h)
    <3>1. CASE b \notin Goal(task)
      <4>1. b \in DOMAIN solved /\ solved[b].height \in Nat /\ solved[b].height < h
        BY <1>3, <1>5, <2>2, <3>1 DEF Certified
      <4>2. b # Top.state
        BY <1>5, <1>8, <4>1
      <4> QED BY <1>7, <4>1, <4>2
    <3> QED BY <3>1
  <2>3. ASSUME NEW s \in DOMAIN solved'
        PROVE  /\ solved'[s].action \in DOMAIN Actions(task, s)
               /\ \A j \in DOMAIN Actions(task, s)[solved'[s].action] :
                    LET b == Actions(task, s)[solved'[s].action][j] IN
                      b \in Goal(task) \/ (b \in DOMAIN solved' /\ solved'[b].height < solved'[s].height)
    <3>1. CASE s = Top.state
      BY <1>6, <1>9, <2>1, <2>2, <3>1 DEF Branches
    <3>2. CASE s # Top.state
      <4>1. s \in DOMAIN solved /\ solved'[s] = solved[s] /\ solved[s].height \in Nat
        BY <1>3, <1>7, <3>2
      <4>2. solved'[s].action \in DOMAIN Actions(task, s)
        BY <1>3, <4>1 DEF SolvedIsPolicy
      <4>3. ASSUME NEW j \in DOMAIN Actions(task, s)[solved[s].action],
                   NEW b, b = Actions(task, s)[solved[s].action][j]
            PROVE  b \in Goal(task) \/ (b \in DOMAIN solved' /\ solved'[b].height < solved[s].height)
        <5>1. b \in Goal(task) \/ (b \in DOMAIN solved /\ solved[b].height < solved[s].height)
          BY <1>3, <4>1, <4>3 DEF SolvedIsPolicy
        <5>2. CASE b \in DOMAIN solved /\ solved[b].height < solved[s].height
          <6>1. solved[b].height \in Nat /\ b \in DOMAIN solved'
            BY <1>3, <1>7, <5>2
          <6>2. solved'[b].height <= solved[b].height
            BY <1>5, <1>7, <1>8, <1>9, <5>2, <6>1
          <6>3. solved'[b].height \in Nat
            BY <1>5, <1>7, <1>9, <6>1
          <6> QED BY <4>1, <5>2, <6>1, <6>2, <6>3
        <5> QED BY <5>1, <5>2
      <4> QED BY <4>1, <4>2, <4>3
    <3> QED BY <3>1, <3>2
  <2> QED BY <1>2, <2>3 DEF SolvedIsPolicy
<1>13. TypeOK'
  <2>1. /\ DOMAIN solved' \subseteq State
        /\ solved' \in [DOMAIN solved' -> [action : Nat, height : Nat]]
    <3>1. \A s \in DOMAIN solved' : solved'[s] \in [action : Nat, height : Nat]
      BY <1>3, <1>5, <1>6, <1>7
    <3> QED BY <1>3, <1>5, <1>7, <3>1
  <2>2. ret' \in [solved : BOOLEAN, height : Nat, tainted : BOOLEAN]
    BY <1>1, <1>5, ResultType
  <2>3. arg' \in [state : State, depth : Nat]
    BY <1>2, <1>5
  <2> QED BY <1>2, <1>11, <2>1, <2>2, <2>3 DEF IInv, TypeOK
<1>14. ResultInv'
  <2>1. ret'.solved /\ ret'.height = h
    BY <1>1 DEF Success
  <2>2. Certified(arg.state, h)'
    BY <1>2, <1>5, <1>7, <1>9 DEF Certified
  <2> QED BY <1>2, <1>5, <2>1, <2>2 DEF ResultInv
<1>15. RefutedIsUnsolvable'
  BY <1>2 DEF IInv, RefutedIsUnsolvable
<1> QED BY <1>11, <1>12, <1>13, <1>14, <1>15 DEF IInv

-----------------------------------------------------------------------------
(***************************************************************************)
(* The inductive invariant holds, and with it the properties below.        *)
(***************************************************************************)
LEMMA InitInvariant == Init => IInv
<1> SUFFICES ASSUME Init PROVE IInv
  OBVIOUS
<1>1. Initial(task) \in State /\ task \in Tasks
  BY TaskAssumption DEF Init, IsGraph, Initial
<1>2. /\ stack = <<>> /\ Len(stack) = 0 /\ DOMAIN stack = {} /\ stack \in Seq(Frame)
      /\ DOMAIN solved = {} /\ DOMAIN failed_upto = {}
      /\ solved \in [DOMAIN solved -> [action : Nat, height : Nat]]
      /\ failed_upto \in [DOMAIN failed_upto -> [depth : Nat, truncated : BOOLEAN]]
  BY DEF Init
<1>3. TypeOK
  <2>1. ret \in [solved : BOOLEAN, height : Nat, tainted : BOOLEAN]
    BY ResultType DEF Init
  <2> QED BY <1>1, <1>2, <2>1 DEF Init, TypeOK, Outcomes
<1>4. AncestorsAreThePath
  BY <1>2 DEF Init, AncestorsAreThePath
<1>5. PathInv
  BY <1>2 DEF Init, PathInv
<1>6. FramesInv
  BY <1>2 DEF FramesInv
<1> QED BY <1>2, <1>3, <1>4, <1>5, <1>6
        DEF Init, IInv, ResultInv, SolvedIsPolicy, RefutedIsUnsolvable

LEMMA NextInvariant == IInv /\ [Next]_vars => IInv'
<1> SUFFICES ASSUME IInv, [Next]_vars PROVE IInv'
  OBVIOUS
<1>1. CASE Deepening
  BY <1>1, DeepeningStep
<1>2. CASE Entering
  BY <1>2, EarlyReturnStep, ExpandStep DEF Entering
<1>3. CASE Looping
  BY <1>3, TryActionStep, NextBranchStep, DropActionStep, SolveStateStep, FailStateStep DEF Looping
<1>4. CASE Expire \/ UNCHANGED vars
  BY <1>4, ExpireStep
<1> QED BY <1>1, <1>2, <1>3, <1>4 DEF Next, Search, Finished

LEMMA Invariant == Spec => []IInv
BY InitInvariant, NextInvariant, PTL DEF Spec

(***************************************************************************)
(* Every variable keeps its type; in particular the budget that dfs passes *)
(* down, an unsigned number in the code, is never 0 - 1.                   *)
(***************************************************************************)
THEOREM TypeCorrect == Spec => []TypeOK
BY Invariant, PTL DEF IInv

(***************************************************************************)
(* At every moment, deadline or not, following the actions of the solved   *)
(* memo leads from a solved state to the goal.                             *)
(***************************************************************************)
THEOREM SolvedMemoCorrect == Spec => []SolvedIsPolicy
BY Invariant, PTL DEF IInv

(***************************************************************************)
(* A state that the refuted memo fails up to a depth has no policy of that *)
(* height, so replaying the refutation loses no plan.                      *)
(***************************************************************************)
THEOREM RefutedMemoCorrect == Spec => []RefutedIsUnsolvable
BY Invariant, PTL DEF IInv

(***************************************************************************)
(* The cut set is exactly the current path, without repetition.            *)
(***************************************************************************)
THEOREM AncestorsCorrect == Spec => []AncestorsAreThePath
BY Invariant, PTL DEF IInv

(***************************************************************************)
(* No step forgets a solved state, raises its height, or lowers the depth  *)
(* up to which a state is refuted.  A solved entry is only overwritten by  *)
(* a frame that found its height above the frame's own depth.              *)
(***************************************************************************)
THEOREM MemosImprove == Spec => MemosOnlyImprove
<1> DEFINE Improved ==
      /\ \A s \in DOMAIN solved :
           s \in DOMAIN solved' /\ solved'[s].height <= solved[s].height
      /\ \A s \in DOMAIN failed_upto :
           s \in DOMAIN failed_upto' /\ failed_upto'[s].depth >= failed_upto[s].depth
<1>1. ASSUME IInv, [Next]_vars
      PROVE  [Improved]_vars
  <2>1. /\ \A s \in DOMAIN solved : solved[s].height \in Nat
        /\ \A s \in DOMAIN failed_upto : failed_upto[s].depth \in Nat
    BY <1>1 DEF IInv, TypeOK
  <2>2. CASE UNCHANGED <<solved, failed_upto>>
    BY <2>1, <2>2
  <2>3. CASE SolveState
    <3>1. PICK h : /\ h = Maximum(Top.height, ret.height) + 1
                   /\ solved' = Put(solved, Top.state, [action |-> Top.action, height |-> h])
      BY <2>3 DEF SolveState
    <3>2. pc = "return" /\ stack # <<>> /\ ret.solved /\ UNCHANGED failed_upto
      BY <2>3 DEF SolveState
    <3>3. Top \in Frame /\ ret.height \in Nat
      BY <1>1, <3>2, TopType DEF IInv, TypeOK
    <3>4. /\ Top.depth \in Nat /\ Top.height \in Nat
          /\ Top.height < Top.depth /\ ret.height <= Top.depth - 1
          /\ Top.state \in DOMAIN solved => solved[Top.state].height > Top.depth
      BY <1>1, <3>2, <3>3, ReturnedBranch DEF PartlySolved, OpenState, Frame
    <3>5. h <= Top.depth /\ h \in Nat
      BY <3>1, <3>3, <3>4 DEF Maximum
    <3>6. ASSUME NEW s \in DOMAIN solved
          PROVE  s \in DOMAIN solved' /\ solved'[s].height <= solved[s].height
      <4>1. CASE s = Top.state
        <5>1. solved'[s].height = h /\ s \in DOMAIN solved'
          BY <3>1, <4>1 DEF Put
        <5> QED BY <2>1, <3>4, <3>5, <4>1, <5>1
      <4>2. CASE s # Top.state
        BY <2>1, <3>1, <4>2 DEF Put
      <4> QED BY <4>1, <4>2
    <3> QED BY <2>1, <3>2, <3>6
  <2>4. CASE FailState
    <3>1. stack # <<>> /\ UNCHANGED solved
      BY <1>1, <2>4 DEF FailState, IInv, PathInv
    <3>2. Top.depth \in Nat
      BY <1>1, <3>1, TopType DEF IInv, TypeOK, Frame
    <3>3. \/ failed_upto' = failed_upto
          \/ /\ ~(Top.state \in DOMAIN failed_upto /\ Top.depth < failed_upto[Top.state].depth)
             /\ \E e : e.depth = Top.depth /\ failed_upto' = Put(failed_upto, Top.state, e)
      <4>1. PICK e : e = [depth |-> Top.depth, truncated |-> truncated /\ ~Top.truncated_before]
        OBVIOUS
      <4>2. e.depth = Top.depth
        BY <4>1
      <4> QED BY <2>4, <4>1, <4>2 DEF FailState, Refute
    <3>4. CASE failed_upto' = failed_upto
      BY <2>1, <3>1, <3>4
    <3>5. CASE failed_upto' # failed_upto
      <4>1. PICK e : e.depth = Top.depth /\ failed_upto' = Put(failed_upto, Top.state, e)
        BY <3>3, <3>5
      <4>2. ASSUME NEW s \in DOMAIN failed_upto
            PROVE  s \in DOMAIN failed_upto' /\ failed_upto'[s].depth >= failed_upto[s].depth
        BY <2>1, <3>2, <3>3, <3>5, <4>1 DEF Put
      <4> QED BY <2>1, <3>1, <4>2
    <3> QED BY <3>4, <3>5
  <2>5. CASE ~SolveState /\ ~FailState
    <3>1. UNCHANGED <<solved, failed_upto>>
      BY <1>1, <2>5 DEF Next, Search, Deepening, Entering, Looping, AlreadyAtGoal, Start,
         GiveUpLate, GiveUpDeep, Deepen, FinishSolved, FinishExhausted, NextDepth, Stop,
         AbandonLate, CutCycle, ReachGoal, ReuseSolved, HitBound, ReuseRefuted, EarlyReturn,
         Expand, TryAction, NextBranch, DropAction, Expire, Finished, vars, context
    <3> QED BY <2>2, <3>1
  <2> QED BY <2>3, <2>4, <2>5
<1> QED BY <1>1, Invariant, PTL DEF Spec, MemosOnlyImprove

-----------------------------------------------------------------------------
(***************************************************************************)
(* What a step does to the frames, for the invariants that say something   *)
(* of the actions a frame is through with: the frame that a failed branch  *)
(* returns to is through with one more, and no other frame is.             *)
(***************************************************************************)

\* The actions that frame i is through with.
Passed(i) ==
  {a \in Candidates(task, stack[i].state) \ stack[i].todo :
     ~(Trying(i) /\ a = stack[i].action)}

\* Frame i stays what it is, and the step settles at most the action that fails.
KeepsFrame(i) ==
  /\ i \in 1..Len(stack)
  /\ stack'[i].state = stack[i].state /\ stack'[i].depth = stack[i].depth
  /\ \A a \in Passed(i)' :
       a \in Passed(i) \/ (DropAction /\ i = Len(stack) /\ a = Top.action)

\* Frame i is the one that Expand pushes.
NewFrame(i) ==
  /\ stack'[i].state = arg.state /\ stack'[i].depth = arg.depth
  /\ Passed(i)' = {}

(***************************************************************************)
(* A step that leaves the stack alone keeps every frame.                   *)
(***************************************************************************)
LEMMA SameStackFrames ==
  ASSUME IInv, UNCHANGED <<task, stack>>,
         \/ stack = <<>>
         \/ pc' = pc
         \/ pc \in {"enter", "return"} /\ pc' \in {"enter", "return"}
  PROVE  /\ Len(stack') = Len(stack)
         /\ \A i \in 1..Len(stack') : KeepsFrame(i)
<1>1. ASSUME NEW i \in 1..Len(stack)
      PROVE  KeepsFrame(i)
  <2>1. stack # <<>>
    BY EmptySeq DEF IInv, TypeOK
  <2>2. Trying(i)' = Trying(i)
    BY <2>1 DEF Trying
  <2> QED BY <2>2 DEF KeepsFrame, Passed
<1> QED BY <1>1

(***************************************************************************)
(* So does one that replaces the top frame, if the new one is through with *)
(* what the old one was.                                                   *)
(***************************************************************************)
LEMMA TopFrames ==
  ASSUME IInv, stack # <<>>, task' = task, NEW f \in Frame, stack' = ReplaceTop(f),
         f.state = Top.state, f.depth = Top.depth,
         pc' \in {"enter", "choose"},
         \A a \in Candidates(task, f.state) \ f.todo :
           ~(pc' = "enter" /\ a = f.action) => a \in Passed(Len(stack)) \/ (DropAction /\ a = Top.action)
  PROVE  /\ Len(stack') = Len(stack)
         /\ \A i \in 1..Len(stack') : KeepsFrame(i)
<1>1. /\ stack \in Seq(Frame) /\ Len(stack) \in Nat \ {0} /\ Top = stack[Len(stack)]
      /\ Len(stack') = Len(stack)
      /\ \A i \in 1..Len(stack) : stack'[i] = IF i = Len(stack) THEN f ELSE stack[i]
  BY TopType, ReplaceTopType DEF IInv, TypeOK
<1>2. PICK n \in Nat : n = Len(stack)
  BY <1>1
<1>3. ASSUME NEW i \in 1..n, i < n
      PROVE  KeepsFrame(i)
  <2>1. Trying(i) /\ Trying(i)' /\ stack'[i] = stack[i]
    BY <1>1, <1>2, <1>3 DEF Trying
  <2> QED BY <1>2, <2>1 DEF KeepsFrame, Passed
<1>4. KeepsFrame(n)
  <2>1. stack'[n] = f /\ stack[n] = Top /\ n \in 1..Len(stack)
    BY <1>1, <1>2
  <2>2. Trying(n)' = (pc' = "enter")
    BY <1>1, <1>2 DEF Trying
  <2>3. ASSUME NEW a \in Passed(n)'
        PROVE  a \in Passed(n) \/ (DropAction /\ a = Top.action)
    <3>1. a \in Candidates(task, f.state) \ f.todo /\ ~(pc' = "enter" /\ a = f.action)
      BY <2>1, <2>2 DEF Passed
    <3> QED BY <1>2, <3>1
  <2> QED BY <1>2, <2>1, <2>3 DEF KeepsFrame
<1> QED BY <1>1, <1>2, <1>3, <1>4

(***************************************************************************)
(* A new frame is through with nothing.                                    *)
(***************************************************************************)
LEMMA PushedFrame ==
  ASSUME IInv, Expand
  PROVE  /\ task' = task
         /\ Len(stack') = Len(stack) + 1
         /\ \A i \in 1..Len(stack') : IF i <= Len(stack) THEN KeepsFrame(i) ELSE NewFrame(i)
<1>1. PICK n \in Nat : n = Len(stack)
  BY DEF IInv, TypeOK
<1>2. PICK f : f = [state |-> arg.state, depth |-> arg.depth,
                    todo |-> Candidates(task, arg.state), action |-> 0,
                    branch |-> 0, height |-> 0, tainted |-> FALSE,
                    truncated_before |-> truncated]
  OBVIOUS
<1>3. /\ stack' = Append(stack, f) /\ task' = task /\ pc = "enter" /\ pc' = "choose"
      /\ f.state = arg.state /\ f.depth = arg.depth
      /\ f.todo = Candidates(task, arg.state)
  BY <1>2 DEF Expand
<1>4. f \in Frame
  <2>1. arg.state \in State /\ arg.depth \in Nat /\ truncated \in BOOLEAN
    BY DEF IInv, TypeOK
  <2>2. Candidates(task, arg.state) \in SUBSET Nat
    BY <2>1, CandidateType DEF IInv, TypeOK
  <2> QED BY <1>2, <2>1, <2>2 DEF Frame
<1>5. /\ Len(stack') = n + 1 /\ stack'[n + 1] = f
      /\ \A i \in 1..n : stack'[i] = stack[i]
  BY <1>1, <1>3, <1>4, AppendProperties DEF IInv, TypeOK
<1>6. ASSUME NEW i \in 1..n
      PROVE  KeepsFrame(i)
  <2>1. Trying(i) /\ Trying(i)' /\ stack'[i] = stack[i]
    BY <1>1, <1>3, <1>5, <1>6 DEF Trying
  <2> QED BY <1>1, <1>3, <2>1 DEF KeepsFrame, Passed
<1>7. NewFrame(n + 1)
  BY <1>3, <1>5 DEF NewFrame, Passed
<1>8. \A i \in 1..(n + 1) : (i <= n /\ i \in 1..n) \/ (i = n + 1 /\ ~(i <= n))
  OBVIOUS
<1> QED BY <1>1, <1>3, <1>5, <1>6, <1>7, <1>8

(***************************************************************************)
(* A frame that leaves the stack leaves the others as they are.            *)
(***************************************************************************)
LEMMA PoppedFrame ==
  ASSUME IInv, stack # <<>>, stack' = Below, task' = task, pc' = "return"
  PROVE  /\ Len(stack') = Len(stack) - 1
         /\ \A i \in 1..Len(stack') : KeepsFrame(i)
<1>1. PICK n \in Nat \ {0} : n = Len(stack)
  BY TopType DEF IInv, TypeOK
<1>2. Len(stack') = n - 1 /\ \A i \in 1..(n - 1) : stack'[i] = stack[i]
  BY <1>1, BelowType DEF IInv, TypeOK
<1>3. ASSUME NEW i \in 1..(n - 1)
      PROVE  KeepsFrame(i)
  <2>1. Trying(i) /\ Trying(i)' /\ stack'[i] = stack[i]
    BY <1>1, <1>2, <1>3 DEF Trying
  <2> QED BY <1>1, <2>1 DEF KeepsFrame, Passed
<1> QED BY <1>1, <1>2, <1>3

(***************************************************************************)
(* What a step of the search does to the frames.                           *)
(***************************************************************************)
LEMMA FramesStep ==
  ASSUME IInv, [Next]_vars
  PROVE  /\ task' = task
         /\ \/ /\ Expand
               /\ Len(stack') = Len(stack) + 1
               /\ \A i \in 1..Len(stack') :
                    IF i <= Len(stack) THEN KeepsFrame(i) ELSE NewFrame(i)
            \/ /\ ~Expand
               /\ Len(stack') <= Len(stack)
               /\ \A i \in 1..Len(stack') :
                    KeepsFrame(i)
<1>0. Len(stack) \in Nat
  BY DEF IInv, TypeOK
<1>1. CASE Expand
  BY <1>1, PushedFrame
<1>2. CASE Deepening \/ Expire \/ Finished \/ UNCHANGED vars
  <2>1. UNCHANGED <<task, stack>> /\ (stack = <<>> \/ pc' = pc) /\ ~Expand
    BY <1>2 DEF Deepening, AlreadyAtGoal, Start, GiveUpLate, GiveUpDeep, Deepen, FinishSolved,
       FinishExhausted, NextDepth, Stop, Expire, Finished, vars, control, IInv, PathInv, Expand
  <2> QED BY <1>0, <2>1, SameStackFrames
<1>3. CASE AbandonLate \/ CutCycle \/ ReachGoal \/ ReuseSolved \/ HitBound \/ ReuseRefuted
  <2>1. UNCHANGED <<task, stack>> /\ pc = "enter" /\ pc' = "return" /\ ~Expand
    BY <1>3 DEF AbandonLate, CutCycle, ReachGoal, ReuseSolved, HitBound, ReuseRefuted,
                EarlyReturn, Return, Expand
  <2> QED BY <1>0, <2>1, SameStackFrames
<1>4. CASE SolveState \/ FailState
  <2>1. stack # <<>> /\ stack' = Below /\ task' = task /\ pc' = "return" /\ ~Expand
    BY <1>4 DEF SolveState, FailState, Return, IInv, PathInv, Expand
  <2> QED BY <1>0, <2>1, PoppedFrame
<1>5. CASE DropAction
  <2>1. stack # <<>> /\ task' = task /\ pc = "return" /\ pc' = "choose" /\ ~Expand
    BY <1>5 DEF DropAction, Expand
  <2> DEFINE f == [Top EXCEPT !.tainted = @ \/ ret.tainted]
  <2>2. Top \in Frame /\ ret.tainted \in BOOLEAN /\ Top = stack[Len(stack)]
    BY <2>1, TopType DEF IInv, TypeOK
  <2>3. f \in Frame /\ f.state = Top.state /\ f.depth = Top.depth /\ f.todo = Top.todo
        /\ f.action = Top.action /\ stack' = ReplaceTop(f)
    BY <1>5, <2>2 DEF Frame, DropAction
  <2>4. ASSUME NEW a \in Candidates(task, f.state) \ f.todo, ~(pc' = "enter" /\ a = f.action)
        PROVE  a \in Passed(Len(stack)) \/ (DropAction /\ a = Top.action)
    BY <1>5, <2>2, <2>3, <2>4 DEF Passed
  <2> HIDE DEF f
  <2>5. /\ Len(stack') = Len(stack)
        /\ \A i \in 1..Len(stack') : KeepsFrame(i)
    BY <2>1, <2>3, <2>4, TopFrames
  <2> QED BY <1>0, <1>5, <2>1, <2>5
<1>6. CASE TryAction
  <2>1. /\ pc = "choose" /\ stack # <<>> /\ task' = task /\ pc' = "enter" /\ ~Expand /\ ~DropAction
    BY <1>6 DEF TryAction, Call, Expand, DropAction, IInv, PathInv
  <2>2. Top \in Frame /\ Top = stack[Len(stack)]
    BY <2>1, TopType DEF IInv, TypeOK
  <2>3. PICK b \in Top.todo : stack' = ReplaceTop([Top EXCEPT !.todo = @ \ {b}, !.action = b,
                                                             !.branch = 1, !.height = 0])
    BY <1>6 DEF TryAction
  <2> DEFINE f == [Top EXCEPT !.todo = @ \ {b}, !.action = b, !.branch = 1, !.height = 0]
  <2>4. f \in Frame /\ f.state = Top.state /\ f.depth = Top.depth /\ f.todo = Top.todo \ {b}
        /\ f.action = b
    BY <2>2, <2>3 DEF Frame
  <2>5. ASSUME NEW a \in Candidates(task, f.state) \ f.todo, ~(pc' = "enter" /\ a = f.action)
        PROVE  a \in Passed(Len(stack)) \/ (DropAction /\ a = Top.action)
    <3>1. a \in Candidates(task, Top.state) \ Top.todo
      BY <2>1, <2>4, <2>5
    <3>2. ~Trying(Len(stack))
      BY <1>0, <2>1 DEF Trying
    <3> QED BY <2>2, <3>1, <3>2 DEF Passed
  <2> HIDE DEF f
  <2>6. stack' = ReplaceTop(f)
    BY <2>3 DEF f
  <2>7. /\ Len(stack') = Len(stack)
        /\ \A i \in 1..Len(stack') : KeepsFrame(i)
    BY <2>1, <2>4, <2>5, <2>6, TopFrames
  <2> QED BY <1>0, <2>1, <2>7
<1>7. CASE NextBranch
  <2>1. /\ pc = "return" /\ stack # <<>> /\ task' = task /\ pc' = "enter" /\ ~Expand /\ ~DropAction
    BY <1>7 DEF NextBranch, Call, Expand, DropAction
  <2>2. Top \in Frame /\ Top = stack[Len(stack)] /\ ret.height \in Nat /\ ret.tainted \in BOOLEAN
    BY <2>1, TopType DEF IInv, TypeOK
  <2> DEFINE f == [Top EXCEPT !.branch = @ + 1,
                              !.height = Maximum(@, ret.height),
                              !.tainted = @ \/ ret.tainted]
  <2>3. stack' = ReplaceTop(f)
    BY <1>7 DEF NextBranch
  <2>4. f \in Frame /\ f.state = Top.state /\ f.depth = Top.depth /\ f.todo = Top.todo
        /\ f.action = Top.action
    <3>1. Maximum(Top.height, ret.height) \in Nat /\ Top.branch + 1 \in Nat
      BY <2>2 DEF Frame, Maximum
    <3>2. (Top.tainted \/ ret.tainted) \in BOOLEAN
      BY <2>2 DEF Frame
    <3>3. f \in Frame
      BY <2>2, <3>1, <3>2, AdvancedFrame
    <3> QED BY <2>2, <3>3 DEF Frame
  <2>5. ASSUME NEW a \in Candidates(task, f.state) \ f.todo, ~(pc' = "enter" /\ a = f.action)
        PROVE  a \in Passed(Len(stack)) \/ (DropAction /\ a = Top.action)
    <3>1. a \in Candidates(task, Top.state) \ Top.todo /\ a # Top.action
      BY <2>1, <2>4, <2>5
    <3> QED BY <2>2, <3>1 DEF Passed
  <2> HIDE DEF f
  <2>6. /\ Len(stack') = Len(stack)
        /\ \A i \in 1..Len(stack') : KeepsFrame(i)
    BY <2>1, <2>3, <2>4, <2>5, TopFrames
  <2> QED BY <1>0, <2>1, <2>6
<1> QED BY <1>1, <1>2, <1>3, <1>4, <1>5, <1>6, <1>7 DEF Next, Search, Entering, Looping

-----------------------------------------------------------------------------
(***************************************************************************)
(* Policies that stay off a path.  What the cut on the ancestors refutes   *)
(* is only this: that the state has a policy that does not come back to    *)
(* the path.  It is enough, because a state that has a policy has one that *)
(* does not come back to the state.                                        *)
(***************************************************************************)
SolvableAvoiding(t, s, k, A) ==
  \/ s \in Goal(t)
  \/ \E p \in Policies(t) : s \in DOMAIN p /\ DOMAIN p \cap A = {} /\ p[s] <= k

(***************************************************************************)
(* With no path to avoid, both notions of having a policy are one.         *)
(***************************************************************************)
LEMMA AvoidingNothing ==
  ASSUME NEW t \in Tasks, NEW s \in State, NEW k \in Nat
  PROVE  /\ SolvableWithin(t, s, k) <=> SolvableAvoiding(t, s, k, {})
         /\ \A A : SolvableAvoiding(t, s, k, A) => SolvableWithin(t, s, k)
BY HeightsAssumption DEF SolvableWithin, SolvableAvoiding, PolicyHeights

(***************************************************************************)
(* A state that is not a goal and has a policy of height k off the path    *)
(* has a candidate whose outcomes have policies of height k - 1 off the    *)
(* path and off the state itself: the part of the policy below the state.  *)
(***************************************************************************)
LEMMA AvoidingStep ==
  ASSUME NEW t \in Tasks, NEW s \in State, NEW k \in Nat, NEW A,
         s \notin Goal(t), SolvableAvoiding(t, s, k, A)
  PROVE  \E a \in Candidates(t, s) :
           \A j \in DOMAIN Actions(t, s)[a] :
             SolvableAvoiding(t, Actions(t, s)[a][j], k - 1, A \cup {s})
<1>1. PICK p \in Policies(t) : s \in DOMAIN p /\ DOMAIN p \cap A = {} /\ p[s] <= k
  BY DEF SolvableAvoiding
<1>2. PICK D \in SUBSET (State \ Goal(t)) : p \in [D -> Rank]
  BY DEF Policies
<1>3. \A x \in D : p[x] \in Nat \ {0} /\ x \in State
  BY <1>2, RankAssumption
<1> DEFINE E == {x \in D : p[x] < p[s]}
           q == [x \in E |-> p[x]]
<1>4. q \in Policies(t)
  <2>1. q \in [E -> Rank] /\ E \in SUBSET (State \ Goal(t))
    BY <1>2
  <2>2. ASSUME NEW x \in E
        PROVE  Covers(t, q, x)
    <3>1. PICK a \in DOMAIN Actions(t, x) :
            \A j \in DOMAIN Actions(t, x)[a] :
              LET b == Actions(t, x)[a][j] IN b \in Goal(t) \/ (b \in DOMAIN p /\ p[b] < p[x])
      BY <1>2 DEF Policies, IsPolicy, Covers
    <3>2. ASSUME NEW b, b \in DOMAIN p /\ p[b] < p[x]
          PROVE  b \in DOMAIN q /\ q[b] < q[x]
      BY <1>1, <1>2, <1>3, <3>2
    <3> QED BY <3>1, <3>2 DEF Covers
  <2> QED BY <2>1, <2>2 DEF Policies, IsPolicy
<1>5. PICK a \in DOMAIN Actions(t, s) :
        \A j \in DOMAIN Actions(t, s)[a] :
          LET b == Actions(t, s)[a][j] IN
            b \in Goal(t) \/ (b \in DOMAIN p /\ p[b] < p[s])
  BY <1>1 DEF Policies, IsPolicy, Covers
<1>6. ASSUME NEW j \in DOMAIN Actions(t, s)[a]
      PROVE  /\ SolvableAvoiding(t, Actions(t, s)[a][j], k - 1, A \cup {s})
             /\ \/ Actions(t, s)[a][j] \in Goal(t)
                \/ Actions(t, s)[a][j] \notin Graph(t).dead
  <2> DEFINE b == Actions(t, s)[a][j]
  <2>1. CASE b \in Goal(t)
    BY <2>1 DEF SolvableAvoiding
  <2>2. CASE b \in DOMAIN p /\ p[b] < p[s]
    <3>1. b \in E /\ b \in DOMAIN q /\ q[b] <= k - 1 /\ b \in State
      BY <1>1, <1>2, <1>3, <2>2
    <3>2. DOMAIN q \cap (A \cup {s}) = {}
      BY <1>1, <1>2, <1>3
    <3>3. SolvableAvoiding(t, b, k - 1, A \cup {s})
      BY <1>4, <3>1, <3>2 DEF SolvableAvoiding
    <3>4. Solvable(t, b)
      BY <2>2, <3>1, HeightsAssumption DEF Solvable, PolicyHeights
    <3> QED BY <3>3, <3>4, DeadEndAssumption
  <2> QED BY <1>5, <2>1, <2>2
<1>7. a \in Candidates(t, s)
  BY <1>6 DEF Candidates, Useful
<1> QED BY <1>6, <1>7

(***************************************************************************)
(* Any labelling that makes progress is as good as a policy, whatever      *)
(* numbers it uses: when only as many heights are at hand as there are     *)
(* states to label, each number is replaced by how many of the numbers in  *)
(* use are not above it.                                                   *)
(***************************************************************************)
LEMMA Relabel ==
  ASSUME NEW t \in Tasks, NEW D \in SUBSET (State \ Goal(t)), NEW p \in [D -> Nat \ {0}],
         IsPolicy(t, p), NEW s \in D
  PROVE  \E r \in Heights(t, s) : r <= p[s]
<1> SUFFICES ASSUME NEW q \in [D -> Rank], IsPolicy(t, q), q[s] <= p[s]
             PROVE  \E r \in Heights(t, s) : r <= p[s]
  <2> SUFFICES \E q \in [D -> Rank] : IsPolicy(t, q) /\ q[s] <= p[s]
    OBVIOUS
  <2>1. CASE Rank = Nat \ {0}
    BY <2>1
  <2>2. CASE IsFiniteSet(State) /\ 1..Cardinality(State \ Goal(t)) \subseteq Rank
    <3> DEFINE V == {p[x] : x \in D}
               Low(x) == {v \in V : v <= p[x]}
               q == [x \in D |-> Cardinality(Low(x))]
               N == Cardinality(State \ Goal(t))
    <3>1. /\ IsFiniteSet(State \ Goal(t)) /\ N \in Nat
          /\ IsFiniteSet(D) /\ Cardinality(D) <= N /\ Cardinality(D) \in Nat
      BY <2>2, FS_Subset, FS_CardinalityType
    <3>2. IsFiniteSet(V) /\ Cardinality(V) <= Cardinality(D) /\ Cardinality(V) \in Nat
      <4>1. p \in Surjection(D, V)
        BY DEF Surjection
      <4> QED BY <3>1, <4>1, FS_Surjection, FS_CardinalityType
    <3>3. ASSUME NEW x \in D
          PROVE  /\ IsFiniteSet(Low(x))
                 /\ Cardinality(Low(x)) \in 1..N
                 /\ Cardinality(Low(x)) <= p[x]
      <4>1. Low(x) \in SUBSET V /\ Low(x) \in SUBSET (1..p[x]) /\ Low(x) # {}
        OBVIOUS
      <4>2. IsFiniteSet(Low(x)) /\ Cardinality(Low(x)) <= Cardinality(V)
        BY <3>2, <4>1, FS_Subset
      <4>3. IsFiniteSet(1..p[x]) /\ Cardinality(1..p[x]) = p[x]
        BY FS_Interval
      <4>4. Cardinality(Low(x)) <= p[x]
        <5> HIDE DEF Low
        <5> QED BY <4>1, <4>3, FS_Subset
      <4>5. Cardinality(Low(x)) \in Nat \ {0}
        BY <4>1, <4>2, FS_EmptySet, FS_CardinalityType
      <4> QED BY <3>1, <3>2, <4>2, <4>4, <4>5
    <3>4. ASSUME NEW x \in D, NEW y \in D, p[y] < p[x]
          PROVE  q[y] < q[x]
      <4>1. Low(y) \in SUBSET Low(x) /\ Low(y) # Low(x)
        BY <3>4
      <4> HIDE DEF Low
      <4>2. Cardinality(Low(y)) <= Cardinality(Low(x)) /\ Cardinality(Low(y)) # Cardinality(Low(x))
        BY <3>3, <4>1, FS_Subset
      <4> QED BY <3>1, <3>3, <4>2
    <3>5. q \in [D -> Rank] /\ q[s] <= p[s]
      BY <2>2, <3>3
    <3>6. IsPolicy(t, q)
      <4> HIDE DEF Low
      <4> QED BY <3>4 DEF IsPolicy, Covers
    <3> QED BY <3>5, <3>6
  <2> QED BY <2>1, <2>2, RanksSuffice
<1>1. q \in Policies(t)
  BY DEF Policies
<1> QED BY <1>1, HeightsAssumption DEF PolicyHeights

-----------------------------------------------------------------------------
(***************************************************************************)
(* Why deepening is exact.  Until the deadline passes, every action that a *)
(* frame is through with has an outcome with no policy off the path, and   *)
(* every failure that is returned is right off the path, tainted or not:   *)
(* the refuted memo may not hold what the cut refutes, because the path    *)
(* may be another one next time, but the root has an empty path.           *)
(***************************************************************************)

\* The states of the first i frames.
Path(i) == {stack[m].state : m \in 1..i}

Barred(i, a) ==
  \E j \in DOMAIN Actions(task, stack[i].state)[a] :
    ~SolvableAvoiding(task, Actions(task, stack[i].state)[a][j], stack[i].depth - 1, Path(i))

RightOffThePath ==
  /\ ~late => \A i \in 1..Len(stack) : \A a \in Passed(i) : Barred(i, a)
  /\ pc = "return" /\ ~late /\ ~ret.solved =>
       ~SolvableAvoiding(task, arg.state, arg.depth, Path(Len(stack)))

Iterating == pc \in {"enter", "choose", "return"}

NoShorterPlan ==
  Iterating \/ (pc = "deepen" /\ ~late) =>
    depth = 0 \/ ~SolvableWithin(task, Initial(task), depth - 1)

ShortestPlan ==
  outcome = "solved" => ret.height = depth /\ SolvableWithin(task, Initial(task), depth)

ExactInv ==
  /\ pc = "start" => depth = 0
  /\ pc \notin {"start", "done"} => Initial(task) \notin Goal(task)
  /\ outcome # "running" => pc = "done"
  /\ \A s \in DOMAIN solved : solved[s].height >= 1
  /\ RightOffThePath
  /\ NoShorterPlan
  /\ ShortestPlan

(***************************************************************************)
(* The deadline, once passed, stays passed.                                *)
(***************************************************************************)
LEMMA LateStaysLate ==
  ASSUME IInv, [Next]_vars
  PROVE  late => late'
BY DEF Next, Search, Deepening, Entering, Looping, AlreadyAtGoal, Start, GiveUpLate, GiveUpDeep,
       Deepen, FinishSolved, FinishExhausted, NextDepth, Stop, AbandonLate, CutCycle, ReachGoal,
       ReuseSolved, HitBound, ReuseRefuted, EarlyReturn, Expand, TryAction, NextBranch, DropAction,
       SolveState, FailState, Expire, Finished, vars

(***************************************************************************)
(* The frames that stay keep their path.                                   *)
(***************************************************************************)
LEMMA PathKept ==
  ASSUME IInv, NEW i \in 0..Len(stack), i <= Len(stack'),
         \A m \in 1..i : stack'[m].state = stack[m].state
  PROVE  Path(i)' = Path(i)
BY DEF Path

(***************************************************************************)
(* What a frame is through with cannot succeed: DropAction adds the action *)
(* whose branch failed.                                                    *)
(***************************************************************************)
LEMMA FramesStayRight ==
  ASSUME IInv, RightOffThePath, [Next]_vars, ~late', NEW i \in 1..Len(stack'), NEW a \in Passed(i)'
  PROVE  Barred(i, a)'
<1>1. /\ ~late /\ task' = task
      /\ Len(stack) \in Nat /\ Len(stack') \in Nat
  <2>1. IInv'
    BY NextInvariant
  <2> QED BY <2>1, LateStaysLate, FramesStep DEF IInv, TypeOK
<1>2. i \in 1..Len(stack) /\ \A m \in 1..i : KeepsFrame(m)
  <2>1. CASE Expand
    <3>1. \A m \in 1..Len(stack') : IF m <= Len(stack) THEN KeepsFrame(m) ELSE NewFrame(m)
      BY <2>1, FramesStep
    <3>2. i <= Len(stack)
      BY <3>1 DEF NewFrame
    <3> QED BY <1>1, <3>1, <3>2
  <2>2. CASE ~Expand
    BY <1>1, <2>2, FramesStep
  <2> QED BY <2>1, <2>2
<1>3. /\ stack'[i].state = stack[i].state /\ stack'[i].depth = stack[i].depth
      /\ Path(i)' = Path(i)
  <2>1. \A m \in 1..i : stack'[m].state = stack[m].state
    BY <1>2 DEF KeepsFrame
  <2>2. stack'[i].depth = stack[i].depth
    BY <1>2 DEF KeepsFrame
  <2> QED BY <1>1, <1>2, <2>1, <2>2, PathKept
<1>4. CASE a \in Passed(i)
  BY <1>1, <1>2, <1>3, <1>4 DEF RightOffThePath, Barred
<1>5. CASE DropAction /\ i = Len(stack) /\ a = Top.action
  <2>1. pc = "return" /\ stack # <<>> /\ ~ret.solved
    BY <1>5 DEF DropAction
  <2>2. ~SolvableAvoiding(task, arg.state, arg.depth, Path(i))
    BY <1>1, <1>5, <2>1 DEF RightOffThePath
  <2>3. arg.state = Branch(Top) /\ arg.depth = Top.depth - 1 /\ Top = stack[i]
    BY <1>5, <2>1 DEF IInv, PathInv, Top
  <2>4. Top.branch \in DOMAIN Branches(Top)
    BY <2>1, ReturnedBranch DEF PartlySolved
  <2> QED BY <1>1, <1>3, <1>5, <2>2, <2>3, <2>4 DEF Barred, Branch, Branches
<1> QED BY <1>2, <1>4, <1>5 DEF KeepsFrame

(***************************************************************************)
(* A failure that is returned is right off the path, also when it is       *)
(* tainted by the cut.                                                     *)
(***************************************************************************)
LEMMA ReturnsStayRight ==
  ASSUME IInv, RightOffThePath, [Next]_vars, pc' = "return", ~late', ~ret'.solved
  PROVE  ~SolvableAvoiding(task, arg.state, arg.depth, Path(Len(stack)))'
<1>1. ~late /\ task' = task /\ task \in Tasks /\ IInv' /\ task' \in Tasks
  BY NextInvariant, LateStaysLate, FramesStep DEF IInv, TypeOK
<1>2. CASE ~ret'.tainted
  <2>1. ~SolvableWithin(task', arg'.state, arg'.depth) /\ arg'.state \in State /\ arg'.depth \in Nat
    BY <1>1, <1>2 DEF IInv, ResultInv, TypeOK
  <2> QED BY <1>1, <2>1, AvoidingNothing
<1>3. CASE CutCycle
  <2>1. UNCHANGED <<arg, stack>> /\ arg.state \in ancestors /\ stack \in Seq(Frame)
    BY <1>3 DEF CutCycle, EarlyReturn, Return, IInv, TypeOK, OnPath
  <2>2. PICK i \in 1..Len(stack) : arg.state = stack[i].state
    BY <2>1 DEF IInv, AncestorsAreThePath
  <2>3. arg.state \notin Goal(task)
    BY <2>2 DEF IInv, FramesInv, FrameInv, OpenState
  <2>4. arg.state \in Path(Len(stack))
    BY <2>2 DEF Path
  <2> QED BY <1>1, <2>1, <2>3, <2>4 DEF SolvableAvoiding, Path
<1>4. CASE FailState
  <2>1. /\ pc = "choose" /\ Top.todo = {} /\ stack' = Below /\ stack # <<>>
        /\ arg' = [state |-> Top.state, depth |-> Top.depth]
    BY <1>4 DEF FailState, Return, IInv, PathInv
  <2>2. PICK n \in Nat \ {0} : n = Len(stack)
    BY <2>1, TopType DEF IInv, TypeOK
  <2>3. /\ Top \in Frame /\ Top = stack[n] /\ n \in 1..Len(stack)
        /\ Len(stack') = n - 1 /\ \A m \in 1..(n - 1) : stack'[m] = stack[m]
    BY <2>1, <2>2, TopType, BelowType DEF IInv, TypeOK
  <2>4. Top.state \notin Goal(task) /\ Top.state \in State /\ Top.depth \in Nat /\ task \in Tasks
    BY <2>3 DEF IInv, TypeOK, FramesInv, FrameInv, OpenState, Frame
  <2>5. \A a \in Candidates(task, Top.state) : a \in Passed(n)
    BY <2>1, <2>2, <2>3 DEF Passed, Trying
  <2>6. Path(n) = Path(n - 1) \cup {Top.state}
    BY <2>2, <2>3 DEF Path
  <2>7. \A a \in Candidates(task, Top.state) :
          \E j \in DOMAIN Actions(task, Top.state)[a] :
            ~SolvableAvoiding(task, Actions(task, Top.state)[a][j], Top.depth - 1, Path(n))
    BY <1>1, <2>3, <2>5 DEF RightOffThePath, Barred
  <2>8. ~SolvableAvoiding(task, Top.state, Top.depth, Path(n - 1))
    <3>1. PICK A : A = Path(n - 1)
      OBVIOUS
    <3>2. PICK d \in Nat : d = Top.depth
      BY <2>4
    <3>3. PICK s \in State : s = Top.state
      BY <2>4
    <3>4. \A a \in Candidates(task, s) :
            \E j \in DOMAIN Actions(task, s)[a] :
              ~SolvableAvoiding(task, Actions(task, s)[a][j], d - 1, A \cup {s})
      BY <2>6, <2>7, <3>1, <3>2, <3>3
    <3>5. ~SolvableAvoiding(task, s, d, A)
      BY <2>4, <3>3, <3>4, AvoidingStep
    <3> QED BY <3>1, <3>2, <3>3, <3>5
  <2>9. {stack'[m].state : m \in 1..Len(stack')} = Path(n - 1)
    BY <2>2, <2>3 DEF Path
  <2>10. Path(Len(stack))' = Path(n - 1)
    BY <2>9 DEF Path
  <2> QED BY <1>1, <2>1, <2>8, <2>10
<1>5. CASE ret'.tainted /\ ~CutCycle /\ ~FailState
  <2>1. UNCHANGED <<pc, arg, stack, ret>>
    BY <1>1, <1>5 DEF Next, Search, Deepening, Entering, Looping, AlreadyAtGoal, Start, GiveUpLate,
       GiveUpDeep, Deepen, FinishSolved, FinishExhausted, NextDepth, Stop, Call, AbandonLate,
       ReachGoal, ReuseSolved, HitBound, ReuseRefuted, EarlyReturn, Return, Success, Failure,
       Expand, TryAction, NextBranch, DropAction, SolveState, Expire, Finished, vars, control
  <2>2. ~SolvableAvoiding(task, arg.state, arg.depth, Path(Len(stack)))
    BY <1>1, <2>1 DEF RightOffThePath
  <2> QED BY <1>1, <2>1, <2>2 DEF Path
<1> QED BY <1>2, <1>3, <1>4, <1>5

(***************************************************************************)
(* A solved entry for the root gives it a policy of that height.           *)
(***************************************************************************)
LEMMA SolvedIsWithin ==
  ASSUME IInv, \A s \in DOMAIN solved : solved[s].height >= 1,
         NEW s \in DOMAIN solved, s \notin Goal(task)
  PROVE  SolvableWithin(task, s, solved[s].height)
<1> DEFINE D == DOMAIN solved \ Goal(task)
           p == [x \in D |-> solved[x].height]
<1>1. /\ task \in Tasks /\ D \in SUBSET (State \ Goal(task))
      /\ p \in [D -> Nat \ {0}] /\ s \in D
  BY DEF IInv, TypeOK
<1>2. IsPolicy(task, p)
  <2> SUFFICES ASSUME NEW x \in D PROVE Covers(task, p, x)
    BY DEF IsPolicy
  <2>1. solved[x].action \in DOMAIN Actions(task, x)
    BY DEF IInv, SolvedIsPolicy
  <2>2. \A j \in DOMAIN Actions(task, x)[solved[x].action] :
          LET b == Actions(task, x)[solved[x].action][j] IN
            b \in Goal(task) \/ (b \in DOMAIN solved /\ solved[b].height < solved[x].height)
    BY DEF IInv, SolvedIsPolicy
  <2>3. ASSUME NEW b, b \in Goal(task) \/ (b \in DOMAIN solved /\ solved[b].height < solved[x].height)
        PROVE  b \in Goal(task) \/ (b \in DOMAIN p /\ p[b] < p[x])
    BY <2>3
  <2> HIDE DEF p
  <2> QED BY <2>1, <2>2, <2>3 DEF Covers
<1>3. p[s] = solved[s].height
  BY <1>1
<1> HIDE DEF p, D
<1>4. \E r \in Heights(task, s) : r <= p[s]
  BY <1>1, <1>2, Relabel
<1> QED BY <1>3, <1>4 DEF SolvableWithin

(***************************************************************************)
(* The bound grows only after an iteration that has refuted the root.      *)
(***************************************************************************)
LEMMA DeepeningBound ==
  ASSUME IInv, ExactInv, [Next]_vars
  PROVE  /\ (pc = "start" => depth = 0)'
         /\ (pc \notin {"start", "done"} => Initial(task) \notin Goal(task))'
         /\ (outcome # "running" => pc = "done")'
         /\ NoShorterPlan'
<1>1. /\ task' = task /\ task \in Tasks /\ depth \in Nat /\ Initial(task) \in State
  BY FramesStep, TaskAssumption DEF IInv, TypeOK, IsGraph, Initial
<1>2. CASE Deepening
  <2>1. stack = <<>> /\ Len(stack) = 0
    BY <1>2 DEF Deepening, AlreadyAtGoal, Start, GiveUpLate, GiveUpDeep, Deepen,
         FinishSolved, FinishExhausted, NextDepth, IInv, PathInv
  <2>2. Path(Len(stack)) = {}
    BY <2>1 DEF Path
  <2>3. CASE NextDepth
    <3>1. /\ pc = "return" /\ ~ret.solved /\ pc' = "deepen" /\ depth' = depth + 1
          /\ late' = late /\ UNCHANGED outcome
      BY <2>3 DEF NextDepth
    <3>2. arg.state = Initial(task) /\ arg.depth = depth
      BY <2>1, <3>1 DEF IInv, PathInv
    <3>3. ~late => ~SolvableAvoiding(task, Initial(task), depth, {})
      BY <2>2, <3>1, <3>2 DEF ExactInv, RightOffThePath
    <3>4. ~late => ~SolvableWithin(task, Initial(task), depth)
      BY <1>1, <3>3, AvoidingNothing
    <3>5. depth' - 1 = depth
      BY <1>1, <3>1
    <3> QED BY <1>1, <3>1, <3>4, <3>5 DEF ExactInv, NoShorterPlan, Iterating
  <2>4. CASE Start
    <3>1. depth = 0 \/ pc # "start"
      BY DEF ExactInv
    <3> QED BY <1>1, <2>4, <3>1 DEF Start, ExactInv, NoShorterPlan, Iterating
  <2>5. CASE Deepening /\ ~NextDepth /\ ~Start
    BY <1>1, <2>5 DEF Deepening, AlreadyAtGoal, GiveUpLate, GiveUpDeep, Deepen, Call, Stop,
       FinishSolved, FinishExhausted, ExactInv, NoShorterPlan, Iterating
  <2> QED BY <1>2, <2>3, <2>4, <2>5
<1>3. CASE Entering \/ Looping
  <2>1. Iterating /\ Iterating' /\ UNCHANGED <<depth, outcome>>
    BY <1>3 DEF Entering, Looping, AbandonLate, CutCycle, ReachGoal, ReuseSolved, HitBound,
       ReuseRefuted, EarlyReturn, Return, Call, Expand, TryAction, NextBranch, DropAction,
       SolveState, FailState, Iterating
  <2> QED BY <1>1, <2>1 DEF ExactInv, NoShorterPlan, Iterating
<1>4. CASE Expire \/ UNCHANGED vars
  BY <1>1, <1>4, LateStaysLate DEF Expire, vars, control, ExactInv, NoShorterPlan, Iterating
<1> QED BY <1>2, <1>3, <1>4 DEF Next, Search, Finished

(***************************************************************************)
(* Every entry of the solved memo has a height of at least 1.              *)
(***************************************************************************)
LEMMA MemoHeights ==
  ASSUME IInv, ExactInv, [Next]_vars
  PROVE  \A s \in DOMAIN solved' : solved'[s].height >= 1
<1>1. CASE SolveState
  <2>1. Maximum(Top.height, ret.height) \in Nat
    BY <1>1, TopType DEF SolveState, IInv, TypeOK, Frame, Maximum
  <2>2. PICK h : h = Maximum(Top.height, ret.height) + 1
    OBVIOUS
  <2>3. solved' = Put(solved, Top.state, [action |-> Top.action, height |-> h]) /\ h >= 1
    BY <1>1, <2>1, <2>2 DEF SolveState
  <2> QED BY <2>3 DEF Put, ExactInv
<1>2. CASE ~SolveState
  <2>1. solved' = solved
    BY <1>2 DEF Next, Search, Deepening, Entering, Looping, AlreadyAtGoal, Start, GiveUpLate, GiveUpDeep,
       Deepen, FinishSolved, FinishExhausted, NextDepth, Stop, AbandonLate, CutCycle, ReachGoal,
       ReuseSolved, HitBound, ReuseRefuted, EarlyReturn, Expand, TryAction, NextBranch, DropAction,
       FailState, Expire, Finished, vars, context
  <2> QED BY <2>1 DEF ExactInv
<1> QED BY <1>1, <1>2

(***************************************************************************)
(* The height that the root returns is the bound: less would have been     *)
(* found before.                                                           *)
(***************************************************************************)
LEMMA PlanIsShortest ==
  ASSUME IInv, ExactInv, [Next]_vars
  PROVE  ShortestPlan'
<1>1. /\ task' = task /\ task \in Tasks /\ depth \in Nat /\ Initial(task) \in State
      /\ ret.height \in Nat
  BY FramesStep, TaskAssumption DEF IInv, TypeOK, IsGraph, Initial
<1>2. CASE FinishSolved
  <2>1. pc = "return" /\ stack = <<>> /\ ret.solved /\ UNCHANGED <<ret, depth>>
    BY <1>2 DEF FinishSolved, Stop
  <2>2. arg.state = Initial(task) /\ arg.depth = depth /\ Initial(task) \notin Goal(task)
    BY <2>1 DEF IInv, PathInv, ExactInv
  <2>3. ret.height <= depth /\ Certified(Initial(task), ret.height)
    BY <2>1, <2>2 DEF IInv, ResultInv
  <2>4. /\ Initial(task) \in DOMAIN solved /\ solved[Initial(task)].height \in Nat
        /\ solved[Initial(task)].height <= ret.height
    BY <2>2, <2>3 DEF Certified, IInv, TypeOK
  <2>5. SolvableWithin(task, Initial(task), solved[Initial(task)].height)
    BY <2>2, <2>4, SolvedIsWithin DEF ExactInv
  <2>6. SolvableWithin(task, Initial(task), depth)
    BY <1>1, <2>3, <2>4, <2>5, WithinMonotone
  <2>7. ret.height = depth
    <3>1. CASE depth = 0
      BY <1>1, <2>3, <3>1
    <3>2. CASE depth # 0 /\ ret.height # depth
      <4>1. depth - 1 \in Nat /\ solved[Initial(task)].height <= depth - 1
        BY <1>1, <2>3, <2>4, <3>2
      <4>2. SolvableWithin(task, Initial(task), depth - 1)
        BY <1>1, <2>4, <2>5, <4>1, WithinMonotone
      <4>3. ~SolvableWithin(task, Initial(task), depth - 1)
        BY <2>1, <3>2 DEF ExactInv, NoShorterPlan, Iterating
      <4> QED BY <4>2, <4>3
    <3> QED BY <3>1, <3>2
  <2> QED BY <1>1, <2>1, <2>6, <2>7 DEF ShortestPlan
<1>3. CASE ~FinishSolved /\ outcome' = "solved"
  <2>1. UNCHANGED <<outcome, ret, depth>>
    BY <1>3 DEF Next, Search, Deepening, Entering, Looping, AlreadyAtGoal, Start, GiveUpLate, GiveUpDeep,
       Deepen, FinishExhausted, NextDepth, Stop, AbandonLate, CutCycle, ReachGoal,
       ReuseSolved, HitBound, ReuseRefuted, EarlyReturn, Expand, TryAction, NextBranch, DropAction,
       SolveState, FailState, Expire, Finished, vars, control, ExactInv
  <2> QED BY <1>1, <1>3, <2>1 DEF ExactInv, ShortestPlan
<1> QED BY <1>2, <1>3 DEF ShortestPlan

(***************************************************************************)
(* The invariant holds in every reachable state.                           *)
(***************************************************************************)
LEMMA ExactInvariant == Spec => []ExactInv
<1>1. Init => ExactInv
  BY DEF Init, ExactInv, RightOffThePath, NoShorterPlan, ShortestPlan, Iterating
<1>2. ASSUME IInv, ExactInv, [Next]_vars
      PROVE  ExactInv'
  <2>1. RightOffThePath
    BY <1>2 DEF ExactInv
  <2>2. RightOffThePath'
    BY <1>2, <2>1, FramesStayRight, ReturnsStayRight DEF RightOffThePath
  <2> QED BY <1>2, <2>2, DeepeningBound, MemoHeights, PlanIsShortest DEF ExactInv
<1> QED BY <1>1, <1>2, Invariant, PTL DEF Spec

(***************************************************************************)
(* Iterative deepening is exact: aostar tries a depth only when no plan of *)
(* less depth exists, and the plan it returns is one of the least depth.   *)
(***************************************************************************)
THEOREM DeepeningExact == Spec => []DeepeningIsExact
<1>1. IInv /\ ExactInv => DeepeningIsExact
  BY DEF IInv, TypeOK, ExactInv, NoShorterPlan, ShortestPlan, DeepeningIsExact
<1> QED BY <1>1, Invariant, ExactInvariant, PTL-----------------------------------------------------------------------------
(***************************************************************************)
(* Why an exhausted search proves that a task without sensing has no plan. *)
(* A state counts by how near it is to the root: the search may give up on *)
(* a state because the path, or the refuted memo, met it nearer to the     *)
(* root, and must then have looked further from there.                     *)
(***************************************************************************)

(***************************************************************************)
(* Every nonempty set of natural numbers has a least element.              *)
(***************************************************************************)
LEMMA LeastNatural ==
  ASSUME NEW T \in SUBSET Nat, T # {}
  PROVE  \E n \in T : \A m \in T : n <= m
<1> DEFINE R == {p \in Nat \X Nat : p[1] < p[2]}
<1>1. IsWellFoundedOn(R, Nat)
  BY NatLessThanWellFounded DEF OpToRel
<1>2. \E x \in T : \A y \in T : ~(<<y, x>> \in R)
  <2> HIDE DEF R
  <2> QED BY <1>1, WFMin
<1>3. PICK x \in T : \A y \in T : ~(<<y, x>> \in R)
  BY <1>2
<1>4. ASSUME NEW y \in T
      PROVE  x <= y
  <2>1. x \in Nat /\ y \in Nat /\ ~(<<y, x>> \in R)
    BY <1>3
  <2>2. ~(y < x)
    BY <2>1
  <2> QED BY <2>1, <2>2
<1> QED BY <1>4

Successors(t, x) ==
  {y \in State : \E a \in DOMAIN Actions(t, x) :
                   \E j \in DOMAIN Actions(t, x)[a] : y = Actions(t, x)[a][j]}

\* L[k] holds the states at most k actions away from the root, and maybe more.
Layering(t, L) ==
  /\ Initial(t) \in L[0]
  /\ \A k \in Nat : L[k] \subseteq L[k + 1]
  /\ \A k \in Nat : \A x \in L[k] : Successors(t, x) \subseteq L[k + 1]

Near(t, s, k) ==
  s \in State /\ \A L \in [Nat -> SUBSET State] : Layering(t, L) => s \in L[k]

(***************************************************************************)
(* The root is no action away from itself.                                 *)
(***************************************************************************)
LEMMA NearRoot ==
  ASSUME NEW t \in Tasks
  PROVE  Near(t, Initial(t), 0)
BY TaskAssumption DEF Near, Layering, IsGraph, Initial

(***************************************************************************)
(* One more action reaches the successors.                                 *)
(***************************************************************************)
LEMMA NearStep ==
  ASSUME NEW t \in Tasks, NEW x \in State, NEW k \in Nat, Near(t, x, k)
  PROVE  Near(t, x, k + 1) /\ \A y \in Successors(t, x) : Near(t, y, k + 1)
BY DEF Near, Layering, Successors

(***************************************************************************)
(* What is near is near at every greater distance.                         *)
(***************************************************************************)
LEMMA NearMonotone ==
  ASSUME NEW t \in Tasks, NEW x \in State, NEW j \in Nat, NEW k \in Nat, j <= k, Near(t, x, j)
  PROVE  Near(t, x, k)
<1> DEFINE Bad == {m \in Nat : j <= m /\ ~Near(t, x, m)}
<1>1. CASE Bad # {}
  <2> HIDE DEF Bad
  <2>1. PICK n \in Bad : \A m \in Bad : n <= m
    BY <1>1, LeastNatural DEF Bad
  <2>2. n \in Nat /\ j <= n /\ ~Near(t, x, n)
    BY <2>1 DEF Bad
  <2>3. n # j
    BY <2>2
  <2>4. n - 1 \in Nat /\ j <= n - 1 /\ n - 1 \notin Bad
    BY <2>1, <2>2, <2>3
  <2>5. Near(t, x, n - 1)
    BY <2>4 DEF Bad
  <2>6. Near(t, x, (n - 1) + 1)
    BY <2>4, <2>5, NearStep
  <2> QED BY <2>2, <2>6
<1>2. CASE Bad = {}
  BY <1>2
<1> QED BY <1>1, <1>2

(***************************************************************************)
(* Near is the least layering: what is near is the root, or was near one   *)
(* action before, or is a successor of what was.                           *)
(***************************************************************************)
LEMMA NearInversion ==
  ASSUME NEW t \in Tasks, NEW y, NEW k \in Nat
  PROVE  /\ Near(t, y, 0) => y = Initial(t)
         /\ Near(t, y, k + 1) =>
              Near(t, y, k) \/ \E x \in State : Near(t, x, k) /\ y \in Successors(t, x)
<1> DEFINE N(j) == {s \in State : Near(t, s, j)}
<1>1. Initial(t) \in N(0)
  BY NearRoot DEF Near
<1>2. \A j \in Nat : N(j) \subseteq N(j + 1) /\ \A x \in N(j) : Successors(t, x) \subseteq N(j + 1)
  BY NearStep DEF Successors
<1>3. Near(t, y, 0) => y = Initial(t)
  <2> DEFINE L == [j \in Nat |-> IF j = 0 THEN {Initial(t)} ELSE N(j)]
  <2>1. L \in [Nat -> SUBSET State]
    BY <1>1
  <2>2. Layering(t, L)
    <3> HIDE DEF N
    <3>1. \A j \in Nat : L[j] \subseteq N(j) /\ L[j + 1] = N(j + 1)
      BY <1>1
    <3>2. Initial(t) \in L[0]
      OBVIOUS
    <3> HIDE DEF L
    <3> QED BY <1>2, <3>1, <3>2 DEF Layering
  <2>3. L[0] = {Initial(t)}
    OBVIOUS
  <2> HIDE DEF L
  <2> QED BY <2>1, <2>2, <2>3 DEF Near
<1>4. Near(t, y, k + 1) =>
        Near(t, y, k) \/ \E x \in State : Near(t, x, k) /\ y \in Successors(t, x)
  <2> DEFINE S == N(k) \cup UNION {Successors(t, x) : x \in N(k)}
             L == [j \in Nat |-> IF j = k + 1 THEN S ELSE N(j)]
  <2>1. S \subseteq N(k + 1) /\ N(k) \subseteq S /\ \A x \in N(k) : Successors(t, x) \subseteq S
    BY <1>2
  <2>2. L \in [Nat -> SUBSET State]
    BY <2>1
  <2>3. L[k + 1] = S
    OBVIOUS
  <2>4. Layering(t, L)
    <3> HIDE DEF N, S
    <3>1. \A j \in Nat : L[j] \subseteq N(j) /\ (j # k => L[j + 1] = N(j + 1))
      BY <2>1
    <3>2. Initial(t) \in L[0] /\ L[k] \subseteq N(k)
      BY <1>1, <3>1
    <3> HIDE DEF L
    <3>3. ASSUME NEW j \in Nat
          PROVE  L[j] \subseteq L[j + 1] /\ \A x \in L[j] : Successors(t, x) \subseteq L[j + 1]
      <4>1. CASE j = k
        BY <2>1, <2>3, <3>2, <4>1
      <4>2. CASE j # k
        BY <1>2, <3>1, <4>2
      <4> QED BY <4>1, <4>2
    <3> QED BY <3>2, <3>3 DEF Layering
  <2>5. Near(t, y, k + 1) => y \in S
    <3> HIDE DEF L, S, N
    <3> QED BY <2>2, <2>3, <2>4 DEF Near
  <2> QED BY <2>5
<1> QED BY <1>3, <1>4

(***************************************************************************)
(* A pocket: pairs of a state and a distance such that no state of it is a *)
(* goal, and every successor of a state is in the pocket one further away, *)
(* or is as near to the root as the state itself, or has no plan.          *)
(***************************************************************************)
IsPocket(t, T) ==
  \A e \in T :
    /\ e[1] \notin Goal(t)
    /\ \A y \in Successors(t, e[1]) :
         Near(t, y, e[2]) \/ <<y, e[2] + 1>> \in T \/ ~Solvable(t, y)

Lost(t, x, q) == \E T \in SUBSET (State \X Nat) : <<x, q>> \in T /\ IsPocket(t, T)

(***************************************************************************)
(* Whatever an exhausted search has looked at is lost: its successors were.*)
(***************************************************************************)
LEMMA LostStep ==
  ASSUME NEW t \in Tasks, NEW x \in State, NEW q \in Nat, x \notin Goal(t),
         \A y \in Successors(t, x) : Near(t, y, q) \/ Lost(t, y, q + 1) \/ ~Solvable(t, y)
  PROVE  Lost(t, x, q)
<1> DEFINE InPocket(e) == \E T \in SUBSET (State \X Nat) : IsPocket(t, T) /\ e \in T
           U == {e \in State \X Nat : e = <<x, q>> \/ InPocket(e)}
<1>1. U \in SUBSET (State \X Nat) /\ <<x, q>> \in U
  <2>1. <<x, q>> \in State \X Nat
    OBVIOUS
  <2> HIDE DEF InPocket
  <2> QED BY <2>1
<1>2. \A y \in Successors(t, x) : Lost(t, y, q + 1) => <<y, q + 1>> \in U
  BY DEF Lost
<1>3. ASSUME NEW e \in U
      PROVE  /\ e[1] \notin Goal(t)
             /\ \A y \in Successors(t, e[1]) :
                  Near(t, y, e[2]) \/ <<y, e[2] + 1>> \in U \/ ~Solvable(t, y)
  <2>1. CASE e = <<x, q>>
    <3> HIDE DEF U
    <3>1. e[1] = x /\ e[2] = q
      BY <2>1
    <3> QED BY <1>2, <3>1
  <2>2. CASE InPocket(e)
    <3>1. PICK T \in SUBSET (State \X Nat) : IsPocket(t, T) /\ e \in T
      BY <2>2
    <3>2. /\ e[1] \notin Goal(t)
          /\ \A y \in Successors(t, e[1]) :
               Near(t, y, e[2]) \/ <<y, e[2] + 1>> \in T \/ ~Solvable(t, y)
      BY <3>1 DEF IsPocket
    <3>3. \A v : v \in T => v \in U
      BY <3>1
    <3> HIDE DEF U, InPocket
    <3> QED BY <3>2, <3>3
  <2> QED BY <2>1, <2>2
<1> HIDE DEF U
<1> QED BY <1>1, <1>3 DEF Lost, IsPocket

(***************************************************************************)
(* Without sensing, a state with a successor that has a plan has one.      *)
(***************************************************************************)
LEMMA SolvableBackwards ==
  ASSUME NEW t \in Tasks, IsLinear(t), NEW x \in State, NEW y \in Successors(t, x), Solvable(t, y)
  PROVE  Solvable(t, x)
<1> SUFFICES ASSUME x \notin Goal(t)
             PROVE  \E D \in SUBSET (State \ Goal(t)) : \E p \in [D -> Nat \ {0}] :
                      IsPolicy(t, p) /\ x \in D
  BY Relabel DEF Solvable
<1>1. y \in State
  BY DEF Successors
<1>2. PICK a \in DOMAIN Actions(t, x) :
        DOMAIN Actions(t, x)[a] = {1} /\ Actions(t, x)[a][1] = y
  <2>1. PICK a \in DOMAIN Actions(t, x) :
          \E j \in DOMAIN Actions(t, x)[a] : y = Actions(t, x)[a][j]
    BY DEF Successors
  <2>2. Actions(t, x)[a] \in Seq(State)
    BY TaskAssumption DEF IsGraph, Actions
  <2>3. Len(Actions(t, x)[a]) = 1
    BY DEF IsLinear
  <2>4. DOMAIN Actions(t, x)[a] = 1..1
    BY <2>2, <2>3
  <2>5. 1..1 = {1}
    OBVIOUS
  <2> QED BY <2>1, <2>4, <2>5
<1>3. CASE y \in Goal(t)
  <2> DEFINE p == [s \in {x} |-> 1]
  <2>1. p \in [{x} -> Nat \ {0}] /\ {x} \in SUBSET (State \ Goal(t))
    OBVIOUS
  <2>2. IsPolicy(t, p)
    BY <1>2, <1>3 DEF IsPolicy, Covers
  <2> QED BY <2>1, <2>2
<1>4. CASE y \notin Goal(t)
  <2>1. PICK q \in Policies(t) : y \in DOMAIN q
    BY <1>1, <1>4, HeightsAssumption DEF Solvable, PolicyHeights
  <2>2. PICK D \in SUBSET (State \ Goal(t)) : q \in [D -> Rank]
    BY <2>1 DEF Policies
  <2>3. \A s \in D : q[s] \in Nat \ {0}
    BY <2>2, RankAssumption
  <2>4. CASE x \in D
    <3>1. q \in [D -> Nat \ {0}] /\ IsPolicy(t, q)
      BY <2>1, <2>2, <2>3 DEF Policies
    <3> QED BY <2>4, <3>1
  <2>5. CASE x \notin D
    <3> DEFINE E == D \cup {x}
               p == [s \in E |-> IF s = x THEN q[y] + 1 ELSE q[s]]
    <3>1. p \in [E -> Nat \ {0}] /\ E \in SUBSET (State \ Goal(t)) /\ x \in E
      BY <2>1, <2>2, <2>3
    <3>2. \A s \in D : p[s] = q[s] /\ s \in DOMAIN p
      BY <2>5
    <3>3. p[y] < p[x] /\ y \in DOMAIN p
      BY <2>1, <2>2, <2>3, <2>5
    <3>4. DOMAIN q = D
      BY <2>2
    <3> HIDE DEF p
    <3>5. ASSUME NEW s \in D
          PROVE  Covers(t, p, s)
      <4>1. Covers(t, q, s)
        BY <2>1, <3>4 DEF Policies, IsPolicy
      <4> QED BY <3>2, <3>4, <4>1 DEF Covers
    <3>6. Covers(t, p, x)
      BY <1>2, <3>3 DEF Covers
    <3>7. IsPolicy(t, p)
      BY <3>1, <3>5, <3>6 DEF IsPolicy
    <3> QED BY <3>1, <3>7
  <2> QED BY <2>4, <2>5
<1> QED BY <1>3, <1>4

(***************************************************************************)
(* When the root is lost, so is every state with a plan that can be        *)
(* reached from it.                                                        *)
(***************************************************************************)
LEMMA PocketHoldsAll ==
  ASSUME NEW t \in Tasks, IsLinear(t), NEW T \in SUBSET (State \X Nat), IsPocket(t, T),
         <<Initial(t), 0>> \in T, NEW y0, NEW k0 \in Nat, Near(t, y0, k0), Solvable(t, y0)
  PROVE  \E q \in Nat : <<y0, q>> \in T
<1> DEFINE In(y, k) == \E q \in Nat : q <= k /\ <<y, q>> \in T
           Bad == {k \in Nat : \E y \in State : Near(t, y, k) /\ Solvable(t, y) /\ ~In(y, k)}
<1>1. CASE Bad = {}
  BY <1>1 DEF Near
<1>2. CASE Bad # {}
  <2>1. PICK k \in Nat : k \in Bad /\ \A m \in Bad : k <= m
    <3> Bad \in SUBSET Nat
      OBVIOUS
    <3> HIDE DEF Bad
    <3> QED BY <1>2, LeastNatural
  <2>2. PICK y \in State : Near(t, y, k) /\ Solvable(t, y) /\ ~In(y, k)
    BY <2>1
  <2>3. \A m \in Nat : m < k => m \notin Bad
    <3> HIDE DEF Bad
    <3> QED BY <2>1
  <2>4. \A m \in Nat : m < k => \A x \in State : Near(t, x, m) /\ Solvable(t, x) => In(x, m)
    BY <2>3
  <2>5. k # 0
    <3>1. k = 0 => y = Initial(t)
      BY <2>2, NearInversion
    <3> QED BY <2>2, <3>1
  <2>6. PICK m \in Nat : k = m + 1
    <3>1. k - 1 \in Nat /\ k = (k - 1) + 1
      BY <2>5
    <3> QED BY <3>1
  <2>7. ~Near(t, y, m)
    BY <2>2, <2>4, <2>6
  <2>8. PICK x \in State : Near(t, x, m) /\ y \in Successors(t, x)
    BY <2>2, <2>6, <2>7, NearInversion
  <2>9. Solvable(t, x)
    BY <2>2, <2>8, SolvableBackwards
  <2>10. PICK q \in Nat : q <= m /\ <<x, q>> \in T
    BY <2>4, <2>6, <2>8, <2>9
  <2>11. Near(t, y, q) \/ <<y, q + 1>> \in T
    <3>1. <<x, q>>[1] = x /\ <<x, q>>[2] = q
      OBVIOUS
    <3> QED BY <2>2, <2>8, <2>10, <3>1 DEF IsPocket
  <2>12. ~Near(t, y, q)
    BY <2>7, <2>10, NearMonotone
  <2> QED BY <2>2, <2>6, <2>10, <2>11, <2>12
<1> QED BY <1>1, <1>2

(***************************************************************************)
(* A task without sensing whose root is lost has no plan.                  *)
(***************************************************************************)
LEMMA LostRoot ==
  ASSUME NEW t \in Tasks, IsLinear(t), Lost(t, Initial(t), 0)
  PROVE  ~Solvable(t, Initial(t))
<1> SUFFICES ASSUME Solvable(t, Initial(t)) PROVE FALSE
  OBVIOUS
<1>1. PICK T \in SUBSET (State \X Nat) : <<Initial(t), 0>> \in T /\ IsPocket(t, T)
  BY DEF Lost
<1>2. \A x \in State : \A q \in Nat : <<x, q>> \in T =>
        /\ x \notin Goal(t)
        /\ \A y \in Successors(t, x) : Near(t, y, q) \/ <<y, q + 1>> \in T \/ ~Solvable(t, y)
  <2> TAKE x \in State
  <2> TAKE q \in Nat
  <2>1. <<x, q>>[1] = x /\ <<x, q>>[2] = q
    OBVIOUS
  <2> QED BY <1>1, <2>1 DEF IsPocket
<1>3. Initial(t) \in State /\ Initial(t) \notin Goal(t)
  BY <1>1, <1>2, TaskAssumption DEF IsGraph, Initial
<1>4. PICK p \in Policies(t) : Initial(t) \in DOMAIN p
  BY <1>3, HeightsAssumption DEF Solvable, PolicyHeights
<1>5. PICK D \in SUBSET (State \ Goal(t)) : p \in [D -> Rank]
  BY <1>4 DEF Policies
<1>6. \A s \in D : p[s] \in Nat
  BY <1>5, RankAssumption
<1> DEFINE In(x) == \E q \in Nat : <<x, q>> \in T
           H == {p[x] : x \in {s \in D : In(s)}}
<1>7. H # {} /\ H \in SUBSET Nat
  BY <1>1, <1>4, <1>5, <1>6
<1>8. PICK h \in H : \A g \in H : h <= g
  <2> HIDE DEF H
  <2> QED BY <1>7, LeastNatural
<1>9. PICK x \in D : In(x) /\ p[x] = h
  BY <1>8
<1>10. PICK q \in Nat : <<x, q>> \in T
  BY <1>9
<1>11. PICK y \in Successors(t, x) : y \in Goal(t) \/ (y \in D /\ p[y] < p[x])
  <2>1. PICK a \in DOMAIN Actions(t, x) :
          \A j \in DOMAIN Actions(t, x)[a] :
            LET b == Actions(t, x)[a][j] IN b \in Goal(t) \/ (b \in D /\ p[b] < p[x])
    BY <1>4, <1>5 DEF Policies, IsPolicy, Covers
  <2>2. Actions(t, x)[a] \in Seq(State)
    BY TaskAssumption DEF IsGraph, Actions
  <2>3. Len(Actions(t, x)[a]) = 1
    BY DEF IsLinear
  <2>4. 1 \in DOMAIN Actions(t, x)[a] /\ Actions(t, x)[a][1] \in State
    <3>1. DOMAIN Actions(t, x)[a] = 1..1
      BY <2>2, <2>3
    <3>2. 1 \in 1..1
      OBVIOUS
    <3> QED BY <2>2, <3>1, <3>2, ElementOfSeq, <2>3
  <2>5. Actions(t, x)[a][1] \in Successors(t, x)
    BY <2>4 DEF Successors
  <2> QED BY <2>1, <2>4, <2>5
<1>12. Solvable(t, y) /\ y \in State
  <2>1. y \in State
    BY DEF Successors
  <2> QED BY <1>4, <1>5, <1>11, <2>1, HeightsAssumption DEF Solvable, PolicyHeights
<1>13. In(y)
  <2>1. CASE Near(t, y, q)
    <3> HIDE DEF H
    <3> QED BY <1>1, <1>12, <2>1, PocketHoldsAll
  <2>2. CASE <<y, q + 1>> \in T
    BY <2>2
  <2> QED BY <1>2, <1>10, <1>12, <2>1, <2>2
<1>14. y \notin Goal(t)
  BY <1>2, <1>12, <1>13
<1>15. p[y] \in H /\ p[y] < h
  BY <1>9, <1>11, <1>13, <1>14
<1>16. h \in Nat /\ p[y] \in Nat
  BY <1>6, <1>9, <1>11, <1>14
<1> HIDE DEF H
<1> QED BY <1>8, <1>15, <1>16-----------------------------------------------------------------------------
(***************************************************************************)
(* The invariant of the search that may end exhausted.  A state met at     *)
(* distance p from the root is settled when it is nearer to the root than  *)
(* that, or lost.  In an iteration that nothing has truncated, what the    *)
(* frames are through with, what fails, and what the refuted memo holds is *)
(* settled, the memo also across iterations, which is why its entries are  *)
(* placed by how far above the bound they were written.                    *)
(***************************************************************************)
Settled(t, s, p) == (p > 0 /\ Near(t, s, p - 1)) \/ Lost(t, s, p)

\* Frame i is i - 1 actions away from the root and has that much less to spend.
FramePositions ==
  \A i \in 1..Len(stack) :
    stack[i].depth + i = depth + 1 /\ Near(task, stack[i].state, i - 1)

MemoPositions ==
  /\ pc = "start" => DOMAIN failed_upto = {}
  /\ \A s \in DOMAIN failed_upto :
       /\ failed_upto[s].depth <= depth
       /\ Near(task, s, depth - failed_upto[s].depth)
       /\ pc = "deepen" =>
            failed_upto[s].depth < depth /\ Near(task, s, depth - failed_upto[s].depth - 1)

\* The state that an action without sensing leads to.
After(i, a) == Actions(task, stack[i].state)[a][1]

SettledFrames ==
  ~truncated => \A i \in 1..Len(stack) : \A a \in Passed(i) : Settled(task, After(i, a), i)

SettledReturn ==
  ~truncated /\ pc = "return" /\ ~ret.solved => Settled(task, arg.state, Len(stack))

SettledMemo ==
  ~truncated /\ Iterating =>
    \A s \in DOMAIN failed_upto : Settled(task, s, depth - failed_upto[s].depth)

LinearInv ==
  /\ FramePositions
  /\ MemoPositions
  /\ IsLinear(task) =>
       /\ SettledFrames
       /\ SettledReturn
       /\ SettledMemo
       /\ outcome = "exhausted" => ~Solvable(task, Initial(task))

-----------------------------------------------------------------------------
(***************************************************************************)
(* The call at hand is one action further from the root than its caller.   *)
(***************************************************************************)
LEMMA ArgPosition ==
  ASSUME IInv, FramePositions, pc \in {"enter", "return"}
  PROVE  arg.depth + Len(stack) = depth /\ Near(task, arg.state, Len(stack))
<1>1. task \in Tasks /\ stack \in Seq(Frame) /\ depth \in Nat
  BY DEF IInv, TypeOK
<1>2. CASE stack = <<>>
  <2>1. arg.state = Initial(task) /\ arg.depth = depth /\ Len(stack) = 0
    BY <1>2 DEF IInv, PathInv
  <2> QED BY <1>1, <2>1, NearRoot
<1>3. CASE stack # <<>>
  <2>1. PICK n \in Nat \ {0} : n = Len(stack) /\ n \in 1..Len(stack) /\ Top = stack[n] /\ Top \in Frame
    BY <1>1, <1>3, TopType
  <2>2. arg.state = Branch(Top) /\ arg.depth = Top.depth - 1
    BY <1>3 DEF IInv, PathInv
  <2>3. Top.depth + n = depth + 1 /\ Near(task, Top.state, n - 1) /\ Top.depth \in Nat
    BY <2>1 DEF FramePositions, Frame
  <2>4. Top.action \in Candidates(task, Top.state) /\ Top.branch \in DOMAIN Branches(Top)
    BY <2>1 DEF IInv, FramesInv, FrameInv, Trying, PartlySolved
  <2>5. Top.state \in State
    BY <2>1 DEF Frame
  <2>6. arg.state \in Successors(task, Top.state)
    BY <1>1, <2>2, <2>4, <2>5, CandidateType DEF Successors, Branch, Branches
  <2>7. Near(task, arg.state, (n - 1) + 1)
    <3>1. \A x \in State, k \in Nat :
             Near(task, x, k) => \A y \in Successors(task, x) : Near(task, y, k + 1)
      BY <1>1, NearStep
    <3>2. n - 1 \in Nat
      OBVIOUS
    <3> QED BY <2>3, <2>5, <2>6, <3>1, <3>2
  <2> QED BY <1>1, <2>1, <2>2, <2>3, <2>7
<1> QED BY <1>2, <1>3

(***************************************************************************)
(* Only the start of an iteration takes the truncated flag back, and only  *)
(* the end of one changes the bound: in both, no frame is left.            *)
(***************************************************************************)
LEMMA TruncatedStays ==
  ASSUME IInv, [Next]_vars
  PROVE  /\ stack # <<>> => depth' = depth /\ (truncated => truncated')
         /\ ~Deepen => (truncated => truncated')
         /\ ~NextDepth => depth' = depth
<1>1. stack # <<>> => ~Deepen /\ ~NextDepth
  BY DEF Deepen, NextDepth, IInv, PathInv
<1>2. ~Deepen => (truncated => truncated')
  BY DEF Next, Search, Deepening, Entering, Looping, AlreadyAtGoal, Start, GiveUpLate, GiveUpDeep,
     FinishSolved, FinishExhausted, NextDepth, Stop, AbandonLate, CutCycle, ReachGoal,
     ReuseSolved, HitBound, ReuseRefuted, EarlyReturn, Expand, TryAction, NextBranch, DropAction,
     SolveState, FailState, Expire, Finished, vars, context
<1>3. ~NextDepth => depth' = depth
  BY DEF Next, Search, Deepening, Entering, Looping, AlreadyAtGoal, Start, GiveUpLate, GiveUpDeep,
     Deepen, FinishSolved, FinishExhausted, Stop, AbandonLate, CutCycle, ReachGoal,
     ReuseSolved, HitBound, ReuseRefuted, EarlyReturn, Expand, TryAction, NextBranch, DropAction,
     SolveState, FailState, Expire, Finished, vars, control
<1> QED BY <1>1, <1>2, <1>3

(***************************************************************************)
(* A frame keeps its place on the path, and a new one is one action        *)
(* further.                                                                *)
(***************************************************************************)
LEMMA PositionsKept ==
  ASSUME IInv, FramePositions, [Next]_vars
  PROVE  FramePositions'
<1> SUFFICES ASSUME NEW i \in 1..Len(stack')
             PROVE  /\ stack'[i].depth + i = depth' + 1
                    /\ Near(task, stack'[i].state, i - 1)
  BY FramesStep DEF FramePositions
<1>1. Len(stack) \in Nat /\ Len(stack') \in Nat /\ stack \in Seq(Frame)
  BY NextInvariant DEF IInv, TypeOK
<1>2. CASE KeepsFrame(i)
  <2>1. i \in 1..Len(stack) /\ stack'[i].state = stack[i].state /\ stack'[i].depth = stack[i].depth
    BY <1>2 DEF KeepsFrame
  <2>2. depth' = depth
    BY <1>1, <2>1, EmptySeq, TruncatedStays
  <2> QED BY <2>1, <2>2 DEF FramePositions
<1>3. CASE Expand /\ i = Len(stack) + 1 /\ NewFrame(i)
  <2>1. pc = "enter" /\ depth' = depth /\ depth \in Nat /\ arg.depth \in Nat
    BY <1>3 DEF Expand, IInv, TypeOK
  <2>2. stack'[i].state = arg.state /\ stack'[i].depth = arg.depth
    BY <1>3 DEF NewFrame
  <2>3. arg.depth + Len(stack) = depth /\ Near(task, arg.state, Len(stack))
    BY <2>1, ArgPosition
  <2> QED BY <1>1, <1>3, <2>1, <2>2, <2>3
<1>4. KeepsFrame(i) \/ (Expand /\ i = Len(stack) + 1 /\ NewFrame(i))
  <2>1. CASE Expand
    BY <1>1, <2>1, FramesStep
  <2>2. CASE ~Expand
    BY <2>2, FramesStep
  <2> QED BY <2>1, <2>2
<1> QED BY <1>2, <1>3, <1>4

(***************************************************************************)
(* What FailState writes into the refuted memo, if anything.               *)
(***************************************************************************)
LEMMA RefutedWritten ==
  ASSUME IInv, FailState, NEW s \in DOMAIN failed_upto'
  PROVE  \/ s \in DOMAIN failed_upto /\ failed_upto'[s] = failed_upto[s]
         \/ s = Top.state /\ failed_upto'[s].depth = Top.depth
BY DEF FailState, Refute, Put

(***************************************************************************)
(* Nothing else writes the refuted memo.                                   *)
(***************************************************************************)
LEMMA RefutedChanges ==
  ASSUME IInv, [Next]_vars, ~FailState
  PROVE  failed_upto' = failed_upto
BY DEF Next, Search, Deepening, Entering, Looping, AlreadyAtGoal, Start, GiveUpLate, GiveUpDeep,
   Deepen, FinishSolved, FinishExhausted, NextDepth, Stop, AbandonLate, CutCycle, ReachGoal,
   ReuseSolved, HitBound, ReuseRefuted, EarlyReturn, Expand, TryAction, NextBranch, DropAction,
   SolveState, Expire, Finished, vars, context

(***************************************************************************)
(* The top frame when it fails.                                            *)
(***************************************************************************)
LEMMA FailingTop ==
  ASSUME IInv, FramePositions, pc = "choose", Top.todo = {}
  PROVE  \E n \in Nat \ {0} :
           /\ n = Len(stack) /\ n \in 1..Len(stack) /\ Top = stack[n] /\ Top \in Frame
           /\ Top.depth <= depth /\ depth - Top.depth = n - 1
           /\ Near(task, Top.state, n - 1)
           /\ Top.state \notin Goal(task)
           /\ \A a \in Candidates(task, Top.state) : a \in Passed(n)
<1>1. stack # <<>> /\ depth \in Nat /\ stack \in Seq(Frame)
  BY DEF IInv, PathInv, TypeOK
<1>2. PICK n \in Nat \ {0} : n = Len(stack) /\ n \in 1..Len(stack) /\ Top = stack[n] /\ Top \in Frame
  BY <1>1, TopType
<1>3. Top.depth + n = depth + 1 /\ Near(task, Top.state, n - 1) /\ Top.depth \in Nat
  BY <1>2 DEF FramePositions, Frame
<1>4. Top.state \notin Goal(task)
  BY <1>2 DEF IInv, FramesInv, FrameInv, OpenState
<1>5. \A a \in Candidates(task, Top.state) : a \in Passed(n)
  BY <1>2 DEF Passed, Trying
<1> QED BY <1>1, <1>2, <1>3, <1>4, <1>5

(***************************************************************************)
(* An entry of the refuted memo keeps its distance, which grows with the   *)
(* bound.                                                                  *)
(***************************************************************************)
LEMMA MemoPositionsKept ==
  ASSUME IInv, FramePositions, MemoPositions, [Next]_vars
  PROVE  MemoPositions'
<1>1. /\ task' = task /\ task \in Tasks /\ depth \in Nat
      /\ \A s \in DOMAIN failed_upto : failed_upto[s].depth \in Nat
  BY FramesStep DEF IInv, TypeOK
<1>2. CASE FailState
  <2>1. pc = "choose" /\ pc' = "return" /\ depth' = depth /\ Top.todo = {}
    BY <1>2 DEF FailState, Return
  <2>2. PICK n \in Nat \ {0} : Top.depth <= depth /\ depth - Top.depth = n - 1
                               /\ Near(task, Top.state, n - 1)
    BY <2>1, FailingTop
  <2>3. ASSUME NEW s \in DOMAIN failed_upto'
        PROVE  failed_upto'[s].depth <= depth /\ Near(task, s, depth - failed_upto'[s].depth)
    BY <1>2, <2>2, RefutedWritten DEF MemoPositions
  <2> QED BY <1>1, <2>1, <2>3 DEF MemoPositions
<1>3. CASE NextDepth
  <2>1. failed_upto' = failed_upto /\ pc = "return" /\ pc' = "deepen" /\ depth' = depth + 1
    BY <1>3 DEF NextDepth, context
  <2>2. ASSUME NEW s \in DOMAIN failed_upto
        PROVE  /\ failed_upto[s].depth < depth + 1 /\ failed_upto[s].depth <= depth + 1
               /\ Near(task, s, (depth + 1) - failed_upto[s].depth)
               /\ Near(task, s, (depth + 1) - failed_upto[s].depth - 1)
    <3>1. PICK d \in Nat : d = failed_upto[s].depth /\ d <= depth /\ Near(task, s, depth - d) /\ s \in State
      BY <1>1 DEF MemoPositions, Near
    <3>2. /\ depth - d \in Nat
          /\ (depth + 1) - d = (depth - d) + 1 /\ (depth + 1) - d - 1 = depth - d
      BY <1>1, <3>1
    <3>3. Near(task, s, (depth - d) + 1)
      BY <1>1, <3>1, <3>2, NearStep
    <3> QED BY <1>1, <3>1, <3>2, <3>3
  <2> QED BY <1>1, <2>1, <2>2 DEF MemoPositions
<1>4. CASE ~FailState /\ ~NextDepth
  <2>1. failed_upto' = failed_upto /\ depth' = depth
    BY <1>4, RefutedChanges, TruncatedStays
  <2>2. /\ pc' = "start" => pc = "start"
        /\ pc' = "deepen" => pc \in {"start", "deepen"}
    BY <1>4 DEF Next, Search, Deepening, Entering, Looping, AlreadyAtGoal, Start, GiveUpLate,
       GiveUpDeep, Deepen, FinishSolved, FinishExhausted, Stop, Call, AbandonLate, CutCycle,
       ReachGoal, ReuseSolved, HitBound, ReuseRefuted, EarlyReturn, Return, Expand, TryAction,
       NextBranch, DropAction, SolveState, Expire, Finished, vars, control
  <2> QED BY <1>1, <2>1, <2>2 DEF MemoPositions
<1> QED BY <1>2, <1>3, <1>4

-----------------------------------------------------------------------------
(***************************************************************************)
(* A state is lost when an iteration that nothing has truncated is through *)
(* with its candidates.  The actions that expand drops lead to dead ends.  *)
(***************************************************************************)
LEMMA FailingIsLost ==
  ASSUME IInv, FramePositions, IsLinear(task), SettledFrames, ~truncated,
         pc = "choose", Top.todo = {}
  PROVE  Lost(task, Top.state, Len(stack) - 1)
<1>1. PICK n \in Nat \ {0} :
        /\ n = Len(stack) /\ n \in 1..Len(stack) /\ Top = stack[n] /\ Top \in Frame
        /\ Top.state \notin Goal(task)
        /\ \A a \in Candidates(task, Top.state) : a \in Passed(n)
  BY FailingTop
<1>2. task \in Tasks /\ Top.state \in State /\ n - 1 \in Nat
  BY <1>1 DEF IInv, TypeOK, Frame
<1>3. ASSUME NEW y \in Successors(task, Top.state)
      PROVE  Near(task, y, n - 1) \/ Lost(task, y, n) \/ ~Solvable(task, y)
  <2>1. PICK a \in DOMAIN Actions(task, Top.state) :
          \E j \in DOMAIN Actions(task, Top.state)[a] : y = Actions(task, Top.state)[a][j]
    BY DEF Successors
  <2>2. Actions(task, Top.state)[a] \in Seq(State)
    BY <1>2, TaskAssumption DEF IsGraph, Actions
  <2>3. Len(Actions(task, Top.state)[a]) = 1
    BY <1>2 DEF IsLinear
  <2>4. DOMAIN Actions(task, Top.state)[a] = {1}
    <3>1. DOMAIN Actions(task, Top.state)[a] = 1..1
      BY <2>2, <2>3
    <3>2. 1..1 = {1}
      OBVIOUS
    <3> QED BY <3>1, <3>2
  <2>5. y = Actions(task, Top.state)[a][1]
    BY <2>1, <2>4
  <2>6. CASE a \in Candidates(task, Top.state)
    <3>1. Settled(task, After(n, a), n)
      BY <1>1, <2>6 DEF SettledFrames
    <3>2. After(n, a) = y
      BY <1>1, <2>5 DEF After
    <3> QED BY <3>1, <3>2 DEF Settled
  <2>7. CASE a \notin Candidates(task, Top.state)
    <3>1. y \in Graph(task).dead
      BY <2>1, <2>4, <2>5, <2>7 DEF Candidates, Useful
    <3> QED BY <1>2, <3>1, DeadEndAssumption
  <2> QED BY <2>6, <2>7
<1>4. (n - 1) + 1 = n
  OBVIOUS
<1>5. Lost(task, Top.state, n - 1)
  BY <1>1, <1>2, <1>3, <1>4, LostStep
<1> QED BY <1>1, <1>5

(***************************************************************************)
(* A state on the path or in the refuted memo is settled when it is met.   *)
(***************************************************************************)
LEMMA CutIsSettled ==
  ASSUME IInv, FramePositions, pc = "enter", OnPath
  PROVE  Settled(task, arg.state, Len(stack))
<1>1. task \in Tasks /\ stack \in Seq(Frame) /\ Len(stack) \in Nat
  BY DEF IInv, TypeOK
<1>2. PICK i \in 1..Len(stack) : arg.state = stack[i].state
  BY <1>1 DEF OnPath, IInv, AncestorsAreThePath
<1>3. Near(task, arg.state, i - 1)
  BY <1>2 DEF FramePositions
<1>4. arg.state \in State /\ i - 1 \in Nat /\ Len(stack) - 1 \in Nat /\ i - 1 <= Len(stack) - 1
  BY <1>1, <1>2 DEF IInv, TypeOK
<1>5. Near(task, arg.state, Len(stack) - 1)
  BY <1>1, <1>3, <1>4, NearMonotone
<1> QED BY <1>1, <1>2, <1>5 DEF Settled

(***************************************************************************)
(* The refuted memo answers for a state it met nearer to the root, or has  *)
(* settled there.                                                          *)
(***************************************************************************)
LEMMA ReuseIsSettled ==
  ASSUME IInv, FramePositions, MemoPositions, SettledMemo, ~truncated,
         pc = "enter", KnownRefuted
  PROVE  Settled(task, arg.state, Len(stack))
<1>1. /\ task \in Tasks /\ Len(stack) \in Nat /\ depth \in Nat
      /\ arg.state \in State /\ arg.depth \in Nat
  BY DEF IInv, TypeOK
<1>2. PICK d \in Nat : /\ d = failed_upto[arg.state].depth /\ arg.depth <= d
                       /\ d <= depth /\ Near(task, arg.state, depth - d)
                       /\ Settled(task, arg.state, depth - d)
  BY DEF KnownRefuted, IInv, TypeOK, MemoPositions, SettledMemo, Iterating
<1>3. arg.depth + Len(stack) = depth
  BY ArgPosition
<1>4. CASE arg.depth = d
  <2>1. depth - d = Len(stack)
    BY <1>1, <1>3, <1>4
  <2> QED BY <1>2, <2>1
<1>5. CASE arg.depth < d
  <2>a. d <= depth
    BY <1>2
  <2>1. depth - d \in Nat /\ Len(stack) - 1 \in Nat /\ depth - d <= Len(stack) - 1
    BY <1>1, <1>3, <1>5, <2>a
  <2>2. Near(task, arg.state, Len(stack) - 1)
    BY <1>1, <1>2, <2>1, NearMonotone
  <2> QED BY <1>1, <2>1, <2>2 DEF Settled
<1> QED BY <1>1, <1>2, <1>4, <1>5

(***************************************************************************)
(* A failure of an iteration that nothing has truncated is settled.        *)
(***************************************************************************)
LEMMA ReturnSettled ==
  ASSUME IInv, FramePositions, MemoPositions, IsLinear(task),
         SettledFrames, SettledReturn, SettledMemo, [Next]_vars,
         ~truncated', pc' = "return", ~ret'.solved
  PROVE  Settled(task', arg'.state, Len(stack'))
<1>1. task' = task
  BY FramesStep
<1>2. ~truncated
  <2>1. ~Deepen
    BY DEF Deepen, Call
  <2> QED BY <2>1, TruncatedStays
<1>3. CASE CutCycle \/ ReuseRefuted
  <2>1. UNCHANGED <<arg, stack>> /\ pc = "enter" /\ (OnPath \/ KnownRefuted)
    BY <1>3 DEF CutCycle, ReuseRefuted, EarlyReturn, Return, IInv, TypeOK
  <2> QED BY <1>1, <1>2, <2>1, CutIsSettled, ReuseIsSettled
<1>4. CASE FailState
  <2>1. pc = "choose" /\ Top.todo = {} /\ arg'.state = Top.state /\ stack' = Below /\ stack # <<>>
    BY <1>4 DEF FailState, Return, IInv, PathInv
  <2>2. Len(stack') = Len(stack) - 1
    BY <2>1, BelowType DEF IInv, TypeOK
  <2>3. Lost(task, Top.state, Len(stack) - 1)
    BY <1>2, <2>1, FailingIsLost
  <2> QED BY <1>1, <2>1, <2>2, <2>3 DEF Settled
<1>5. CASE ~CutCycle /\ ~ReuseRefuted /\ ~FailState
  <2>1. UNCHANGED <<pc, arg, stack, ret>>
    BY <1>5 DEF Next, Search, Deepening, Entering, Looping, AlreadyAtGoal, Start, GiveUpLate,
       GiveUpDeep, Deepen, FinishSolved, FinishExhausted, NextDepth, Stop, Call, AbandonLate,
       ReachGoal, ReuseSolved, HitBound, EarlyReturn, Return, Success, Failure,
       Expand, TryAction, NextBranch, DropAction, SolveState, Expire, Finished, vars, control
  <2> QED BY <1>1, <1>2, <2>1 DEF SettledReturn
<1> QED BY <1>3, <1>4, <1>5

(***************************************************************************)
(* So is every action that a frame is through with.                        *)
(***************************************************************************)
LEMMA FramesSettled ==
  ASSUME IInv, IsLinear(task), SettledFrames, SettledReturn, [Next]_vars
  PROVE  SettledFrames'
<1> SUFFICES ASSUME ~truncated', NEW i \in 1..Len(stack'), NEW a \in Passed(i)'
             PROVE  Settled(task, After(i, a), i)'
  BY DEF SettledFrames
<1>1. task' = task /\ Len(stack) \in Nat /\ Len(stack') \in Nat /\ task \in Tasks /\ stack \in Seq(Frame)
  BY FramesStep, NextInvariant DEF IInv, TypeOK
<1>2. KeepsFrame(i)
  <2>1. CASE Expand
    <3>1. IF i <= Len(stack) THEN KeepsFrame(i) ELSE NewFrame(i)
      BY <2>1, FramesStep
    <3> QED BY <3>1 DEF NewFrame
  <2>2. CASE ~Expand
    BY <2>2, FramesStep
  <2> QED BY <2>1, <2>2
<1>3. i \in 1..Len(stack) /\ stack'[i].state = stack[i].state /\ ~truncated
  BY <1>1, <1>2, EmptySeq, TruncatedStays DEF KeepsFrame
<1>4. CASE a \in Passed(i)
  <2>1. Settled(task, After(i, a), i)
    BY <1>3, <1>4 DEF SettledFrames
  <2> QED BY <1>1, <1>3, <2>1 DEF After, Settled
<1>5. CASE DropAction /\ i = Len(stack) /\ a = Top.action
  <2>1. pc = "return" /\ stack # <<>> /\ ~ret.solved
    BY <1>5 DEF DropAction
  <2>2. Settled(task, arg.state, i)
    BY <1>3, <1>5, <2>1 DEF SettledReturn
  <2>3. arg.state = Branch(Top) /\ Top = stack[i] /\ Top \in Frame
    BY <1>5, <2>1, TopType DEF IInv, PathInv, TypeOK
  <2>4. Top.branch \in DOMAIN Branches(Top) /\ Top.action \in Candidates(task, Top.state)
    BY <2>1, ReturnedBranch DEF PartlySolved
  <2>5. Top.branch = 1
    <3>1. Top.state \in State /\ Top.action \in DOMAIN Actions(task, Top.state)
      BY <2>3, <2>4 DEF Frame, Candidates
    <3>2. Len(Branches(Top)) = 1 /\ DOMAIN Branches(Top) = 1..1
      BY <1>1, <2>4, <3>1, CandidateType DEF IsLinear, Branches
    <3> QED BY <2>4, <3>2
  <2>6. arg.state = After(i, a)
    BY <1>5, <2>3, <2>5 DEF After, Branch, Branches
  <2> QED BY <1>1, <1>3, <2>2, <2>6 DEF After, Settled
<1> QED BY <1>2, <1>4, <1>5 DEF KeepsFrame

(***************************************************************************)
(* So is the refuted memo: when an iteration starts, every entry of it is  *)
(* nearer than the bound.                                                  *)
(***************************************************************************)
LEMMA MemoSettled ==
  ASSUME IInv, FramePositions, MemoPositions, IsLinear(task), SettledFrames, SettledMemo,
         [Next]_vars
  PROVE  SettledMemo'
<1> SUFFICES ASSUME ~truncated', Iterating', NEW s \in DOMAIN failed_upto'
             PROVE  Settled(task', s, depth' - failed_upto'[s].depth)
  BY DEF SettledMemo
<1>1. /\ task' = task /\ depth \in Nat
      /\ \A x \in DOMAIN failed_upto : failed_upto[x].depth \in Nat
  BY FramesStep DEF IInv, TypeOK
<1>2. depth' = depth
  <2>1. ~NextDepth
    BY DEF NextDepth, Iterating
  <2> QED BY <2>1, TruncatedStays
<1>3. CASE Deepen
  <2>1. pc = "deepen" /\ failed_upto' = failed_upto
    BY <1>3 DEF Deepen
  <2>2. PICK d \in Nat : d = failed_upto[s].depth /\ d < depth /\ Near(task, s, depth - d - 1)
    BY <1>1, <2>1 DEF MemoPositions
  <2>3. depth - d > 0
    BY <1>1, <2>2
  <2> QED BY <1>1, <1>2, <2>1, <2>2, <2>3 DEF Settled
<1>4. CASE FailState
  <2>1. pc = "choose" /\ Top.todo = {} /\ ~truncated
    BY <1>4 DEF FailState
  <2>2. PICK n \in Nat \ {0} : n = Len(stack) /\ depth - Top.depth = n - 1
    BY <2>1, FailingTop
  <2>3. Lost(task, Top.state, depth - Top.depth)
    BY <2>1, <2>2, FailingIsLost
  <2>4. CASE s \in DOMAIN failed_upto /\ failed_upto'[s] = failed_upto[s]
    BY <1>1, <1>2, <2>1, <2>4 DEF SettledMemo, Iterating
  <2>5. CASE s = Top.state /\ failed_upto'[s].depth = Top.depth
    BY <1>1, <1>2, <2>3, <2>5 DEF Settled
  <2> QED BY <1>4, <2>4, <2>5, RefutedWritten
<1>5. CASE ~Deepen /\ ~FailState
  <2>1. ~truncated /\ failed_upto' = failed_upto
    BY <1>5, TruncatedStays, RefutedChanges
  <2>2. Iterating
    BY <1>5 DEF Next, Search, Deepening, Entering, Looping, AlreadyAtGoal, Start, GiveUpLate,
       GiveUpDeep, FinishSolved, FinishExhausted, NextDepth, Stop, AbandonLate, CutCycle,
       ReachGoal, ReuseSolved, HitBound, ReuseRefuted, Expand, TryAction, NextBranch, DropAction,
       SolveState, Expire, Finished, vars, control, Iterating
  <2> QED BY <1>1, <1>2, <2>1, <2>2 DEF SettledMemo
<1> QED BY <1>3, <1>4, <1>5

(***************************************************************************)
(* The root has nothing nearer, so when it fails in such an iteration it   *)
(* is lost.                                                                *)
(***************************************************************************)
LEMMA ExhaustedSettled ==
  ASSUME IInv, IsLinear(task), SettledReturn, outcome = "exhausted" => ~Solvable(task, Initial(task)),
         [Next]_vars
  PROVE  (outcome = "exhausted" => ~Solvable(task, Initial(task)))'
<1>1. task' = task /\ task \in Tasks
  BY FramesStep DEF IInv, TypeOK
<1>2. CASE FinishExhausted
  <2>1. pc = "return" /\ stack = <<>> /\ ~ret.solved /\ ~truncated
    BY <1>2 DEF FinishExhausted
  <2>2. arg.state = Initial(task) /\ Len(stack) = 0
    BY <2>1 DEF IInv, PathInv
  <2>3. Lost(task, Initial(task), 0)
    BY <2>1, <2>2 DEF SettledReturn, Settled
  <2> QED BY <1>1, <2>3, LostRoot
<1>3. CASE ~FinishExhausted
  <2>1. outcome' = "exhausted" => outcome = "exhausted"
    BY <1>3 DEF Next, Search, Deepening, Entering, Looping, AlreadyAtGoal, Start, GiveUpLate,
       GiveUpDeep, Deepen, FinishSolved, NextDepth, Stop, AbandonLate, CutCycle, EarlyReturn,
       ReachGoal, ReuseSolved, HitBound, ReuseRefuted, Expand, TryAction, NextBranch, DropAction,
       SolveState, FailState, Expire, Finished, vars
  <2> QED BY <1>1, <2>1
<1> QED BY <1>2, <1>3

(***************************************************************************)
(* The invariant holds in every reachable state.                           *)
(***************************************************************************)
LEMMA LinearInvariant == Spec => []LinearInv
<1>1. ASSUME Init PROVE LinearInv
  BY <1>1 DEF Init, LinearInv, FramePositions, MemoPositions, SettledFrames, SettledReturn,
              SettledMemo, Iterating
<1>2. ASSUME IInv, LinearInv, [Next]_vars
      PROVE  LinearInv'
  <2>1. task' = task
    BY <1>2, FramesStep
  <2>2. FramePositions' /\ MemoPositions'
    BY <1>2, PositionsKept, MemoPositionsKept DEF LinearInv
  <2>3. ASSUME IsLinear(task)
        PROVE  SettledFrames' /\ SettledReturn' /\ SettledMemo'
    <3>1. FramePositions /\ MemoPositions /\ SettledFrames /\ SettledReturn /\ SettledMemo
      BY <1>2, <2>3 DEF LinearInv
    <3>2. SettledReturn'
      BY <1>2, <2>3, <3>1, ReturnSettled DEF SettledReturn
    <3> QED BY <1>2, <2>3, <3>1, <3>2, FramesSettled, MemoSettled
  <2>4. ASSUME IsLinear(task)
        PROVE  (outcome = "exhausted" => ~Solvable(task, Initial(task)))'
    BY <1>2, <2>4, ExhaustedSettled DEF LinearInv
  <2> QED BY <2>1, <2>2, <2>3, <2>4 DEF LinearInv
<1> QED BY <1>1, <1>2, Invariant, PTL DEF Spec

(***************************************************************************)
(* "Search space exhausted" proves that a task without sensing has no plan.*)
(***************************************************************************)
THEOREM LinearExhaustionCorrect == Spec => []LinearExhaustionIsProof
<1>1. LinearInv => LinearExhaustionIsProof
  BY DEF LinearInv, LinearExhaustionIsProof, ExhaustedIsProof
<1> QED BY <1>1, LinearInvariant, PTL
=============================================================================
