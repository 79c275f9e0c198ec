---------------------------- MODULE ReplanProofs ----------------------------
(***************************************************************************)
(* Proofs about Replan for every set of states, every task and every order *)
(* in which find_path pops the open nodes.                                 *)
(***************************************************************************)
EXTENDS Replan, SequenceTheorems, WellFoundedInduction, TLAPS

-----------------------------------------------------------------------------
(* Facts about graphs and traps. *)

LEMMA GraphType ==
  ASSUME NEW t \in Tasks
  PROVE  Initial(t) \in State /\ Goal(t) \subseteq State /\ Graph(t).dead \subseteq State
BY TaskAssumption DEF IsGraph, Initial, Goal

LEMMA OutcomeType ==
  ASSUME NEW t \in Tasks, NEW s \in State, NEW a \in DOMAIN Actions(t, s)
  PROVE  /\ a \in Nat
         /\ Actions(t, s)[a] \in Seq(State)
         /\ 1 \in DOMAIN Actions(t, s)[a]
         /\ \A j \in DOMAIN Actions(t, s)[a] : j \in Nat /\ Actions(t, s)[a][j] \in State
<1>1. Actions(t, s) \in Seq(Seq(State) \ {<<>>})
  BY TaskAssumption DEF IsGraph, Actions
<1>2. a \in Nat /\ Actions(t, s)[a] \in Seq(State) \ {<<>>}
  BY <1>1
<1> HIDE DEF Actions
<1> QED BY <1>2

(***************************************************************************)
(* What is blocked without help is blocked whatever states may not be      *)
(* used, and these states are blocked themselves.                          *)
(***************************************************************************)
LEMMA BlockedAnyway ==
  ASSUME NEW t, NEW s, NEW S
  PROVE  /\ Doomed(t, s) => Blocked(t, s, S)
         /\ s \in S => Blocked(t, s, S)
<1>1. ASSUME Doomed(t, s) PROVE Blocked(t, s, S)
  <2>1. PICK U \in SUBSET State : s \in U /\ IsTrap(t, U, {})
    BY <1>1 DEF Doomed, Blocked
  <2>2. IsTrap(t, U, S)
    BY <2>1 DEF IsTrap, Keeps
  <2> QED BY <2>1, <2>2 DEF Blocked
<1>2. ASSUME s \in S PROVE Blocked(t, s, S)
  <2>1. IsTrap(t, {}, S) /\ {} \in SUBSET State
    BY DEF IsTrap
  <2> QED BY <1>2, <2>1 DEF Blocked
<1> QED BY <1>1, <1>2

(***************************************************************************)
(* The states that a search from s has seen, and those that are blocked by *)
(* the recursion stack S, together block s by the rest of the stack.       *)
(***************************************************************************)
LEMMA ExhaustionBlocks ==
  ASSUME NEW t \in Tasks, NEW S \in SUBSET State, NEW N \in SUBSET State, NEW s \in N,
         N \cap Goal(t) = {},
         \A n \in N : \A a \in DOMAIN Actions(t, n) : \E j \in DOMAIN Actions(t, n)[a] :
           Actions(t, n)[a][j] \in N \/ Blocked(t, Actions(t, n)[a][j], S)
  PROVE  Blocked(t, s, S \ {s})
<1> DEFINE B == {x \in State : Blocked(t, x, S)}
           R == S \ {s}
           U == (N \cup B) \ R
<1>1. S \subseteq B
  BY BlockedAnyway
<1>2. N \cup B = U \cup R
  BY <1>1
<1>3. ASSUME NEW x \in U, x \notin N
      PROVE  x \notin Goal(t) /\ Keeps(t, x, N \cup B)
  <2>1. x \in B /\ x \notin S
    BY <1>3
  <2>2. PICK V \in SUBSET State : x \in V /\ IsTrap(t, V, S)
    BY <2>1 DEF Blocked
  <2>3. V \subseteq B
    BY <2>2 DEF Blocked
  <2> QED BY <1>1, <2>2, <2>3 DEF IsTrap, Keeps
<1>4. ASSUME NEW x \in N
      PROVE  x \notin Goal(t) /\ Keeps(t, x, N \cup B)
  <2>1. \A a \in DOMAIN Actions(t, x) : \E j \in DOMAIN Actions(t, x)[a] :
           Actions(t, x)[a][j] \in N \cup B
    BY OutcomeType
  <2> QED BY <1>4, <2>1 DEF Keeps
<1>5. \A x \in U : x \notin Goal(t) /\ Keeps(t, x, U \cup R)
  BY <1>2, <1>3, <1>4
<1>6. U \in SUBSET State /\ s \in U
  OBVIOUS
<1> HIDE DEF U, R
<1>7. Blocked(t, s, R)
  BY <1>5, <1>6 DEF Blocked, IsTrap
<1> QED BY <1>7 DEF R

-----------------------------------------------------------------------------
(* The inductive invariant. *)

\* The action of a frame is being tried, and its earlier branches are solved.
Committed(f) ==
  /\ f.action \in DOMAIN Actions(task, f.state)
  /\ f.branch \in DOMAIN Branches(f)
  /\ \A j \in 1..(f.branch - 1) : Usable(Branches(f)[j])

\* A path whose last step leads to a state that ends a search.
IsHint(p) ==
  p # <<>> =>
    /\ \A k \in 1..(Len(p) - 1) : Leads(p[k], p[k + 1].at)
    /\ \E x \in State : Usable(x) /\ Leads(p[Len(p)], x)

\* What is left of the path is a hint, and it goes on from the action of the frame.
RestFits(f) ==
  /\ IsHint(f.rest)
  /\ f.rest # <<>> => Leads([at |-> f.state, action |-> f.action], f.rest[1].at)

UpTo(i) == {stack[k].state : k \in 1..i}

\* An action that a call has banned for itself has an outcome from which every
\* policy uses a state on the recursion stack.
BansFit(i) ==
  /\ stack[i].local_ban # {} => stack[i].tainted
  /\ \A a \in stack[i].local_ban :
       \/ timed_out
       \/ \E j \in DOMAIN Actions(task, stack[i].state)[a] :
            Blocked(task, Actions(task, stack[i].state)[a][j], UpTo(i))

FrameFits(i) ==
  /\ i = 1 => stack[i].state = Initial(task)
  /\ i > 1 => stack[i].state = Branch(stack[i - 1])
  /\ i < Len(stack) \/ pc # "search" => Committed(stack[i])
  /\ RestFits(stack[i])
  /\ BansFit(i)

Frames == \A i \in 1..Len(stack) : FrameFits(i)

Callee == IF stack = <<>> THEN Initial(task) ELSE Branch(Top)

\* What the phases of a search have in common.
Phases ==
  /\ pc # "search" => nodes = <<>> /\ open = {} /\ ~hit_stack
  /\ pc = "search" => stack # <<>>
  /\ pc # "done" => outcome = "running"
  /\ pc \in {"enter", "return"} => arg.state = Callee
  /\ pc = "enter" => IsHint(arg.hint)
  /\ timed_out => late

\* What a result promises.
Results ==
  pc = "return" =>
    /\ ret.ok => Usable(arg.state)
    /\ ~ret.ok /\ ~ret.tainted => Doomed(task, arg.state)
    /\ ~ret.ok => timed_out \/ Blocked(task, arg.state, ancestors)

\* The path that find_path remembers for node n.
ReachedBy(p, n) ==
  /\ p = <<>> => n = Top.state
  /\ p # <<>> => p[1].at = Top.state /\ Leads(p[Len(p)], n)
  /\ \A k \in 1..(Len(p) - 1) : Leads(p[k], p[k + 1].at)

\* Where an allowed action of an expanded node may lead.
Seen(b) == b \in DOMAIN nodes \/ b \in dead \/ (hit_stack /\ b \in ancestors)

PathSearch ==
  pc = "search" =>
    /\ Top.state \in DOMAIN nodes
    /\ \A n \in DOMAIN nodes : ~Usable(n) /\ ReachedBy(nodes[n], n)
    /\ \A n \in DOMAIN nodes \ open : \A e \in Edges(n) : Seen(Target(n, e))

Verdict == outcome = "no_solution" => Doomed(task, Initial(task))

IInv ==
  /\ TypeOK
  /\ Phases
  /\ Frames
  /\ Results
  /\ PathSearch
  /\ Verdict
  /\ SolvedIsPolicy
  /\ DeadIsDoomed
  /\ OpenIsUnsettled
  /\ AncestorsAreThePath

-----------------------------------------------------------------------------
(* The properties follow from it. *)

LEMMA ResultsAreProofs == IInv => FailureIsProof
BY DEF IInv, Results, Verdict, FailureIsProof

LEMMA RestsArePaths == IInv => HintsArePaths
<1> SUFFICES ASSUME IInv, NEW i \in DOMAIN stack, stack[i].rest # <<>>
             PROVE  LET frame == stack[i]  rest == frame.rest IN
                      /\ Leads([at |-> frame.state, action |-> frame.action], rest[1].at)
                      /\ \A k \in 1..(Len(rest) - 1) : Leads(rest[k], rest[k + 1].at)
                      /\ \E x \in State : Usable(x) /\ Leads(rest[Len(rest)], x)
  BY DEF HintsArePaths
<1>1. i \in 1..Len(stack)
  BY DEF IInv, TypeOK
<1>2. RestFits(stack[i])
  BY <1>1 DEF IInv, Frames, FrameFits
<1> QED BY <1>2 DEF RestFits, IsHint

LEMMA InitIInv == Init => IInv
<1> SUFFICES ASSUME Init PROVE IInv
  OBVIOUS
<1>1. task \in Tasks /\ Initial(task) \in State
  BY GraphType DEF Init
<1>2. DOMAIN nodes = {} /\ DOMAIN solved = {} /\ Len(stack) = 0 /\ DOMAIN stack = {}
  BY DEF Init
<1>3. TypeOK
  <2>1. arg \in [state : State, hint : Seq(Step)] /\ ret \in [ok : BOOLEAN, tainted : BOOLEAN]
    BY <1>1 DEF Init
  <2>2. stack \in Seq(Frame)
    BY DEF Init
  <2>3. nodes \in [DOMAIN nodes -> Seq(Step)] /\ solved \in [DOMAIN solved -> Nat]
    BY <1>2 DEF Init
  <2> QED BY <1>1, <1>2, <2>1, <2>2, <2>3 DEF Init, TypeOK
<1>4. Phases /\ Frames /\ Results
  BY <1>2 DEF Init, Phases, Frames, Results, Callee, IsHint
<1>5. PathSearch /\ Verdict
  BY DEF Init, PathSearch, Verdict
<1>6. SolvedIsPolicy /\ DeadIsDoomed /\ OpenIsUnsettled /\ AncestorsAreThePath
  BY <1>2 DEF Init, SolvedIsPolicy, DeadIsDoomed, OpenIsUnsettled, AncestorsAreThePath
<1> QED BY <1>3, <1>4, <1>5, <1>6 DEF IInv

-----------------------------------------------------------------------------
(* The recursion stack. *)

LEMMA EmptyIsEmpty ==
  ASSUME NEW S, NEW s \in Seq(S), Len(s) = 0
  PROVE  s = <<>>
BY EmptySeq

LEMMA TopType ==
  ASSUME stack \in Seq(Frame), stack # <<>>
  PROVE  Len(stack) \in Nat \ {0} /\ Top \in Frame
BY DEF Top

LEMMA BelowType ==
  ASSUME stack \in Seq(Frame), stack # <<>>
  PROVE  /\ Below \in Seq(Frame) /\ Len(Below) = Len(stack) - 1
         /\ \A k \in 1..(Len(stack) - 1) : Below[k] = stack[k]
<1> DEFINE n == Len(stack) - 1
<1>1. 1 \in 1..(Len(stack) + 1) /\ n \in 0..Len(stack)
  BY TopType
<1> HIDE DEF n
<1>2. /\ SubSeq(stack, 1, n) \in Seq(Frame)
      /\ Len(SubSeq(stack, 1, n)) = IF 1 <= n THEN n - 1 + 1 ELSE 0
      /\ \A k \in 1..(n - 1 + 1) : SubSeq(stack, 1, n)[k] = stack[1 + k - 1]
  BY <1>1, SubSeqProperties
<1>3. Len(SubSeq(stack, 1, n)) = n /\ \A k \in 1..n : SubSeq(stack, 1, n)[k] = stack[k]
  BY <1>1, <1>2
<1> QED BY <1>2, <1>3 DEF Below, n

LEMMA ReplacedType ==
  ASSUME stack \in Seq(Frame), stack # <<>>, NEW f \in Frame
  PROVE  /\ ReplaceTop(f) \in Seq(Frame) /\ Len(ReplaceTop(f)) = Len(stack)
         /\ ReplaceTop(f)[Len(stack)] = f
         /\ \A k \in 1..(Len(stack) - 1) : ReplaceTop(f)[k] = stack[k]
BY TopType DEF ReplaceTop

(***************************************************************************)
(* What is usable stays so while the memo of solved states grows, and then *)
(* hints remain hints.                                                     *)
(***************************************************************************)
LEMMA UsableStays ==
  ASSUME UNCHANGED task, DOMAIN solved \subseteq DOMAIN solved'
  PROVE  /\ \A x : Usable(x) => Usable(x)'
         /\ \A s, x : Leads(s, x) => Leads(s, x)'
         /\ \A p : IsHint(p) => IsHint(p)'
         /\ \A f : RestFits(f) => RestFits(f)'
         /\ \A f : Committed(f) => Committed(f)'
<1>1. \A x : Usable(x) => Usable(x)'
  BY DEF Usable
<1>2. \A s, x : Leads(s, x)' <=> Leads(s, x)
  BY DEF Leads
<1>3. \A p : IsHint(p) => IsHint(p)'
  BY <1>1, <1>2 DEF IsHint
<1>4. \A f : RestFits(f) => RestFits(f)'
  BY <1>2, <1>3 DEF RestFits
<1>5. \A f : Committed(f) => Committed(f)'
  BY <1>1 DEF Committed, Branches
<1> QED BY <1>1, <1>2, <1>3, <1>4, <1>5

(***************************************************************************)
(* A frame fits as long as it and the frames below it stay.                *)
(***************************************************************************)
LEMMA FrameStays ==
  ASSUME IInv, UNCHANGED task, DOMAIN solved \subseteq DOMAIN solved', timed_out => timed_out',
         NEW m \in 0..Len(stack), \A k \in 1..m : stack'[k] = stack[k],
         m < Len(stack) \/ pc # "search" \/ (pc' = "search" /\ m = Len(stack'))
  PROVE  \A i \in 1..m : FrameFits(i)'
<1> SUFFICES ASSUME NEW i \in 1..m PROVE FrameFits(i)'
  OBVIOUS
<1>1. Len(stack) \in Nat
  BY DEF IInv, TypeOK
<1>2. i \in 1..Len(stack) /\ FrameFits(i) /\ stack'[i] = stack[i]
  BY <1>1 DEF IInv, Frames
<1>3. i > 1 => i - 1 \in 1..m
  BY <1>1
<1>4. i = 1 => stack'[i].state = Initial(task')
  BY <1>2 DEF FrameFits
<1>5. i > 1 => stack'[i].state = Branch(stack[i - 1])' /\ stack'[i - 1] = stack[i - 1]
  BY <1>2, <1>3 DEF FrameFits, Branch, Branches
<1>6. i < Len(stack') \/ pc' # "search" => Committed(stack[i])'
  BY <1>1, <1>2, UsableStays DEF FrameFits
<1>7. RestFits(stack[i])'
  BY <1>2, UsableStays DEF FrameFits
<1>8. BansFit(i)'
  <2>1. UpTo(i)' = UpTo(i)
    BY <1>1 DEF UpTo
  <2> QED BY <1>2, <2>1 DEF FrameFits, BansFit
<1> QED BY <1>2, <1>4, <1>5, <1>6, <1>7, <1>8 DEF FrameFits

-----------------------------------------------------------------------------
(* Steps that leave the recursion stack and the memos alone. *)

(***************************************************************************)
(* What the memos mean does not depend on anything else.                   *)
(***************************************************************************)
LEMMA MemosStay ==
  ASSUME IInv, UNCHANGED <<task, memos, ancestors>>, outcome' # "solved" \/ Usable(Initial(task))
  PROVE  SolvedIsPolicy' /\ DeadIsDoomed' /\ OpenIsUnsettled'
<1>1. UNCHANGED <<task, solved, dead, banned, ancestors>>
  BY DEF memos
<1>2. SolvedIsPolicy'
  BY <1>1 DEF IInv, SolvedIsPolicy, Usable
<1>3. DeadIsDoomed'
  BY <1>1 DEF IInv, DeadIsDoomed
<1>4. OpenIsUnsettled'
  BY <1>1 DEF IInv, OpenIsUnsettled, Usable
<1> QED BY <1>2, <1>3, <1>4

LEMMA EarlyReturnIInv ==
  ASSUME IInv, pc = "enter", NEW ok \in BOOLEAN, NEW tainted \in BOOLEAN,
         EarlyReturn(ok, tainted), timed_out' \in BOOLEAN, timed_out => timed_out',
         timed_out' => late,
         ok => Usable(arg.state),
         ~ok /\ ~tainted => Doomed(task, arg.state),
         ~ok => timed_out' \/ Blocked(task, arg.state, ancestors)
  PROVE  IInv'
<1>1. /\ UNCHANGED <<task, stack, nodes, open, hit_stack, solved, dead, banned, ancestors, late,
                     outcome>>
      /\ pc' = "return"
      /\ arg' = [state |-> arg.state, hint |-> <<>>] /\ ret' = [ok |-> ok, tainted |-> tainted]
  BY DEF EarlyReturn, Return, path_search, memos
<1>2. arg.state \in State /\ arg'.state = arg.state /\ ret'.ok = ok /\ ret'.tainted = tainted
  BY <1>1 DEF IInv, TypeOK
<1>3. TypeOK'
  <2>1. arg' \in [state : State, hint : Seq(Step)] /\ ret' \in [ok : BOOLEAN, tainted : BOOLEAN]
    BY <1>1, <1>2
  <2> QED BY <1>1, <2>1 DEF IInv, TypeOK
<1>4. Phases'
  BY <1>1, <1>2 DEF IInv, Phases, Callee, Branch, Branches, Top
<1>5. Frames'
  <2>1. Len(stack) \in Nat
    BY DEF IInv, TypeOK
  <2>2. \A i \in 1..Len(stack) : FrameFits(i)'
    BY <1>1, <2>1, FrameStays
  <2> QED BY <1>1, <2>2 DEF Frames
<1>6. Results'
  <2>1. \A x : Usable(x) => Usable(x)'
    BY <1>1, <1>2 DEF Usable
  <2> QED BY <1>1, <1>2, <2>1 DEF Results
<1>7. PathSearch' /\ Verdict'
  BY <1>1 DEF IInv, PathSearch, Verdict
<1>8. SolvedIsPolicy' /\ DeadIsDoomed' /\ OpenIsUnsettled'
  BY <1>1, MemosStay DEF memos, IInv, Phases
<1>9. AncestorsAreThePath'
  BY <1>1 DEF IInv, AncestorsAreThePath
<1> QED BY <1>3, <1>4, <1>5, <1>6, <1>7, <1>8, <1>9 DEF IInv

LEMMA ReturningIInv == IInv /\ (AbandonLate \/ ReachSolved \/ ReachDead \/ CutCycle) => IInv'
<1> SUFFICES ASSUME IInv, AbandonLate \/ ReachSolved \/ ReachDead \/ CutCycle PROVE IInv'
  OBVIOUS
<1>1. timed_out \in BOOLEAN /\ (timed_out => late)
  BY DEF IInv, TypeOK, Phases
<1>2. CASE AbandonLate
  BY <1>1, <1>2, EarlyReturnIInv DEF AbandonLate
<1>3. CASE ReachSolved
  <2>1. Usable(arg.state)
    BY <1>3 DEF ReachSolved, AtGoal, KnownSolved, Usable
  <2> QED BY <1>1, <1>3, <2>1, EarlyReturnIInv DEF ReachSolved
<1>4. CASE ReachDead
  <2>1. Doomed(task, arg.state)
    BY <1>4 DEF ReachDead, KnownDead, IInv, DeadIsDoomed
  <2>2. Blocked(task, arg.state, ancestors)
    BY <2>1, BlockedAnyway
  <2> QED BY <1>1, <1>4, <2>1, <2>2, EarlyReturnIInv DEF ReachDead
<1>5. CASE CutCycle
  <2>1. Blocked(task, arg.state, ancestors)
    BY <1>5, BlockedAnyway DEF CutCycle, OnPath
  <2> QED BY <1>1, <1>5, <2>1, EarlyReturnIInv DEF CutCycle
<1> QED BY <1>2, <1>3, <1>4, <1>5

LEMMA StopIInv == IInv /\ (FinishSolved \/ FinishFailed) => IInv'
<1> SUFFICES ASSUME IInv, FinishSolved \/ FinishFailed PROVE IInv'
  OBVIOUS
<1>1. /\ UNCHANGED <<task, arg, ret, stack, nodes, open, hit_stack, solved, dead, banned, ancestors,
                     timed_out, late>>
      /\ pc = "return" /\ pc' = "done" /\ stack = <<>>
      /\ \/ ret.ok /\ outcome' = "solved"
         \/ ~ret.ok /\ timed_out /\ outcome' = "timeout"
         \/ ~ret.ok /\ ~timed_out /\ outcome' = "no_solution"
  BY DEF FinishSolved, FinishFailed, Stop, path_search, memos
<1>2. arg.state = Initial(task)
  BY <1>1 DEF IInv, Phases, Callee
<1>3. ancestors = {} /\ Len(stack) = 0
  BY <1>1 DEF IInv, AncestorsAreThePath
<1>4. TypeOK'
  BY <1>1 DEF IInv, TypeOK
<1>5. Phases' /\ Frames' /\ Results' /\ PathSearch'
  BY <1>1, <1>3 DEF IInv, Phases, Frames, Results, PathSearch
<1>6. Verdict'
  BY <1>1, <1>2, <1>3 DEF IInv, Results, Verdict, Doomed
<1>7. SolvedIsPolicy' /\ DeadIsDoomed' /\ OpenIsUnsettled'
  <2>1. outcome' = "solved" => Usable(Initial(task))
    BY <1>1, <1>2 DEF IInv, Results
  <2> QED BY <1>1, <2>1, MemosStay DEF memos
<1>8. AncestorsAreThePath'
  BY <1>1 DEF IInv, AncestorsAreThePath
<1> QED BY <1>4, <1>5, <1>6, <1>7, <1>8 DEF IInv

LEMMA ExpireIInv == IInv /\ (Expire \/ UNCHANGED vars) => IInv'
<1> SUFFICES ASSUME IInv, Expire \/ UNCHANGED vars PROVE IInv'
  OBVIOUS
<1>1. /\ UNCHANGED <<task, pc, arg, ret, stack, nodes, open, hit_stack, solved, dead, banned,
                     ancestors, timed_out, outcome>>
      /\ late' \in BOOLEAN /\ (late => late')
  BY DEF Expire, vars, calls, path_search, memos, IInv, TypeOK
<1>2. TypeOK'
  BY <1>1 DEF IInv, TypeOK
<1>3. Phases'
  BY <1>1 DEF IInv, Phases, Callee, Branch, Branches, Top, IsHint, Usable, Leads
<1>4. Frames'
  <2>1. \A i \in 1..Len(stack) : FrameFits(i)'
    <3>1. Len(stack) \in Nat
      BY DEF IInv, TypeOK
    <3> QED BY <1>1, <3>1, FrameStays
  <2> QED BY <1>1, <2>1 DEF Frames
<1>5. Results' /\ Verdict'
  BY <1>1 DEF IInv, Results, Verdict, Usable
<1>6. PathSearch'
  <2>1. Top' = Top /\ \A n : Usable(n)' <=> Usable(n)
    BY <1>1 DEF Top, Usable
  <2>2. \A p, n : ReachedBy(p, n)' <=> ReachedBy(p, n)
    BY <1>1, <2>1 DEF ReachedBy, Leads
  <2>3. \A n : Allowed(n)' = Allowed(n)
    BY <1>1, <2>1 DEF Allowed
  <2>4. \A n : Edges(n)' = Edges(n)
    BY <1>1, <2>3 DEF Edges
  <2>5. \A n, e : Seen(Target(n, e))' <=> Seen(Target(n, e))
    BY <1>1 DEF Seen, Target
  <2> QED BY <1>1, <2>1, <2>2, <2>4, <2>5 DEF IInv, PathSearch
<1>7. SolvedIsPolicy' /\ DeadIsDoomed' /\ OpenIsUnsettled'
  BY <1>1, MemosStay DEF memos, IInv, SolvedIsPolicy
<1>8. AncestorsAreThePath'
  BY <1>1 DEF IInv, AncestorsAreThePath
<1> QED BY <1>2, <1>3, <1>4, <1>5, <1>6, <1>7, <1>8 DEF IInv

-----------------------------------------------------------------------------
(* Steps that open a call. *)

LEMMA AppendedType ==
  ASSUME stack \in Seq(Frame), NEW f \in Frame, stack' = Append(stack, f)
  PROVE  /\ Len(stack) \in Nat /\ Len(stack') = Len(stack) + 1
         /\ stack' \in Seq(Frame) /\ stack' # <<>> /\ Top' = f
         /\ stack'[Len(stack) + 1] = f
         /\ \A k \in 1..Len(stack) : stack'[k] = stack[k]
<1>1. Len(stack) \in Nat
  OBVIOUS
<1>2. /\ stack' \in Seq(Frame) /\ Len(stack') = Len(stack) + 1
      /\ stack'[Len(stack) + 1] = f
      /\ \A k \in 1..Len(stack) : stack'[k] = stack[k]
  OBVIOUS
<1>3. stack' # <<>>
  BY <1>1, <1>2
<1> QED BY <1>1, <1>2, <1>3 DEF Top

(***************************************************************************)
(* A hint can be followed, and what is left of it is a hint.               *)
(***************************************************************************)
LEMMA HintFollowed ==
  ASSUME NEW p \in Seq(Step), p # <<>>, IsHint(p)
  PROVE  /\ Head(p) = p[1] /\ p[1] \in Step /\ Tail(p) \in Seq(Step)
         /\ p[1].action \in DOMAIN Actions(task, p[1].at)
         /\ IsHint(Tail(p))
         /\ Tail(p) # <<>> => Leads(p[1], Tail(p)[1].at)
<1>1. /\ Len(p) \in Nat \ {0} /\ Head(p) = p[1] /\ p[1] \in Step
      /\ Tail(p) \in Seq(Step) /\ Len(Tail(p)) = Len(p) - 1
      /\ \A k \in 1..(Len(p) - 1) : Tail(p)[k] = p[k + 1]
  OBVIOUS
<1>2. /\ \A k \in 1..(Len(p) - 1) : Leads(p[k], p[k + 1].at)
      /\ \E x \in State : Usable(x) /\ Leads(p[Len(p)], x)
  BY DEF IsHint
<1>3. CASE Len(p) = 1
  <2>1. Tail(p) = <<>>
    <3>1. Tail(p) = SubSeq(p, 2, 1)
      BY <1>3, TailIsSubSeq
    <3> QED BY <3>1, SubSeqEmpty
  <2>2. p[1].action \in DOMAIN Actions(task, p[1].at)
    BY <1>2, <1>3 DEF Leads
  <2> QED BY <1>1, <2>1, <2>2 DEF IsHint
<1>4. CASE Len(p) # 1
  <2>1. Leads(p[1], p[2].at) /\ Tail(p)[1] = p[2]
    BY <1>1, <1>2, <1>4
  <2>2. p[1].action \in DOMAIN Actions(task, p[1].at)
    BY <2>1 DEF Leads
  <2>3. \A k \in 1..(Len(Tail(p)) - 1) : Leads(Tail(p)[k], Tail(p)[k + 1].at)
    <3> SUFFICES ASSUME NEW k \in 1..(Len(Tail(p)) - 1)
                 PROVE  Leads(Tail(p)[k], Tail(p)[k + 1].at)
      OBVIOUS
    <3>1. k + 1 \in 1..(Len(p) - 1) /\ k \in 1..(Len(p) - 1)
      BY <1>1
    <3>2. Tail(p)[k] = p[k + 1] /\ Tail(p)[k + 1] = p[(k + 1) + 1]
      BY <1>1, <3>1
    <3> QED BY <1>2, <3>1, <3>2
  <2>4. Tail(p)[Len(Tail(p))] = p[Len(p)]
    BY <1>1, <1>4
  <2> QED BY <1>1, <1>2, <2>1, <2>2, <2>3, <2>4 DEF IsHint
<1> QED BY <1>3, <1>4

(***************************************************************************)
(* A search begins with the state of the topmost call, which is settled    *)
(* neither way.                                                            *)
(***************************************************************************)
LEMMA SearchBegins ==
  ASSUME NEW s, SearchFrom(s), s = Top'.state, UNCHANGED <<task, solved>>, ~Usable(s)
  PROVE  /\ PathSearch'
         /\ DOMAIN nodes' = {s} /\ nodes' \in [DOMAIN nodes' -> Seq(Step)]
<1>1. nodes' = [x \in {s} |-> <<>>] /\ open' = {s}
  BY DEF SearchFrom
<1>2. DOMAIN nodes' = {s} /\ nodes'[s] = <<>>
  BY <1>1
<1>3. ~Usable(s)'
  BY DEF Usable
<1>4. ReachedBy(<<>>, s)'
  BY DEF ReachedBy
<1> QED BY <1>1, <1>2, <1>3, <1>4 DEF PathSearch

LEMMA OpenIInv ==
  ASSUME IInv, NEW f \in Frame, Open(f), f.state = arg.state, f.local_ban = {},
         RestFits(f), pc' = "search" \/ Committed(f)
  PROVE  /\ Frames' /\ AncestorsAreThePath' /\ OpenIsUnsettled' /\ SolvedIsPolicy' /\ DeadIsDoomed'
         /\ stack' \in Seq(Frame) /\ stack' # <<>> /\ Top' = f
         /\ ~Usable(arg.state) /\ ancestors' \subseteq State
<1>1. /\ UNCHANGED <<task, ret, solved, dead, banned, timed_out, late, outcome>>
      /\ pc = "enter" /\ ~Usable(arg.state) /\ arg.state \notin dead
      /\ arg.state \notin ancestors /\ arg.state \in State
      /\ ancestors' = ancestors \cup {arg.state} /\ stack' = Append(stack, f)
  BY DEF Open, AtGoal, KnownSolved, KnownDead, OnPath, Usable, memos, IInv, TypeOK
<1> PICK n \in Nat : n = Len(stack)
  BY DEF IInv, TypeOK
<1>2. /\ n \in Nat /\ Len(stack') = n + 1 /\ stack' \in Seq(Frame) /\ stack' # <<>> /\ Top' = f
      /\ stack'[n + 1] = f /\ DOMAIN stack' = 1..(n + 1) /\ DOMAIN stack = 1..n
      /\ \A k \in 1..n : stack'[k] = stack[k]
  <2>1. stack \in Seq(Frame)
    BY DEF IInv, TypeOK
  <2> QED BY <1>1, <2>1, AppendedType
<1>3. Frames'
  <2>1. \A i \in 1..n : FrameFits(i)'
    BY <1>1, <1>2, FrameStays
  <2>2. FrameFits(n + 1)'
    <3>1. n + 1 = 1 => stack'[n + 1].state = Initial(task')
      <4>1. n = 0 => stack = <<>>
        BY EmptyIsEmpty DEF IInv, TypeOK
      <4> QED BY <1>1, <1>2, <4>1 DEF IInv, Phases, Callee
    <3>2. n + 1 > 1 => stack'[n + 1].state = Branch(stack[n])' /\ stack'[n] = stack[n]
      <4>1. n + 1 > 1 => stack # <<>> /\ n \in 1..n
        BY <1>2
      <4>2. n + 1 > 1 => stack[n] = Top /\ stack'[n] = stack[n]
        BY <1>2, <4>1 DEF Top
      <4>3. n + 1 > 1 => arg.state = Branch(Top)
        BY <1>1, <4>1 DEF IInv, Phases, Callee
      <4> QED BY <1>1, <1>2, <4>2, <4>3 DEF Branch, Branches
    <3>3. RestFits(f)' /\ (pc' # "search" => Committed(f)')
      BY <1>1, UsableStays
    <3>4. BansFit(n + 1)'
      BY <1>2 DEF BansFit
    <3> QED BY <1>2, <3>1, <3>2, <3>3, <3>4 DEF FrameFits
  <2>3. \A i \in 1..(n + 1) : i \in 1..n \/ i = n + 1
    BY <1>2
  <2> QED BY <1>2, <2>1, <2>2, <2>3 DEF Frames
<1>4. AncestorsAreThePath'
  <2>1. ancestors = {stack[i].state : i \in 1..n}
    BY <1>2 DEF IInv, AncestorsAreThePath
  <2>2. ancestors' = {stack'[i].state : i \in 1..(n + 1)}
    <3>1. 1..(n + 1) = (1..n) \cup {n + 1}
      BY <1>2
    <3>2. {stack'[i].state : i \in 1..n} = {stack[i].state : i \in 1..n}
      BY <1>2
    <3> QED BY <1>1, <1>2, <2>1, <3>1, <3>2
  <2>3. \A i, j \in 1..n : stack[i].state = stack[j].state => i = j
    BY <1>2 DEF IInv, AncestorsAreThePath
  <2>4. \A i \in 1..n : stack[i].state # f.state
    BY <1>1, <2>1
  <2>5. \A i, j \in 1..(n + 1) : stack'[i].state = stack'[j].state => i = j
    <3>1. \A i \in 1..(n + 1) : i = n + 1 \/ i \in 1..n
      BY <1>2
    <3> QED BY <1>2, <2>3, <2>4, <3>1
  <2> QED BY <1>2, <2>2, <2>5 DEF AncestorsAreThePath
<1>5. OpenIsUnsettled'
  BY <1>1 DEF IInv, OpenIsUnsettled, Usable
<1>6. SolvedIsPolicy' /\ DeadIsDoomed'
  BY <1>1 DEF IInv, SolvedIsPolicy, DeadIsDoomed, Usable
<1> QED BY <1>1, <1>2, <1>3, <1>4, <1>5, <1>6 DEF IInv, TypeOK

LEMMA OpenStateIInv == IInv /\ OpenState => IInv'
<1> SUFFICES ASSUME IInv, OpenState PROVE IInv'
  OBVIOUS
<1> DEFINE f == NewFrame(0, 0, <<>>)
<1>1. /\ UNCHANGED <<task, arg, ret, solved, dead, banned, timed_out, late, outcome>>
      /\ Open(f) /\ SearchFrom(arg.state) /\ pc = "enter" /\ pc' = "search"
      /\ open' = {arg.state} /\ hit_stack' = FALSE
  BY DEF OpenState, Open, SearchFrom, memos
<1>2. f \in Frame /\ f.state = arg.state /\ f.local_ban = {} /\ RestFits(f)
  <2>1. arg.state \in State
    BY DEF IInv, TypeOK
  <2> QED BY <2>1 DEF NewFrame, Frame, RestFits, IsHint
<1> HIDE DEF f
<1>3. /\ Frames' /\ AncestorsAreThePath' /\ OpenIsUnsettled' /\ SolvedIsPolicy' /\ DeadIsDoomed'
      /\ stack' \in Seq(Frame) /\ stack' # <<>> /\ Top' = f
      /\ ~Usable(arg.state) /\ ancestors' \subseteq State
  BY <1>1, <1>2, OpenIInv
<1>4. PathSearch' /\ DOMAIN nodes' = {arg.state} /\ nodes' \in [DOMAIN nodes' -> Seq(Step)]
  BY <1>1, <1>2, <1>3, SearchBegins
<1>5. TypeOK'
  BY <1>1, <1>3, <1>4 DEF IInv, TypeOK
<1>6. Phases' /\ Results' /\ Verdict'
  BY <1>1, <1>3 DEF IInv, Phases, Results, Verdict
<1> QED BY <1>3, <1>4, <1>5, <1>6 DEF IInv

LEMMA FollowHintIInv == IInv /\ FollowHint => IInv'
<1> SUFFICES ASSUME IInv, FollowHint PROVE IInv'
  OBVIOUS
<1> DEFINE f == NewFrame(Head(arg.hint).action, 1, Tail(arg.hint))
<1>1. /\ UNCHANGED <<task, ret, nodes, open, hit_stack, solved, dead, banned, timed_out, late,
                     outcome>>
      /\ Open(f) /\ pc = "enter" /\ pc' = "enter" /\ arg.hint # <<>> /\ Head(arg.hint).at = arg.state
      /\ arg' = [state |-> Branch(f), hint |-> Hint(f)]
  BY DEF FollowHint, Hinted, Open, SolveBranch, path_search, memos
<1>2. /\ Head(arg.hint) = arg.hint[1] /\ arg.hint[1] \in Step /\ Tail(arg.hint) \in Seq(Step)
      /\ arg.hint[1].action \in DOMAIN Actions(task, arg.hint[1].at)
      /\ IsHint(Tail(arg.hint))
      /\ Tail(arg.hint) # <<>> => Leads(arg.hint[1], Tail(arg.hint)[1].at)
  <2>1. arg.hint \in Seq(Step) /\ IsHint(arg.hint)
    BY <1>1 DEF IInv, TypeOK, Phases
  <2> QED BY <1>1, <2>1, HintFollowed
<1>3. /\ f \in Frame /\ f.state = arg.state /\ f.local_ban = {} /\ f.rest = Tail(arg.hint)
      /\ f.action = arg.hint[1].action /\ f.branch = 1
  <2>1. arg.state \in State /\ arg.hint[1].action \in Nat
    BY <1>2 DEF IInv, TypeOK, Step
  <2> QED BY <1>2, <2>1 DEF NewFrame, Frame
<1>4. f.state = arg.hint[1].at /\ task \in Tasks
  BY <1>1, <1>2, <1>3 DEF IInv, TypeOK
<1> HIDE DEF f
<1>5. RestFits(f)
  BY <1>2, <1>3, <1>4 DEF RestFits, Leads
<1>6. Committed(f) /\ Branch(f) \in State
  <2>1. f.state \in State /\ f.action \in DOMAIN Actions(task, f.state)
    BY <1>2, <1>3, <1>4 DEF Frame
  <2> QED BY <1>3, <1>4, <2>1, OutcomeType DEF Committed, Branches, Branch
<1>7. /\ Frames' /\ AncestorsAreThePath' /\ OpenIsUnsettled' /\ SolvedIsPolicy' /\ DeadIsDoomed'
      /\ stack' \in Seq(Frame) /\ stack' # <<>> /\ Top' = f /\ ancestors' \subseteq State
  BY <1>1, <1>3, <1>5, <1>6, OpenIInv
<1>8. /\ arg'.state = Branch(f) /\ arg'.hint = Hint(f)
      /\ Hint(f) \in Seq(Step) /\ IsHint(Hint(f))
  <2>1. Hint(f) \in {f.rest, <<>>}
    BY DEF Hint
  <2>2. IsHint(<<>>) /\ <<>> \in Seq(Step)
    BY DEF IsHint
  <2>3. IsHint(f.rest) /\ f.rest \in Seq(Step)
    BY <1>2, <1>3
  <2>4. Hint(f) \in Seq(Step) /\ IsHint(Hint(f))
    BY <2>1, <2>2, <2>3
  <2> QED BY <1>1, <2>4
<1>9. TypeOK'
  <2>1. arg' \in [state : State, hint : Seq(Step)]
    BY <1>1, <1>6, <1>8
  <2> QED BY <1>1, <1>7, <2>1 DEF IInv, TypeOK
<1>10. Phases'
  <2> PICK h \in Seq(Step) : h = Hint(f)
    BY <1>8
  <2>1. IsHint(h)' /\ arg'.hint = h
    BY <1>1, <1>8, UsableStays
  <2>2. Callee' = Branch(f)
    BY <1>1, <1>7 DEF Callee, Branch, Branches
  <2> QED BY <1>1, <1>7, <1>8, <2>1, <2>2 DEF IInv, Phases
<1>11. Results' /\ PathSearch' /\ Verdict'
  BY <1>1 DEF IInv, Results, PathSearch, Verdict
<1> QED BY <1>7, <1>9, <1>10, <1>11 DEF IInv

-----------------------------------------------------------------------------
(* Steps that change the topmost frame. *)

\* What is known of the topmost call in any phase.
LEMMA TopFits ==
  ASSUME IInv, stack # <<>>
  PROVE  /\ stack \in Seq(Frame) /\ Len(stack) \in Nat \ {0} /\ Top \in Frame
         /\ task \in Tasks /\ Top.state \in State
         /\ Top.state \in ancestors /\ ~Usable(Top.state) /\ Top.state \notin dead
         /\ pc # "search" => Committed(Top)
         /\ RestFits(Top)
         /\ Top.local_ban # {} => Top.tainted
         /\ \A a \in Top.local_ban :
              \/ timed_out
              \/ \E j \in DOMAIN Actions(task, Top.state)[a] :
                   Blocked(task, Actions(task, Top.state)[a][j], ancestors)
<1>1. stack \in Seq(Frame) /\ Len(stack) \in Nat \ {0} /\ Top \in Frame /\ task \in Tasks
  BY TopType DEF IInv, TypeOK
<1>2. /\ Len(stack) \in 1..Len(stack) /\ DOMAIN stack = 1..Len(stack)
      /\ Top = stack[Len(stack)]
  BY <1>1 DEF Top
<1>3. UpTo(Len(stack)) = ancestors /\ Top.state \in ancestors
  BY <1>2 DEF UpTo, IInv, AncestorsAreThePath
<1>4. FrameFits(Len(stack))
  BY <1>2 DEF IInv, Frames
<1>5. ~Usable(Top.state) /\ Top.state \notin dead
  BY <1>3 DEF IInv, OpenIsUnsettled
<1>6. /\ pc # "search" => Committed(Top)
      /\ RestFits(Top)
      /\ Top.local_ban # {} => Top.tainted
      /\ \A a \in Top.local_ban :
           \/ timed_out
           \/ \E j \in DOMAIN Actions(task, Top.state)[a] :
                Blocked(task, Actions(task, Top.state)[a][j], ancestors)
  BY <1>2, <1>3, <1>4 DEF FrameFits, BansFit
<1>7. Top.state \in State
  BY <1>1 DEF Frame
<1> QED BY <1>1, <1>3, <1>5, <1>6, <1>7

LEMMA ReplacedFits ==
  ASSUME IInv, stack # <<>>, NEW f \in Frame, stack' = ReplaceTop(f), f.state = Top.state,
         UNCHANGED <<task, solved, ancestors, timed_out>>,
         pc' = "search" \/ Committed(f),
         RestFits(f),
         f.local_ban # {} => f.tainted,
         \A a \in f.local_ban :
           \/ timed_out
           \/ \E j \in DOMAIN Actions(task, f.state)[a] :
                Blocked(task, Actions(task, f.state)[a][j], ancestors)
  PROVE  /\ Frames' /\ AncestorsAreThePath'
         /\ stack' \in Seq(Frame) /\ stack' # <<>> /\ Top' = f
<1> PICK n \in Nat : n = Len(stack)
  BY DEF IInv, TypeOK
<1>1. /\ n > 0 /\ stack' \in Seq(Frame) /\ Len(stack') = n
      /\ stack'[n] = f /\ \A k \in 1..(n - 1) : stack'[k] = stack[k]
  <2>1. stack \in Seq(Frame) /\ n > 0
    BY TopFits
  <2>2. /\ ReplaceTop(f) \in Seq(Frame) /\ Len(ReplaceTop(f)) = Len(stack)
        /\ ReplaceTop(f)[Len(stack)] = f
        /\ \A k \in 1..(Len(stack) - 1) : ReplaceTop(f)[k] = stack[k]
    BY <2>1, ReplacedType
  <2> QED BY <2>1, <2>2
<1>2. /\ DOMAIN stack = 1..n /\ DOMAIN stack' = 1..n /\ Top = stack[n] /\ Top' = f
      /\ stack' # <<>>
  <2>1. DOMAIN stack = 1..n /\ DOMAIN stack' = 1..n
    BY <1>1 DEF IInv, TypeOK
  <2>2. Top = stack[n] /\ Top' = f
    BY <1>1 DEF Top
  <2>3. stack' # <<>>
    BY <1>1
  <2> QED BY <2>1, <2>2, <2>3
<1>3. \A k \in 1..n : stack'[k].state = stack[k].state
  BY <1>1, <1>2
<1>4. AncestorsAreThePath'
  BY <1>2, <1>3 DEF IInv, AncestorsAreThePath
<1>5. Frames'
  <2>1. \A i \in 1..(n - 1) : FrameFits(i)'
    BY <1>1, FrameStays
  <2>2. FrameFits(n)'
    <3>1. FrameFits(n) /\ n \in 1..n
      BY <1>1 DEF IInv, Frames
    <3>2. n = 1 => stack'[n].state = Initial(task')
      BY <1>3, <3>1 DEF FrameFits
    <3>3. n > 1 => stack'[n].state = Branch(stack[n - 1])' /\ stack'[n - 1] = stack[n - 1]
      BY <1>1, <1>3, <3>1 DEF FrameFits, Branch, Branches
    <3>4. RestFits(f)' /\ (pc' # "search" => Committed(f)')
      BY UsableStays
    <3>5. BansFit(n)'
      <4>1. UpTo(n) = ancestors
        BY <1>2 DEF UpTo, IInv, AncestorsAreThePath
      <4>2. UpTo(n)' = ancestors
        BY <1>3, <4>1 DEF UpTo
      <4> QED BY <1>1, <4>2 DEF BansFit
    <3> QED BY <1>1, <3>2, <3>3, <3>4, <3>5 DEF FrameFits
  <2>3. \A i \in 1..n : i \in 1..(n - 1) \/ i = n
    OBVIOUS
  <2> QED BY <1>1, <2>1, <2>2, <2>3 DEF Frames
<1> QED BY <1>1, <1>2, <1>4, <1>5

(***************************************************************************)
(* The topmost call turns to a branch of the action it has committed to.   *)
(***************************************************************************)
LEMMA BranchEntered ==
  ASSUME IInv, stack # <<>>, NEW f \in Frame, stack' = ReplaceTop(f), SolveBranch(f),
         f.state = Top.state, f.local_ban = Top.local_ban, f.tainted = Top.tainted,
         Committed(f), RestFits(f),
         UNCHANGED <<task, ret, solved, ancestors, timed_out, late, outcome>>,
         nodes' = <<>>, open' = {}, hit_stack' = FALSE,
         banned' = banned, dead' \subseteq State, outcome = "running"
  PROVE  /\ TypeOK' /\ Phases' /\ Frames' /\ Results' /\ PathSearch' /\ Verdict'
         /\ AncestorsAreThePath'
<1>1. pc' = "enter" /\ arg' = [state |-> Branch(f), hint |-> Hint(f)]
  BY DEF SolveBranch
<1>2. /\ Frames' /\ AncestorsAreThePath' /\ stack' \in Seq(Frame) /\ stack' # <<>> /\ Top' = f
  BY TopFits, ReplacedFits
<1>3. Branch(f) \in State
  BY TopFits, OutcomeType DEF Committed, Branch, Branches
<1>4. Hint(f) \in Seq(Step) /\ IsHint(Hint(f))
  <2>1. Hint(f) \in {f.rest, <<>>}
    BY DEF Hint
  <2>2. IsHint(<<>>) /\ <<>> \in Seq(Step)
    BY DEF IsHint
  <2>3. IsHint(f.rest) /\ f.rest \in Seq(Step)
    BY DEF RestFits, Frame
  <2> QED BY <2>1, <2>2, <2>3
<1>5. TypeOK'
  <2>1. arg' \in [state : State, hint : Seq(Step)]
    BY <1>1, <1>3, <1>4
  <2>2. nodes' \in [DOMAIN nodes' -> Seq(Step)] /\ DOMAIN nodes' = {}
    OBVIOUS
  <2> QED BY <1>1, <1>2, <2>1, <2>2 DEF IInv, TypeOK
<1>6. Phases'
  <2> PICK h \in Seq(Step) : h = Hint(f)
    BY <1>4
  <2>1. IsHint(h)' /\ arg'.hint = h
    BY <1>1, <1>4, UsableStays
  <2>2. Callee' = Branch(f) /\ arg'.state = Branch(f)
    BY <1>1, <1>2 DEF Callee, Branch, Branches
  <2> QED BY <1>1, <1>2, <2>1, <2>2 DEF IInv, Phases
<1>7. Results' /\ PathSearch' /\ Verdict'
  BY <1>1 DEF IInv, Results, PathSearch, Verdict
<1> QED BY <1>2, <1>5, <1>6, <1>7

LEMMA NextBranchIInv == IInv /\ NextBranch => IInv'
<1> SUFFICES ASSUME IInv, NextBranch PROVE IInv'
  OBVIOUS
<1> DEFINE f == [Top EXCEPT !.branch = @ + 1]
<1>1. /\ UNCHANGED <<task, ret, nodes, open, hit_stack, solved, dead, banned, ancestors, timed_out,
                     late, outcome>>
      /\ pc = "return" /\ stack # <<>> /\ ret.ok /\ Top.branch # Len(Branches(Top))
      /\ stack' = ReplaceTop(f) /\ SolveBranch(f)
  BY DEF NextBranch, LastBranch, path_search, memos
<1>2. Top \in Frame /\ Top.state \in State /\ task \in Tasks /\ Committed(Top) /\ RestFits(Top)
  BY <1>1, TopFits
<1>3. /\ f \in Frame /\ f.state = Top.state /\ f.action = Top.action /\ f.rest = Top.rest
      /\ f.local_ban = Top.local_ban /\ f.tainted = Top.tainted /\ f.branch = Top.branch + 1
      /\ Top.branch \in Nat
  BY <1>2 DEF Frame
<1> HIDE DEF f
<1>4. RestFits(f)
  BY <1>2, <1>3 DEF RestFits
<1>5. Committed(f)
  <2>1. /\ Branches(f) = Branches(Top) /\ Branches(Top) \in Seq(State)
        /\ Top.branch \in DOMAIN Branches(Top)
        /\ \A j \in 1..(Top.branch - 1) : Usable(Branches(Top)[j])
    BY <1>2, <1>3, OutcomeType DEF Committed, Branches
  <2>2. Usable(Branches(Top)[Top.branch])
    BY <1>1 DEF IInv, Results, Phases, Callee, Branch
  <2>3. f.branch \in DOMAIN Branches(f)
    BY <1>1, <1>3, <2>1
  <2>4. \A j \in 1..(f.branch - 1) : j \in 1..(Top.branch - 1) \/ j = Top.branch
    BY <1>3
  <2> QED BY <1>2, <1>3, <2>1, <2>2, <2>3, <2>4 DEF Committed
<1>6. nodes' = <<>> /\ open' = {} /\ hit_stack' = FALSE /\ outcome = "running" /\ dead' \subseteq State
  BY <1>1 DEF IInv, Phases, TypeOK
<1>7. /\ TypeOK' /\ Phases' /\ Frames' /\ Results' /\ PathSearch' /\ Verdict'
      /\ AncestorsAreThePath'
  BY <1>1, <1>3, <1>4, <1>5, <1>6, BranchEntered
<1>8. SolvedIsPolicy' /\ DeadIsDoomed' /\ OpenIsUnsettled'
  BY <1>1, <1>6, MemosStay DEF memos
<1> QED BY <1>7, <1>8 DEF IInv

LEMMA DropActionIInv == IInv /\ DropAction => IInv'
<1> SUFFICES ASSUME IInv, DropAction PROVE IInv'
  OBVIOUS
<1>1. /\ UNCHANGED <<task, arg, ret, solved, dead, ancestors, timed_out, late, outcome>>
      /\ pc = "return" /\ stack # <<>> /\ ~ret.ok /\ Ban /\ SearchFrom(Top.state)
      /\ pc' = "search" /\ open' = {Top.state} /\ hit_stack' = FALSE /\ outcome = "running"
  BY DEF DropAction, SearchFrom, IInv, Phases
<1>2. /\ stack \in Seq(Frame) /\ Len(stack) \in Nat \ {0} /\ Top \in Frame
      /\ task \in Tasks /\ Top.state \in State /\ ~Usable(Top.state)
      /\ Committed(Top) /\ RestFits(Top)
  BY <1>1, TopFits
<1>3. /\ arg.state = Actions(task, Top.state)[Top.action][Top.branch]
      /\ Top.branch \in DOMAIN Actions(task, Top.state)[Top.action]
      /\ Top.action \in Nat
  BY <1>1, <1>2 DEF IInv, Phases, Callee, Branch, Branches, Committed, Frame
<1>4. DeadIsDoomed' /\ banned' \subseteq State \X Nat
  <2>1. CASE ret.tainted
    BY <1>1, <2>1 DEF Ban, IInv, TypeOK, DeadIsDoomed
  <2>2. CASE ~ret.tainted
    <3>1. Doomed(task, arg.state)
      BY <1>1, <2>2 DEF IInv, Results
    <3>2. banned' = banned \cup {<<Top.state, Top.action>>}
      BY <2>2, <1>1 DEF Ban
    <3>3. \A b \in banned' : \E j \in DOMAIN Actions(task, b[1])[b[2]] :
             Doomed(task, Actions(task, b[1])[b[2]][j])
      BY <1>3, <3>1, <3>2 DEF IInv, DeadIsDoomed
    <3> QED BY <1>1, <1>2, <1>3, <3>2, <3>3 DEF IInv, TypeOK, DeadIsDoomed
  <2> QED BY <2>1, <2>2
<1>5. /\ Frames' /\ AncestorsAreThePath' /\ stack' \in Seq(Frame) /\ stack' # <<>>
      /\ Top'.state = Top.state
  <2>1. CASE ret.tainted
    <3> DEFINE f == [Top EXCEPT !.tainted = TRUE, !.local_ban = @ \cup {Top.action}]
    <3>1. stack' = ReplaceTop(f)
      BY <1>1, <2>1 DEF Ban
    <3>2. /\ f \in Frame /\ f.state = Top.state /\ f.action = Top.action /\ f.rest = Top.rest
          /\ f.local_ban = Top.local_ban \cup {Top.action} /\ f.tainted
      BY <1>2, <1>3 DEF Frame
    <3> HIDE DEF f
    <3>3. RestFits(f)
      BY <1>2, <3>2 DEF RestFits
    <3>4. \A a \in f.local_ban :
             \/ timed_out
             \/ \E j \in DOMAIN Actions(task, f.state)[a] :
                  Blocked(task, Actions(task, f.state)[a][j], ancestors)
      <4>1. timed_out \/ Blocked(task, arg.state, ancestors)
        BY <1>1 DEF IInv, Results
      <4> QED BY <1>1, <1>3, <3>2, <4>1, TopFits
    <3> QED BY <1>1, <3>1, <3>2, <3>3, <3>4, ReplacedFits
  <2>2. CASE ~ret.tainted
    <3>1. stack' = stack
      BY <1>1, <2>2 DEF Ban
    <3>2. \A i \in 1..Len(stack) : FrameFits(i)'
      BY <1>1, <1>2, <3>1, FrameStays
    <3> QED BY <1>1, <1>2, <3>1, <3>2 DEF Frames, IInv, AncestorsAreThePath, Top
  <2> QED BY <2>1, <2>2
<1>6. PathSearch' /\ DOMAIN nodes' = {Top.state} /\ nodes' \in [DOMAIN nodes' -> Seq(Step)]
  BY <1>1, <1>2, <1>5, SearchBegins
<1>7. TypeOK'
  BY <1>1, <1>2, <1>4, <1>5, <1>6 DEF IInv, TypeOK
<1>8. Phases' /\ Results' /\ Verdict'
  BY <1>1, <1>5 DEF IInv, Phases, Results, Verdict
<1>9. SolvedIsPolicy' /\ OpenIsUnsettled'
  BY <1>1 DEF IInv, SolvedIsPolicy, OpenIsUnsettled, Usable
<1> QED BY <1>4, <1>5, <1>6, <1>7, <1>8, <1>9 DEF IInv

-----------------------------------------------------------------------------
(* Steps that return from a call. *)

LEMMA PoppedFits ==
  ASSUME IInv, stack # <<>>, stack' = Below, ancestors' = WithoutTop, UNCHANGED task,
         DOMAIN solved \subseteq DOMAIN solved', timed_out => timed_out'
  PROVE  /\ Frames' /\ AncestorsAreThePath' /\ stack' \in Seq(Frame)
         /\ Callee' = Top.state /\ ancestors' \subseteq State
<1> PICK n \in Nat : n = Len(stack)
  BY DEF IInv, TypeOK
<1>1. /\ n > 0 /\ stack \in Seq(Frame) /\ stack' \in Seq(Frame) /\ Len(stack') = n - 1
      /\ \A k \in 1..(n - 1) : stack'[k] = stack[k]
  <2>1. stack \in Seq(Frame) /\ n > 0
    BY TopFits
  <2>2. /\ Below \in Seq(Frame) /\ Len(Below) = Len(stack) - 1
        /\ \A k \in 1..(Len(stack) - 1) : Below[k] = stack[k]
    BY <2>1, BelowType
  <2> QED BY <2>1, <2>2
<1>2. DOMAIN stack = 1..n /\ DOMAIN stack' = 1..(n - 1) /\ Top = stack[n]
  BY <1>1 DEF Top
<1>3. Frames'
  <2>1. \A i \in 1..(n - 1) : FrameFits(i)'
    BY <1>1, FrameStays
  <2> QED BY <1>1, <2>1 DEF Frames
<1>4. AncestorsAreThePath'
  <2>1. /\ ancestors = {stack[i].state : i \in 1..n}
        /\ \A i, j \in 1..n : stack[i].state = stack[j].state => i = j
    BY <1>2 DEF IInv, AncestorsAreThePath
  <2>2. \A i \in 1..(n - 1) : i \in 1..n /\ i # n
    OBVIOUS
  <2>3. ancestors' = {stack[i].state : i \in 1..(n - 1)}
    <3>1. \A i \in 1..n : i \in 1..(n - 1) \/ i = n
      OBVIOUS
    <3>2. n \in 1..n
      BY <1>1
    <3> QED BY <1>2, <2>1, <2>2, <3>1, <3>2 DEF WithoutTop
  <2>4. \A i, j \in 1..(n - 1) : stack'[i].state = stack'[j].state => i = j
    BY <1>1, <2>1, <2>2
  <2>5. {stack'[i].state : i \in 1..(n - 1)} = {stack[i].state : i \in 1..(n - 1)}
    BY <1>1
  <2> QED BY <1>2, <2>3, <2>4, <2>5 DEF AncestorsAreThePath
<1>5. Callee' = Top.state
  <2>1. FrameFits(n)
    BY <1>1 DEF IInv, Frames
  <2>2. CASE n = 1
    <3>1. stack' = <<>>
      BY <1>1, <2>2, EmptyIsEmpty
    <3> QED BY <1>2, <2>1, <2>2, <3>1 DEF FrameFits, Callee
  <2>3. CASE n # 1
    <3>1. stack' # <<>> /\ stack'[Len(stack')] = stack[n - 1]
      BY <1>1, <2>3
    <3>2. stack[n].state = Branch(stack[n - 1])
      BY <1>1, <2>1, <2>3 DEF FrameFits
    <3>3. Callee' = Branch(stack[n - 1])
      BY <3>1 DEF Callee, Top, Branch, Branches
    <3> QED BY <1>2, <3>2, <3>3
  <2> QED BY <2>2, <2>3
<1>6. ancestors' \subseteq State
  BY DEF WithoutTop, IInv, TypeOK
<1> QED BY <1>1, <1>3, <1>4, <1>5, <1>6

LEMMA SolveStateIInv == IInv /\ SolveState => IInv'
<1> SUFFICES ASSUME IInv, SolveState PROVE IInv'
  OBVIOUS
<1> PICK s \in State : s = Top.state
  BY TopFits DEF SolveState
<1>1. /\ UNCHANGED <<task, nodes, open, hit_stack, dead, banned, timed_out, late, outcome>>
      /\ pc = "return" /\ stack # <<>> /\ ret.ok /\ Top.branch = Len(Branches(Top))
      /\ ancestors' = WithoutTop /\ stack' = Below
      /\ solved' = [x \in DOMAIN solved \cup {s} |-> IF x = s THEN Top.action ELSE solved[x]]
      /\ pc' = "return" /\ arg' = [state |-> s, hint |-> <<>>]
      /\ ret' = [ok |-> TRUE, tainted |-> FALSE] /\ outcome = "running"
  BY DEF SolveState, LastBranch, Return, path_search, IInv, Phases
<1>2. /\ Top \in Frame /\ task \in Tasks /\ Committed(Top) /\ Top.action \in Nat
      /\ s \in ancestors /\ ~Usable(s) /\ s \notin dead
  BY <1>1, TopFits DEF Frame
<1>3. /\ DOMAIN solved' = DOMAIN solved \cup {s} /\ solved'[s] = Top.action
      /\ \A x \in DOMAIN solved : solved'[x] = solved[x]
      /\ s \notin DOMAIN solved /\ s \notin Goal(task)
  BY <1>1, <1>2 DEF Usable
<1>4. /\ Frames' /\ AncestorsAreThePath' /\ stack' \in Seq(Frame)
      /\ Callee' = s /\ ancestors' \subseteq State
  BY <1>1, <1>3, PoppedFits
<1>5. solved' \in [DOMAIN solved' -> Nat] /\ DOMAIN solved' \subseteq State
  <2>1. solved \in [DOMAIN solved -> Nat] /\ DOMAIN solved \subseteq State
    BY DEF IInv, TypeOK
  <2> QED BY <1>1, <1>2, <1>3, <2>1
<1>6. arg'.state = s /\ arg'.hint = <<>> /\ ret'.ok
      /\ arg' \in [state : State, hint : Seq(Step)] /\ ret' \in [ok : BOOLEAN, tainted : BOOLEAN]
  BY <1>1
<1>7. TypeOK'
  BY <1>1, <1>4, <1>5, <1>6 DEF IInv, TypeOK
<1>8. Phases'
  BY <1>1, <1>4, <1>6 DEF IInv, Phases
<1>9. Results' /\ PathSearch' /\ Verdict'
  BY <1>1, <1>3, <1>6 DEF IInv, Results, PathSearch, Verdict, Usable
<1>10. \A x : Usable(x)' <=> (Usable(x) \/ x = s)
  BY <1>1, <1>3 DEF Usable
<1>11. /\ Top.action \in DOMAIN Actions(task, s)
       /\ \A j \in DOMAIN Actions(task, s)[Top.action] : Usable(Actions(task, s)[Top.action][j])
  <2>1. /\ Top.action \in DOMAIN Actions(task, s) /\ Branches(Top) = Actions(task, s)[Top.action]
        /\ Branches(Top) \in Seq(State)
        /\ \A j \in 1..(Top.branch - 1) : Usable(Branches(Top)[j])
    BY <1>2, OutcomeType DEF Committed, Branches
  <2>2. Usable(Branches(Top)[Top.branch])
    BY <1>1 DEF IInv, Results, Phases, Callee, Branch
  <2>3. \A j \in DOMAIN Branches(Top) : j \in 1..(Top.branch - 1) \/ j = Top.branch
    BY <1>1, <2>1
  <2> QED BY <2>1, <2>2, <2>3
<1>12. SolvedIsPolicy'
  <2> PICK g : g = solved'
    OBVIOUS
  <2> PICK t : t = task
    OBVIOUS
  <2>0. /\ task' = t /\ DOMAIN g = DOMAIN solved \cup {s} /\ g[s] = Top.action
        /\ \A x \in DOMAIN solved : g[x] = solved[x]
    BY <1>1, <1>3
  <2>1. ASSUME NEW x \in DOMAIN g
        PROVE  /\ g[x] \in DOMAIN Actions(t, x)
               /\ \A j \in DOMAIN Actions(t, x)[g[x]] :
                    Usable(Actions(t, x)[g[x]][j])
    <3>1. CASE x = s
      BY <2>0, <1>3, <1>11, <3>1
    <3>2. CASE x # s
      BY <2>0, <1>3, <2>1, <3>2 DEF IInv, SolvedIsPolicy
    <3> QED BY <3>1, <3>2
  <2>2. ASSUME NEW S \in SUBSET DOMAIN g, S # {}
        PROVE  \E x \in S : \A j \in DOMAIN Actions(t, x)[g[x]] :
                 Actions(t, x)[g[x]][j] \notin S
    <3>1. CASE S \subseteq {s}
      <4>1. s \in S /\ S = {s}
        BY <2>2, <3>1
      <4>2. \A j \in DOMAIN Actions(t, s)[Top.action] : Actions(t, s)[Top.action][j] # s
        BY <1>2, <1>11
      <4> QED BY <2>0, <1>3, <4>1, <4>2
    <3>2. CASE ~(S \subseteq {s})
      <4>1. S \ {s} \in SUBSET DOMAIN solved /\ S \ {s} # {}
        BY <2>0, <1>3, <3>2
      <4>2. PICK x \in S \ {s} : \A j \in DOMAIN Actions(t, x)[solved[x]] :
               Actions(t, x)[solved[x]][j] \notin S \ {s}
        BY <4>1 DEF IInv, SolvedIsPolicy
      <4>3. \A j \in DOMAIN Actions(t, x)[solved[x]] : Usable(Actions(t, x)[solved[x]][j])
        BY <4>1, <4>2 DEF IInv, SolvedIsPolicy
      <4>4. x \in DOMAIN solved /\ g[x] = solved[x]
        BY <2>0, <1>3, <4>1, <4>2
      <4> QED BY <1>2, <4>2, <4>3, <4>4
    <3> QED BY <3>1, <3>2
  <2>3. \A x \in DOMAIN g :
           /\ g[x] \in DOMAIN Actions(t, x)
           /\ \A j \in DOMAIN Actions(t, x)[g[x]] : Usable(Actions(t, x)[g[x]][j])'
    BY <1>10, <2>1
  <2>4. \A S \in SUBSET DOMAIN g : S # {} =>
           \E x \in S : \A j \in DOMAIN Actions(t, x)[g[x]] : Actions(t, x)[g[x]][j] \notin S
    BY <2>2
  <2>5. outcome' # "solved"
    BY <1>1
  <2> QED BY <2>0, <2>3, <2>4, <2>5 DEF SolvedIsPolicy
<1>13. DeadIsDoomed'
  BY <1>1 DEF IInv, DeadIsDoomed
<1>14. OpenIsUnsettled'
  BY <1>1, <1>2, <1>10 DEF IInv, OpenIsUnsettled, WithoutTop
<1> QED BY <1>4, <1>7, <1>8, <1>9, <1>12, <1>13, <1>14 DEF IInv

LEMMA FailStateIInv ==
  ASSUME IInv, NEW tainted \in BOOLEAN, FailState(tainted),
         timed_out' \in BOOLEAN, timed_out => timed_out', timed_out' => late,
         ~tainted => Doomed(task, Top.state),
         timed_out' \/ Blocked(task, Top.state, WithoutTop)
  PROVE  IInv'
<1>1. stack # <<>> /\ pc = "search" /\ outcome = "running"
  BY DEF FailState, IInv, Phases
<1> PICK s \in State : s = Top.state
  BY <1>1, TopFits
<1>2. /\ UNCHANGED <<task, solved, banned, late, outcome>>
      /\ ancestors' = WithoutTop /\ stack' = Below
      /\ dead' = IF tainted THEN dead ELSE dead \cup {s}
      /\ pc' = "return" /\ arg' = [state |-> s, hint |-> <<>>]
      /\ ret' = [ok |-> FALSE, tainted |-> tainted]
      /\ nodes' = <<>> /\ open' = {} /\ hit_stack' = FALSE
  BY DEF FailState, Return, LeaveSearch
<1>3. s \in ancestors /\ ~Usable(s)
  BY <1>1, TopFits
<1>4. /\ Frames' /\ AncestorsAreThePath' /\ stack' \in Seq(Frame)
      /\ Callee' = s /\ ancestors' \subseteq State
  BY <1>1, <1>2, PoppedFits
<1>5. /\ arg'.state = s /\ arg'.hint = <<>> /\ ret'.ok = FALSE /\ ret'.tainted = tainted
      /\ arg' \in [state : State, hint : Seq(Step)] /\ ret' \in [ok : BOOLEAN, tainted : BOOLEAN]
  BY <1>2
<1>6. TypeOK'
  <2>1. nodes' \in [DOMAIN nodes' -> Seq(Step)] /\ DOMAIN nodes' = {}
    BY <1>2
  <2>2. dead' \subseteq State
    BY <1>2 DEF IInv, TypeOK
  <2> QED BY <1>2, <1>4, <1>5, <2>1, <2>2 DEF IInv, TypeOK
<1>7. Phases'
  BY <1>1, <1>2, <1>4, <1>5 DEF IInv, Phases
<1>8. Results' /\ PathSearch' /\ Verdict'
  BY <1>1, <1>2, <1>5 DEF Results, PathSearch, Verdict
<1>9. SolvedIsPolicy'
  BY <1>2 DEF IInv, SolvedIsPolicy, Usable
<1>10. DeadIsDoomed'
  BY <1>2 DEF IInv, DeadIsDoomed
<1>11. OpenIsUnsettled'
  BY <1>2, <1>3 DEF IInv, OpenIsUnsettled, Usable, WithoutTop
<1> QED BY <1>4, <1>6, <1>7, <1>8, <1>9, <1>10, <1>11 DEF IInv

-----------------------------------------------------------------------------
(* Steps of find_path. *)

LEMMA EdgeType ==
  ASSUME IInv, pc = "search", NEW n \in State, NEW e \in Edges(n)
  PROVE  /\ e[1] \in Allowed(n) /\ e[1] \in DOMAIN Actions(task, n) /\ e[1] \in Nat
         /\ e[2] \in DOMAIN Actions(task, n)[e[1]] /\ e[2] \in Nat
         /\ e = <<e[1], e[2]>>
         /\ Target(n, e) \in State /\ Target(n, e) = Actions(task, n)[e[1]][e[2]]
<1>0. PICK a \in Allowed(n) : e \in {a} \X DOMAIN Actions(task, n)[a]
  BY DEF Edges
<1>1. PICK j \in DOMAIN Actions(task, n)[a] : e = <<a, j>>
  BY <1>0
<1>2. e[1] = a /\ e[2] = j /\ task \in Tasks
  BY <1>1 DEF IInv, TypeOK
<1>3. a \in DOMAIN Actions(task, n)
  BY DEF Allowed
<1>4. a \in Nat /\ j \in Nat /\ Actions(task, n)[a][j] \in State
  BY <1>2, <1>3, OutcomeType
<1> QED BY <1>1, <1>2, <1>3, <1>4 DEF Target

(***************************************************************************)
(* The path to a node and one of its edges are a path to the target.       *)
(***************************************************************************)
LEMMA ExtendedPath ==
  ASSUME IInv, pc = "search", NEW n \in DOMAIN nodes, NEW e \in Edges(n)
  PROVE  /\ Extend(n, e) \in Seq(Step) /\ Extend(n, e) # <<>>
         /\ ReachedBy(Extend(n, e), Target(n, e))
<1> PICK m \in Nat : m = Len(nodes[n])
  <2>1. nodes[n] \in Seq(Step)
    BY DEF IInv, TypeOK
  <2> QED BY <2>1
<1> DEFINE p == nodes[n]
           s == [at |-> n, action |-> e[1]]
           q == Extend(n, e)
<1>1. n \in State /\ p \in Seq(Step) /\ ReachedBy(p, n)
  BY DEF IInv, TypeOK, PathSearch
<1>2. /\ e[1] \in DOMAIN Actions(task, n) /\ e[1] \in Nat
      /\ e[2] \in DOMAIN Actions(task, n)[e[1]]
      /\ Target(n, e) = Actions(task, n)[e[1]][e[2]]
  BY <1>1, EdgeType
<1>3. s \in Step /\ s.at = n /\ Leads(s, Target(n, e))
  BY <1>1, <1>2 DEF Step, Leads
<1>4. q = Append(p, s)
  BY DEF Extend
<1> HIDE DEF s, q
<1>5. /\ q \in Seq(Step) /\ Len(q) = m + 1 /\ q[m + 1] = s /\ \A k \in 1..m : q[k] = p[k]
  BY <1>1, <1>3, <1>4
<1>6. q # <<>>
  BY <1>5
<1>7. p = <<>> => m = 0
  OBVIOUS
<1>8. m = 0 => p = <<>>
  BY <1>1, EmptyIsEmpty
<1> HIDE DEF p
<1>9. q[1].at = Top.state
  <2>1. CASE m = 0
    BY <1>1, <1>3, <1>5, <1>8, <2>1 DEF ReachedBy
  <2>2. CASE m # 0
    BY <1>1, <1>5, <1>7, <2>2 DEF ReachedBy
  <2> QED BY <2>1, <2>2
<1>10. \A k \in 1..m : Leads(q[k], q[k + 1].at)
  <2> SUFFICES ASSUME NEW k \in 1..m PROVE Leads(q[k], q[k + 1].at)
    OBVIOUS
  <2>1. Len(p) = m
    BY DEF p
  <2>2. CASE k = m
    <3>1. p # <<>>
      BY <1>7, <2>2
    <3>2. Leads(p[m], n)
      BY <1>1, <2>1, <3>1 DEF ReachedBy
    <3> QED BY <1>3, <1>5, <2>2, <3>2
  <2>3. CASE k # m
    <3>1. k \in 1..(m - 1) /\ k + 1 \in 1..m
      BY <2>3
    <3>2. Leads(p[k], p[k + 1].at)
      BY <1>1, <2>1, <3>1 DEF ReachedBy
    <3> QED BY <1>5, <3>1, <3>2
  <2> QED BY <2>2, <2>3
<1>11. ReachedBy(q, Target(n, e))
  BY <1>3, <1>5, <1>6, <1>9, <1>10 DEF ReachedBy
<1> QED BY <1>5, <1>6, <1>11 DEF q

(***************************************************************************)
(* What h^Delta refutes may become dead.                                   *)
(***************************************************************************)
LEMMA RefutedFacts ==
  ASSUME IInv, pc = "search", NEW n \in DOMAIN nodes, NEW E \in SUBSET Edges(n),
         UNCHANGED <<task, solved, banned, ancestors, outcome>>,
         dead' = dead \cup Refuted(n, E)
  PROVE  dead' \subseteq State /\ SolvedIsPolicy' /\ DeadIsDoomed' /\ OpenIsUnsettled'
<1>1. n \in State /\ task \in Tasks /\ dead \subseteq State
  BY DEF IInv, TypeOK
<1>2. \A b \in Refuted(n, E) :
         b \in State /\ b \notin ancestors /\ ~Usable(b) /\ b \in Graph(task).dead
  BY <1>1, EdgeType DEF Refuted
<1>3. \A b \in Refuted(n, E) : Doomed(task, b)
  BY <1>1, <1>2, PruningAssumption
<1>4. SolvedIsPolicy'
  BY DEF IInv, SolvedIsPolicy, Usable
<1>5. DeadIsDoomed'
  BY <1>3 DEF IInv, DeadIsDoomed
<1>6. OpenIsUnsettled'
  BY <1>2 DEF IInv, OpenIsUnsettled, Usable
<1> QED BY <1>1, <1>2, <1>4, <1>5, <1>6

LEMMA FindPathIInv == IInv /\ (\E n \in open : FindPath(n)) => IInv'
<1> SUFFICES ASSUME IInv, NEW n \in open, FindPath(n) PROVE IInv'
  OBVIOUS
<1>1. /\ UNCHANGED <<task, ret, solved, banned, ancestors, timed_out, late, outcome>>
      /\ pc = "search" /\ nodes' = <<>> /\ open' = {} /\ hit_stack' = FALSE
      /\ n \in DOMAIN nodes /\ n \in State /\ stack # <<>> /\ outcome = "running"
  BY DEF FindPath, LeaveSearch, IInv, TypeOK, Phases
<1>2. PICK e \in Ends(n) :
        /\ dead' = dead \cup Refuted(n, {f \in NewEdges(n) : Before(f, e)})
        /\ Commit(Extend(n, e))
  BY DEF FindPath
<1>3. e \in Edges(n) /\ Usable(Target(n, e)) /\ {f \in NewEdges(n) : Before(f, e)} \in SUBSET Edges(n)
  BY <1>2 DEF Ends, NewEdges
<1>4. PICK p \in Seq(Step) : p = Extend(n, e)
  BY <1>1, <1>3, ExtendedPath
<1>5. p # <<>> /\ ReachedBy(p, Target(n, e)) /\ Target(n, e) \in State
  BY <1>1, <1>3, <1>4, ExtendedPath, EdgeType
<1>6. IsHint(p) /\ p[1].at = Top.state
  BY <1>3, <1>5 DEF IsHint, ReachedBy
<1>7. /\ Head(p) = p[1] /\ p[1] \in Step /\ Tail(p) \in Seq(Step)
      /\ p[1].action \in DOMAIN Actions(task, Top.state)
      /\ IsHint(Tail(p))
      /\ Tail(p) # <<>> => Leads(p[1], Tail(p)[1].at)
  BY <1>5, <1>6, HintFollowed
<1>8. Top \in Frame /\ Top.state \in State /\ task \in Tasks
  BY <1>1, TopFits
<1> DEFINE f == [Top EXCEPT !.action = Head(p).action, !.branch = 1, !.rest = Tail(p)]
<1>9. stack' = ReplaceTop(f) /\ SolveBranch(f)
  BY <1>2, <1>4 DEF Commit, Rest
<1>10. /\ f \in Frame /\ f.state = Top.state /\ f.local_ban = Top.local_ban
       /\ f.tainted = Top.tainted /\ f.branch = 1 /\ f.rest = Tail(p)
       /\ f.action = p[1].action
  BY <1>7, <1>8 DEF Frame, Step
<1> HIDE DEF f
<1>11. Committed(f)
  BY <1>7, <1>8, <1>10, OutcomeType DEF Committed, Branches
<1>12. RestFits(f)
  BY <1>6, <1>7, <1>10 DEF RestFits, Leads
<1>13. dead' \subseteq State /\ SolvedIsPolicy' /\ DeadIsDoomed' /\ OpenIsUnsettled'
  BY <1>1, <1>2, <1>3, RefutedFacts
<1>14. /\ TypeOK' /\ Phases' /\ Frames' /\ Results' /\ PathSearch' /\ Verdict'
       /\ AncestorsAreThePath'
  BY <1>1, <1>9, <1>10, <1>11, <1>12, <1>13, BranchEntered
<1> QED BY <1>13, <1>14 DEF IInv

LEMMA LeastNat ==
  ASSUME NEW S, S \subseteq Nat, S # {}
  PROVE  \E x \in S : \A y \in S : x <= y
<1>1. PICK x \in S : \A y \in S : ~(<<y, x>> \in OpToRel(<, Nat))
  BY NatLessThanWellFounded, WFMin
<1>2. OpToRel(<, Nat) = {p \in Nat \X Nat : p[1] < p[2]}
  BY Zenon DEF OpToRel
<1> HIDE DEF OpToRel
<1>3. ASSUME NEW y \in S, y < x PROVE FALSE
  <2>1. <<y, x>> \in {p \in Nat \X Nat : p[1] < p[2]}
    BY <1>3
  <2> QED BY <1>1, <1>2, <2>1, Zenon
<1>4. \A y \in S : x <= y
  BY <1>3
<1> QED BY <1>4

(***************************************************************************)
(* Of the edges to one state, one comes first.                             *)
(***************************************************************************)
LEMMA FirstEdge ==
  ASSUME IInv, pc = "search", NEW n \in State, NEW M \in SUBSET Edges(n), M # {}
  PROVE  \E e \in M : \A f \in M \ {e} : Before(e, f)
<1>1. \A e \in M : e[1] \in Nat /\ e[2] \in Nat /\ e = <<e[1], e[2]>>
  BY EdgeType
<1>2. PICK a \in {e[1] : e \in M} : \A e \in M : a <= e[1]
  <2> DEFINE A == {e[1] : e \in M}
  <2>1. A \subseteq Nat /\ A # {}
    BY <1>1
  <2>2. \E x \in A : \A y \in A : x <= y
    <3> HIDE DEF A
    <3> QED BY <2>1, LeastNat
  <2> QED BY <2>2
<1>3. PICK j \in {e[2] : e \in {f \in M : f[1] = a}} : \A e \in {f \in M : f[1] = a} : j <= e[2]
  <2> DEFINE J == {e[2] : e \in {f \in M : f[1] = a}}
  <2>1. J \subseteq Nat /\ J # {}
    BY <1>1, <1>2
  <2>2. \E x \in J : \A y \in J : x <= y
    BY <2>1, LeastNat
  <2> QED BY <2>2
<1>4. PICK e \in M : e[1] = a /\ e[2] = j
  BY <1>3
<1>5. \A f \in M \ {e} : Before(e, f)
  <2> SUFFICES ASSUME NEW f \in M \ {e} PROVE Before(e, f)
    OBVIOUS
  <2>1. a <= f[1] /\ (f[1] = a => j <= f[2]) /\ ~(f[1] = a /\ f[2] = j)
    BY <1>1, <1>2, <1>3, <1>4
  <2> QED BY <1>1, <1>4, <2>1 DEF Before
<1> QED BY <1>5

LEMMA ExpandNodeIInv == IInv /\ (\E n \in open : ExpandNode(n)) => IInv'
<1> SUFFICES ASSUME IInv, NEW n \in open, ExpandNode(n) PROVE IInv'
  OBVIOUS
<1> DEFINE reached == {Target(n, e) : e \in NewEdges(n)}
           added == reached \ (ancestors \cup Graph(task).dead)
           First(b) == CHOOSE e \in NewEdges(n) :
                         /\ Target(n, e) = b
                         /\ \A f \in NewEdges(n) \ {e} : Target(n, f) = b => Before(e, f)
<1>1. /\ UNCHANGED <<task, pc, arg, ret, stack, solved, banned, ancestors, timed_out, late, outcome>>
      /\ pc = "search" /\ Ends(n) = {}
      /\ dead' = dead \cup Refuted(n, NewEdges(n))
      /\ hit_stack' = (hit_stack \/ reached \cap ancestors # {})
      /\ open' = (open \ {n}) \cup added
      /\ nodes' = [b \in DOMAIN nodes \cup added |->
                     IF b \in added THEN Extend(n, First(b)) ELSE nodes[b]]
  BY DEF ExpandNode, calls
<1>2. n \in DOMAIN nodes /\ n \in State /\ stack # <<>> /\ outcome = "running" /\ task \in Tasks
  BY <1>1 DEF IInv, TypeOK, Phases
<1>3. NewEdges(n) \in SUBSET Edges(n)
  BY DEF NewEdges
<1>4. \A e \in NewEdges(n) : /\ Target(n, e) \in State /\ Target(n, e) \notin DOMAIN nodes
                             /\ Target(n, e) \in ancestors \/ ~Usable(Target(n, e))
  <2>1. \A e \in Edges(n) : Target(n, e) \in State
    BY <1>1, <1>2, EdgeType
  <2> QED BY <1>1, <1>3, <2>1 DEF NewEdges, Ends
<1>5. \A b \in added : b \in State /\ b \notin DOMAIN nodes /\ ~Usable(b)
  BY <1>4
<1>6. \A b \in added : First(b) \in NewEdges(n) /\ Target(n, First(b)) = b
  <2> SUFFICES ASSUME NEW b \in added
               PROVE  First(b) \in NewEdges(n) /\ Target(n, First(b)) = b
    OBVIOUS
  <2> DEFINE M == {e \in NewEdges(n) : Target(n, e) = b}
  <2>1. M \in SUBSET Edges(n) /\ M # {}
    BY <1>3
  <2>2. \E e \in M : \A f \in M \ {e} : Before(e, f)
    <3> HIDE DEF M
    <3>1. pc = "search" /\ n \in State
      BY <1>1, <1>2
    <3> QED BY <2>1, <3>1, FirstEdge
  <2>3. \E e \in NewEdges(n) :
           /\ Target(n, e) = b
           /\ \A f \in NewEdges(n) \ {e} : Target(n, f) = b => Before(e, f)
    BY <2>2
  <2> QED BY <2>3
<1> HIDE DEF First
<1>7. \A b \in added : /\ Extend(n, First(b)) \in Seq(Step) /\ ReachedBy(Extend(n, First(b)), b)
  BY <1>1, <1>2, <1>3, <1>6, ExtendedPath
<1> HIDE DEF added
<1>8. /\ DOMAIN nodes' = DOMAIN nodes \cup added
      /\ \A b \in added : nodes'[b] = Extend(n, First(b))
      /\ \A b \in DOMAIN nodes : nodes'[b] = nodes[b]
  BY <1>1, <1>5
<1>9. dead' \subseteq State /\ SolvedIsPolicy' /\ DeadIsDoomed' /\ OpenIsUnsettled'
  BY <1>1, <1>2, <1>3, RefutedFacts
<1>10. TypeOK'
  <2>1. nodes \in [DOMAIN nodes -> Seq(Step)] /\ DOMAIN nodes \subseteq State
        /\ open \subseteq DOMAIN nodes /\ hit_stack \in BOOLEAN
    BY DEF IInv, TypeOK
  <2>2. nodes' \in [DOMAIN nodes' -> Seq(Step)] /\ DOMAIN nodes' \subseteq State
    <3>1. \A b \in DOMAIN nodes' : nodes'[b] \in Seq(Step)
      BY <1>7, <1>8, <2>1
    <3>2. nodes' = [b \in DOMAIN nodes' |-> nodes'[b]]
      BY <1>1, <1>8
    <3> QED BY <1>5, <1>8, <2>1, <3>1, <3>2
  <2>3. open' \subseteq DOMAIN nodes' /\ hit_stack' \in BOOLEAN
    BY <1>1, <1>8, <2>1
  <2> QED BY <1>1, <1>9, <2>2, <2>3 DEF IInv, TypeOK
<1>11. Phases' /\ Results' /\ Verdict'
  BY <1>1, <1>2 DEF IInv, Phases, Results, Verdict
<1>12. Frames'
  <2>1. Len(stack) \in Nat
    BY DEF IInv, TypeOK
  <2>2. \A i \in 1..Len(stack) : FrameFits(i)'
    BY <1>1, <2>1, FrameStays
  <2> QED BY <1>1, <2>2 DEF Frames
<1>13. PathSearch'
  <2>1. Top' = Top
    BY <1>1 DEF Top
  <2>2. \A p, b : ReachedBy(p, b)' <=> ReachedBy(p, b)
    BY <1>1, <2>1 DEF ReachedBy, Leads
  <2>3. \A m : Allowed(m)' = Allowed(m)
    BY <1>1, <2>1 DEF Allowed
  <2>4. \A m : Edges(m)' = Edges(m)
    BY <1>1, <2>3 DEF Edges
  <2>5. \A b : Usable(b)' <=> Usable(b)
    BY <1>1 DEF Usable
  <2>6. \A b : Seen(b) => Seen(b)'
    BY <1>1, <1>8 DEF Seen
  <2>7. \A m, e : Target(m, e)' = Target(m, e)
    BY <1>1 DEF Target
  <2>8. \A b \in DOMAIN nodes' : ~Usable(b) /\ ReachedBy(nodes'[b], b)
    BY <1>1, <1>5, <1>7, <1>8 DEF IInv, PathSearch
  <2>9. \A e \in Edges(n) : Seen(Target(n, e))'
    <3> SUFFICES ASSUME NEW e \in Edges(n) PROVE Seen(Target(n, e))'
      OBVIOUS
    <3> PICK b : b = Target(n, e)
      OBVIOUS
    <3>1. CASE e \notin NewEdges(n)
      BY <2>6, <2>7, <3>1 DEF NewEdges, Seen
    <3>2. CASE e \in NewEdges(n)
      <4>1. b \in reached
        BY <3>2
      <4>2. b \in ancestors => hit_stack' /\ b \in ancestors'
        BY <1>1, <4>1
      <4>3. b \in added => b \in DOMAIN nodes'
        BY <1>8
      <4>4. b \notin ancestors /\ b \notin added => b \in dead'
        BY <1>1, <1>4, <3>2, <4>1 DEF added, Refuted
      <4>5. Seen(b)'
        BY <4>2, <4>3, <4>4 DEF Seen
      <4> QED BY <2>7, <4>5
    <3> QED BY <3>1, <3>2
  <2>10. \A m \in DOMAIN nodes' \ open' : \A e \in Edges(m) : Seen(Target(m, e))'
    <3>1. \A m \in DOMAIN nodes' \ open' : m = n \/ m \in DOMAIN nodes \ open
      BY <1>1, <1>8
    <3>2. \A m \in DOMAIN nodes \ open : \A e \in Edges(m) : Seen(Target(m, e))'
      <4> SUFFICES ASSUME NEW m \in DOMAIN nodes \ open, NEW e \in Edges(m)
                   PROVE  Seen(Target(m, e))'
        OBVIOUS
      <4> PICK b : b = Target(m, e)
        OBVIOUS
      <4>1. Seen(b)'
        BY <1>1, <2>6 DEF IInv, PathSearch
      <4> QED BY <2>7, <4>1
    <3> QED BY <2>9, <3>1, <3>2
  <2> QED BY <1>1, <1>8, <2>1, <2>2, <2>4, <2>5, <2>8, <2>10 DEF IInv, PathSearch
<1>14. AncestorsAreThePath'
  BY <1>1 DEF IInv, AncestorsAreThePath
<1> QED BY <1>9, <1>10, <1>11, <1>12, <1>13, <1>14 DEF IInv

(***************************************************************************)
(* When nothing is left to expand, every action of a node that was reached *)
(* has an outcome that was reached or is blocked: by the task alone unless *)
(* the search met the recursion stack or a ban of this call.               *)
(***************************************************************************)
LEMMA ExhaustedFacts ==
  ASSUME IInv, pc = "search", open = {}, ~timed_out,
         NEW S, S = ancestors \/ (S = {} /\ ~hit_stack /\ ~Top.tainted)
  PROVE  \A n \in DOMAIN nodes : \A a \in DOMAIN Actions(task, n) :
           \E j \in DOMAIN Actions(task, n)[a] :
             Actions(task, n)[a][j] \in DOMAIN nodes \/ Blocked(task, Actions(task, n)[a][j], S)
<1> SUFFICES ASSUME NEW n \in DOMAIN nodes, NEW a \in DOMAIN Actions(task, n)
             PROVE  \E j \in DOMAIN Actions(task, n)[a] :
                      \/ Actions(task, n)[a][j] \in DOMAIN nodes
                      \/ Blocked(task, Actions(task, n)[a][j], S)
  OBVIOUS
<1>1. stack # <<>> /\ n \in State /\ task \in Tasks
  BY DEF IInv, TypeOK, Phases
<1>2. CASE a \in Allowed(n)
  <2> DEFINE e == <<a, 1>>
             b == Actions(task, n)[a][1]
  <2>1. 1 \in DOMAIN Actions(task, n)[a]
    BY <1>1, OutcomeType
  <2>2. e \in Edges(n) /\ Target(n, e) = b
    BY <1>2, <2>1 DEF Edges, Target
  <2> HIDE DEF b, e
  <2>3. Seen(b)
    BY <2>2 DEF IInv, PathSearch
  <2>4. b \in dead => Blocked(task, b, S)
    BY BlockedAnyway DEF IInv, DeadIsDoomed
  <2>5. hit_stack /\ b \in ancestors => Blocked(task, b, S)
    BY BlockedAnyway
  <2>6. b \in DOMAIN nodes \/ Blocked(task, b, S)
    BY <2>3, <2>4, <2>5 DEF Seen
  <2> QED BY <2>1, <2>6 DEF b
<1>3. CASE <<n, a>> \in banned
  <2>1. PICK j \in DOMAIN Actions(task, n)[a] : Doomed(task, Actions(task, n)[a][j])
    BY <1>3 DEF IInv, DeadIsDoomed
  <2>2. Blocked(task, Actions(task, n)[a][j], S)
    BY <2>1, BlockedAnyway
  <2> QED BY <2>2
<1>4. CASE n = Top.state /\ a \in Top.local_ban
  <2>1. S = ancestors
    BY <1>1, <1>4, TopFits
  <2> QED BY <1>1, <1>4, <2>1, TopFits
<1> QED BY <1>2, <1>3, <1>4 DEF Allowed

LEMMA SearchEndIInv == IInv /\ (SearchLate \/ SearchExhausted) => IInv'
<1> SUFFICES ASSUME IInv, SearchLate \/ SearchExhausted PROVE IInv'
  OBVIOUS
<1>1. pc = "search" /\ stack # <<>> /\ timed_out \in BOOLEAN /\ hit_stack \in BOOLEAN
      /\ (timed_out => late)
  BY DEF SearchLate, SearchExhausted, FailState, IInv, Phases, TypeOK
<1>2. CASE SearchLate
  BY <1>2, FailStateIInv DEF SearchLate
<1>3. CASE SearchExhausted
  <2>1. FailState(Tainted) /\ open = {} /\ timed_out' = timed_out
    BY <1>3 DEF SearchExhausted
  <2>2. Top \in Frame /\ Top.tainted \in BOOLEAN /\ task \in Tasks
    BY <1>1, TopFits DEF Frame
  <2>3. Top.state \in DOMAIN nodes /\ DOMAIN nodes \in SUBSET State /\ ancestors \in SUBSET State
    BY <1>1 DEF IInv, PathSearch, TypeOK
  <2>4. DOMAIN nodes \cap Goal(task) = {}
    BY <1>1 DEF IInv, PathSearch, Usable
  <2>5. ASSUME ~Tainted PROVE Doomed(task, Top.state)
    <3>1. ~timed_out /\ ~hit_stack /\ ~Top.tainted
      BY <2>5 DEF Tainted
    <3>2. \A n \in DOMAIN nodes : \A a \in DOMAIN Actions(task, n) :
             \E j \in DOMAIN Actions(task, n)[a] :
               Actions(task, n)[a][j] \in DOMAIN nodes \/ Blocked(task, Actions(task, n)[a][j], {})
      BY <1>1, <2>1, <3>1, ExhaustedFacts
    <3>3. Blocked(task, Top.state, {} \ {Top.state})
      BY <2>2, <2>3, <2>4, <3>2, ExhaustionBlocks
    <3>4. {} \ {Top.state} = {}
      OBVIOUS
    <3> QED BY <3>3, <3>4 DEF Doomed
  <2>6. ASSUME ~timed_out PROVE Blocked(task, Top.state, WithoutTop)
    <3>1. \A n \in DOMAIN nodes : \A a \in DOMAIN Actions(task, n) :
             \E j \in DOMAIN Actions(task, n)[a] :
               \/ Actions(task, n)[a][j] \in DOMAIN nodes
               \/ Blocked(task, Actions(task, n)[a][j], ancestors)
      BY <1>1, <2>1, <2>6, ExhaustedFacts
    <3>2. Blocked(task, Top.state, ancestors \ {Top.state})
      BY <2>2, <2>3, <2>4, <3>1, ExhaustionBlocks
    <3> QED BY <3>2 DEF WithoutTop
  <2>7. Tainted \in BOOLEAN
    BY <1>1, <2>2 DEF Tainted
  <2> QED BY <1>1, <2>1, <2>5, <2>6, <2>7, FailStateIInv
<1> QED BY <1>2, <1>3

-----------------------------------------------------------------------------
LEMMA NextIInv == IInv /\ [Next]_vars => IInv'
<1> SUFFICES ASSUME IInv, [Next]_vars PROVE IInv'
  OBVIOUS
<1>1. CASE Entering
  BY <1>1, ReturningIInv, FollowHintIInv, OpenStateIInv DEF Entering
<1>2. CASE Searching
  <2>1. CASE SearchLate \/ SearchExhausted
    BY <2>1, SearchEndIInv
  <2>2. CASE \E n \in open : FindPath(n)
    BY <2>2, FindPathIInv
  <2>3. CASE \E n \in open : ExpandNode(n)
    BY <2>3, ExpandNodeIInv
  <2> QED BY <1>2, <2>1, <2>2, <2>3 DEF Searching
<1>3. CASE Branching
  BY <1>3, NextBranchIInv, SolveStateIInv, DropActionIInv DEF Branching
<1>4. CASE FinishSolved \/ FinishFailed
  BY <1>4, StopIInv
<1>5. CASE Expire \/ UNCHANGED vars
  BY <1>5, ExpireIInv
<1> QED BY <1>1, <1>2, <1>3, <1>4, <1>5 DEF Next, Search, Finished

LEMMA Invariance == Spec => []IInv
BY InitIInv, NextIInv, PTL DEF Spec

-----------------------------------------------------------------------------
(* Theorems. *)

(***************************************************************************)
(* Every variable keeps its type, along every run of replan::search.       *)
(***************************************************************************)
THEOREM TypeCorrect == Spec => []TypeOK
<1>1. IInv => TypeOK
  BY DEF IInv
<1> QED BY <1>1, Invariance, PTL

(***************************************************************************)
(* At every moment the solved states form a policy without cycles, and a   *)
(* search that reports a solution has one for the initial state: solve may *)
(* reuse what other calls have solved, and follow old hints, all the same. *)
(***************************************************************************)
THEOREM PoliciesAreSound == Spec => []SolvedIsPolicy
<1>1. IInv => SolvedIsPolicy
  BY DEF IInv
<1> QED BY <1>1, Invariance, PTL

(***************************************************************************)
(* A state recorded as dead has no policy at all, and an action banned for *)
(* good leads to such a state, though both are learnt while other calls    *)
(* are open: this is what the taint of a failure is for.                   *)
(***************************************************************************)
THEOREM DeadStatesAreDoomed == Spec => []DeadIsDoomed
<1>1. IInv => DeadIsDoomed
  BY DEF IInv
<1> QED BY <1>1, Invariance, PTL

(***************************************************************************)
(* A call of solve that fails in time proves that no policy for its state  *)
(* avoids the states on the recursion stack, and the search that reports   *)
(* no solution proves that there is none.                                  *)
(***************************************************************************)
THEOREM FailuresAreProofs == Spec => []FailureIsProof
BY Invariance, ResultsAreProofs, PTL

(***************************************************************************)
(* A hint that solve follows is what is left of a path of the graph to a   *)
(* goal or a solved state, however long ago the path was found.            *)
(***************************************************************************)
THEOREM HintsStayPaths == Spec => []HintsArePaths
BY Invariance, RestsArePaths, PTL

(***************************************************************************)
(* No state is settled twice: what is solved or dead is not on the         *)
(* recursion stack, and nothing is both.                                   *)
(***************************************************************************)
THEOREM NothingSettledTwice == Spec => []OpenIsUnsettled
<1>1. IInv => OpenIsUnsettled
  BY DEF IInv
<1> QED BY <1>1, Invariance, PTL
=============================================================================
