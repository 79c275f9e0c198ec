------------------------------ MODULE AOStar -------------------------------
(***************************************************************************)
(* aostar::search and its dfs (search.cpp): depth-first AND-OR search with *)
(* iterative deepening, a memo of solved states and a memo of refuted      *)
(* states that both persist across the deepening iterations, a cut on the  *)
(* ancestors of the current path, and a deadline that can pass at any      *)
(* moment.  The recursion of dfs is an explicit stack: arg is the call     *)
(* being entered or returned from, ret the DfsResult it returned.          *)
(***************************************************************************)
EXTENDS Policies

CONSTANT MaxDepth(_)  \* the max_depth argument of the search for a task; 0 = unlimited

ASSUME MaxDepthAssumption == \A t \in Tasks : MaxDepth(t) \in Nat

VARIABLES
  task,         \* the planning task; never changes
  pc,           \* what the search thread does next
  depth,        \* the bound of the current iteration
  arg,          \* [state, depth]: the arguments of the current dfs call
  ret,          \* [solved, height, tainted]: the DfsResult of the last call
  stack,        \* one frame per dfs call that is past its early returns
  solved,       \* Context::solved, fingerprint -> [action, height]
  failed_upto,  \* Context::failed_upto, fingerprint -> [depth, truncated]
  ancestors,    \* Context::ancestors
  truncated,    \* Context::truncated
  late,         \* expired(deadline): the deadline has passed or the run is cancelled
  outcome       \* what search returned

control == <<pc, depth, arg, ret>>
context == <<solved, failed_upto, ancestors, truncated>>
vars == <<task, control, stack, context, late, outcome>>

Outcomes == {"running", "goal_at_init", "solved", "exhausted", "timeout", "depth_limit"}

Frame == [state : State, depth : Nat, todo : SUBSET Nat, action : Nat,
          branch : Nat, height : Nat, tainted : BOOLEAN, truncated_before : BOOLEAN]

-----------------------------------------------------------------------------
(***************************************************************************)
(* The candidates that survive the loop of expand: an action with a branch *)
(* that is a dead end and not a goal is useless for any policy.            *)
(***************************************************************************)
Useful(t, outcomes) ==
  \A j \in DOMAIN outcomes :
    outcomes[j] \in Goal(t) \/ outcomes[j] \notin Graph(t).dead

Candidates(t, s) ==
  {a \in DOMAIN Actions(t, s) : Useful(t, Actions(t, s)[a])}

Put(f, x, v) == [y \in DOMAIN f \cup {x} |-> IF y = x THEN v ELSE f[y]]

\* Fault: the height of the last branch instead of the greatest.
MaximumLast(a, b) == b

Maximum(a, b) == IF a >= b THEN a ELSE b

Top == stack[Len(stack)]
Below == SubSeq(stack, 1, Len(stack) - 1)
ReplaceTop(frame) == [stack EXCEPT ![Len(stack)] = frame]

\* The outcomes of the action the frame is trying, and the one it is at.
Branches(frame) == Actions(task, frame.state)[frame.action]
Branch(frame) == Branches(frame)[frame.branch]

Call(s, d) == pc' = "enter" /\ arg' = [state |-> s, depth |-> d]

Return(s, d, result) ==
  /\ pc' = "return"
  /\ arg' = [state |-> s, depth |-> d]
  /\ ret' = result

Success(h) == [solved |-> TRUE, height |-> h, tainted |-> FALSE]
Failure(tainted) == [solved |-> FALSE, height |-> 0, tainted |-> tainted]

Stop(how) ==
  /\ pc' = "done"
  /\ outcome' = how
  /\ UNCHANGED <<task, depth, arg, ret, stack, context, late>>

-----------------------------------------------------------------------------
(* search: the deepening loop. *)

AlreadyAtGoal == pc = "start" /\ Initial(task) \in Goal(task) /\ Stop("goal_at_init")

Start ==
  /\ pc = "start"
  /\ Initial(task) \notin Goal(task)
  /\ pc' = "deepen"
  /\ UNCHANGED <<task, depth, arg, ret, stack, context, late, outcome>>

WithinLimit == MaxDepth(task) = 0 \/ depth <= MaxDepth(task)

GiveUpLate == pc = "deepen" /\ WithinLimit /\ late /\ Stop("timeout")

GiveUpDeep == pc = "deepen" /\ ~WithinLimit /\ Stop("depth_limit")

\* Fault: the memos are rebuilt at every depth.
DeepenAfresh ==
  /\ pc = "deepen"
  /\ WithinLimit
  /\ ~late
  /\ ancestors' = {}
  /\ solved' = <<>>
  /\ failed_upto' = <<>>
  /\ truncated' = FALSE
  /\ Call(Initial(task), depth)
  /\ UNCHANGED <<task, depth, ret, stack, late, outcome>>

Deepen ==
  /\ pc = "deepen"
  /\ WithinLimit
  /\ ~late
  /\ ancestors' = {}
  /\ truncated' = FALSE
  /\ Call(Initial(task), depth)
  /\ UNCHANGED <<task, depth, ret, stack, solved, failed_upto, late, outcome>>

\* The root call has returned.
FinishSolved == pc = "return" /\ stack = <<>> /\ ret.solved /\ Stop("solved")

FinishExhausted ==
  /\ pc = "return"
  /\ stack = <<>>
  /\ ~ret.solved
  /\ ~truncated
  /\ Stop("exhausted")

\* Fault: the next iteration repeats the same depth.
NextDepthSame ==
  /\ pc = "return"
  /\ stack = <<>>
  /\ ~ret.solved
  /\ truncated
  /\ pc' = "deepen"
  /\ UNCHANGED <<task, depth, arg, ret, stack, context, late, outcome>>

NextDepth ==
  /\ pc = "return"
  /\ stack = <<>>
  /\ ~ret.solved
  /\ truncated
  /\ pc' = "deepen"
  /\ depth' = depth + 1
  /\ UNCHANGED <<task, arg, ret, stack, context, late, outcome>>

-----------------------------------------------------------------------------
(* dfs: the early returns, in the order of the code. *)

OnPath == arg.state \in ancestors
AtGoal == arg.state \in Goal(task)

KnownSolved == arg.state \in DOMAIN solved /\ solved[arg.state].height <= arg.depth

\* Fault: the budget is never looked at.
AtBoundNever == FALSE

AtBound == arg.depth = 0

\* Fault: a refutation is replayed whatever the depth it was found at.
KnownRefutedAnyDepth == arg.state \in DOMAIN failed_upto

KnownRefuted == arg.state \in DOMAIN failed_upto /\ arg.depth <= failed_upto[arg.state].depth

EarlyReturn(result) ==
  /\ Return(arg.state, arg.depth, result)
  /\ UNCHANGED <<task, depth, stack, solved, failed_upto, ancestors, late, outcome>>

\* Fault: the iteration that ran out of time counts as complete.
AbandonLateSilently ==
  /\ pc = "enter"
  /\ late
  /\ EarlyReturn(Failure(TRUE))
  /\ UNCHANGED truncated

AbandonLate ==
  /\ pc = "enter"
  /\ late
  /\ truncated' = TRUE
  /\ EarlyReturn(Failure(TRUE))

CutCycle ==
  /\ pc = "enter"
  /\ ~late
  /\ OnPath
  /\ EarlyReturn(Failure(TRUE))
  /\ UNCHANGED truncated

ReachGoal ==
  /\ pc = "enter"
  /\ ~late /\ ~OnPath
  /\ AtGoal
  /\ EarlyReturn(Success(0))
  /\ UNCHANGED truncated

ReuseSolved ==
  /\ pc = "enter"
  /\ ~late /\ ~OnPath /\ ~AtGoal
  /\ KnownSolved
  /\ EarlyReturn(Success(solved[arg.state].height))
  /\ UNCHANGED truncated

HitBound ==
  /\ pc = "enter"
  /\ ~late /\ ~OnPath /\ ~AtGoal /\ ~KnownSolved
  /\ AtBound
  /\ truncated' = TRUE
  /\ EarlyReturn(Failure(FALSE))

ReuseRefuted ==
  /\ pc = "enter"
  /\ ~late /\ ~OnPath /\ ~AtGoal /\ ~KnownSolved /\ ~AtBound
  /\ KnownRefuted
  /\ truncated' = (truncated \/ failed_upto[arg.state].truncated)
  /\ EarlyReturn(Failure(FALSE))

Expand ==
  /\ pc = "enter"
  /\ ~late /\ ~OnPath /\ ~AtGoal /\ ~KnownSolved /\ ~AtBound
  /\ ~KnownRefuted
  /\ ancestors' = ancestors \cup {arg.state}
  /\ stack' = Append(stack,
       [state |-> arg.state, depth |-> arg.depth,
        todo |-> Candidates(task, arg.state), action |-> 0,
        branch |-> 0, height |-> 0, tainted |-> FALSE,
        truncated_before |-> truncated])
  /\ pc' = "choose"
  /\ UNCHANGED <<task, depth, arg, ret, solved, failed_upto, truncated, late, outcome>>

-----------------------------------------------------------------------------
(* dfs: the loop over the candidates and their branches. *)

\* The next candidate in sorted order, from its first branch.
TryAction ==
  /\ pc = "choose"
  /\ \E a \in Top.todo :
       /\ \A other \in Top.todo : a <= other
       /\ LET frame == [Top EXCEPT !.todo = @ \ {a}, !.action = a,
                                   !.branch = 1, !.height = 0]
          IN  /\ stack' = ReplaceTop(frame)
              /\ Call(Branch(frame), Top.depth - 1)
  /\ UNCHANGED <<task, depth, ret, context, late, outcome>>

\* A branch was solved: on to the next one.
NextBranch ==
  /\ pc = "return" /\ stack # <<>>
  /\ ret.solved
  /\ Top.branch < Len(Branches(Top))
  /\ LET frame == [Top EXCEPT !.branch = @ + 1,
                              !.height = Maximum(@, ret.height),
                              !.tainted = @ \/ ret.tainted]
     IN  /\ stack' = ReplaceTop(frame)
         /\ Call(Branch(frame), Top.depth - 1)
  /\ UNCHANGED <<task, depth, ret, context, late, outcome>>

\* A branch failed: the action is abandoned at its first failed branch.
DropAction ==
  /\ pc = "return" /\ stack # <<>>
  /\ ~ret.solved
  /\ stack' = ReplaceTop([Top EXCEPT !.tainted = @ \/ ret.tainted])
  /\ pc' = "choose"
  /\ UNCHANGED <<task, depth, arg, ret, context, late, outcome>>

\* The last branch was solved: memoise and return the node.
SolveState ==
  /\ pc = "return" /\ stack # <<>>
  /\ ret.solved
  /\ Top.branch = Len(Branches(Top))
  /\ LET h == Maximum(Top.height, ret.height) + 1
     IN  /\ solved' = Put(solved, Top.state, [action |-> Top.action, height |-> h])
         /\ Return(Top.state, Top.depth, Success(h))
  /\ ancestors' = ancestors \ {Top.state}
  /\ stack' = Below
  /\ UNCHANGED <<task, depth, failed_upto, truncated, late, outcome>>

\* The memo entry for a failure at depth d that did not depend on the path.
Refute(s, d, before) ==
  IF s \in DOMAIN failed_upto /\ d < failed_upto[s].depth
  THEN failed_upto
  ELSE Put(failed_upto, s, [depth |-> d, truncated |-> truncated /\ ~before])

\* Fault: a failure that depended on the path or the clock is memoised too.
FailStateAlways ==
  /\ pc = "choose"
  /\ Top.todo = {}
  /\ failed_upto' = Refute(Top.state, Top.depth, Top.truncated_before)
  /\ ancestors' = ancestors \ {Top.state}
  /\ stack' = Below
  /\ Return(Top.state, Top.depth, Failure(Top.tainted))
  /\ UNCHANGED <<task, depth, solved, truncated, late, outcome>>

FailState ==
  /\ pc = "choose"
  /\ Top.todo = {}
  /\ failed_upto' = IF Top.tainted THEN failed_upto
                    ELSE Refute(Top.state, Top.depth, Top.truncated_before)
  /\ ancestors' = ancestors \ {Top.state}
  /\ stack' = Below
  /\ Return(Top.state, Top.depth, Failure(Top.tainted))
  /\ UNCHANGED <<task, depth, solved, truncated, late, outcome>>

-----------------------------------------------------------------------------
(* The clock, or the flag of the portfolio that runs the search. *)

Expire ==
  /\ pc # "done"
  /\ ~late
  /\ late' = TRUE
  /\ UNCHANGED <<task, control, stack, context, outcome>>

Finished == pc = "done" /\ UNCHANGED vars

Init ==
  /\ task \in Tasks
  /\ pc = "start"
  /\ depth = 0
  /\ arg = [state |-> Initial(task), depth |-> 0]
  /\ ret = Failure(FALSE)
  /\ stack = <<>>
  /\ solved = <<>>
  /\ failed_upto = <<>>
  /\ ancestors = {}
  /\ truncated = FALSE
  /\ late = FALSE
  /\ outcome = "running"

Deepening == AlreadyAtGoal \/ Start \/ GiveUpLate \/ GiveUpDeep \/ Deepen
             \/ FinishSolved \/ FinishExhausted \/ NextDepth

Entering == AbandonLate \/ CutCycle \/ ReachGoal \/ ReuseSolved
            \/ HitBound \/ ReuseRefuted \/ Expand

Looping == TryAction \/ NextBranch \/ DropAction \/ SolveState \/ FailState

Search == Deepening \/ Entering \/ Looping

Next == Search \/ Expire \/ Finished

Spec == Init /\ [][Next]_vars

\* The thread that runs the search is scheduled; nothing forces the deadline.
FairSpec == Spec /\ WF_vars(Search)

-----------------------------------------------------------------------------
(* Properties. *)

TypeOK ==
  /\ task \in Tasks
  /\ pc \in {"start", "deepen", "enter", "choose", "return", "done"}
  /\ depth \in Nat
  /\ arg \in [state : State, depth : Nat]
  /\ ret \in [solved : BOOLEAN, height : Nat, tainted : BOOLEAN]
  /\ stack \in Seq(Frame)
  /\ DOMAIN solved \subseteq State
  /\ solved \in [DOMAIN solved -> [action : Nat, height : Nat]]
  /\ DOMAIN failed_upto \subseteq State
  /\ failed_upto \in [DOMAIN failed_upto -> [depth : Nat, truncated : BOOLEAN]]
  /\ ancestors \subseteq State
  /\ truncated \in BOOLEAN
  /\ late \in BOOLEAN
  /\ outcome \in Outcomes

(***************************************************************************)
(* The solved memo is itself a policy: the action recorded for a state     *)
(* leads, whatever the outcome, to a goal or to a state recorded with a    *)
(* smaller height.  Entries are overwritten by shallower solutions in      *)
(* later iterations while deeper entries still point at them, and dfs      *)
(* hands an entry's tree to callers without looking at it again.           *)
(***************************************************************************)
SolvedIsPolicy ==
  \A s \in DOMAIN solved :
    /\ solved[s].action \in DOMAIN Actions(task, s)
    /\ LET outcomes == Actions(task, s)[solved[s].action] IN
         \A j \in DOMAIN outcomes :
           \/ outcomes[j] \in Goal(task)
           \/ /\ outcomes[j] \in DOMAIN solved
              /\ solved[outcomes[j]].height < solved[s].height

(***************************************************************************)
(* The refuted memo is right: a state recorded as failed up to depth d has *)
(* no policy of height d or less.  This is what the tainted flag protects: *)
(* a failure that came from the ancestor cut or from the deadline says     *)
(* nothing of the state.                                                   *)
(***************************************************************************)
RefutedIsUnsolvable ==
  \A s \in DOMAIN failed_upto : ~SolvableWithin(task, s, failed_upto[s].depth)

(***************************************************************************)
(* Iterative deepening is exact: no iteration that gives up in time has    *)
(* missed a policy within its bound, so the search tries depth d only if   *)
(* there is no policy of height less than d, the plan it returns has the   *)
(* least height of all, and giving up at max_depth means there was none.   *)
(***************************************************************************)
DeepeningIsExact ==
  /\ pc = "deepen" /\ depth > 0 /\ ~late => ~SolvableWithin(task, Initial(task), depth - 1)
  /\ outcome = "solved" =>
       /\ ret.height = depth
       /\ SolvableWithin(task, Initial(task), depth)

(***************************************************************************)
(* The ancestor set is the current path: exactly the states of the frames  *)
(* on the recursion stack, each once.  It is kept by hand (insert, two     *)
(* erases, a clear), and a state left behind would be cut off for good.    *)
(***************************************************************************)
AncestorsAreThePath ==
  /\ ancestors = {stack[i].state : i \in DOMAIN stack}
  /\ \A i, j \in DOMAIN stack : stack[i].state = stack[j].state => i = j

(***************************************************************************)
(* The memos only improve: a solved state stays solved, with a height that *)
(* never grows, and the depth up to which a state is refuted never         *)
(* shrinks ("greatest depth at which failure was proven").                 *)
(***************************************************************************)
MemosOnlyImprove ==
  [][/\ \A s \in DOMAIN solved :
          s \in DOMAIN solved' /\ solved'[s].height <= solved[s].height
     /\ \A s \in DOMAIN failed_upto :
          s \in DOMAIN failed_upto' /\ failed_upto'[s].depth >= failed_upto[s].depth
    ]_vars

(***************************************************************************)
(* "Search space exhausted: no solution exists": when an iteration ends    *)
(* without having been truncated, the task has no policy at all.           *)
(***************************************************************************)
ExhaustedIsProof == outcome = "exhausted" => ~Solvable(task, Initial(task))

(***************************************************************************)
(* The same for the tasks without sensing, where every action has a single *)
(* outcome.                                                                *)
(***************************************************************************)
IsLinear(t) == \A s \in State : \A a \in DOMAIN Actions(t, s) : Len(Actions(t, s)[a]) = 1

LinearExhaustionIsProof == IsLinear(task) => ExhaustedIsProof

(***************************************************************************)
(* The search ends, on solvable and on unsolvable tasks, even without a    *)
(* deadline ("without it the planner spins forever on unsolvable tasks").  *)
(***************************************************************************)
Termination == <>(pc = "done")
=============================================================================
