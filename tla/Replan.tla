------------------------------- MODULE Replan -------------------------------
(***************************************************************************)
(* replan::search, its solve and its find_path (replan.cpp): a policy is   *)
(* put together from the paths of a best-first search in which every       *)
(* outcome of an action is an edge of its own.  solve commits to the first *)
(* action of such a path, solves its outcomes recursively and repairs a    *)
(* branch that fails by banning the action, for this call or for good.     *)
(* The recursion of solve is an explicit stack: arg is the call being      *)
(* entered, ret the Result it returned.  Any open node may be the next one *)
(* that find_path pops, so the model covers every heuristic.               *)
(***************************************************************************)
EXTENDS AndOr

VARIABLES
  task,       \* the planning task; never changes
  pc,         \* what the search thread does next
  arg,        \* [state, hint]: the arguments of the current solve call
  ret,        \* [ok, tainted]: the Result of the last call
  stack,      \* one frame per solve call that is past its early returns
  nodes,      \* find_path: the states reached, each with the path to it
  open,       \* find_path: the states not yet expanded
  hit_stack,  \* find_path: a state on the recursion stack was skipped
  solved,     \* Context::solved, fingerprint -> action of its PlanNode
  dead,       \* Context::dead
  banned,     \* Context::banned
  ancestors,  \* Context::stack
  timed_out,  \* Context::timed_out
  late,       \* expired(deadline)
  outcome     \* what search returned

calls == <<pc, arg, ret, stack>>
path_search == <<nodes, open, hit_stack>>
memos == <<solved, dead, banned>>
vars == <<task, calls, path_search, memos, ancestors, timed_out, late, outcome>>

Step == [at : State, action : Nat]

Frame == [state : State, action : Nat, branch : Nat, rest : Seq(Step),
          local_ban : SUBSET Nat, tainted : BOOLEAN]

-----------------------------------------------------------------------------
Top == stack[Len(stack)]
Below == SubSeq(stack, 1, Len(stack) - 1)
ReplaceTop(frame) == [stack EXCEPT ![Len(stack)] = frame]

Branches(frame) == Actions(task, frame.state)[frame.action]
Branch(frame) == Branches(frame)[frame.branch]

\* The rest of the path is a hint to the branch it came from.
Hint(frame) ==
  IF frame.rest # <<>> /\ Head(frame.rest).at = Branch(frame) THEN frame.rest ELSE <<>>

SolveBranch(frame) ==
  /\ pc' = "enter"
  /\ arg' = [state |-> Branch(frame), hint |-> Hint(frame)]

\* The call for state s returns.
Return(s, ok, tainted) ==
  /\ pc' = "return"
  /\ arg' = [state |-> s, hint |-> <<>>]
  /\ ret' = [ok |-> ok, tainted |-> tainted]

\* A call of find_path for s.
SearchFrom(s) ==
  /\ pc' = "search"
  /\ nodes' = [x \in {s} |-> <<>>]
  /\ open' = {s}
  /\ hit_stack' = FALSE

\* Fault: the open list of one search is left to the next.
LeaveSearchOpen == nodes' = <<>> /\ hit_stack' = FALSE /\ UNCHANGED open

LeaveSearch == nodes' = <<>> /\ open' = {} /\ hit_stack' = FALSE

-----------------------------------------------------------------------------
(* solve: the early returns, in the order of the code. *)

AtGoal == arg.state \in Goal(task)

\* Fault: a state that is solved already is solved again.
KnownSolvedNever == FALSE

KnownSolved == arg.state \in DOMAIN solved

KnownDead == arg.state \in dead
OnPath == arg.state \in ancestors

EarlyReturn(ok, tainted) ==
  /\ Return(arg.state, ok, tainted)
  /\ UNCHANGED <<task, stack, path_search, memos, ancestors, late, outcome>>

AbandonLate ==
  /\ pc = "enter"
  /\ late
  /\ timed_out' = TRUE
  /\ EarlyReturn(FALSE, TRUE)

ReachSolved ==
  /\ pc = "enter"
  /\ ~late
  /\ AtGoal \/ KnownSolved
  /\ EarlyReturn(TRUE, FALSE)
  /\ UNCHANGED timed_out

ReachDead ==
  /\ pc = "enter"
  /\ ~late /\ ~AtGoal /\ ~KnownSolved
  /\ KnownDead
  /\ EarlyReturn(FALSE, FALSE)
  /\ UNCHANGED timed_out

CutCycle ==
  /\ pc = "enter"
  /\ ~late /\ ~AtGoal /\ ~KnownSolved /\ ~KnownDead
  /\ OnPath
  /\ EarlyReturn(FALSE, TRUE)
  /\ UNCHANGED timed_out

\* The call goes on: it takes the action of its hint, or looks for a path.
Open(frame) ==
  /\ pc = "enter"
  /\ ~late /\ ~AtGoal /\ ~KnownSolved /\ ~KnownDead /\ ~OnPath
  /\ ancestors' = ancestors \cup {arg.state}
  /\ stack' = Append(stack, frame)
  /\ UNCHANGED <<task, ret, memos, timed_out, late, outcome>>

NewFrame(action, branch, rest) ==
  [state |-> arg.state, action |-> action, branch |-> branch, rest |-> rest,
   local_ban |-> {}, tainted |-> FALSE]

Hinted == arg.hint # <<>> /\ Head(arg.hint).at = arg.state

FollowHint ==
  /\ Hinted
  /\ LET frame == NewFrame(Head(arg.hint).action, 1, Tail(arg.hint))
     IN  Open(frame) /\ SolveBranch(frame)
  /\ UNCHANGED path_search

OpenState ==
  /\ ~Hinted
  /\ Open(NewFrame(0, 0, <<>>))
  /\ SearchFrom(arg.state)
  /\ UNCHANGED arg

-----------------------------------------------------------------------------
(* find_path: best-first search over the single outcomes. *)

\* Fault: the actions banned for this call of solve are skipped everywhere.
AllowedEverywhere(n) ==
  {a \in DOMAIN Actions(task, n) : a \notin Top.local_ban /\ <<n, a>> \notin banned}

\* The actions that find_path tries in node n.
Allowed(n) ==
  {a \in DOMAIN Actions(task, n) :
     /\ n = Top.state => a \notin Top.local_ban
     /\ <<n, a>> \notin banned}

\* The edges of node n, <<action, outcome>>, and the order of the two loops.
Edges(n) == UNION {{a} \X DOMAIN Actions(task, n)[a] : a \in Allowed(n)}
Before(e, f) == e[1] < f[1] \/ (e[1] = f[1] /\ e[2] < f[2])
Target(n, e) == Actions(task, n)[e[1]][e[2]]

Usable(b) == b \in Goal(task) \/ b \in DOMAIN solved

\* The edges to states that are neither closed nor dead, ...
NewEdges(n) == {e \in Edges(n) : Target(n, e) \notin DOMAIN nodes /\ Target(n, e) \notin dead}

\* ... to a goal or a solved state, which end the search, ...
Ends(n) == {e \in NewEdges(n) : Target(n, e) \notin ancestors /\ Usable(Target(n, e))}

\* ... and to states that h^Delta refutes, which become dead for good.
Refuted(n, edges) ==
  {b \in {Target(n, e) : e \in edges} :
     b \notin ancestors /\ ~Usable(b) /\ b \in Graph(task).dead}

Extend(n, e) == Append(nodes[n], [at |-> n, action |-> e[1]])

\* Fault: the hint still has the step that was just committed to.
RestWhole(path) == path

Rest(path) == Tail(path)

\* solve commits to the first action of a path.
Commit(path) ==
  LET frame == [Top EXCEPT !.action = Head(path).action, !.branch = 1, !.rest = Rest(path)]
  IN  stack' = ReplaceTop(frame) /\ SolveBranch(frame)

\* The expansion of n stops at the first edge to a goal or a solved state.
FindPath(n) ==
  /\ pc = "search"
  /\ ~late
  /\ n \in open
  /\ \E e \in Ends(n) :
       /\ \A f \in Ends(n) \ {e} : Before(e, f)
       /\ dead' = dead \cup Refuted(n, {f \in NewEdges(n) : Before(f, e)})
       /\ Commit(Extend(n, e))
  /\ LeaveSearch
  /\ UNCHANGED <<task, ret, solved, banned, ancestors, timed_out, late, outcome>>

ExpandNode(n) ==
  /\ pc = "search"
  /\ ~late
  /\ n \in open
  /\ Ends(n) = {}
  /\ LET reached == {Target(n, e) : e \in NewEdges(n)}
         added == reached \ (ancestors \cup Graph(task).dead)
         First(b) == CHOOSE e \in NewEdges(n) :
                       /\ Target(n, e) = b
                       /\ \A f \in NewEdges(n) \ {e} : Target(n, f) = b => Before(e, f)
     IN  /\ nodes' = [b \in DOMAIN nodes \cup added |->
                        IF b \in added THEN Extend(n, First(b)) ELSE nodes[b]]
         /\ open' = (open \ {n}) \cup added
         /\ hit_stack' = (hit_stack \/ reached \cap ancestors # {})
  /\ dead' = dead \cup Refuted(n, NewEdges(n))
  /\ UNCHANGED <<task, calls, solved, banned, ancestors, timed_out, late, outcome>>

WithoutTop == ancestors \ {Top.state}

\* There is no path: the state is dead if nothing but the task says so.
FailState(tainted) ==
  /\ pc = "search"
  /\ ancestors' = WithoutTop
  /\ dead' = IF tainted THEN dead ELSE dead \cup {Top.state}
  /\ stack' = Below
  /\ Return(Top.state, FALSE, tainted)
  /\ LeaveSearch
  /\ UNCHANGED <<task, solved, banned, late, outcome>>

SearchLate ==
  /\ open # {}
  /\ late
  /\ timed_out' = TRUE
  /\ FailState(TRUE)

\* Fault: a failure that met the recursion stack counts as a proof.
TaintedBlindly == Top.tainted \/ timed_out

Tainted == Top.tainted \/ hit_stack \/ timed_out

SearchExhausted ==
  /\ open = {}
  /\ FailState(Tainted)
  /\ UNCHANGED timed_out

-----------------------------------------------------------------------------
(* solve: the outcomes of the action it committed to. *)

\* Fault: one solved branch is enough.
LastBranchAny == TRUE

LastBranch == Top.branch = Len(Branches(Top))

\* A branch was solved: on to the next one.
NextBranch ==
  /\ pc = "return" /\ stack # <<>>
  /\ ret.ok
  /\ ~LastBranch
  /\ LET frame == [Top EXCEPT !.branch = @ + 1]
     IN  stack' = ReplaceTop(frame) /\ SolveBranch(frame)
  /\ UNCHANGED <<task, ret, path_search, memos, ancestors, timed_out, late, outcome>>

\* The last branch was solved, and with it the state.
SolveState ==
  /\ pc = "return" /\ stack # <<>>
  /\ ret.ok
  /\ LastBranch
  /\ ancestors' = WithoutTop
  /\ solved' = [s \in DOMAIN solved \cup {Top.state} |->
                  IF s = Top.state THEN Top.action ELSE solved[s]]
  /\ stack' = Below
  /\ Return(Top.state, TRUE, FALSE)
  /\ UNCHANGED <<task, path_search, dead, banned, timed_out, late, outcome>>

\* Fault: the action is never banned.
BanNothing ==
  /\ stack' = ReplaceTop([Top EXCEPT !.tainted = @ \/ ret.tainted])
  /\ UNCHANGED banned

\* A branch failed: the action is banned, for good if the branch is dead.
Ban ==
  IF ret.tainted
  THEN /\ stack' = ReplaceTop([Top EXCEPT !.tainted = TRUE,
                                          !.local_ban = @ \cup {Top.action}])
       /\ UNCHANGED banned
  ELSE /\ banned' = banned \cup {<<Top.state, Top.action>>}
       /\ UNCHANGED stack

DropAction ==
  /\ pc = "return" /\ stack # <<>>
  /\ ~ret.ok
  /\ Ban
  /\ SearchFrom(Top.state)
  /\ UNCHANGED <<task, arg, ret, solved, dead, ancestors, timed_out, late, outcome>>

-----------------------------------------------------------------------------
(* search *)

Stop(how) ==
  /\ pc' = "done"
  /\ outcome' = how
  /\ UNCHANGED <<task, arg, ret, stack, path_search, memos, ancestors, timed_out, late>>

FinishSolved == pc = "return" /\ stack = <<>> /\ ret.ok /\ Stop("solved")

FinishFailed ==
  /\ pc = "return" /\ stack = <<>>
  /\ ~ret.ok
  /\ Stop(IF timed_out THEN "timeout" ELSE "no_solution")

\* The clock, or the flag of the portfolio that runs the search.
Expire ==
  /\ pc # "done"
  /\ ~late
  /\ late' = TRUE
  /\ UNCHANGED <<task, calls, path_search, memos, ancestors, timed_out, outcome>>

Finished == pc = "done" /\ UNCHANGED vars

Init ==
  /\ task \in Tasks
  /\ pc = "enter"
  /\ arg = [state |-> Initial(task), hint |-> <<>>]
  /\ ret = [ok |-> FALSE, tainted |-> FALSE]
  /\ stack = <<>>
  /\ nodes = <<>> /\ open = {} /\ hit_stack = FALSE
  /\ solved = <<>> /\ dead = {} /\ banned = {}
  /\ ancestors = {}
  /\ timed_out = FALSE
  /\ late = FALSE
  /\ outcome = "running"

Entering == AbandonLate \/ ReachSolved \/ ReachDead \/ CutCycle \/ FollowHint \/ OpenState

Searching == SearchLate \/ SearchExhausted \/ \E n \in open : FindPath(n) \/ ExpandNode(n)

Branching == NextBranch \/ SolveState \/ DropAction

Search == Entering \/ Searching \/ Branching \/ FinishSolved \/ FinishFailed

Next == Search \/ Expire \/ Finished

Spec == Init /\ [][Next]_vars

\* The thread that runs the search is scheduled; nothing forces the deadline.
FairSpec == Spec /\ WF_vars(Search)

-----------------------------------------------------------------------------
(* Assumption: what h^Delta promises of a state that it prunes. *)

ASSUME PruningAssumption == \A t \in Tasks : \A s \in Graph(t).dead : Doomed(t, s)

(* Properties. *)

TypeOK ==
  /\ task \in Tasks
  /\ pc \in {"enter", "search", "return", "done"}
  /\ arg \in [state : State, hint : Seq(Step)]
  /\ ret \in [ok : BOOLEAN, tainted : BOOLEAN]
  /\ stack \in Seq(Frame)
  /\ DOMAIN nodes \subseteq State
  /\ nodes \in [DOMAIN nodes -> Seq(Step)]
  /\ open \subseteq DOMAIN nodes
  /\ hit_stack \in BOOLEAN
  /\ DOMAIN solved \subseteq State
  /\ solved \in [DOMAIN solved -> Nat]
  /\ dead \subseteq State
  /\ banned \subseteq State \X Nat
  /\ ancestors \subseteq State
  /\ timed_out \in BOOLEAN
  /\ late \in BOOLEAN
  /\ outcome \in {"running", "solved", "timeout", "no_solution"}

(***************************************************************************)
(* "Sound": the solved states form a policy.  Every outcome of the action  *)
(* chosen for one of them is a goal or solved, and following the choices   *)
(* ends: every set of solved states has one whose outcomes leave the set.  *)
(* The tree that search returns is that of the initial state.              *)
(***************************************************************************)
SolvedIsPolicy ==
  /\ \A s \in DOMAIN solved :
       /\ solved[s] \in DOMAIN Actions(task, s)
       /\ \A j \in DOMAIN Actions(task, s)[solved[s]] :
            Usable(Actions(task, s)[solved[s]][j])
  /\ \A S \in SUBSET DOMAIN solved : S # {} =>
       \E s \in S : \A j \in DOMAIN Actions(task, s)[solved[s]] :
         Actions(task, s)[solved[s]][j] \notin S
  /\ outcome = "solved" => Usable(Initial(task))

(***************************************************************************)
(* A dead state has no policy, whatever the recursion stack was when it    *)
(* was found dead, and an action banned for good leads to such a state.    *)
(***************************************************************************)
DeadIsDoomed ==
  /\ \A s \in dead : Doomed(task, s)
  /\ \A b \in banned : \E j \in DOMAIN Actions(task, b[1])[b[2]] :
       Doomed(task, Actions(task, b[1])[b[2]][j])

(***************************************************************************)
(* "Complete on finite tasks": a call that fails in time proves that no    *)
(* policy for its state avoids the states on the recursion stack, so that  *)
(* "No solution exists" is true when the search says so.                   *)
(***************************************************************************)
FailureIsProof ==
  /\ pc = "return" /\ ~ret.ok /\ ~timed_out => Blocked(task, arg.state, ancestors)
  /\ outcome = "no_solution" => Doomed(task, Initial(task))

(***************************************************************************)
(* The stack set holds the states of the open calls, each once.            *)
(***************************************************************************)
AncestorsAreThePath ==
  /\ ancestors = {stack[i].state : i \in DOMAIN stack}
  /\ \A i, j \in DOMAIN stack : stack[i].state = stack[j].state => i = j

(***************************************************************************)
(* A hint is what is left of a real path: it begins at an outcome of the   *)
(* action committed to and every step leads to the next one, the last to a *)
(* goal or a solved state.                                                 *)
(***************************************************************************)
Leads(step, x) ==
  /\ step.action \in DOMAIN Actions(task, step.at)
  /\ \E j \in DOMAIN Actions(task, step.at)[step.action] :
       Actions(task, step.at)[step.action][j] = x

HintsArePaths ==
  \A i \in DOMAIN stack :
    LET frame == stack[i]  rest == frame.rest IN
      rest # <<>> =>
        /\ Leads([at |-> frame.state, action |-> frame.action], rest[1].at)
        /\ \A k \in 1..(Len(rest) - 1) : Leads(rest[k], rest[k + 1].at)
        /\ \E x \in State : Usable(x) /\ Leads(rest[Len(rest)], x)

(***************************************************************************)
(* Nothing is settled twice: a state on the recursion stack is no goal,    *)
(* and neither solved nor dead, so a PlanNode that other trees share is    *)
(* never replaced and no state is both solved and dead.                    *)
(***************************************************************************)
OpenIsUnsettled ==
  /\ \A s \in ancestors : ~Usable(s) /\ s \notin dead
  /\ \A s \in dead : ~Usable(s)

(***************************************************************************)
(* The search ends, with or without a deadline.                            *)
(***************************************************************************)
Termination == <>(pc = "done")
=============================================================================
