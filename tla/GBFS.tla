-------------------------------- MODULE GBFS --------------------------------
(***************************************************************************)
(* gbfs::search and its run (search.cpp): greedy best-first search for a   *)
(* linear plan, first over the helpful actions only and, if that fails,    *)
(* once more over all of them.  The successors of a node are built one by  *)
(* one as they are merged, or beforehand in parallel batches.  Any open    *)
(* node may be popped and any candidates may be the helpful ones, so the   *)
(* model covers every heuristic.                                           *)
(***************************************************************************)
EXTENDS AndOr

CONSTANT MaxNodes(_)  \* the max_nodes argument of the search for a task; 0 = unlimited

ASSUME MaxNodesAssumption == \A t \in Tasks : MaxNodes(t) \in Nat

(***************************************************************************)
(* Applied to several designated worlds at once, an action has a single    *)
(* successor.                                                              *)
(***************************************************************************)
ASSUME LinearAssumption ==
  \A t \in Tasks : \A s \in State : \A a \in DOMAIN Actions(t, s) :
    Len(Actions(t, s)[a]) = 1

\* What the heuristic and h^Delta promise of a state that they prune: without it
\* an exhausted search would prove nothing.
ASSUME PruningAssumption == \A t \in Tasks : \A s \in Graph(t).dead : Doomed(t, s)

VARIABLES
  task,      \* the planning task; never changes
  pc,        \* what the search thread does next
  helpful,   \* this run prefers helpful actions
  pruned,    \* some expansion of this search has left an action out
  nodes,     \* the arena: [state, parent, action], the parent of the root is 0
  open,      \* the indices of the open nodes
  closed,    \* the fingerprints seen
  expanded,  \* stats.nodes_expanded of this run
  cur,       \* the node under expansion
  cands,     \* the candidates to be merged, in action order
  parallel,  \* the candidates are built before they are merged
  succ,      \* candidate -> what was built for it in parallel
  late,      \* expired(deadline)
  plan,      \* the leaf of the plan found
  outcome    \* how the search ended

expansion == <<cur, cands, parallel, succ>>
arena == <<nodes, open, closed>>
vars == <<task, pc, helpful, pruned, arena, expanded, expansion, late, plan, outcome>>

Successor(s, a) == Actions(task, s)[a][1]

-----------------------------------------------------------------------------
\* build_successor: what the successor turns out to be, given the closed set.
Build(a) ==
  LET b == Successor(nodes[cur].state, a) IN
    IF b \in Goal(task) THEN "goal"
    ELSE IF b \in closed THEN "seen"
    ELSE IF b \in Graph(task).dead THEN "dead"
    ELSE "new"

BeginRun(with_helpful) ==
  /\ pc' = "pop"
  /\ helpful' = with_helpful
  /\ nodes' = <<[state |-> Initial(task), parent |-> 0, action |-> 0]>>
  /\ open' = {1}
  /\ closed' = {Initial(task)}
  /\ expanded' = 0

NoExpansion == cur' = 0 /\ cands' = {} /\ parallel' = FALSE /\ succ' = <<>>

AlreadyAtGoal ==
  /\ pc = "start"
  /\ Initial(task) \in Goal(task)
  /\ pc' = "done"
  /\ outcome' = "goal_at_init"
  /\ UNCHANGED <<task, helpful, pruned, arena, expanded, expansion, late, plan>>

Start ==
  /\ pc = "start"
  /\ Initial(task) \notin Goal(task)
  /\ \E with_helpful \in BOOLEAN : BeginRun(with_helpful)
  /\ UNCHANGED <<task, pruned, expansion, late, plan, outcome>>

\* The run returns nothing; search decides on a second one.
EndRun(how) ==
  /\ pc' = "ended"
  /\ outcome' = how
  /\ NoExpansion
  /\ UNCHANGED <<task, helpful, pruned, arena, expanded, late, plan>>

OverLimit == MaxNodes(task) > 0 /\ expanded + 1 > MaxNodes(task)

HitLimit == pc = "pop" /\ open # {} /\ OverLimit /\ EndRun("limit")

PopLate == pc = "pop" /\ open # {} /\ ~OverLimit /\ late /\ EndRun("late")

Exhaust ==
  /\ pc = "pop"
  /\ open = {}
  /\ EndRun(IF pruned THEN "helpful_exhausted" ELSE "no_solution")

\* The helpful candidates are used if they are some but not all.
Kept(all) == IF helpful /\ all # {} THEN SUBSET all \ {{}} ELSE {all}

\* A node is popped and its candidates are chosen; a large enough expansion
\* builds them in parallel.
Pop ==
  /\ pc = "pop"
  /\ ~OverLimit
  /\ ~late
  /\ expanded' = expanded + 1
  /\ \E i \in open :
       LET all == DOMAIN Actions(task, nodes[i].state) IN
       \E kept \in Kept(all) :
         /\ open' = open \ {i}
         /\ cur' = i
         /\ cands' = kept
         /\ pruned' = (pruned \/ kept # all)
  /\ parallel' \in BOOLEAN
  /\ pc' = IF parallel' THEN "build" ELSE "merge"
  /\ succ' = <<>>
  /\ UNCHANGED <<task, helpful, nodes, closed, late, plan, outcome>>

\* Some thread of the pool builds a candidate; the closed set is only read.
BuildOne(a) ==
  /\ pc = "build"
  /\ a \in cands \ DOMAIN succ
  /\ succ' = [b \in DOMAIN succ \cup {a} |-> IF b = a THEN Build(a) ELSE succ[b]]
  /\ UNCHANGED <<task, pc, helpful, pruned, arena, expanded, cur, cands, parallel, late,
                 plan, outcome>>

\* Fault: the merge waits for the actions that were left out as well.
AllBuiltOfAll == DOMAIN succ = DOMAIN Actions(task, nodes[cur].state)

\* Fault: the merge does not wait for the other threads.
AllBuiltSoon == TRUE

AllBuilt == DOMAIN succ = cands

\* All are built, or time is over between two batches.
BuildEnds ==
  /\ pc = "build"
  /\ AllBuilt \/ late
  /\ pc' = "merge"
  /\ UNCHANGED <<task, helpful, pruned, arena, expanded, expansion, late, plan, outcome>>

-----------------------------------------------------------------------------
(* The candidates are merged in action order. *)

First(a) == a \in cands /\ \A b \in cands : a <= b

\* Fault: a batch that was cut short is merged as if it were complete.
MergeStopsNever == FALSE

MergeStops == late

MergeLate == pc = "merge" /\ cands # {} /\ MergeStops /\ EndRun("late")

\* A candidate that was not built counts as inapplicable.
Built(a) ==
  IF ~parallel THEN Build(a) ELSE IF a \in DOMAIN succ THEN succ[a] ELSE "absent"

Merging(a) == pc = "merge" /\ First(a) /\ ~MergeStops

\* Fault: the parent is the node added last.
AddNodeToLast(a) ==
  nodes' = Append(nodes,
    [state |-> Successor(nodes[cur].state, a), parent |-> Len(nodes), action |-> a])

NewIndex == Len(nodes) + 1

AddNode(a) ==
  nodes' = Append(nodes, [state |-> Successor(nodes[cur].state, a), parent |-> cur, action |-> a])

ReachGoal(a) ==
  /\ Merging(a)
  /\ Built(a) = "goal"
  /\ AddNode(a)
  /\ plan' = NewIndex
  /\ pc' = "done"
  /\ outcome' = "solved"
  /\ NoExpansion
  /\ UNCHANGED <<task, helpful, pruned, open, closed, expanded, late>>

\* Fault: the closed set is not asked again, although a sibling has been merged.
FreshAsBuilt(a) == Built(a) = "new"

Fresh(a) == Built(a) \in {"seen", "new"} /\ Successor(nodes[cur].state, a) \notin closed

Drop(a) ==
  /\ Merging(a)
  /\ Built(a) # "goal" /\ ~Fresh(a)
  /\ cands' = cands \ {a}
  /\ UNCHANGED <<task, pc, helpful, pruned, arena, expanded, cur, parallel, succ, late,
                 plan, outcome>>

Insert(a) ==
  /\ Merging(a)
  /\ Fresh(a)
  /\ closed' = closed \cup {Successor(nodes[cur].state, a)}
  /\ AddNode(a)
  /\ open' = open \cup {NewIndex}
  /\ cands' = cands \ {a}
  /\ UNCHANGED <<task, pc, helpful, pruned, expanded, cur, parallel, succ, late, plan,
                 outcome>>

FinishExpansion ==
  /\ pc = "merge"
  /\ cands = {}
  /\ pc' = "pop"
  /\ NoExpansion
  /\ UNCHANGED <<task, helpful, pruned, arena, expanded, late, plan, outcome>>

-----------------------------------------------------------------------------
(* search: the second run. *)

RetryInFull == pruned /\ ~late

Retry ==
  /\ pc = "ended"
  /\ RetryInFull
  /\ helpful
  /\ BeginRun(FALSE)
  /\ outcome' = "running"
  /\ UNCHANGED <<task, pruned, expansion, late, plan>>

GiveUp ==
  /\ pc = "ended"
  /\ ~RetryInFull \/ ~helpful
  /\ pc' = "done"
  /\ UNCHANGED <<task, helpful, pruned, arena, expanded, expansion, late, plan, outcome>>

\* The clock, or the flag of the portfolio that runs the search.
Expire ==
  /\ pc # "done"
  /\ ~late
  /\ late' = TRUE
  /\ UNCHANGED <<task, pc, helpful, pruned, arena, expanded, expansion, plan, outcome>>

Finished == pc = "done" /\ UNCHANGED vars

Init ==
  /\ task \in Tasks
  /\ pc = "start"
  /\ helpful = FALSE /\ pruned = FALSE
  /\ nodes = <<>> /\ open = {} /\ closed = {}
  /\ expanded = 0
  /\ cur = 0 /\ cands = {} /\ parallel = FALSE /\ succ = <<>>
  /\ late = FALSE
  /\ plan = 0
  /\ outcome = "running"

Run == HitLimit \/ PopLate \/ Exhaust \/ Pop \/ BuildEnds \/ MergeLate \/ FinishExpansion
       \/ \E a \in cands : BuildOne(a) \/ ReachGoal(a) \/ Drop(a) \/ Insert(a)

Search == AlreadyAtGoal \/ Start \/ Run \/ Retry \/ GiveUp

Next == Search \/ Expire \/ Finished

Spec == Init /\ [][Next]_vars

\* The search thread and the pool are scheduled; nothing forces the deadline.
FairSpec == Spec /\ WF_vars(Search)

-----------------------------------------------------------------------------
(* Properties. *)

Node == [state : State, parent : Nat, action : Nat]

TypeOK ==
  /\ task \in Tasks
  /\ pc \in {"start", "pop", "build", "merge", "ended", "done"}
  /\ helpful \in BOOLEAN /\ pruned \in BOOLEAN
  /\ nodes \in Seq(Node)
  /\ open \subseteq DOMAIN nodes
  /\ closed \subseteq State
  /\ expanded \in Nat
  /\ cur \in DOMAIN nodes \cup {0}
  /\ cands \subseteq Nat
  /\ parallel \in BOOLEAN
  /\ DOMAIN succ \subseteq Nat
  /\ \A a \in DOMAIN succ : succ[a] \in {"goal", "seen", "dead", "new"}
  /\ late \in BOOLEAN
  /\ plan \in DOMAIN nodes \cup {0}
  /\ outcome \in {"running", "goal_at_init", "solved", "limit", "late",
                  "helpful_exhausted", "no_solution"}

(***************************************************************************)
(* Every node of the arena is reached by its action from its parent, which *)
(* is older, so walking the parents from the leaf of a plan gives an       *)
(* executable sequence of actions from the initial state, and it ends in   *)
(* the goal.                                                               *)
(***************************************************************************)
PlanIsExecutable ==
  /\ \A i \in DOMAIN nodes :
       IF i = 1 THEN nodes[1].state = Initial(task) /\ nodes[1].parent = 0
       ELSE /\ nodes[i].parent \in 1..(i - 1)
            /\ LET p == nodes[nodes[i].parent].state IN
                 /\ nodes[i].action \in DOMAIN Actions(task, p)
                 /\ nodes[i].state = Successor(p, nodes[i].action)
  /\ outcome = "solved" => plan \in DOMAIN nodes /\ nodes[plan].state \in Goal(task)

(***************************************************************************)
(* Duplicate detection is exact although siblings are built in parallel    *)
(* against the same closed set: no state is in the arena twice, the closed *)
(* set is that of the arena, and no node is opened again.                  *)
(***************************************************************************)
NoStateTwice ==
  /\ \A i, j \in DOMAIN nodes : nodes[i].state = nodes[j].state => i = j
  /\ closed = {nodes[i].state : i \in DOMAIN nodes \ {plan}}
  /\ cur \notin open

(***************************************************************************)
(* "Search exhausted — no solution": when a run over all actions is        *)
(* exhausted there is no plan.  Leaving out actions only delays: a search  *)
(* that ends early neither at the limit nor late has looked at every       *)
(* action, and a batch cut short by the deadline is not an exhaustion.     *)
(***************************************************************************)
ExhaustedIsProof ==
  \/ outcome = "no_solution"
  \/ outcome = "helpful_exhausted" /\ (~helpful \/ (pc = "done" /\ ~late))
  => Doomed(task, Initial(task))

(***************************************************************************)
(* Results do not depend on the thread count: what was built in parallel   *)
(* against the closed set of the expansion's start is merged as it would   *)
(* be if it were built now.                                                *)
(***************************************************************************)
Effect(kind, b) ==
  IF kind \in {"seen", "new"} THEN IF b \in closed THEN "drop" ELSE "insert"
  ELSE IF kind = "goal" THEN "goal" ELSE "drop"

ParallelIsSerial ==
  pc = "merge" /\ parallel /\ ~late =>
    \A a \in cands :
      LET b == Successor(nodes[cur].state, a) IN
        Effect(Built(a), b) = Effect(Build(a), b)

(***************************************************************************)
(* The search ends, with or without a deadline.                            *)
(***************************************************************************)
Termination == <>(pc = "done")
=============================================================================
