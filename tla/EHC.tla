-------------------------------- MODULE EHC ---------------------------------
(***************************************************************************)
(* ehc::search (search.cpp): enforced hill climbing for a linear plan.  It *)
(* descends to any better successor; where there is none, a breadth-first  *)
(* search looks for a better state.  Both phases share the arena and the   *)
(* set of visited states.  Each expansion is one step: nothing interleaves *)
(* with it, and the budget is only looked at between expansions.           *)
(***************************************************************************)
EXTENDS AndOr

CONSTANTS
  MaxNodes(_),  \* the max_nodes argument of the search for a task; 0 = unlimited
  MaxH          \* the heuristic values explored are 0..MaxH

ASSUME EHCAssumption ==
  /\ MaxH \in Nat
  /\ \A t \in Tasks : MaxNodes(t) \in Nat
  /\ \A t \in Tasks : \A s \in State : \A a \in DOMAIN Actions(t, s) :
       Len(Actions(t, s)[a]) = 1

VARIABLES
  task,      \* the planning task; never changes
  h,         \* the heuristic; never changes
  pc,        \* "start", "descend", "plateau" or "done"
  nodes,     \* the arena: [state, parent, action, g], the parent of the root is 0
  visited,   \* the fingerprints seen
  cur,       \* the node of the descent
  cur_h,     \* its heuristic value
  frontier,  \* the queue of the plateau search
  expanded,  \* stats.nodes_expanded
  late,      \* expired(deadline)
  plan,      \* the leaf of the plan found
  outcome    \* how the search ended

vars == <<task, h, pc, nodes, visited, cur, cur_h, frontier, expanded, late, plan, outcome>>

Successor(i, a) == Actions(task, nodes[i].state)[a][1]

\* Fault: the parent is always the node of the descent.
ChildOfCurrent(i, a) ==
  [state |-> Successor(i, a), parent |-> cur, action |-> a, g |-> nodes[i].g + 1]

Child(i, a) ==
  [state |-> Successor(i, a), parent |-> i, action |-> a, g |-> nodes[i].g + 1]

IsGoal(i, a) == Successor(i, a) \in Goal(task)
IsDead(i, a) == Successor(i, a) \in Graph(task).dead

Stop(how) ==
  /\ pc' = "done"
  /\ outcome' = how
  /\ UNCHANGED <<task, h, nodes, visited, cur, cur_h, frontier, expanded, late, plan>>

-----------------------------------------------------------------------------
AlreadyAtGoal == pc = "start" /\ Initial(task) \in Goal(task) /\ Stop("goal_at_init")

Start ==
  /\ pc = "start"
  /\ Initial(task) \notin Goal(task)
  /\ pc' = "descend"
  /\ nodes' = <<[state |-> Initial(task), parent |-> 0, action |-> 0, g |-> 0]>>
  /\ visited' = {Initial(task)}
  /\ cur' = 1
  /\ cur_h' = h[Initial(task)]
  /\ UNCHANGED <<task, h, frontier, expanded, late, plan, outcome>>

-----------------------------------------------------------------------------
(* The descent. *)

OverLimit(n) == MaxNodes(task) > 0 /\ n > MaxNodes(task)

StopDescent ==
  /\ pc = "descend"
  /\ OverLimit(expanded) \/ late
  /\ Stop(IF OverLimit(expanded) THEN "limit" ELSE "late")

Descending == pc = "descend" /\ ~OverLimit(expanded) /\ ~late

Applicable(i) == DOMAIN Actions(task, nodes[i].state)

\* The first successor in action order that is a goal ends the search.
DescendToGoal ==
  /\ Descending
  /\ \E a \in Applicable(cur) :
       /\ IsGoal(cur, a)
       /\ \A b \in Applicable(cur) : IsGoal(cur, b) => a <= b
       /\ nodes' = Append(nodes, Child(cur, a))
  /\ plan' = Len(nodes) + 1
  /\ expanded' = expanded + 1
  /\ pc' = "done"
  /\ outcome' = "solved"
  /\ UNCHANGED <<task, h, visited, cur, cur_h, frontier, late>>

NoGoalNear == \A a \in Applicable(cur) : ~IsGoal(cur, a)

\* The successors that the descent may move to, and the order it sorts them in.
Better(a) == ~IsDead(cur, a) /\ h[Successor(cur, a)] < cur_h

Unvisited == {a \in Applicable(cur) : Better(a) /\ Successor(cur, a) \notin visited}
Precedes(a, b) ==
  \/ h[Successor(cur, a)] < h[Successor(cur, b)]
  \/ h[Successor(cur, a)] = h[Successor(cur, b)] /\ a <= b

\* Fault: the state moved to is not marked as visited.
MarkNothing(a) == visited

Mark(a) == visited \cup {Successor(cur, a)}

Descend ==
  /\ Descending
  /\ NoGoalNear
  /\ \E a \in Unvisited :
       /\ \A b \in Unvisited : Precedes(a, b)
       /\ nodes' = Append(nodes, Child(cur, a))
       /\ visited' = Mark(a)
       /\ cur_h' = h[Successor(cur, a)]
  /\ cur' = Len(nodes) + 1
  /\ expanded' = expanded + 1
  /\ UNCHANGED <<task, h, pc, frontier, late, plan, outcome>>

\* Fault: the descent tries again where it has just failed.
EnterPlateauNever ==
  /\ Descending
  /\ NoGoalNear
  /\ Unvisited = {}
  /\ UNCHANGED vars

EnterPlateau ==
  /\ Descending
  /\ NoGoalNear
  /\ Unvisited = {}
  /\ pc' = "plateau"
  /\ frontier' = <<cur>>
  /\ UNCHANGED <<task, h, nodes, visited, cur, cur_h, expanded, late, plan, outcome>>

-----------------------------------------------------------------------------
(* The plateau search. *)

StopPlateau ==
  /\ pc = "plateau"
  /\ frontier # <<>>
  /\ OverLimit(expanded + 1) \/ late
  /\ Stop(IF OverLimit(expanded + 1) THEN "limit" ELSE "late")

PlateauExhausted == pc = "plateau" /\ frontier = <<>> /\ Stop("no_solution")

\* The actions of node i whose successor is a goal or new; of siblings that
\* lead to the same state the first counts.
NewActions(i) ==
  {a \in Applicable(i) :
     \/ IsGoal(i, a)
     \/ /\ ~IsDead(i, a)
        /\ Successor(i, a) \notin visited
        /\ \A b \in 1..(a - 1) : Successor(i, b) # Successor(i, a)}

\* The expansion stops at the first goal or better state.
Ends(i, a) == IsGoal(i, a) \/ h[Successor(i, a)] < cur_h

Added(i) == {a \in NewActions(i) : \A b \in NewActions(i) : b < a => ~Ends(i, b)}

\* A set of actions in action order.
Listings(actions) ==
  {list \in [1..Cardinality(actions) -> actions] :
     \A j, k \in DOMAIN list : j < k => list[j] < list[k]}

Enlarge(i, added) ==
  /\ nodes' = nodes \o [k \in DOMAIN added |-> Child(i, added[k])]
  /\ visited' = visited \cup
       {Successor(i, added[k]) : k \in {m \in DOMAIN added : ~IsGoal(i, added[m])}}

Expanding == pc = "plateau" /\ frontier # <<>> /\ ~OverLimit(expanded + 1) /\ ~late

\* The index of the k-th node that an expansion adds.
NewIndex(k) == Len(nodes) + k

\* Fault: new states go to the front of the queue.
EnqueueFirst(indices) == indices \o Tail(frontier)

Enqueue(indices) == Tail(frontier) \o indices

Widen ==
  /\ Expanding
  /\ LET i == Head(frontier) IN
       \E added \in Listings(Added(i)) :
         /\ \A k \in DOMAIN added : ~Ends(i, added[k])
         /\ Enlarge(i, added)
         /\ frontier' = Enqueue([k \in DOMAIN added |-> NewIndex(k)])
  /\ expanded' = expanded + 1
  /\ UNCHANGED <<task, h, pc, cur, cur_h, late, plan, outcome>>

EscapeToGoal ==
  /\ Expanding
  /\ LET i == Head(frontier) IN
       \E added \in Listings(Added(i)) :
         /\ added # <<>> /\ IsGoal(i, added[Len(added)])
         /\ Enlarge(i, added)
         /\ plan' = NewIndex(Len(added))
  /\ expanded' = expanded + 1
  /\ pc' = "done"
  /\ outcome' = "solved"
  /\ UNCHANGED <<task, h, cur, cur_h, frontier, late>>

Height(i, a) == h[Successor(i, a)]

Escape ==
  /\ Expanding
  /\ LET i == Head(frontier) IN
       \E added \in Listings(Added(i)) :
         /\ added # <<>> /\ ~IsGoal(i, added[Len(added)]) /\ Ends(i, added[Len(added)])
         /\ Enlarge(i, added)
         /\ cur' = NewIndex(Len(added))
         /\ cur_h' = Height(i, added[Len(added)])
  /\ expanded' = expanded + 1
  /\ pc' = "descend"
  /\ frontier' = <<>>
  /\ UNCHANGED <<task, h, late, plan, outcome>>

-----------------------------------------------------------------------------
Expire ==
  /\ pc # "done"
  /\ ~late
  /\ late' = TRUE
  /\ UNCHANGED <<task, h, pc, nodes, visited, cur, cur_h, frontier, expanded, plan, outcome>>

Finished == pc = "done" /\ UNCHANGED vars

Init ==
  /\ task \in Tasks
  /\ h \in {f \in [State -> 0..MaxH] : \A s \in Goal(task) : f[s] = 0}
  /\ pc = "start"
  /\ nodes = <<>> /\ visited = {} /\ cur = 0 /\ cur_h = 0 /\ frontier = <<>>
  /\ expanded = 0
  /\ late = FALSE
  /\ plan = 0
  /\ outcome = "running"

Descent == StopDescent \/ DescendToGoal \/ Descend \/ EnterPlateau

Plateau == StopPlateau \/ PlateauExhausted \/ Widen \/ EscapeToGoal \/ Escape

Search == AlreadyAtGoal \/ Start \/ Descent \/ Plateau

Next == Search \/ Expire \/ Finished

Spec == Init /\ [][Next]_vars

\* The thread that runs the search is scheduled; nothing forces the deadline.
FairSpec == Spec /\ WF_vars(Search)

-----------------------------------------------------------------------------
(* Properties. *)

Node == [state : State, parent : Nat, action : Nat, g : Nat]

TypeOK ==
  /\ task \in Tasks
  /\ h \in [State -> 0..MaxH]
  /\ pc \in {"start", "descend", "plateau", "done"}
  /\ nodes \in Seq(Node)
  /\ visited \subseteq State
  /\ cur \in DOMAIN nodes \cup {0}
  /\ cur_h \in 0..MaxH
  /\ frontier \in Seq(DOMAIN nodes)
  /\ expanded \in Nat
  /\ late \in BOOLEAN
  /\ plan \in DOMAIN nodes \cup {0}
  /\ outcome \in {"running", "goal_at_init", "solved", "limit", "late", "no_solution"}

(***************************************************************************)
(* Every node is reached by its action from its parent, which is older, so *)
(* the actions on the way to the leaf of a plan are executable from the    *)
(* initial state and lead to the goal, whichever phase added the nodes.    *)
(***************************************************************************)
PlanIsExecutable ==
  /\ \A i \in DOMAIN nodes :
       IF i = 1 THEN nodes[1].state = Initial(task) /\ nodes[1].parent = 0
       ELSE /\ nodes[i].parent \in 1..(i - 1)
            /\ nodes[i].action \in Applicable(nodes[i].parent)
            /\ nodes[i].state = Successor(nodes[i].parent, nodes[i].action)
            /\ nodes[i].g = nodes[nodes[i].parent].g + 1
  /\ outcome = "solved" => plan \in DOMAIN nodes /\ nodes[plan].state \in Goal(task)

(***************************************************************************)
(* "The two phases cannot cycle against each other": no state enters the   *)
(* arena twice, whichever phase meets it, and the visited set is that of   *)
(* the arena.                                                              *)
(***************************************************************************)
NoStateTwice ==
  /\ \A i, j \in DOMAIN nodes : nodes[i].state = nodes[j].state => i = j
  /\ visited = {nodes[i].state : i \in DOMAIN nodes \ {plan}}

(***************************************************************************)
(* "Breadth-first search for the nearest strictly better state": the climb *)
(* compares with the value of the state it is at, the queue holds nothing  *)
(* that is better, and it is in order of distance, so that it spans two    *)
(* levels at most.                                                         *)
(***************************************************************************)
BreadthFirst ==
  /\ pc \in {"descend", "plateau"} => cur_h = h[nodes[cur].state]
  /\ \A j, k \in DOMAIN frontier : j <= k =>
       /\ h[nodes[frontier[k]].state] >= cur_h
       /\ nodes[frontier[j]].g <= nodes[frontier[k]].g
       /\ nodes[frontier[k]].g <= nodes[frontier[1]].g + 1

(***************************************************************************)
(* The search ends, with or without a deadline.                            *)
(***************************************************************************)
Termination == <>(pc = "done")
=============================================================================
