----------------------------- MODULE EHCProofs ------------------------------
(***************************************************************************)
(* Proofs about EHC for every set of states, every task without sensing,   *)
(* every heuristic and every limit.                                        *)
(***************************************************************************)
EXTENDS EHC, SequenceTheorems, FiniteSetTheorems, TLAPS

-----------------------------------------------------------------------------
(* Facts about tasks and nodes. *)

LEMMA SuccessorType ==
  ASSUME task \in Tasks, nodes \in Seq(Node),
         NEW i \in DOMAIN nodes, NEW a \in Applicable(i)
  PROVE  /\ nodes[i].state \in State /\ nodes[i].g \in Nat
         /\ Successor(i, a) \in State
         /\ a \in Nat \ {0}
         /\ Child(i, a) \in Node
<1>1. nodes[i] \in Node /\ i \in Nat
  OBVIOUS
<1>2. nodes[i].state \in State /\ nodes[i].g \in Nat
  BY <1>1 DEF Node
<1> DEFINE acts == Actions(task, nodes[i].state)
<1>3. acts \in Seq(Seq(State) \ {<<>>})
  BY <1>2, TaskAssumption DEF IsGraph, Actions
<1>4. a \in DOMAIN acts /\ acts[a] \in Seq(State) /\ Len(acts[a]) = 1
  BY <1>2, <1>3, EHCAssumption DEF Applicable
<1>5. Successor(i, a) \in State /\ a \in Nat \ {0}
  BY <1>3, <1>4 DEF Successor
<1> QED BY <1>1, <1>2, <1>5 DEF Child, Node

LEMMA GraphType ==
  ASSUME task \in Tasks
  PROVE  Initial(task) \in State /\ Goal(task) \subseteq State
BY TaskAssumption DEF IsGraph, Initial, Goal

LEMMA HeightType ==
  ASSUME TypeOK, NEW i \in DOMAIN nodes
  PROVE  h[nodes[i].state] \in 0..MaxH
<1>1. nodes[i] \in Node
  BY DEF TypeOK
<1> QED BY <1>1 DEF TypeOK, Node

-----------------------------------------------------------------------------
(* The inductive invariant. *)

\* What the phases of a search have in common.
Phases ==
  /\ pc = "start" => nodes = <<>> /\ visited = {}
  /\ pc \in {"start", "descend"} => frontier = <<>>
  /\ pc \in {"descend", "plateau"} => cur \in DOMAIN nodes
  /\ plan # 0 => outcome = "solved"
  /\ outcome = "running" <=> pc # "done"

\* The search stops at the first goal it meets.
NoGoalVisited == visited \cap Goal(task) = {}

IInv ==
  /\ TypeOK
  /\ Phases
  /\ NoGoalVisited
  /\ PlanIsExecutable
  /\ NoStateTwice
  /\ BreadthFirst

LEMMA InitIInv == Init => IInv
<1> SUFFICES ASSUME Init PROVE IInv
  OBVIOUS
<1>1. TypeOK
  <2>1. 0 \in 0..MaxH
    BY EHCAssumption
  <2>2. h \in [State -> 0..MaxH] /\ task \in Tasks
    BY DEF Init
  <2>3. nodes \in Seq(Node) /\ frontier \in Seq(DOMAIN nodes)
    BY DEF Init
  <2> QED BY <2>1, <2>2, <2>3 DEF Init, TypeOK
<1>2. DOMAIN nodes = {} /\ DOMAIN frontier = {}
  BY DEF Init
<1>3. Phases /\ NoGoalVisited /\ PlanIsExecutable /\ NoStateTwice /\ BreadthFirst
  BY <1>2 DEF Init, Phases, NoGoalVisited, PlanIsExecutable, NoStateTwice, BreadthFirst
<1> QED BY <1>1, <1>3 DEF IInv

-----------------------------------------------------------------------------
(* The arena grows at its end, by children of one node. *)

\* The arena gets a child of i for each of acts.
Grows(i, acts) ==
  /\ nodes' \in Seq(Node)
  /\ DOMAIN nodes = 1..Len(nodes)
  /\ DOMAIN nodes' = 1..(Len(nodes) + Len(acts))
  /\ \A j \in DOMAIN nodes : nodes'[j] = nodes[j]
  /\ \A k \in DOMAIN acts : nodes'[Len(nodes) + k] = Child(i, acts[k])

LEMMA ConcatGrows ==
  ASSUME TypeOK, NEW i \in DOMAIN nodes, NEW acts \in Seq(Applicable(i)),
         nodes' = nodes \o [k \in DOMAIN acts |-> Child(i, acts[k])]
  PROVE  Grows(i, acts)
<1> DEFINE children == [k \in DOMAIN acts |-> Child(i, acts[k])]
<1>1. \A k \in DOMAIN acts : Child(i, acts[k]) \in Node
  BY SuccessorType DEF TypeOK
<1>2. DOMAIN acts = 1..Len(acts) /\ Len(acts) \in Nat
  OBVIOUS
<1>3. children \in Seq(Node) /\ Len(children) = Len(acts)
      /\ \A k \in DOMAIN acts : children[k] = Child(i, acts[k])
  BY <1>1, <1>2
<1>4. nodes \in Seq(Node) /\ nodes' = nodes \o children
  BY DEF TypeOK
<1> HIDE DEF children
<1>5. /\ nodes' \in Seq(Node)
      /\ Len(nodes') = Len(nodes) + Len(acts)
      /\ \A j \in 1..Len(nodes) + Len(acts) :
           nodes'[j] = IF j <= Len(nodes) THEN nodes[j] ELSE children[j - Len(nodes)]
  <2>1. /\ nodes \o children \in Seq(Node)
        /\ Len(nodes \o children) = Len(nodes) + Len(children)
        /\ \A j \in 1..Len(nodes) + Len(children) :
             (nodes \o children)[j] =
               IF j <= Len(nodes) THEN nodes[j] ELSE children[j - Len(nodes)]
    BY <1>3, <1>4, ConcatProperties
  <2> QED BY <1>3, <1>4, <2>1
<1>6. /\ DOMAIN nodes = 1..Len(nodes) /\ Len(nodes) \in Nat
      /\ DOMAIN nodes' = 1..(Len(nodes) + Len(acts))
  BY <1>4, <1>5
<1>7. \A j \in DOMAIN nodes : nodes'[j] = nodes[j]
  BY <1>2, <1>5, <1>6
<1>8. ASSUME NEW k \in DOMAIN acts
      PROVE  nodes'[Len(nodes) + k] = Child(i, acts[k])
  <2>1. /\ Len(nodes) + k \in 1..Len(nodes) + Len(acts)
        /\ ~(Len(nodes) + k <= Len(nodes))
        /\ (Len(nodes) + k) - Len(nodes) = k
    BY <1>2, <1>6
  <2> QED BY <1>3, <1>5, <2>1
<1> QED BY <1>5, <1>6, <1>7, <1>8 DEF Grows

LEMMA AppendGrows ==
  ASSUME TypeOK, NEW i \in DOMAIN nodes, NEW a \in Applicable(i),
         nodes' = Append(nodes, Child(i, a))
  PROVE  Grows(i, <<a>>)
<1>1. Child(i, a) \in Node
  BY SuccessorType DEF TypeOK
<1>2. nodes \in Seq(Node)
  BY DEF TypeOK
<1> QED BY <1>1, <1>2 DEF Grows

LEMMA GrowthIsExecutable ==
  ASSUME IInv, task' = task, NEW i \in DOMAIN nodes, NEW acts \in Seq(Applicable(i)),
         Grows(i, acts),
         outcome' = "solved" => plan' \in DOMAIN nodes' /\ nodes'[plan'].state \in Goal(task)
  PROVE  PlanIsExecutable'
<1> USE DEF IInv
<1>1. /\ DOMAIN nodes = 1..Len(nodes) /\ Len(nodes) \in Nat
      /\ DOMAIN acts = 1..Len(acts) /\ Len(acts) \in Nat
      /\ DOMAIN nodes' = 1..(Len(nodes) + Len(acts))
  BY DEF Grows, TypeOK
<1>2. ASSUME NEW j \in DOMAIN nodes'
      PROVE  IF j = 1 THEN nodes'[1].state = Initial(task) /\ nodes'[1].parent = 0
             ELSE /\ nodes'[j].parent \in 1..(j - 1)
                  /\ nodes'[j].action \in DOMAIN Actions(task, nodes'[nodes'[j].parent].state)
                  /\ nodes'[j].state =
                       Actions(task, nodes'[nodes'[j].parent].state)[nodes'[j].action][1]
                  /\ nodes'[j].g = nodes'[nodes'[j].parent].g + 1
  <2>1. CASE j \in DOMAIN nodes
    <3>1. nodes'[j] = nodes[j]
      BY <2>1 DEF Grows
    <3>2. CASE j = 1
      BY <2>1, <3>1, <3>2 DEF PlanIsExecutable
    <3>3. CASE j # 1
      <4> DEFINE p == nodes[j].parent
      <4>1. /\ p \in 1..(j - 1)
            /\ nodes[j].action \in Applicable(p)
            /\ nodes[j].state = Successor(p, nodes[j].action)
            /\ nodes[j].g = nodes[p].g + 1
        BY <2>1, <3>3 DEF PlanIsExecutable
      <4>2. p \in DOMAIN nodes
        BY <1>1, <2>1, <4>1
      <4>3. nodes'[p] = nodes[p]
        BY <4>2 DEF Grows
      <4> QED BY <3>1, <3>3, <4>1, <4>3 DEF Applicable, Successor
    <3> QED BY <3>2, <3>3
  <2>2. CASE j \notin DOMAIN nodes
    <3>1. PICK k \in DOMAIN acts : j = Len(nodes) + k
      <4>1. j - Len(nodes) \in DOMAIN acts /\ j = Len(nodes) + (j - Len(nodes))
        BY <1>1, <2>2
      <4> QED BY <4>1
    <3>2. nodes'[j] = Child(i, acts[k])
      BY <3>1 DEF Grows
    <3>3. i \in 1..(j - 1) /\ j # 1
      BY <1>1, <3>1
    <3>4. nodes'[i] = nodes[i]
      BY DEF Grows
    <3>5. acts[k] \in Applicable(i)
      OBVIOUS
    <3> DEFINE c == Child(i, acts[k])
    <3>6. /\ c.parent = i /\ c.action = acts[k] /\ c.g = nodes[i].g + 1
          /\ c.state = Actions(task, nodes[i].state)[acts[k]][1]
      BY DEF Child, Successor
    <3> HIDE DEF c
    <3> QED BY <3>2, <3>3, <3>4, <3>5, <3>6 DEF c, Applicable
  <2> QED BY <2>1, <2>2
<1> QED BY <1>2 DEF PlanIsExecutable, Applicable, Successor

\* Children of states not met before, no two alike, keep the states distinct.
LEMMA GrowthIsNew ==
  ASSUME IInv, plan = 0, NEW i \in DOMAIN nodes, NEW acts \in Seq(Applicable(i)),
         Grows(i, acts),
         \A k \in DOMAIN acts : Successor(i, acts[k]) \notin visited,
         \A j, k \in DOMAIN acts : j < k => Successor(i, acts[j]) # Successor(i, acts[k])
  PROVE  /\ \A p, q \in DOMAIN nodes' : nodes'[p].state = nodes'[q].state => p = q
         /\ visited = {nodes'[p].state : p \in DOMAIN nodes}
         /\ \A k \in DOMAIN acts : nodes'[Len(nodes) + k].state = Successor(i, acts[k])
<1> USE DEF IInv
<1>1. /\ DOMAIN nodes = 1..Len(nodes) /\ Len(nodes) \in Nat
      /\ DOMAIN acts = 1..Len(acts) /\ Len(acts) \in Nat
      /\ DOMAIN nodes' = 1..(Len(nodes) + Len(acts))
  BY DEF Grows, TypeOK
<1>2. \A k \in DOMAIN acts : nodes'[Len(nodes) + k].state = Successor(i, acts[k])
  <2>1. \A k \in DOMAIN acts : nodes'[Len(nodes) + k] = Child(i, acts[k])
    BY DEF Grows
  <2>2. \A k \in DOMAIN acts : Child(i, acts[k]).state = Successor(i, acts[k])
    BY DEF Child
  <2> QED BY <2>1, <2>2
<1>3. visited = {nodes[p].state : p \in DOMAIN nodes}
  BY <1>1 DEF NoStateTwice
<1>4. visited = {nodes'[p].state : p \in DOMAIN nodes}
  BY <1>3 DEF Grows
<1>5. \A p \in DOMAIN nodes' \ DOMAIN nodes : \E k \in DOMAIN acts : p = Len(nodes) + k
  <2>1. \A p \in DOMAIN nodes' \ DOMAIN nodes :
           p - Len(nodes) \in DOMAIN acts /\ p = Len(nodes) + (p - Len(nodes))
    BY <1>1
  <2> QED BY <2>1
<1>6. ASSUME NEW p \in DOMAIN nodes', NEW q \in DOMAIN nodes',
             nodes'[p].state = nodes'[q].state
      PROVE  p = q
  <2>1. CASE p \in DOMAIN nodes /\ q \in DOMAIN nodes
    BY <1>6, <2>1 DEF Grows, NoStateTwice
  <2>2. CASE p \in DOMAIN nodes /\ q \notin DOMAIN nodes
    <3>1. nodes'[p].state \in visited
      BY <1>4, <2>2
    <3>2. nodes'[q].state \notin visited
      BY <1>2, <1>5, <2>2
    <3> QED BY <1>6, <3>1, <3>2
  <2>3. CASE p \notin DOMAIN nodes /\ q \in DOMAIN nodes
    <3>1. nodes'[q].state \in visited
      BY <1>4, <2>3
    <3>2. nodes'[p].state \notin visited
      BY <1>2, <1>5, <2>3
    <3> QED BY <1>6, <3>1, <3>2
  <2>4. CASE p \notin DOMAIN nodes /\ q \notin DOMAIN nodes
    <3>1. PICK j \in DOMAIN acts : p = Len(nodes) + j
      BY <1>5, <2>4
    <3>2. PICK k \in DOMAIN acts : q = Len(nodes) + k
      BY <1>5, <2>4
    <3>3. Successor(i, acts[j]) = Successor(i, acts[k])
      BY <1>2, <1>6, <3>1, <3>2
    <3>4. ~(j < k) /\ ~(k < j)
      BY <3>3
    <3> QED BY <1>1, <3>1, <3>2, <3>4
  <2> QED BY <2>1, <2>2, <2>3, <2>4
<1> QED BY <1>2, <1>4, <1>6

-----------------------------------------------------------------------------
(* Steps that leave the arena as it is. *)

LEMMA StillIInv ==
  ASSUME IInv, UNCHANGED <<task, h, nodes, visited, cur, cur_h, expanded, plan>>,
         TypeOK', Phases', outcome' = "solved" => outcome = "solved",
         \/ frontier' = frontier /\ pc' \in {pc, "done"}
         \/ pc = "descend" /\ pc' = "plateau" /\ frontier' = <<cur>>
  PROVE  IInv'
<1> USE DEF IInv
<1>1. NoGoalVisited' /\ NoStateTwice'
  BY DEF NoGoalVisited, NoStateTwice
<1>2. PlanIsExecutable'
  BY DEF PlanIsExecutable, Applicable, Successor
<1>3. BreadthFirst'
  <2>1. CASE frontier' = frontier /\ pc' \in {pc, "done"}
    BY <2>1 DEF BreadthFirst
  <2>2. CASE pc = "descend" /\ pc' = "plateau" /\ frontier' = <<cur>>
    <3>1. cur_h = h[nodes[cur].state] /\ cur \in DOMAIN nodes
      BY <2>2 DEF BreadthFirst, Phases
    <3>2. nodes[cur] \in Node
      BY <3>1 DEF TypeOK
    <3>3. nodes[cur].g \in Nat /\ cur_h \in Nat
      BY <3>2 DEF Node, TypeOK
    <3>4. DOMAIN frontier' = {1} /\ frontier'[1] = cur
      BY <2>2
    <3> QED BY <2>2, <3>1, <3>3, <3>4 DEF BreadthFirst
  <2> QED BY <2>1, <2>2
<1> QED BY <1>1, <1>2, <1>3

LEMMA StillStepIInv ==
  ASSUME IInv,
         \/ AlreadyAtGoal \/ StopDescent \/ EnterPlateau \/ StopPlateau
         \/ PlateauExhausted \/ Expire \/ UNCHANGED vars
  PROVE  IInv'
<1>0. TypeOK /\ Phases
  BY DEF IInv
<1>1. CASE AlreadyAtGoal \/ StopDescent \/ StopPlateau \/ PlateauExhausted
  <2>1. /\ UNCHANGED <<task, h, nodes, visited, cur, cur_h, frontier, expanded, late, plan>>
        /\ pc # "done" /\ pc' = "done"
        /\ outcome' \in {"goal_at_init", "limit", "late", "no_solution"}
    BY <1>1 DEF AlreadyAtGoal, StopDescent, StopPlateau, PlateauExhausted, Stop
  <2>2. TypeOK' /\ Phases'
    BY <1>0, <2>1 DEF TypeOK, Phases
  <2> QED BY <2>1, <2>2, StillIInv
<1>2. CASE EnterPlateau
  <2>1. cur \in DOMAIN nodes
    BY <1>0, <1>2 DEF EnterPlateau, Descending, Phases
  <2>2. TypeOK' /\ Phases'
    BY <1>0, <1>2, <2>1 DEF TypeOK, Phases, EnterPlateau, Descending
  <2>3. /\ UNCHANGED <<task, h, nodes, visited, cur, cur_h, expanded, plan, outcome>>
        /\ pc = "descend" /\ pc' = "plateau" /\ frontier' = <<cur>>
    BY <1>2 DEF EnterPlateau, Descending
  <2> QED BY <2>2, <2>3, StillIInv
<1>3. CASE Expire \/ UNCHANGED vars
  <2>1. /\ UNCHANGED <<task, h, pc, nodes, visited, cur, cur_h, frontier, expanded, plan, outcome>>
        /\ late' \in {late, TRUE}
    BY <1>3 DEF Expire, vars
  <2>2. TypeOK' /\ Phases'
    BY <1>0, <2>1 DEF TypeOK, Phases
  <2> QED BY <2>1, <2>2, StillIInv
<1> QED BY <1>1, <1>2, <1>3

LEMMA StartIInv ==
  ASSUME IInv, Start
  PROVE  IInv'
<1> USE DEF IInv
<1> DEFINE root == [state |-> Initial(task), parent |-> 0, action |-> 0, g |-> 0]
<1>1. /\ nodes' = <<root>> /\ cur' = 1 /\ pc' = "descend"
      /\ visited' = {Initial(task)} /\ cur_h' = h[Initial(task)]
      /\ UNCHANGED <<task, h, frontier, expanded, late, plan, outcome>>
      /\ Initial(task) \notin Goal(task)
      /\ pc = "start"
  BY DEF Start
<1>2. root \in Node /\ Initial(task) \in State
  BY GraphType DEF TypeOK, Node
<1>3. nodes' \in Seq(Node) /\ DOMAIN nodes' = {1} /\ nodes'[1] = root
  BY <1>1, <1>2
<1>4. frontier = <<>> /\ outcome = "running" /\ plan = 0
  BY <1>1 DEF Phases
<1>5. h[Initial(task)] \in 0..MaxH
  BY <1>2 DEF TypeOK
<1>6. TypeOK'
  BY <1>1, <1>2, <1>3, <1>4, <1>5 DEF TypeOK
<1>7. Phases' /\ NoGoalVisited'
  BY <1>1, <1>3, <1>4 DEF Phases, NoGoalVisited
<1>8. PlanIsExecutable'
  BY <1>1, <1>3, <1>4 DEF PlanIsExecutable
<1>9. NoStateTwice'
  BY <1>1, <1>3, <1>4 DEF NoStateTwice
<1>10. BreadthFirst'
  BY <1>1, <1>3, <1>4 DEF BreadthFirst
<1> QED BY <1>6, <1>7, <1>8, <1>9, <1>10

-----------------------------------------------------------------------------
(* The descent. *)

LEMMA DescendToGoalIInv ==
  ASSUME IInv, DescendToGoal
  PROVE  IInv'
<1> USE DEF IInv
<1>1. PICK a \in Applicable(cur) : IsGoal(cur, a) /\ nodes' = Append(nodes, Child(cur, a))
  BY DEF DescendToGoal
<1>2. /\ plan' = Len(nodes) + 1 /\ expanded' = expanded + 1
      /\ pc = "descend" /\ pc' = "done" /\ outcome' = "solved"
      /\ UNCHANGED <<task, h, visited, cur, cur_h, frontier, late>>
  BY DEF DescendToGoal, Descending
<1>3. cur \in DOMAIN nodes /\ plan = 0 /\ frontier = <<>>
  BY <1>2 DEF Phases
<1>4. Grows(cur, <<a>>)
  BY <1>1, <1>3, AppendGrows
<1> DEFINE acts == <<a>>
<1>5. acts \in Seq(Applicable(cur)) /\ DOMAIN acts = {1} /\ acts[1] = a /\ Len(acts) = 1
  OBVIOUS
<1>6. Grows(cur, acts)
  BY <1>4
<1> HIDE DEF acts
<1>7. Successor(cur, a) \in Goal(task)
  BY <1>1 DEF IsGoal
<1>8. /\ \A p, q \in DOMAIN nodes' : nodes'[p].state = nodes'[q].state => p = q
      /\ visited = {nodes'[p].state : p \in DOMAIN nodes}
      /\ nodes'[Len(nodes) + 1].state = Successor(cur, a)
  <2>1. \A k \in DOMAIN acts : Successor(cur, acts[k]) \notin visited
    BY <1>5, <1>7 DEF NoGoalVisited
  <2>2. \A j, k \in DOMAIN acts : j < k => Successor(cur, acts[j]) # Successor(cur, acts[k])
    BY <1>5
  <2>3. nodes'[Len(nodes) + 1].state = Successor(cur, acts[1])
    BY <1>3, <1>5, <1>6, <2>1, <2>2, GrowthIsNew
  <2> QED BY <1>3, <1>5, <1>6, <2>1, <2>2, <2>3, GrowthIsNew
<1>9. /\ nodes' \in Seq(Node) /\ DOMAIN nodes' = 1..(Len(nodes) + 1)
      /\ DOMAIN nodes = 1..Len(nodes) /\ Len(nodes) \in Nat
      /\ \A j \in DOMAIN nodes : nodes'[j] = nodes[j]
  BY <1>5, <1>6 DEF Grows, TypeOK
<1>10. TypeOK' /\ Phases' /\ NoGoalVisited'
  BY <1>2, <1>3, <1>9 DEF TypeOK, Phases, NoGoalVisited
<1>11. PlanIsExecutable'
  <2>1. plan' \in DOMAIN nodes' /\ nodes'[plan'].state \in Goal(task)
    BY <1>2, <1>7, <1>8, <1>9
  <2> QED BY <1>2, <1>3, <1>5, <1>6, <2>1, GrowthIsExecutable
<1>12. NoStateTwice'
  <2>1. DOMAIN nodes' \ {plan'} = DOMAIN nodes
    BY <1>2, <1>9
  <2> QED BY <1>2, <1>8, <2>1 DEF NoStateTwice
<1>13. BreadthFirst'
  BY <1>2, <1>3 DEF BreadthFirst
<1> QED BY <1>10, <1>11, <1>12, <1>13

LEMMA DescendIInv ==
  ASSUME IInv, Descend
  PROVE  IInv'
<1> USE DEF IInv
<1>1. PICK a \in Unvisited :
        /\ nodes' = Append(nodes, Child(cur, a))
        /\ visited' = visited \cup {Successor(cur, a)}
        /\ cur_h' = h[Successor(cur, a)]
  BY DEF Descend, Mark
<1>2. /\ cur' = Len(nodes) + 1 /\ expanded' = expanded + 1
      /\ pc = "descend" /\ NoGoalNear
      /\ UNCHANGED <<task, h, pc, frontier, late, plan, outcome>>
  BY DEF Descend, Descending
<1>3. cur \in DOMAIN nodes /\ plan = 0 /\ frontier = <<>> /\ outcome = "running"
  BY <1>2 DEF Phases
<1>4. a \in Applicable(cur) /\ Successor(cur, a) \notin visited
  BY DEF Unvisited
<1>5. Successor(cur, a) \in State /\ Successor(cur, a) \notin Goal(task)
  BY <1>2, <1>3, <1>4, SuccessorType DEF NoGoalNear, IsGoal, TypeOK
<1> DEFINE acts == <<a>>
<1>6. acts \in Seq(Applicable(cur)) /\ DOMAIN acts = {1} /\ acts[1] = a /\ Len(acts) = 1
  BY <1>4
<1>7. Grows(cur, acts)
  BY <1>1, <1>3, <1>4, AppendGrows
<1> HIDE DEF acts
<1>8. /\ \A p, q \in DOMAIN nodes' : nodes'[p].state = nodes'[q].state => p = q
      /\ visited = {nodes'[p].state : p \in DOMAIN nodes}
      /\ nodes'[Len(nodes) + 1].state = Successor(cur, a)
  <2>1. \A k \in DOMAIN acts : Successor(cur, acts[k]) \notin visited
    BY <1>4, <1>6
  <2>2. \A j, k \in DOMAIN acts : j < k => Successor(cur, acts[j]) # Successor(cur, acts[k])
    BY <1>6
  <2>3. nodes'[Len(nodes) + 1].state = Successor(cur, acts[1])
    BY <1>3, <1>6, <1>7, <2>1, <2>2, GrowthIsNew
  <2> QED BY <1>3, <1>6, <1>7, <2>1, <2>2, <2>3, GrowthIsNew
<1>9. /\ nodes' \in Seq(Node) /\ DOMAIN nodes' = 1..(Len(nodes) + 1)
      /\ DOMAIN nodes = 1..Len(nodes) /\ Len(nodes) \in Nat
      /\ \A j \in DOMAIN nodes : nodes'[j] = nodes[j]
  BY <1>6, <1>7 DEF Grows, TypeOK
<1>10. TypeOK' /\ Phases' /\ NoGoalVisited'
  <2>1. h[Successor(cur, a)] \in 0..MaxH
    BY <1>5 DEF TypeOK
  <2>2. cur' \in DOMAIN nodes'
    BY <1>2, <1>9
  <2> QED BY <1>1, <1>2, <1>3, <1>5, <1>9, <2>1, <2>2 DEF TypeOK, Phases, NoGoalVisited
<1>11. PlanIsExecutable'
  BY <1>2, <1>3, <1>6, <1>7, GrowthIsExecutable
<1>12. NoStateTwice'
  <2>1. DOMAIN nodes' \ {plan'} = DOMAIN nodes \cup {Len(nodes) + 1}
    BY <1>2, <1>3, <1>9
  <2>2. visited' = {nodes'[p].state : p \in DOMAIN nodes'\ {plan'}}
    BY <1>1, <1>8, <2>1
  <2> QED BY <1>8, <2>2 DEF NoStateTwice
<1>13. BreadthFirst'
  BY <1>1, <1>2, <1>3, <1>8 DEF BreadthFirst
<1> QED BY <1>10, <1>11, <1>12, <1>13

-----------------------------------------------------------------------------
(* The plateau search. *)

\* What an expansion adds: actions of the node in action order, whose
\* successors are distinct; only the last can end the expansion.
LEMMA AddedFacts ==
  ASSUME TypeOK, NoGoalVisited, NEW i \in DOMAIN nodes, NEW added \in Listings(Added(i))
  PROVE  /\ added \in Seq(Applicable(i))
         /\ \A k \in DOMAIN added : Successor(i, added[k]) \notin visited
         /\ \A k \in DOMAIN added : k < Len(added) => ~Ends(i, added[k])
         /\ \A j, k \in DOMAIN added : j < k =>
              Successor(i, added[j]) # Successor(i, added[k])
<1> DEFINE n == Cardinality(Added(i))
<1>1. Added(i) \subseteq NewActions(i) /\ NewActions(i) \subseteq Applicable(i)
  BY DEF Added, NewActions
<1>2. n \in Nat
  <2>1. nodes[i].state \in State
    <3>1. nodes[i] \in Node
      BY DEF TypeOK
    <3> QED BY <3>1 DEF Node
  <2>2. Actions(task, nodes[i].state) \in Seq(Seq(State) \ {<<>>})
    BY <2>1, TaskAssumption DEF TypeOK, IsGraph, Actions
  <2>3. PICK m \in Nat : Applicable(i) = 1..m
    BY <2>2 DEF Applicable
  <2>4. IsFiniteSet(1..m)
    BY FS_Interval
  <2>5. IsFiniteSet(Added(i))
    <3>1. Added(i) \in SUBSET (1..m)
      BY <1>1, <2>3
    <3> QED BY <2>4, <3>1, FS_Subset
  <2> QED BY <2>5, FS_CardinalityType
<1>3. /\ added \in [1..n -> Added(i)]
      /\ \A j, k \in DOMAIN added : j < k => added[j] < added[k]
  BY DEF Listings
<1> HIDE DEF n
<1>4. added \in Seq(Applicable(i)) /\ DOMAIN added = 1..n /\ Len(added) = n
  BY <1>1, <1>2, <1>3
<1>5. \A k \in DOMAIN added : added[k] \in Added(i) /\ added[k] \in Nat \ {0}
  BY <1>1, <1>3, SuccessorType DEF TypeOK
<1>6. \A k \in DOMAIN added : Successor(i, added[k]) \notin visited
  BY <1>1, <1>5 DEF NewActions, IsGoal, NoGoalVisited
<1>7. ASSUME NEW j \in DOMAIN added, NEW k \in DOMAIN added, j < k
      PROVE  ~Ends(i, added[j]) /\ Successor(i, added[j]) # Successor(i, added[k])
  <2>1. added[j] < added[k]
    BY <1>3, <1>7
  <2>2. ~Ends(i, added[j])
    BY <1>1, <1>5, <2>1 DEF Added
  <2>3. added[k] \in NewActions(i) /\ ~IsGoal(i, added[j])
    BY <1>1, <1>5, <2>2 DEF Ends
  <2>4. CASE IsGoal(i, added[k])
    BY <2>2, <2>3, <2>4 DEF IsGoal
  <2>5. CASE ~IsGoal(i, added[k])
    <3>1. \A b \in 1..(added[k] - 1) : Successor(i, b) # Successor(i, added[k])
      BY <2>3, <2>5 DEF NewActions
    <3>2. added[j] \in 1..(added[k] - 1)
      BY <1>5, <2>1
    <3> QED BY <2>2, <3>1, <3>2
  <2> QED BY <2>2, <2>4, <2>5
<1>8. \A k \in DOMAIN added : k < Len(added) => ~Ends(i, added[k])
  <2>1. ASSUME NEW k \in DOMAIN added, k < Len(added)
        PROVE  ~Ends(i, added[k])
    <3>1. n \in DOMAIN added /\ k < n
      BY <1>2, <1>4, <2>1
    <3> QED BY <1>7, <3>1
  <2> QED BY <2>1
<1> QED BY <1>4, <1>6, <1>7, <1>8

LEMMA ExpandingFacts ==
  ASSUME IInv, Expanding
  PROVE  /\ Head(frontier) \in DOMAIN nodes
         /\ plan = 0 /\ outcome = "running" /\ pc = "plateau" /\ cur \in DOMAIN nodes
<1>1. frontier \in Seq(DOMAIN nodes) /\ frontier # <<>>
  BY DEF Expanding, IInv, TypeOK
<1>2. Head(frontier) \in DOMAIN nodes
  BY <1>1
<1> QED BY <1>2 DEF Expanding, IInv, Phases

\* What every expansion does to the arena.
LEMMA EnlargeFacts ==
  ASSUME IInv, plan = 0, NEW i \in DOMAIN nodes, NEW added \in Listings(Added(i)),
         Enlarge(i, added)
  PROVE  /\ Grows(i, added)
         /\ \A p, q \in DOMAIN nodes' : nodes'[p].state = nodes'[q].state => p = q
         /\ \A k \in DOMAIN added : nodes'[Len(nodes) + k].state = Successor(i, added[k])
         /\ visited = {nodes'[p].state : p \in DOMAIN nodes}
         /\ visited' = {nodes'[p].state : p \in DOMAIN nodes}
              \cup {Successor(i, added[k]) : k \in {m \in DOMAIN added : ~IsGoal(i, added[m])}}
         /\ visited' \subseteq State
         /\ visited' \cap Goal(task) = {}
<1> USE DEF IInv
<1>1. Grows(i, added)
  BY AddedFacts, ConcatGrows DEF Enlarge
<1>2. /\ \A p, q \in DOMAIN nodes' : nodes'[p].state = nodes'[q].state => p = q
      /\ \A k \in DOMAIN added : nodes'[Len(nodes) + k].state = Successor(i, added[k])
      /\ visited = {nodes'[p].state : p \in DOMAIN nodes}
  BY <1>1, AddedFacts, GrowthIsNew
<1>3. \A k \in DOMAIN added : Successor(i, added[k]) \in State
  BY AddedFacts, SuccessorType DEF TypeOK
<1>4. visited' = visited \cup
        {Successor(i, added[k]) : k \in {m \in DOMAIN added : ~IsGoal(i, added[m])}}
  BY DEF Enlarge
<1>5. visited' \subseteq State
  BY <1>3, <1>4 DEF TypeOK
<1>6. visited' \cap Goal(task) = {}
  BY <1>4 DEF IsGoal, NoGoalVisited
<1> QED BY <1>1, <1>2, <1>4, <1>5, <1>6

\* The arena after an expansion: the older nodes are as before, the queue
\* refers to them, and the new nodes are one level below the expanded one.
LEMMA EnlargeTypes ==
  ASSUME IInv, plan = 0, NEW i \in DOMAIN nodes, NEW added \in Listings(Added(i)),
         Enlarge(i, added)
  PROVE  /\ nodes' \in Seq(Node)
         /\ Len(nodes) \in Nat /\ Len(added) \in Nat /\ DOMAIN added = 1..Len(added)
         /\ DOMAIN nodes = 1..Len(nodes)
         /\ DOMAIN nodes' = 1..(Len(nodes) + Len(added))
         /\ \A j \in DOMAIN nodes : nodes'[j] = nodes[j]
         /\ \A k \in DOMAIN added : /\ nodes'[Len(nodes) + k].g = nodes[i].g + 1
                                    /\ Successor(i, added[k]) \in State
<1>1. Grows(i, added) /\ added \in Seq(Applicable(i))
  BY EnlargeFacts, AddedFacts DEF IInv
<1>2. \A k \in DOMAIN added : /\ nodes'[Len(nodes) + k] = Child(i, added[k])
                              /\ Successor(i, added[k]) \in State
  BY <1>1, SuccessorType DEF Grows, IInv, TypeOK
<1>3. \A k \in DOMAIN added : Child(i, added[k]).g = nodes[i].g + 1
  BY DEF Child
<1>4. \A k \in DOMAIN added : /\ nodes'[Len(nodes) + k].g = nodes[i].g + 1
                              /\ Successor(i, added[k]) \in State
  BY <1>2, <1>3
<1>5. Len(added) \in Nat /\ DOMAIN added = 1..Len(added) /\ Len(nodes) \in Nat
  BY <1>1 DEF IInv, TypeOK
<1> QED BY <1>1, <1>4, <1>5 DEF Grows

LEMMA WidenIInv ==
  ASSUME IInv, Widen
  PROVE  IInv'
<1> DEFINE i == Head(frontier)
<1>1. PICK added \in Listings(Added(i)) :
        /\ \A k \in DOMAIN added : ~Ends(i, added[k])
        /\ Enlarge(i, added)
        /\ frontier' = Tail(frontier) \o [k \in DOMAIN added |-> Len(nodes) + k]
  BY DEF Widen, Enqueue, NewIndex
<1>2. /\ expanded' = expanded + 1 /\ Expanding
      /\ UNCHANGED <<task, h, pc, cur, cur_h, late, plan, outcome>>
  BY DEF Widen
<1>3. /\ i \in DOMAIN nodes /\ plan = 0 /\ outcome = "running" /\ pc = "plateau"
      /\ cur \in DOMAIN nodes /\ frontier # <<>> /\ i = frontier[1]
  <2>1. frontier # <<>> /\ i = frontier[1]
    BY <1>2 DEF Expanding
  <2> QED BY <1>2, <2>1, ExpandingFacts
<1> DEFINE n == Len(nodes)
           new == [k \in DOMAIN added |-> n + k]
<1>4. /\ nodes' \in Seq(Node)
      /\ n \in Nat /\ Len(added) \in Nat /\ DOMAIN added = 1..Len(added)
      /\ DOMAIN nodes = 1..n /\ DOMAIN nodes' = 1..(n + Len(added))
      /\ \A j \in DOMAIN nodes : nodes'[j] = nodes[j]
      /\ \A k \in DOMAIN added : /\ nodes'[n + k].g = nodes[i].g + 1
                                 /\ Successor(i, added[k]) \in State
  BY <1>1, <1>3, EnlargeTypes
<1>5. /\ Grows(i, added)
      /\ \A p, q \in DOMAIN nodes' : nodes'[p].state = nodes'[q].state => p = q
      /\ \A k \in DOMAIN added : nodes'[n + k].state = Successor(i, added[k])
      /\ visited' = {nodes'[p].state : p \in DOMAIN nodes}
           \cup {Successor(i, added[k]) : k \in {m \in DOMAIN added : ~IsGoal(i, added[m])}}
      /\ visited' \subseteq State
      /\ visited' \cap Goal(task) = {}
  BY <1>1, <1>3, EnlargeFacts
<1>6. TypeOK /\ Phases /\ BreadthFirst
  BY DEF IInv
<1>7. /\ frontier \in Seq(DOMAIN nodes) /\ Len(frontier) \in Nat \ {0}
      /\ DOMAIN frontier = 1..Len(frontier)
  BY <1>3, <1>6 DEF TypeOK
<1>8. /\ frontier' \in Seq(DOMAIN nodes')
      /\ DOMAIN frontier' = 1..(Len(frontier) - 1 + Len(added))
      /\ \A k \in DOMAIN frontier' :
           frontier'[k] = IF k < Len(frontier) THEN frontier[k + 1]
                          ELSE n + (k - (Len(frontier) - 1))
  <2>1. new \in Seq(DOMAIN nodes') /\ Len(new) = Len(added)
        /\ \A k \in 1..Len(added) : new[k] = n + k
    BY <1>4
  <2>2. /\ Tail(frontier) \in Seq(DOMAIN nodes') /\ Len(Tail(frontier)) = Len(frontier) - 1
        /\ \A k \in 1..(Len(frontier) - 1) : Tail(frontier)[k] = frontier[k + 1]
    <3>1. /\ Tail(frontier) \in Seq(DOMAIN nodes) /\ Len(Tail(frontier)) = Len(frontier) - 1
          /\ \A k \in 1..(Len(frontier) - 1) : Tail(frontier)[k] = frontier[k + 1]
      BY <1>3, <1>7
    <3>2. DOMAIN nodes \subseteq DOMAIN nodes'
      BY <1>4
    <3> QED BY <3>1, <3>2
  <2> DEFINE rest == Tail(frontier)
  <2>3. frontier' = rest \o new
    BY <1>1
  <2> HIDE DEF new, rest
  <2>4. /\ rest \o new \in Seq(DOMAIN nodes')
        /\ Len(rest \o new) = Len(rest) + Len(new)
        /\ \A k \in 1..Len(rest) + Len(new) :
             (rest \o new)[k] = IF k <= Len(rest) THEN rest[k] ELSE new[k - Len(rest)]
    <3>1. rest \in Seq(DOMAIN nodes') /\ new \in Seq(DOMAIN nodes')
      BY <2>1, <2>2 DEF rest
    <3> QED BY <3>1, ConcatProperties
  <2>5. Len(rest) = Len(frontier) - 1 /\ Len(new) = Len(added)
    BY <2>1, <2>2 DEF rest
  <2>6. DOMAIN frontier' = 1..(Len(frontier) - 1 + Len(added))
    BY <1>4, <1>7, <2>3, <2>4, <2>5
  <2>7. ASSUME NEW k \in DOMAIN frontier'
        PROVE  frontier'[k] = IF k < Len(frontier) THEN frontier[k + 1]
                              ELSE n + (k - (Len(frontier) - 1))
    <3>1. CASE k < Len(frontier)
      <4>1. k \in 1..(Len(frontier) - 1) /\ k <= Len(rest) /\ k \in 1..Len(rest) + Len(new)
        BY <1>4, <1>7, <2>5, <2>6, <3>1
      <4> QED BY <2>2, <2>3, <2>4, <3>1, <4>1 DEF rest
    <3>2. CASE ~(k < Len(frontier))
      <4>1. /\ k - (Len(frontier) - 1) \in 1..Len(added)
            /\ ~(k <= Len(rest)) /\ k \in 1..Len(rest) + Len(new)
        BY <1>4, <1>7, <2>5, <2>6, <3>2
      <4> QED BY <2>1, <2>3, <2>4, <2>5, <3>2, <4>1
    <3> QED BY <3>1, <3>2
  <2> QED BY <2>3, <2>4, <2>6, <2>7
<1> HIDE DEF i, n, new
<1>9. TypeOK'
  <2>1. cur \in DOMAIN nodes'
    BY <1>3, <1>4
  <2>2. /\ task' \in Tasks /\ h' \in [State -> 0..MaxH] /\ cur_h' \in 0..MaxH
        /\ pc' \in {"start", "descend", "plateau", "done"}
        /\ expanded' \in Nat /\ late' \in BOOLEAN
        /\ outcome' \in {"running", "goal_at_init", "solved", "limit", "late", "no_solution"}
    BY <1>2, <1>3, <1>6 DEF TypeOK
  <2>3. /\ nodes' \in Seq(Node)
        /\ plan' \in DOMAIN nodes' \cup {0} /\ cur' \in DOMAIN nodes' \cup {0}
    BY <1>2, <1>3, <1>4, <2>1
  <2> QED BY <1>5, <1>8, <2>2, <2>3 DEF TypeOK
<1>10. Phases' /\ NoGoalVisited'
  BY <1>2, <1>3, <1>4, <1>5, <1>6 DEF Phases, NoGoalVisited
<1>11. PlanIsExecutable'
  BY <1>1, <1>2, <1>3, <1>5, <1>6, AddedFacts, GrowthIsExecutable DEF IInv
<1>12. NoStateTwice'
  <2>1. DOMAIN nodes' \ {plan'} = DOMAIN nodes \cup {n + k : k \in DOMAIN added}
    <3>1. \A p \in DOMAIN nodes' \ DOMAIN nodes : p - n \in DOMAIN added /\ p = n + (p - n)
      BY <1>4
    <3>2. \A k \in DOMAIN added : n + k \in DOMAIN nodes'
      BY <1>4
    <3>3. DOMAIN nodes \subseteq DOMAIN nodes' /\ plan' \notin DOMAIN nodes'
      BY <1>2, <1>3, <1>4
    <3> QED BY <3>1, <3>2, <3>3
  <2>2. visited' = {nodes'[p].state : p \in DOMAIN nodes}
                     \cup {Successor(i, added[k]) : k \in DOMAIN added}
    BY <1>1, <1>5 DEF Ends
  <2>3. visited' = {nodes'[p].state : p \in DOMAIN nodes' \ {plan'}}
    BY <1>5, <2>1, <2>2
  <2> QED BY <1>5, <2>3 DEF NoStateTwice
<1>13. BreadthFirst'
  <2> DEFINE Level(k) == nodes'[frontier'[k]].g
             base == nodes[i].g
  <2>1. base \in Nat /\ cur_h \in Nat
    <3>1. nodes[i] \in Node
      BY <1>3, <1>6 DEF TypeOK
    <3>2. base \in Nat
      BY <3>1 DEF Node
    <3>3. cur_h \in Nat
      <4>1. cur_h \in 0..MaxH
        BY <1>6 DEF TypeOK
      <4> QED BY <4>1
    <3> QED BY <3>2, <3>3
  <2>2. ASSUME NEW k \in DOMAIN frontier'
        PROVE  /\ h[nodes'[frontier'[k]].state] >= cur_h
               /\ Level(k) \in Nat /\ Level(k) >= base /\ Level(k) <= base + 1
               /\ ~(k < Len(frontier)) => Level(k) = base + 1
    <3>1. CASE k < Len(frontier)
      <4>1. /\ frontier'[k] = frontier[k + 1] /\ k + 1 \in DOMAIN frontier /\ 1 \in DOMAIN frontier
            /\ 1 <= k + 1
        BY <1>7, <1>8, <3>1
      <4>2. frontier[k + 1] \in DOMAIN nodes
        BY <1>7, <4>1
      <4>3. nodes'[frontier'[k]] = nodes[frontier[k + 1]]
        BY <1>4, <4>1, <4>2
      <4>4. nodes[frontier[k + 1]] \in Node
        BY <1>6, <4>2 DEF TypeOK
      <4>5. nodes[frontier[k + 1]].g \in Nat
        BY <4>4 DEF Node
      <4>6. /\ h[nodes[frontier[k + 1]].state] >= cur_h
            /\ nodes[frontier[1]].g <= nodes[frontier[k + 1]].g
            /\ nodes[frontier[k + 1]].g <= nodes[frontier[1]].g + 1
        BY <1>6, <4>1 DEF BreadthFirst
      <4> QED BY <1>3, <3>1, <4>3, <4>5, <4>6
    <3>2. CASE ~(k < Len(frontier))
      <4> DEFINE m == k - (Len(frontier) - 1)
      <4>1. m \in DOMAIN added /\ frontier'[k] = n + m
        <5>1. frontier'[k] = n + m
          BY <1>8, <3>2
        <5>2. k \in 1..(Len(frontier) - 1 + Len(added))
          BY <1>8
        <5>3. m \in 1..Len(added)
          BY <1>4, <1>7, <3>2, <5>2
        <5> QED BY <1>4, <5>1, <5>3
      <4> HIDE DEF m
      <4>2. nodes'[frontier'[k]].state = Successor(i, added[m])
        BY <1>5, <4>1
      <4>3. Level(k) = base + 1
        BY <1>4, <4>1
      <4>4. ~(h[Successor(i, added[m])] < cur_h)
        BY <1>1, <4>1 DEF Ends
      <4>5. h[Successor(i, added[m])] \in 0..MaxH
        BY <1>4, <1>6, <4>1 DEF TypeOK
      <4>6. h[Successor(i, added[m])] >= cur_h
        BY <2>1, <4>4, <4>5, EHCAssumption
      <4> QED BY <2>1, <4>2, <4>3, <4>6
    <3> QED BY <3>1, <3>2
  <2>3. ASSUME NEW j \in DOMAIN frontier', NEW k \in DOMAIN frontier', j <= k
        PROVE  Level(j) <= Level(k)
    <3>1. CASE k < Len(frontier)
      <4>1. /\ j + 1 \in DOMAIN frontier /\ k + 1 \in DOMAIN frontier /\ j + 1 <= k + 1
            /\ frontier'[j] = frontier[j + 1] /\ frontier'[k] = frontier[k + 1]
        BY <1>7, <1>8, <2>3, <3>1
      <4>2. frontier[j + 1] \in DOMAIN nodes /\ frontier[k + 1] \in DOMAIN nodes
        BY <1>7, <4>1
      <4>3. nodes[frontier[j + 1]].g <= nodes[frontier[k + 1]].g
        BY <1>6, <4>1 DEF BreadthFirst
      <4> QED BY <1>4, <4>1, <4>2, <4>3
    <3>2. CASE ~(k < Len(frontier))
      BY <2>1, <2>2, <3>2
    <3> QED BY <3>1, <3>2
  <2>4. ASSUME NEW k \in DOMAIN frontier'
        PROVE  Level(k) <= Level(1) + 1
    <3>1. 1 \in DOMAIN frontier'
      BY <1>4, <1>7, <1>8
    <3>2. /\ Level(1) \in Nat /\ Level(1) >= base
          /\ Level(k) \in Nat /\ Level(k) <= base + 1
      BY <2>2, <3>1
    <3> HIDE DEF Level, base
    <3> QED BY <2>1, <3>2
  <2>5. cur_h' = h'[nodes'[cur'].state]
    BY <1>2, <1>3, <1>4, <1>6 DEF BreadthFirst
  <2> QED BY <1>2, <2>2, <2>3, <2>4, <2>5 DEF BreadthFirst
<1> QED BY <1>9, <1>10, <1>11, <1>12, <1>13 DEF IInv

LEMMA EscapeToGoalIInv ==
  ASSUME IInv, EscapeToGoal
  PROVE  IInv'
<1> DEFINE i == Head(frontier)
<1>1. PICK added \in Listings(Added(i)) :
        /\ added # <<>> /\ IsGoal(i, added[Len(added)])
        /\ Enlarge(i, added)
        /\ plan' = Len(nodes) + Len(added)
  BY DEF EscapeToGoal, NewIndex
<1>2. /\ expanded' = expanded + 1 /\ Expanding
      /\ pc' = "done" /\ outcome' = "solved"
      /\ UNCHANGED <<task, h, cur, cur_h, frontier, late>>
  BY DEF EscapeToGoal
<1>3. /\ i \in DOMAIN nodes /\ plan = 0 /\ cur \in DOMAIN nodes
  BY <1>2, ExpandingFacts
<1> DEFINE n == Len(nodes)
           m == Len(added)
<1>4. /\ nodes' \in Seq(Node)
      /\ n \in Nat /\ m \in Nat /\ DOMAIN added = 1..m
      /\ DOMAIN nodes = 1..n /\ DOMAIN nodes' = 1..(n + m)
      /\ \A j \in DOMAIN nodes : nodes'[j] = nodes[j]
  BY <1>1, <1>3, EnlargeTypes
<1>5. /\ Grows(i, added)
      /\ \A p, q \in DOMAIN nodes' : nodes'[p].state = nodes'[q].state => p = q
      /\ \A k \in DOMAIN added : nodes'[n + k].state = Successor(i, added[k])
      /\ visited' = {nodes'[p].state : p \in DOMAIN nodes}
           \cup {Successor(i, added[k]) : k \in {l \in DOMAIN added : ~IsGoal(i, added[l])}}
      /\ visited' \subseteq State
      /\ visited' \cap Goal(task) = {}
  BY <1>1, <1>3, EnlargeFacts
<1>6. TypeOK /\ Phases /\ BreadthFirst
  BY DEF IInv
<1>7. /\ added \in Seq(Applicable(i))
      /\ \A k \in DOMAIN added : k < m => ~Ends(i, added[k])
  BY <1>1, <1>3, <1>6, AddedFacts DEF IInv
<1>8. m # 0
  BY <1>1, <1>7
<1>9. plan' = n + m /\ plan' \in DOMAIN nodes'
  BY <1>1, <1>4, <1>8
<1>10. m \in DOMAIN added
  BY <1>4, <1>8
<1>11. IsGoal(i, added[m])
  BY <1>1
<1> HIDE DEF i, n, m
<1>12. TypeOK'
  <2>1. frontier \in Seq(DOMAIN nodes')
    <3>1. frontier \in Seq(DOMAIN nodes) /\ DOMAIN nodes \subseteq DOMAIN nodes'
      BY <1>4, <1>6 DEF TypeOK
    <3> QED BY <3>1
  <2>2. cur \in DOMAIN nodes'
    BY <1>3, <1>4
  <2> QED BY <1>2, <1>4, <1>5, <1>6, <1>9, <2>1, <2>2 DEF TypeOK
<1>13. Phases' /\ NoGoalVisited'
  BY <1>2, <1>5 DEF Phases, NoGoalVisited
<1>14. PlanIsExecutable'
  <2>1. nodes'[plan'].state \in Goal(task)
    BY <1>5, <1>9, <1>10, <1>11 DEF IsGoal
  <2> QED BY <1>2, <1>3, <1>5, <1>7, <1>9, <2>1, GrowthIsExecutable
<1>15. NoStateTwice'
  <2>1. {l \in DOMAIN added : ~IsGoal(i, added[l])} = 1..(m - 1)
    <3>1. \A l \in DOMAIN added : l < m => ~IsGoal(i, added[l])
      BY <1>7 DEF Ends
    <3>2. \A l \in DOMAIN added : l \in 1..(m - 1) <=> l < m
      BY <1>4
    <3>3. \A l \in DOMAIN added : ~(l < m) => l = m
      BY <1>4
    <3>4. 1..(m - 1) \subseteq DOMAIN added
      BY <1>4
    <3> QED BY <1>11, <3>1, <3>2, <3>3, <3>4
  <2>2. DOMAIN nodes' \ {plan'} = DOMAIN nodes \cup {n + k : k \in 1..(m - 1)}
    <3>1. \A p \in DOMAIN nodes' \ {plan'} :
             p \in DOMAIN nodes \/ (p - n \in 1..(m - 1) /\ p = n + (p - n))
      BY <1>4, <1>9
    <3>2. \A k \in 1..(m - 1) : n + k \in DOMAIN nodes' \ {plan'}
      BY <1>4, <1>9
    <3>3. DOMAIN nodes \subseteq DOMAIN nodes' \ {plan'}
      BY <1>4, <1>8, <1>9
    <3> QED BY <3>1, <3>2, <3>3
  <2>3. \A k \in 1..(m - 1) : nodes'[n + k].state = Successor(i, added[k])
    BY <1>4, <1>5
  <2>4. visited' = {nodes'[p].state : p \in DOMAIN nodes}
                     \cup {Successor(i, added[k]) : k \in 1..(m - 1)}
    BY <1>5, <2>1
  <2>5. visited' = {nodes'[p].state : p \in DOMAIN nodes' \ {plan'}}
    BY <2>2, <2>3, <2>4
  <2> QED BY <1>5, <2>5 DEF NoStateTwice
<1>16. BreadthFirst'
  <2>1. \A k \in DOMAIN frontier : nodes'[frontier[k]] = nodes[frontier[k]]
    BY <1>4, <1>6 DEF TypeOK
  <2>2. DOMAIN frontier = {} \/ 1 \in DOMAIN frontier
    BY <1>6 DEF TypeOK
  <2> QED BY <1>2, <1>6, <2>1, <2>2 DEF BreadthFirst
<1> QED BY <1>12, <1>13, <1>14, <1>15, <1>16 DEF IInv

LEMMA EscapeIInv ==
  ASSUME IInv, Escape
  PROVE  IInv'
<1> DEFINE i == Head(frontier)
<1>1. PICK added \in Listings(Added(i)) :
        /\ added # <<>> /\ ~IsGoal(i, added[Len(added)])
        /\ Enlarge(i, added)
        /\ cur' = Len(nodes) + Len(added)
        /\ cur_h' = h[Successor(i, added[Len(added)])]
  BY DEF Escape, NewIndex, Height
<1>2. /\ expanded' = expanded + 1 /\ Expanding
      /\ pc' = "descend" /\ frontier' = <<>>
      /\ UNCHANGED <<task, h, late, plan, outcome>>
  BY DEF Escape
<1>3. /\ i \in DOMAIN nodes /\ plan = 0 /\ outcome = "running"
  BY <1>2, ExpandingFacts
<1> DEFINE n == Len(nodes)
           m == Len(added)
<1>4. /\ nodes' \in Seq(Node)
      /\ n \in Nat /\ m \in Nat /\ DOMAIN added = 1..m
      /\ DOMAIN nodes = 1..n /\ DOMAIN nodes' = 1..(n + m)
      /\ \A k \in DOMAIN added : Successor(i, added[k]) \in State
  BY <1>1, <1>3, EnlargeTypes
<1>5. /\ Grows(i, added)
      /\ \A p, q \in DOMAIN nodes' : nodes'[p].state = nodes'[q].state => p = q
      /\ \A k \in DOMAIN added : nodes'[n + k].state = Successor(i, added[k])
      /\ visited' = {nodes'[p].state : p \in DOMAIN nodes}
           \cup {Successor(i, added[k]) : k \in {l \in DOMAIN added : ~IsGoal(i, added[l])}}
      /\ visited' \subseteq State
      /\ visited' \cap Goal(task) = {}
  BY <1>1, <1>3, EnlargeFacts
<1>6. TypeOK /\ Phases
  BY DEF IInv
<1>7. /\ added \in Seq(Applicable(i))
      /\ \A k \in DOMAIN added : k < m => ~Ends(i, added[k])
  BY <1>1, <1>3, <1>6, AddedFacts DEF IInv
<1>8. m # 0
  BY <1>1, <1>7
<1>9. cur' = n + m /\ cur' \in DOMAIN nodes' /\ cur_h' = h[Successor(i, added[m])]
  BY <1>1, <1>4, <1>8
<1>10. m \in DOMAIN added /\ ~IsGoal(i, added[m])
  BY <1>1, <1>4, <1>8
<1> HIDE DEF i, n, m
<1>11. TypeOK'
  <2>1. cur_h' \in 0..MaxH
    BY <1>4, <1>6, <1>9, <1>10 DEF TypeOK
  <2>2. frontier' \in Seq(DOMAIN nodes')
    BY <1>2
  <2> QED BY <1>2, <1>3, <1>4, <1>5, <1>6, <1>9, <2>1, <2>2 DEF TypeOK
<1>12. Phases' /\ NoGoalVisited'
  BY <1>2, <1>3, <1>5, <1>9 DEF Phases, NoGoalVisited
<1>13. PlanIsExecutable'
  BY <1>2, <1>3, <1>5, <1>7, GrowthIsExecutable
<1>14. NoStateTwice'
  <2>1. {l \in DOMAIN added : ~IsGoal(i, added[l])} = DOMAIN added
    <3>1. \A l \in DOMAIN added : l < m => ~IsGoal(i, added[l])
      BY <1>7 DEF Ends
    <3>2. \A l \in DOMAIN added : ~(l < m) => l = m
      BY <1>4
    <3> QED BY <1>10, <3>1, <3>2
  <2>2. DOMAIN nodes' \ {plan'} = DOMAIN nodes \cup {n + k : k \in DOMAIN added}
    <3>1. \A p \in DOMAIN nodes' \ DOMAIN nodes : p - n \in DOMAIN added /\ p = n + (p - n)
      BY <1>4
    <3>2. \A k \in DOMAIN added : n + k \in DOMAIN nodes'
      BY <1>4
    <3>3. DOMAIN nodes \subseteq DOMAIN nodes' /\ plan' \notin DOMAIN nodes'
      BY <1>2, <1>3, <1>4
    <3> QED BY <3>1, <3>2, <3>3
  <2>3. visited' = {nodes'[p].state : p \in DOMAIN nodes}
                     \cup {Successor(i, added[k]) : k \in DOMAIN added}
    BY <1>5, <2>1
  <2>4. visited' = {nodes'[p].state : p \in DOMAIN nodes' \ {plan'}}
    BY <1>5, <2>2, <2>3
  <2> QED BY <1>5, <2>4 DEF NoStateTwice
<1>15. BreadthFirst'
  <2>1. cur_h' = h[nodes'[cur'].state]
    BY <1>5, <1>9, <1>10
  <2> QED BY <1>2, <2>1 DEF BreadthFirst
<1> QED BY <1>11, <1>12, <1>13, <1>14, <1>15 DEF IInv

-----------------------------------------------------------------------------
(* The theorems. *)

LEMMA NextIInv == IInv /\ [Next]_vars => IInv'
<1> SUFFICES ASSUME IInv, [Next]_vars PROVE IInv'
  OBVIOUS
<1>1. CASE DescendToGoal \/ Descend
  BY <1>1, DescendToGoalIInv, DescendIInv
<1>2. CASE Widen \/ EscapeToGoal \/ Escape
  BY <1>2, WidenIInv, EscapeToGoalIInv, EscapeIInv
<1>3. CASE Start
  BY <1>3, StartIInv
<1>4. CASE \/ AlreadyAtGoal \/ StopDescent \/ EnterPlateau \/ StopPlateau
           \/ PlateauExhausted \/ Expire \/ UNCHANGED vars
  BY <1>4, StillStepIInv
<1> QED BY <1>1, <1>2, <1>3, <1>4 DEF Next, Search, Descent, Plateau, Finished

LEMMA Invariance == Spec => []IInv
BY InitIInv, NextIInv, PTL DEF Spec

(***************************************************************************)
(* The plan returned is executable and reaches the goal, whatever the      *)
(* heuristic says: the arena is a tree of executable actions although both *)
(* phases add to it and an expansion of the plateau may stop half way      *)
(* (ehc::search, extract_plan).                                            *)
(***************************************************************************)
THEOREM PlansAreExecutable == Spec => []PlanIsExecutable
<1>1. IInv => PlanIsExecutable
  BY DEF IInv
<1> QED BY <1>1, Invariance, PTL

(***************************************************************************)
(* The two phases cannot cycle against each other: every state is met at   *)
(* most once, and the visited set is exactly that of the arena             *)
(* (ehc::search, the set `visited`).                                       *)
(***************************************************************************)
THEOREM StatesAreMetOnce == Spec => []NoStateTwice
<1>1. IInv => NoStateTwice
  BY DEF IInv
<1> QED BY <1>1, Invariance, PTL

(***************************************************************************)
(* The escape meets a nearest strictly better state first: its queue stays *)
(* in order of distance, spans two levels at most and holds nothing better *)
(* than the state the descent is stuck at (the frontier of ehc::search).   *)
(***************************************************************************)
THEOREM EscapeIsBreadthFirst == Spec => []BreadthFirst
<1>1. IInv => BreadthFirst
  BY DEF IInv
<1> QED BY <1>1, Invariance, PTL
=============================================================================
