----------------------------- MODULE GBFSProofs -----------------------------
(***************************************************************************)
(* Proofs about GBFS for every set of states, every task without sensing,  *)
(* every heuristic, every choice of helpful actions and every limit.       *)
(***************************************************************************)
EXTENDS GBFS, SequenceTheorems, TLAPS

-----------------------------------------------------------------------------
(* Facts about tasks. *)

LEMMA ActionsType ==
  ASSUME NEW t \in Tasks, NEW s \in State
  PROVE  /\ Actions(t, s) \in Seq(Seq(State) \ {<<>>})
         /\ DOMAIN Actions(t, s) \subseteq Nat
BY TaskAssumption DEF IsGraph, Actions

LEMMA SuccessorType ==
  ASSUME task \in Tasks, NEW s \in State, NEW a \in DOMAIN Actions(task, s)
  PROVE  /\ Successor(s, a) \in State
         /\ DOMAIN Actions(task, s)[a] = {1}
         /\ a \in Nat
<1>1. Actions(task, s)[a] \in Seq(State) /\ Len(Actions(task, s)[a]) = 1
  BY ActionsType, LinearAssumption
<1>2. DOMAIN Actions(task, s)[a] = 1 .. 1
  BY <1>1
<1> QED BY <1>1, <1>2, ActionsType DEF Successor

LEMMA GraphType ==
  ASSUME task \in Tasks
  PROVE  Initial(task) \in State /\ Goal(task) \subseteq State
BY TaskAssumption DEF IsGraph, Initial, Goal

LEMMA NodeType ==
  ASSUME nodes \in Seq(Node), NEW i \in DOMAIN nodes
  PROVE  nodes[i].state \in State
<1>1. nodes[i] \in Node
  OBVIOUS
<1> QED BY <1>1 DEF Node

(***************************************************************************)
(* States that are no goals and whose actions all lead among them or to    *)
(* states without a plan have no plan themselves: together with the traps  *)
(* of those states they are a trap.                                        *)
(***************************************************************************)
LEMMA NothingLeftToTry ==
  ASSUME task \in Tasks, NEW C \in SUBSET State, C \cap Goal(task) = {},
         \A s \in C : \A a \in DOMAIN Actions(task, s) :
            Successor(s, a) \in C \/ Doomed(task, Successor(s, a))
  PROVE  \A s \in C : Doomed(task, s)
<1> DEFINE D == {s \in State : Doomed(task, s)}
           U == C \cup D
<1>1. ASSUME NEW s \in D
      PROVE  s \notin Goal(task) /\ Keeps(task, s, D)
  <2>1. PICK V \in SUBSET State : s \in V /\ IsTrap(task, V, {})
    BY DEF Doomed, Blocked
  <2>2. V \subseteq D
    BY <2>1 DEF Doomed, Blocked
  <2>3. s \notin Goal(task) /\ Keeps(task, s, V)
    BY <2>1 DEF IsTrap
  <2> QED BY <2>2, <2>3 DEF Keeps
<1>2. ASSUME NEW s \in C
      PROVE  Keeps(task, s, U)
  <2>1. SUFFICES ASSUME NEW a \in DOMAIN Actions(task, s)
                 PROVE  \E j \in DOMAIN Actions(task, s)[a] : Actions(task, s)[a][j] \in U
    BY DEF Keeps
  <2>2. 1 \in DOMAIN Actions(task, s)[a] /\ Successor(s, a) \in State
    BY SuccessorType
  <2>3. Successor(s, a) \in U
    BY <2>2
  <2> QED BY <2>2, <2>3 DEF Successor
<1>3. IsTrap(task, U, {})
  BY <1>1, <1>2 DEF IsTrap, Keeps
<1>4. U \in SUBSET State
  OBVIOUS
<1> HIDE DEF U
<1>5. \A s \in U : Doomed(task, s)
  BY <1>3, <1>4 DEF Doomed, Blocked
<1> QED BY <1>5 DEF U

-----------------------------------------------------------------------------
(* The inductive invariant. *)

Node1 == [state |-> Initial(task), parent |-> 0, action |-> 0]

\* What the phases of a search have in common.
Phases ==
  /\ pc \in {"start", "pop", "ended", "done"} => cur = 0 /\ cands = {} /\ ~parallel /\ succ = <<>>
  /\ pc = "start" => nodes = <<>> /\ open = {} /\ closed = {} /\ ~helpful /\ ~pruned
  /\ pc \in {"start", "pop", "build", "merge"} => outcome = "running"
  /\ pc \in {"pop", "build", "merge", "ended"} => nodes # <<>>
  /\ pc # "done" => plan = 0
  /\ plan # 0 => outcome = "solved"
  /\ pc = "ended" => outcome \in {"limit", "late", "helpful_exhausted", "no_solution"}

\* An expansion: a node that is no longer open, some of its actions, and what
\* was built for them.
Expansion ==
  /\ pc \in {"build", "merge"} =>
       /\ cur \in DOMAIN nodes /\ cur \notin open
       /\ cands \subseteq DOMAIN Actions(task, nodes[cur].state)
  /\ pc = "build" => parallel /\ DOMAIN succ \subseteq cands
  /\ pc = "merge" /\ parallel /\ ~late => cands \subseteq DOMAIN succ

\* What was built against an older closed set is still true, except that a new
\* state may have been met since.
BuiltRightly ==
  \A a \in DOMAIN succ :
    LET b == Successor(nodes[cur].state, a) IN
      /\ succ[a] = "goal" <=> b \in Goal(task)
      /\ succ[a] = "seen" => b \in closed
      /\ succ[a] = "dead" => b \in Graph(task).dead
      /\ succ[a] = "new" => b \notin Graph(task).dead

\* The actions that lead back into the arena, or to a state without a plan.
Hopeless(i, a) ==
  LET b == Successor(nodes[i].state, a) IN b \in closed \/ Doomed(task, b)

\* In a run that has left nothing out, expanded nodes lead nowhere else.
Explored ==
  pc \in {"pop", "build", "merge"} /\ (~helpful \/ ~pruned) =>
    \A i \in DOMAIN nodes \ open : \A a \in DOMAIN Actions(task, nodes[i].state) :
      (i = cur /\ a \in cands) \/ Hopeless(i, a)

\* What an end without a plan means.
Ending ==
  /\ closed \cap Goal(task) = {}
  /\ outcome = "no_solution" => Doomed(task, Initial(task))
  /\ outcome = "helpful_exhausted" => pruned /\ (helpful \/ Doomed(task, Initial(task)))
  /\ pc = "done" /\ outcome = "helpful_exhausted" /\ helpful => late

IInv ==
  /\ TypeOK
  /\ Phases
  /\ Expansion
  /\ BuiltRightly
  /\ Explored
  /\ Ending
  /\ PlanIsExecutable
  /\ NoStateTwice

-----------------------------------------------------------------------------
(* The properties follow from it. *)

LEMMA EndIsProof == IInv => ExhaustedIsProof
BY DEF IInv, Ending, ExhaustedIsProof

LEMMA MergeIsSerial == IInv => ParallelIsSerial
<1> SUFFICES ASSUME IInv, pc = "merge", parallel, ~late, NEW a \in cands
             PROVE  LET b == Successor(nodes[cur].state, a) IN
                      Effect(Built(a), b) = Effect(Build(a), b)
  BY DEF ParallelIsSerial
<1>1. a \in DOMAIN succ /\ succ[a] \in {"goal", "seen", "dead", "new"}
  BY DEF IInv, Expansion, TypeOK
<1>2. Built(a) = succ[a]
  BY <1>1 DEF Built
<1> QED BY <1>1, <1>2 DEF IInv, BuiltRightly, Effect, Build

-----------------------------------------------------------------------------
(* The invariant holds initially and is kept. *)

LEMMA InitIInv == Init => IInv
<1> SUFFICES ASSUME Init PROVE IInv
  OBVIOUS
<1>1. DOMAIN nodes = {} /\ DOMAIN succ = {}
  BY DEF Init
<1>2. TypeOK
  <2>1. nodes \in Seq(Node) /\ plan \in DOMAIN nodes \cup {0} /\ cur \in DOMAIN nodes \cup {0}
    BY DEF Init
  <2>2. open \subseteq DOMAIN nodes /\ closed \subseteq State /\ cands \subseteq Nat
    BY DEF Init
  <2> QED BY <1>1, <2>1, <2>2 DEF Init, TypeOK
<1>3. Phases /\ Expansion
  BY DEF Init, Phases, Expansion
<1>4. BuiltRightly /\ Explored /\ Ending
  BY <1>1 DEF Init, BuiltRightly, Explored, Ending
<1>5. PlanIsExecutable /\ NoStateTwice
  BY <1>1 DEF Init, PlanIsExecutable, NoStateTwice
<1> QED BY <1>2, <1>3, <1>4, <1>5 DEF IInv

(***************************************************************************)
(* A run begins with the initial state alone, whichever run it is.         *)
(***************************************************************************)
LEMMA BeginIInv ==
  ASSUME IInv, NEW w \in BOOLEAN, BeginRun(w), Initial(task) \notin Goal(task),
         pc \in {"start", "ended"}, outcome' = "running",
         UNCHANGED <<task, pruned, expansion, late, plan>>
  PROVE  IInv'
<1>1. /\ task \in Tasks /\ Initial(task) \in State /\ plan = 0
      /\ cur = 0 /\ cands = {} /\ ~parallel /\ succ = <<>>
  BY GraphType DEF IInv, TypeOK, Phases
<1>2. Node1 \in Node
  BY <1>1 DEF Node1, Node
<1>3. /\ nodes' = <<Node1>> /\ DOMAIN nodes' = {1} /\ nodes'[1] = Node1 /\ nodes' \in Seq(Node)
      /\ nodes' # <<>>
  BY <1>2 DEF BeginRun, Node1
<1>4. DOMAIN succ' = {} /\ cur' = 0 /\ cands' = {} /\ plan' = 0 /\ task' = task
  BY <1>1 DEF expansion
<1>5. TypeOK'
  BY <1>1, <1>3, <1>4 DEF BeginRun, IInv, TypeOK, expansion
<1>6. Phases'
  BY <1>1, <1>3, <1>4 DEF BeginRun, Phases, expansion
<1>7. Expansion' /\ BuiltRightly'
  BY <1>4 DEF BeginRun, Expansion, BuiltRightly
<1>8. Explored'
  BY <1>3 DEF BeginRun, Explored
<1>9. Ending'
  BY DEF BeginRun, Ending
<1>10. PlanIsExecutable'
  BY <1>3, <1>4 DEF PlanIsExecutable, Node1
<1>11. NoStateTwice'
  <2>1. closed' = {nodes'[i].state : i \in DOMAIN nodes' \ {plan'}}
    BY <1>3, <1>4 DEF BeginRun, Node1
  <2> QED BY <1>3, <1>4, <2>1 DEF BeginRun, NoStateTwice
<1> QED BY <1>5, <1>6, <1>7, <1>8, <1>9, <1>10, <1>11 DEF IInv

LEMMA StartIInv == IInv /\ Start => IInv'
<1> SUFFICES ASSUME IInv, Start PROVE IInv'
  OBVIOUS
<1>1. PICK w \in BOOLEAN : BeginRun(w)
  BY DEF Start
<1>2. pc = "start" /\ Initial(task) \notin Goal(task)
      /\ UNCHANGED <<task, pruned, expansion, late, plan, outcome>>
  BY DEF Start
<1>3. outcome' = "running"
  BY <1>2 DEF IInv, Phases
<1> QED BY <1>1, <1>2, <1>3, BeginIInv

LEMMA RetryIInv == IInv /\ Retry => IInv'
<1> SUFFICES ASSUME IInv, Retry PROVE IInv'
  OBVIOUS
<1>1. Initial(task) \notin Goal(task)
  <2>1. nodes # <<>> /\ plan = 0 /\ nodes \in Seq(Node)
    BY DEF IInv, Phases, TypeOK, Retry
  <2>2. 1 \in DOMAIN nodes
    BY <2>1
  <2>3. Initial(task) \in closed
    BY <2>1, <2>2 DEF IInv, PlanIsExecutable, NoStateTwice
  <2> QED BY <2>3 DEF IInv, Ending
<1> QED BY <1>1, BeginIInv DEF Retry

-----------------------------------------------------------------------------
(* Steps that leave the arena alone. *)

(***************************************************************************)
(* Such a step keeps what is known of the arena.                           *)
(***************************************************************************)
LEMMA ArenaKept ==
  ASSUME IInv, UNCHANGED <<task, nodes, closed, plan>>, cur' \notin open',
         outcome' = "solved" => outcome = "solved"
  PROVE  PlanIsExecutable' /\ NoStateTwice' /\ closed' \cap Goal(task') = {}
<1>1. PlanIsExecutable'
  BY DEF IInv, PlanIsExecutable, Successor
<1>2. NoStateTwice'
  BY DEF IInv, NoStateTwice
<1> QED BY <1>1, <1>2 DEF IInv, Ending

LEMMA AlreadyAtGoalIInv == IInv /\ AlreadyAtGoal => IInv'
<1> SUFFICES ASSUME IInv, AlreadyAtGoal PROVE IInv'
  OBVIOUS
<1>1. UNCHANGED <<task, helpful, pruned, nodes, open, closed, expanded, cur, cands, parallel,
                  succ, late, plan>> /\ pc = "start" /\ pc' = "done" /\ outcome' = "goal_at_init"
  BY DEF AlreadyAtGoal, arena, expansion
<1>2. TypeOK'
  BY <1>1 DEF IInv, TypeOK
<1>3. Phases' /\ Expansion'
  BY <1>1 DEF IInv, Phases, Expansion
<1>4. BuiltRightly' /\ Explored'
  BY <1>1 DEF IInv, BuiltRightly, Explored, Successor
<1>5. cur' \notin open'
  BY <1>1 DEF IInv, NoStateTwice
<1>6. PlanIsExecutable' /\ NoStateTwice' /\ closed' \cap Goal(task') = {}
  BY <1>1, <1>5, ArenaKept
<1> QED BY <1>1, <1>2, <1>3, <1>4, <1>6 DEF IInv, Ending

(***************************************************************************)
(* A run ends without a plan.                                              *)
(***************************************************************************)
LEMMA EndRunIInv ==
  ASSUME IInv, pc \in {"pop", "merge"}, NEW how, EndRun(how),
         \/ how \in {"limit", "late"}
         \/ how = "no_solution" /\ Doomed(task, Initial(task))
         \/ how = "helpful_exhausted" /\ pruned /\ (helpful \/ Doomed(task, Initial(task)))
  PROVE  IInv'
<1>1. /\ UNCHANGED <<task, helpful, pruned, nodes, open, closed, expanded, late, plan>>
      /\ pc' = "ended" /\ outcome' = how
      /\ cur' = 0 /\ cands' = {} /\ parallel' = FALSE /\ succ' = <<>>
  BY DEF EndRun, NoExpansion, arena
<1>2. DOMAIN succ' = {} /\ plan = 0 /\ 0 \notin open /\ nodes # <<>>
  BY <1>1 DEF IInv, Phases, TypeOK
<1>3. TypeOK'
  BY <1>1, <1>2 DEF IInv, TypeOK
<1>4. Phases' /\ Expansion'
  BY <1>1, <1>2 DEF Phases, Expansion
<1>5. BuiltRightly' /\ Explored'
  BY <1>1, <1>2 DEF BuiltRightly, Explored
<1>6. PlanIsExecutable' /\ NoStateTwice' /\ closed' \cap Goal(task') = {}
  BY <1>1, <1>2, ArenaKept
<1>7. Ending'
  BY <1>1, <1>6 DEF Ending
<1> QED BY <1>3, <1>4, <1>5, <1>6, <1>7 DEF IInv

(***************************************************************************)
(* When the heap is empty and nothing was left out, every action of every  *)
(* state met leads back to such states or to hopeless ones.                *)
(***************************************************************************)
LEMMA EmptyHeapIsProof ==
  ASSUME IInv, pc = "pop", open = {}, ~helpful \/ ~pruned
  PROVE  Doomed(task, Initial(task))
<1>1. task \in Tasks /\ nodes # <<>> /\ nodes \in Seq(Node) /\ plan = 0 /\ cur = 0
  BY DEF IInv, TypeOK, Phases
<1>2. closed \in SUBSET State /\ closed \cap Goal(task) = {}
  BY DEF IInv, TypeOK, Ending
<1>3. closed = {nodes[i].state : i \in DOMAIN nodes} /\ 0 \notin DOMAIN nodes
  BY <1>1 DEF IInv, NoStateTwice
<1>4. \A i \in DOMAIN nodes : \A a \in DOMAIN Actions(task, nodes[i].state) : Hopeless(i, a)
  BY <1>1, <1>3 DEF IInv, Explored
<1>5. \A s \in closed : \A a \in DOMAIN Actions(task, s) :
         Successor(s, a) \in closed \/ Doomed(task, Successor(s, a))
  BY <1>3, <1>4 DEF Hopeless
<1>6. Initial(task) \in closed
  <2>1. 1 \in DOMAIN nodes
    BY <1>1
  <2> QED BY <1>3, <2>1 DEF IInv, PlanIsExecutable
<1> QED BY <1>1, <1>2, <1>5, <1>6, NothingLeftToTry

LEMMA EndingIInv == IInv /\ (HitLimit \/ PopLate \/ Exhaust \/ MergeLate) => IInv'
<1>1. IInv /\ (HitLimit \/ PopLate \/ MergeLate) => IInv'
  BY EndRunIInv DEF HitLimit, PopLate, MergeLate
<1>2. ASSUME IInv, Exhaust PROVE IInv'
  <2>1. pc = "pop" /\ open = {} /\ EndRun(IF pruned THEN "helpful_exhausted" ELSE "no_solution")
    BY <1>2 DEF Exhaust
  <2>2. ~helpful \/ ~pruned => Doomed(task, Initial(task))
    BY <1>2, <2>1, EmptyHeapIsProof
  <2> QED BY <1>2, <2>1, <2>2, EndRunIInv
<1> QED BY <1>1, <1>2

LEMMA GiveUpIInv == IInv /\ GiveUp => IInv'
<1> SUFFICES ASSUME IInv, GiveUp PROVE IInv'
  OBVIOUS
<1>1. /\ UNCHANGED <<task, helpful, pruned, nodes, open, closed, expanded, cur, cands, parallel,
                     succ, late, plan, outcome>>
      /\ pc = "ended" /\ pc' = "done" /\ (~RetryInFull \/ ~helpful)
  BY DEF GiveUp, arena, expansion
<1>2. TypeOK'
  BY <1>1 DEF IInv, TypeOK
<1>3. Phases' /\ Expansion'
  BY <1>1 DEF IInv, Phases, Expansion
<1>4. BuiltRightly' /\ Explored'
  BY <1>1 DEF IInv, BuiltRightly, Explored, Successor
<1>5. cur' \notin open'
  BY <1>1 DEF IInv, NoStateTwice
<1>6. PlanIsExecutable' /\ NoStateTwice' /\ closed' \cap Goal(task') = {}
  BY <1>1, <1>5, ArenaKept
<1>7. Ending'
  BY <1>1, <1>6 DEF IInv, Ending, RetryInFull
<1> QED BY <1>2, <1>3, <1>4, <1>6, <1>7 DEF IInv

LEMMA ExpireIInv == IInv /\ (Expire \/ UNCHANGED vars) => IInv'
<1> SUFFICES ASSUME IInv, Expire \/ UNCHANGED vars PROVE IInv'
  OBVIOUS
<1>1. /\ UNCHANGED <<task, pc, helpful, pruned, nodes, open, closed, expanded, cur, cands,
                     parallel, succ, plan, outcome>>
      /\ late' \in BOOLEAN /\ (late => late') /\ (pc = "done" => late' = late)
  BY DEF Expire, vars, arena, expansion, IInv, TypeOK
<1>2. TypeOK'
  BY <1>1 DEF IInv, TypeOK
<1>3. Phases' /\ Expansion'
  BY <1>1 DEF IInv, Phases, Expansion
<1>4. BuiltRightly' /\ Explored'
  BY <1>1 DEF IInv, BuiltRightly, Explored, Hopeless, Successor
<1>5. cur' \notin open'
  BY <1>1 DEF IInv, NoStateTwice
<1>6. PlanIsExecutable' /\ NoStateTwice' /\ closed' \cap Goal(task') = {}
  BY <1>1, <1>5, ArenaKept
<1>7. Ending'
  BY <1>1, <1>6 DEF IInv, Ending
<1> QED BY <1>2, <1>3, <1>4, <1>6, <1>7 DEF IInv

-----------------------------------------------------------------------------
(* Steps of an expansion. *)

LEMMA PopIInv == IInv /\ Pop => IInv'
<1> SUFFICES ASSUME IInv, Pop PROVE IInv'
  OBVIOUS
<1>1. PICK i \in open : \E kept \in Kept(DOMAIN Actions(task, nodes[i].state)) :
         /\ open' = open \ {i}
         /\ cur' = i
         /\ cands' = kept
         /\ pruned' = (pruned \/ kept # DOMAIN Actions(task, nodes[i].state))
  BY DEF Pop
<1> DEFINE all == DOMAIN Actions(task, nodes[i].state)
<1>2. /\ UNCHANGED <<task, helpful, nodes, closed, late, plan, outcome>>
      /\ expanded' = expanded + 1
      /\ pc = "pop" /\ pc' = IF parallel' THEN "build" ELSE "merge"
      /\ parallel' \in BOOLEAN /\ succ' = <<>>
      /\ open' = open \ {i} /\ cur' = i
  BY <1>1 DEF Pop
<1>3. /\ cands' \subseteq all /\ pruned' \in BOOLEAN
      /\ pruned' = (pruned \/ cands' # all)
      /\ ~helpful \/ ~pruned' => cands' = all
      /\ pruned => pruned'
  BY <1>1 DEF Kept, IInv, TypeOK
<1>4. /\ task \in Tasks /\ i \in DOMAIN nodes /\ nodes \in Seq(Node) /\ all \subseteq Nat
      /\ DOMAIN succ' = {}
  <2>1. task \in Tasks /\ i \in DOMAIN nodes /\ nodes \in Seq(Node)
    BY DEF IInv, TypeOK
  <2>2. nodes[i].state \in State
    BY <2>1, NodeType
  <2> QED BY <1>2, <2>1, <2>2, ActionsType
<1> HIDE DEF all
<1>5. TypeOK'
  BY <1>2, <1>3, <1>4 DEF IInv, TypeOK
<1>6. Phases'
  BY <1>2 DEF IInv, Phases
<1>7. Expansion'
  <2>1. cands' \subseteq DOMAIN Actions(task, nodes[i].state)
    BY <1>3 DEF all
  <2> QED BY <1>2, <1>4, <2>1 DEF Expansion
<1>8. BuiltRightly'
  BY <1>4 DEF BuiltRightly
<1>9. Explored'
  <2> SUFFICES ASSUME ~helpful \/ ~pruned', NEW j \in DOMAIN nodes \ open',
                      NEW a \in DOMAIN Actions(task, nodes[j].state)
               PROVE  (j = i /\ a \in cands') \/ Hopeless(j, a)
    BY <1>2 DEF Explored, Hopeless, Successor
  <2>1. CASE j = i
    BY <1>3, <2>1 DEF all
  <2>2. CASE j # i
    <3>1. j \in DOMAIN nodes \ open /\ cands = {} /\ (~helpful \/ ~pruned)
      BY <1>2, <1>3, <2>2 DEF IInv, Phases
    <3> QED BY <1>2, <3>1 DEF IInv, Explored
  <2> QED BY <2>1, <2>2
<1>10. cur' \notin open'
  BY <1>2
<1>11. PlanIsExecutable' /\ NoStateTwice' /\ closed' \cap Goal(task') = {}
  BY <1>2, <1>10, ArenaKept
<1>12. Ending'
  BY <1>2, <1>3, <1>11 DEF IInv, Ending
<1> QED BY <1>5, <1>6, <1>7, <1>8, <1>9, <1>11, <1>12 DEF IInv

LEMMA BuildOneIInv == ASSUME IInv, NEW a \in cands, BuildOne(a) PROVE IInv'
<1>1. /\ UNCHANGED <<task, pc, helpful, pruned, nodes, open, closed, expanded, cur, cands, parallel,
                     late, plan, outcome>>
      /\ pc = "build" /\ a \notin DOMAIN succ
  BY DEF BuildOne, arena
<1>2. succ' = [b \in DOMAIN succ \cup {a} |-> IF b = a THEN Build(a) ELSE succ[b]]
  BY DEF BuildOne
<1>3. /\ DOMAIN succ' = DOMAIN succ \cup {a}
      /\ succ'[a] = Build(a)
      /\ \A b \in DOMAIN succ : succ'[b] = succ[b]
  BY <1>1, <1>2
<1>4. Build(a) \in {"goal", "seen", "dead", "new"}
  BY DEF Build
<1>5. TypeOK'
  <2>1. DOMAIN succ' \subseteq Nat
    BY <1>3 DEF IInv, TypeOK
  <2>2. \A b \in DOMAIN succ' : succ'[b] \in {"goal", "seen", "dead", "new"}
    BY <1>3, <1>4 DEF IInv, TypeOK
  <2> QED BY <1>1, <2>1, <2>2 DEF IInv, TypeOK
<1>6. Phases'
  BY <1>1 DEF IInv, Phases
<1>7. Expansion'
  BY <1>1, <1>3 DEF IInv, Expansion
<1>8. BuiltRightly'
  <2> SUFFICES ASSUME NEW b \in DOMAIN succ'
               PROVE  LET c == Successor(nodes[cur].state, b) IN
                        /\ succ'[b] = "goal" <=> c \in Goal(task)
                        /\ succ'[b] = "seen" => c \in closed
                        /\ succ'[b] = "dead" => c \in Graph(task).dead
                        /\ succ'[b] = "new" => c \notin Graph(task).dead
    BY <1>1 DEF BuiltRightly, Successor
  <2>1. CASE b = a
    BY <1>3, <2>1 DEF Build
  <2>2. CASE b # a
    BY <1>3, <2>2 DEF IInv, BuiltRightly
  <2> QED BY <2>1, <2>2
<1>9. Explored'
  BY <1>1 DEF IInv, Explored, Hopeless, Successor
<1>10. PlanIsExecutable' /\ NoStateTwice' /\ closed' \cap Goal(task') = {}
  BY <1>1, ArenaKept DEF IInv, NoStateTwice
<1>11. Ending'
  BY <1>1, <1>10 DEF IInv, Ending
<1> QED BY <1>5, <1>6, <1>7, <1>8, <1>9, <1>10, <1>11 DEF IInv

LEMMA BuildEndsIInv == IInv /\ BuildEnds => IInv'
<1> SUFFICES ASSUME IInv, BuildEnds PROVE IInv'
  OBVIOUS
<1>1. /\ UNCHANGED <<task, helpful, pruned, nodes, open, closed, expanded, cur, cands, parallel,
                     succ, late, plan, outcome>>
      /\ pc = "build" /\ pc' = "merge" /\ (DOMAIN succ = cands \/ late)
  BY DEF BuildEnds, AllBuilt, arena, expansion
<1>2. TypeOK'
  BY <1>1 DEF IInv, TypeOK
<1>3. Phases' /\ Expansion'
  BY <1>1 DEF IInv, Phases, Expansion
<1>4. BuiltRightly' /\ Explored'
  BY <1>1 DEF IInv, BuiltRightly, Explored, Hopeless, Successor
<1>5. PlanIsExecutable' /\ NoStateTwice' /\ closed' \cap Goal(task') = {}
  BY <1>1, ArenaKept DEF IInv, NoStateTwice
<1>6. Ending'
  BY <1>1, <1>5 DEF IInv, Ending
<1> QED BY <1>2, <1>3, <1>4, <1>5, <1>6 DEF IInv

LEMMA FinishExpansionIInv == IInv /\ FinishExpansion => IInv'
<1> SUFFICES ASSUME IInv, FinishExpansion PROVE IInv'
  OBVIOUS
<1>1. /\ UNCHANGED <<task, helpful, pruned, nodes, open, closed, expanded, late, plan, outcome>>
      /\ pc = "merge" /\ pc' = "pop" /\ cands = {}
      /\ cur' = 0 /\ cands' = {} /\ parallel' = FALSE /\ succ' = <<>>
  BY DEF FinishExpansion, NoExpansion, arena
<1>2. DOMAIN succ' = {} /\ 0 \notin open
  BY <1>1 DEF IInv, TypeOK
<1>3. TypeOK'
  BY <1>1, <1>2 DEF IInv, TypeOK
<1>4. Phases' /\ Expansion'
  BY <1>1, <1>2 DEF IInv, Phases, Expansion
<1>5. BuiltRightly' /\ Explored'
  BY <1>1, <1>2 DEF IInv, BuiltRightly, Explored, Hopeless, Successor
<1>6. PlanIsExecutable' /\ NoStateTwice' /\ closed' \cap Goal(task') = {}
  BY <1>1, <1>2, ArenaKept
<1>7. Ending'
  BY <1>1, <1>6 DEF IInv, Ending
<1> QED BY <1>3, <1>4, <1>5, <1>6, <1>7 DEF IInv

-----------------------------------------------------------------------------
(* Steps of the merge. *)

(***************************************************************************)
(* What is merged is right, whether it was built now or in parallel.       *)
(***************************************************************************)
LEMMA MergedIsRight ==
  ASSUME IInv, NEW a \in cands, Merging(a)
  PROVE  LET b == Successor(nodes[cur].state, a) IN
           /\ Built(a) = "goal" <=> b \in Goal(task)
           /\ Built(a) \in {"seen", "new", "dead", "goal"}
           /\ Built(a) = "seen" => b \in closed
           /\ Built(a) = "dead" => Doomed(task, b)
<1>1. pc = "merge" /\ ~late /\ task \in Tasks
  BY DEF Merging, MergeStops, IInv, TypeOK
<1>2. CASE ~parallel
  BY <1>1, <1>2, PruningAssumption DEF Built, Build
<1>3. CASE parallel
  <2>1. a \in DOMAIN succ
    BY <1>1, <1>3 DEF IInv, Expansion
  <2>2. Built(a) = succ[a] /\ succ[a] \in {"goal", "seen", "dead", "new"}
    BY <1>3, <2>1 DEF Built, IInv, TypeOK
  <2> QED BY <1>1, <2>1, <2>2, PruningAssumption DEF IInv, BuiltRightly
<1> QED BY <1>2, <1>3 DEF IInv, TypeOK

(***************************************************************************)
(* An added node is a node of the plan it would end, and it is a new one.  *)
(***************************************************************************)
LEMMA AddedNode ==
  ASSUME IInv, NEW a \in cands, pc = "merge", AddNode(a), UNCHANGED task
  PROVE  /\ nodes' \in Seq(Node) /\ nodes' # <<>>
         /\ DOMAIN nodes' = DOMAIN nodes \cup {NewIndex} /\ NewIndex \notin DOMAIN nodes
         /\ NewIndex \in Nat \ {0}
         /\ \A i \in DOMAIN nodes : nodes'[i] = nodes[i]
         /\ nodes'[NewIndex].state = Successor(nodes[cur].state, a)
         /\ cur \in DOMAIN nodes
         /\ Successor(nodes[cur].state, a) \in State
         /\ \A i \in DOMAIN nodes' :
              IF i = 1 THEN nodes'[1].state = Initial(task) /\ nodes'[1].parent = 0
              ELSE /\ nodes'[i].parent \in 1..(i - 1)
                   /\ LET p == nodes'[nodes'[i].parent].state IN
                        /\ nodes'[i].action \in DOMAIN Actions(task, p)
                        /\ nodes'[i].state = Successor(p, nodes'[i].action)
<1> DEFINE s == nodes[cur].state
           n == [state |-> Successor(s, a), parent |-> cur, action |-> a]
<1>1. task \in Tasks /\ nodes \in Seq(Node) /\ cur \in DOMAIN nodes /\ nodes # <<>>
      /\ a \in DOMAIN Actions(task, s)
  BY DEF IInv, TypeOK, Phases, Expansion
<1>2. s \in State
  BY <1>1, NodeType
<1>3. Successor(s, a) \in State /\ a \in Nat
  BY <1>1, <1>2, SuccessorType
<1>4. cur \in 1 .. Len(nodes) /\ cur \in Nat /\ Len(nodes) \in Nat /\ Len(nodes) > 0
  BY <1>1
<1>5. n \in Node /\ n.state = Successor(s, a) /\ n.parent = cur /\ n.action = a
  BY <1>3, <1>4 DEF Node
<1>6. nodes' = Append(nodes, n)
  BY DEF AddNode
<1> HIDE DEF n
<1>7. /\ nodes' \in Seq(Node) /\ Len(nodes') = Len(nodes) + 1
      /\ nodes'[Len(nodes) + 1] = n
      /\ \A i \in 1 .. Len(nodes) : nodes'[i] = nodes[i]
  BY <1>1, <1>5, <1>6
<1>8. /\ DOMAIN nodes = 1 .. Len(nodes) /\ DOMAIN nodes' = 1 .. (Len(nodes) + 1)
  BY <1>1, <1>7
<1>9. /\ DOMAIN nodes' = DOMAIN nodes \cup {NewIndex} /\ NewIndex \notin DOMAIN nodes
      /\ NewIndex \in Nat \ {0} /\ NewIndex # 1 /\ nodes'[NewIndex] = n
      /\ \A i \in DOMAIN nodes : nodes'[i] = nodes[i]
  BY <1>4, <1>7, <1>8 DEF NewIndex
<1>10. ASSUME NEW i \in DOMAIN nodes'
       PROVE  IF i = 1 THEN nodes'[1].state = Initial(task) /\ nodes'[1].parent = 0
              ELSE /\ nodes'[i].parent \in 1..(i - 1)
                   /\ LET p == nodes'[nodes'[i].parent].state IN
                        /\ nodes'[i].action \in DOMAIN Actions(task, p)
                        /\ nodes'[i].state = Successor(p, nodes'[i].action)
  <2>1. CASE i = NewIndex
    <3>1. nodes'[i].parent = cur /\ nodes'[cur] = nodes[cur]
      BY <1>1, <1>5, <1>9, <2>1
    <3>2. cur \in 1 .. (i - 1)
      BY <1>4, <2>1 DEF NewIndex
    <3> QED BY <1>1, <1>5, <1>9, <2>1, <3>1, <3>2
  <2>2. CASE i \in DOMAIN nodes
    <3>1. nodes'[i] = nodes[i]
      BY <1>9, <2>2
    <3>2. CASE i = 1
      BY <2>2, <3>1, <3>2 DEF IInv, PlanIsExecutable
    <3>3. CASE i # 1
      <4>1. /\ nodes[i].parent \in 1..(i - 1)
            /\ LET p == nodes[nodes[i].parent].state IN
                 /\ nodes[i].action \in DOMAIN Actions(task, p)
                 /\ nodes[i].state = Successor(p, nodes[i].action)
        BY <2>2, <3>3 DEF IInv, PlanIsExecutable
      <4>2. nodes[i].parent \in 1 .. Len(nodes) /\ i \in Nat
        BY <1>8, <2>2, <4>1
      <4>3. nodes'[nodes[i].parent] = nodes[nodes[i].parent]
        BY <1>7, <4>2
      <4> QED BY <3>1, <3>3, <4>1, <4>3
    <3> QED BY <3>2, <3>3
  <2> QED BY <1>9, <2>1, <2>2
<1>11. nodes' # <<>>
  BY <1>7, <1>4
<1> QED BY <1>1, <1>3, <1>5, <1>7, <1>9, <1>10, <1>11

LEMMA ReachGoalIInv == ASSUME IInv, NEW a \in cands, ReachGoal(a) PROVE IInv'
<1> DEFINE b == Successor(nodes[cur].state, a)
<1>1. /\ UNCHANGED <<task, helpful, pruned, open, closed, expanded, late>>
      /\ pc = "merge" /\ pc' = "done" /\ outcome' = "solved" /\ plan' = NewIndex
      /\ cur' = 0 /\ cands' = {} /\ parallel' = FALSE /\ succ' = <<>>
      /\ AddNode(a) /\ Merging(a) /\ Built(a) = "goal"
  BY DEF ReachGoal, NoExpansion, Merging
<1>2. b \in Goal(task) /\ b \notin closed
  BY <1>1, MergedIsRight DEF IInv, Ending
<1> HIDE DEF b
<1>3. /\ nodes' \in Seq(Node) /\ nodes' # <<>>
      /\ DOMAIN nodes' = DOMAIN nodes \cup {NewIndex} /\ NewIndex \notin DOMAIN nodes
      /\ NewIndex \in Nat \ {0}
      /\ \A i \in DOMAIN nodes : nodes'[i] = nodes[i]
      /\ nodes'[NewIndex].state = b
  BY <1>1, AddedNode DEF b
<1>4. DOMAIN succ' = {} /\ 0 \notin open
  BY <1>1 DEF IInv, TypeOK
<1>5. TypeOK'
  <2>1. open' \subseteq DOMAIN nodes' /\ plan' \in DOMAIN nodes'
    BY <1>1, <1>3 DEF IInv, TypeOK
  <2> QED BY <1>1, <1>3, <1>4, <2>1 DEF IInv, TypeOK
<1>6. Phases' /\ Expansion'
  BY <1>1, <1>4 DEF Phases, Expansion
<1>7. BuiltRightly' /\ Explored'
  BY <1>1, <1>4 DEF BuiltRightly, Explored
<1>8. Ending'
  BY <1>1 DEF IInv, Ending
<1>9. PlanIsExecutable'
  <2>1. nodes'[plan'].state \in Goal(task') /\ plan' \in DOMAIN nodes'
    BY <1>1, <1>2, <1>3
  <2>2. \A i \in DOMAIN nodes' :
          IF i = 1 THEN nodes'[1].state = Initial(task) /\ nodes'[1].parent = 0
          ELSE /\ nodes'[i].parent \in 1..(i - 1)
               /\ LET p == nodes'[nodes'[i].parent].state IN
                    /\ nodes'[i].action \in DOMAIN Actions(task, p)
                    /\ nodes'[i].state = Successor(p, nodes'[i].action)
    BY <1>1, AddedNode
  <2> QED BY <1>1, <2>1, <2>2 DEF PlanIsExecutable, Successor
<1>10. NoStateTwice'
  <2>1. plan = 0 /\ 0 \notin DOMAIN nodes
    BY <1>1 DEF IInv, Phases, TypeOK
  <2>2. closed = {nodes[i].state : i \in DOMAIN nodes}
    BY <2>1 DEF IInv, NoStateTwice
  <2>3. closed' = {nodes'[i].state : i \in DOMAIN nodes' \ {plan'}}
    <3>1. DOMAIN nodes' \ {plan'} = DOMAIN nodes
      BY <1>1, <1>3
    <3>2. {nodes'[i].state : i \in DOMAIN nodes} = {nodes[i].state : i \in DOMAIN nodes}
      BY <1>3
    <3>3. closed' = closed
      BY <1>1
    <3> QED BY <2>2, <3>1, <3>2, <3>3
  <2>4. \A i, j \in DOMAIN nodes' : nodes'[i].state = nodes'[j].state => i = j
    <3>1. \A i \in DOMAIN nodes : nodes'[i].state # b
      BY <1>2, <1>3, <2>2
    <3>2. \A i, j \in DOMAIN nodes : nodes'[i].state = nodes'[j].state => i = j
      BY <1>3 DEF IInv, NoStateTwice
    <3> QED BY <1>3, <3>1, <3>2
  <2> QED BY <1>1, <1>4, <2>3, <2>4 DEF NoStateTwice
<1> QED BY <1>5, <1>6, <1>7, <1>8, <1>9, <1>10 DEF IInv

LEMMA DropIInv == ASSUME IInv, NEW a \in cands, Drop(a) PROVE IInv'
<1> DEFINE b == Successor(nodes[cur].state, a)
<1>1. /\ UNCHANGED <<task, pc, helpful, pruned, nodes, open, closed, expanded, cur, parallel, succ,
                     late, plan, outcome>>
      /\ pc = "merge" /\ Merging(a) /\ Built(a) # "goal" /\ ~Fresh(a)
      /\ cands' = cands \ {a}
  BY DEF Drop, Merging, arena
<1>2. Hopeless(cur, a)
  BY <1>1, MergedIsRight DEF Fresh, Hopeless
<1>3. TypeOK'
  BY <1>1 DEF IInv, TypeOK
<1>4. Phases' /\ Expansion'
  BY <1>1 DEF IInv, Phases, Expansion
<1>5. BuiltRightly'
  BY <1>1 DEF IInv, BuiltRightly, Successor
<1>6. Explored'
  <2> SUFFICES ASSUME ~helpful \/ ~pruned, NEW i \in DOMAIN nodes \ open,
                      NEW c \in DOMAIN Actions(task, nodes[i].state)
               PROVE  (i = cur /\ c \in cands \ {a}) \/ Hopeless(i, c)
    BY <1>1 DEF Explored, Hopeless, Successor
  <2>1. (i = cur /\ c \in cands) \/ Hopeless(i, c)
    BY <1>1 DEF IInv, Explored
  <2> QED BY <1>2, <2>1
<1>7. PlanIsExecutable' /\ NoStateTwice' /\ closed' \cap Goal(task') = {}
  BY <1>1, ArenaKept DEF IInv, NoStateTwice
<1>8. Ending'
  BY <1>1, <1>7 DEF IInv, Ending
<1> QED BY <1>3, <1>4, <1>5, <1>6, <1>7, <1>8 DEF IInv

LEMMA InsertIInv == ASSUME IInv, NEW a \in cands, Insert(a) PROVE IInv'
<1> DEFINE b == Successor(nodes[cur].state, a)
<1>1. /\ UNCHANGED <<task, pc, helpful, pruned, expanded, cur, parallel, succ, late, plan, outcome>>
      /\ pc = "merge" /\ Merging(a) /\ AddNode(a)
      /\ closed' = closed \cup {b} /\ open' = open \cup {NewIndex} /\ cands' = cands \ {a}
      /\ Built(a) # "goal" /\ b \notin closed
  BY DEF Insert, Merging, Fresh
<1>2. b \notin Goal(task)
  BY <1>1, MergedIsRight
<1>3. /\ nodes' \in Seq(Node) /\ nodes' # <<>>
      /\ DOMAIN nodes' = DOMAIN nodes \cup {NewIndex} /\ NewIndex \notin DOMAIN nodes
      /\ NewIndex \in Nat \ {0}
      /\ \A i \in DOMAIN nodes : nodes'[i] = nodes[i]
      /\ nodes'[NewIndex].state = b /\ b \in State
      /\ cur \in DOMAIN nodes
  BY <1>1, AddedNode
<1>4. nodes'[cur] = nodes[cur] /\ cur # NewIndex
  BY <1>3
<1>5. \A i \in DOMAIN nodes : \A c : Hopeless(i, c) => Hopeless(i, c)'
  BY <1>1, <1>3 DEF Hopeless, Successor
<1>6. \A i : i = cur => Hopeless(i, a)'
  BY <1>1, <1>4 DEF Hopeless, Successor
<1> HIDE DEF b
<1>7. TypeOK'
  <2>1. open' \subseteq DOMAIN nodes' /\ closed' \subseteq State /\ plan' \in DOMAIN nodes' \cup {0}
        /\ cur' \in DOMAIN nodes' \cup {0}
    BY <1>1, <1>3 DEF IInv, TypeOK
  <2> QED BY <1>1, <1>3, <2>1 DEF IInv, TypeOK
<1>8. Phases'
  BY <1>1, <1>3 DEF IInv, Phases
<1>9. Expansion'
  BY <1>1, <1>3, <1>4 DEF IInv, Expansion
<1>10. BuiltRightly'
  BY <1>1, <1>4 DEF IInv, BuiltRightly, Successor
<1>11. Explored'
  <2> SUFFICES ASSUME ~helpful \/ ~pruned, NEW i \in DOMAIN nodes' \ open',
                      NEW c \in DOMAIN Actions(task, nodes'[i].state)
               PROVE  (i = cur /\ c \in cands \ {a}) \/ Hopeless(i, c)'
    BY <1>1 DEF Explored
  <2>1. i \in DOMAIN nodes \ open /\ nodes'[i] = nodes[i]
    BY <1>1, <1>3
  <2>2. (i = cur /\ c \in cands) \/ Hopeless(i, c)
    BY <1>1, <2>1 DEF IInv, Explored
  <2> QED BY <1>5, <1>6, <2>1, <2>2
<1>12. Ending'
  BY <1>1, <1>2 DEF IInv, Ending
<1>13. PlanIsExecutable'
  <2>1. \A i \in DOMAIN nodes' :
          IF i = 1 THEN nodes'[1].state = Initial(task) /\ nodes'[1].parent = 0
          ELSE /\ nodes'[i].parent \in 1..(i - 1)
               /\ LET p == nodes'[nodes'[i].parent].state IN
                    /\ nodes'[i].action \in DOMAIN Actions(task, p)
                    /\ nodes'[i].state = Successor(p, nodes'[i].action)
    BY <1>1, AddedNode
  <2>2. outcome' # "solved"
    BY <1>1 DEF IInv, Phases
  <2> QED BY <1>1, <2>1, <2>2 DEF PlanIsExecutable, Successor
<1>14. NoStateTwice'
  <2>1. plan = 0 /\ 0 \notin DOMAIN nodes
    BY <1>1 DEF IInv, Phases, TypeOK
  <2>2. closed = {nodes[i].state : i \in DOMAIN nodes}
    BY <2>1 DEF IInv, NoStateTwice
  <2>3. closed' = {nodes'[i].state : i \in DOMAIN nodes' \ {plan'}}
    BY <1>1, <1>3, <2>1, <2>2
  <2>4. \A i, j \in DOMAIN nodes' : nodes'[i].state = nodes'[j].state => i = j
    BY <1>1, <1>3, <2>2 DEF IInv, NoStateTwice
  <2> QED BY <1>1, <1>4, <2>3, <2>4 DEF IInv, NoStateTwice
<1> QED BY <1>7, <1>8, <1>9, <1>10, <1>11, <1>12, <1>13, <1>14 DEF IInv

-----------------------------------------------------------------------------
(* The theorems. *)

LEMMA NextIInv == IInv /\ [Next]_vars => IInv'
<1> SUFFICES ASSUME IInv, [Next]_vars PROVE IInv'
  OBVIOUS
<1>1. CASE \E a \in cands : BuildOne(a) \/ ReachGoal(a) \/ Drop(a) \/ Insert(a)
  BY <1>1, BuildOneIInv, ReachGoalIInv, DropIInv, InsertIInv
<1>2. CASE HitLimit \/ PopLate \/ Exhaust \/ MergeLate
  BY <1>2, EndingIInv
<1>3. CASE Pop \/ BuildEnds \/ FinishExpansion
  BY <1>3, PopIInv, BuildEndsIInv, FinishExpansionIInv
<1>4. CASE AlreadyAtGoal \/ Start \/ Retry \/ GiveUp
  BY <1>4, AlreadyAtGoalIInv, StartIInv, RetryIInv, GiveUpIInv
<1>5. CASE Expire \/ UNCHANGED vars
  BY <1>5, ExpireIInv
<1> QED BY <1>1, <1>2, <1>3, <1>4, <1>5 DEF Next, Search, Run, Finished

LEMMA Invariance == Spec => []IInv
BY InitIInv, NextIInv, PTL DEF Spec

(***************************************************************************)
(* The plan returned is executable and reaches the goal, whatever the      *)
(* heuristic picks and however many threads build the successors: the      *)
(* parents of the arena lead back to the initial state (gbfs::search,      *)
(* extract_plan).                                                          *)
(***************************************************************************)
THEOREM PlansAreExecutable == Spec => []PlanIsExecutable
<1>1. IInv => PlanIsExecutable
  BY DEF IInv
<1> QED BY <1>1, Invariance, PTL

(***************************************************************************)
(* Duplicate detection is exact although siblings are built against the    *)
(* closed set of the moment the expansion began (build_successor and the   *)
(* merge of search.cpp, which asks again).                                 *)
(***************************************************************************)
THEOREM DuplicatesAreDetected == Spec => []NoStateTwice
<1>1. IInv => NoStateTwice
  BY DEF IInv
<1> QED BY <1>1, Invariance, PTL

(***************************************************************************)
(* An exhausted search is a proof that there is no plan, also after a run  *)
(* restricted to helpful actions, unless the limit or the deadline ended   *)
(* it: only actions into known or doomed states were ever left aside.      *)
(***************************************************************************)
THEOREM ExhaustionIsProof == Spec => []ExhaustedIsProof
BY EndIsProof, Invariance, PTL

(***************************************************************************)
(* What is built in parallel is merged as if it were built serially, so    *)
(* the search does not depend on the number of threads.                    *)
(***************************************************************************)
THEOREM MergingIsSerial == Spec => []ParallelIsSerial
BY MergeIsSerial, Invariance, PTL
=============================================================================
