------------------------------- MODULE AndOr -------------------------------
(***************************************************************************)
(* The AND-OR graph that the conditional searches of the planner explore.  *)
(*                                                                         *)
(* A node is a contracted epistemic state, identified by its fingerprint;  *)
(* what the model of a node contains plays no part here.  A task says, for *)
(* each node, which actions a search tries there, in the order in which it *)
(* tries them, and for each action the contracted states of its sensing    *)
(* outcomes, in the order in which product_update_split lists them.        *)
(***************************************************************************)
EXTENDS Naturals, Sequences, FiniteSets

CONSTANTS
  State,    \* the contracted states (one per fingerprint)
  Tasks,    \* names of the planning tasks explored
  Graph(_)  \* the AND-OR graph of each task, see IsGraph

(***************************************************************************)
(* A graph g.  g.actions[s] is the list of the applicable actions that     *)
(* symmetry keeps; an action is the list of the states its outcomes lead   *)
(* to, never empty, because an empty split drops the action.  g.dead are   *)
(* the states that the heuristic and h^Delta together report as dead ends. *)
(***************************************************************************)
IsGraph(g) ==
  /\ g.init \in State
  /\ g.goal \subseteq State
  /\ g.dead \subseteq State
  /\ g.actions \in [State -> Seq(Seq(State) \ {<<>>})]

Initial(t) == Graph(t).init
Goal(t) == Graph(t).goal
Actions(t, s) == Graph(t).actions[s]

-----------------------------------------------------------------------------
(***************************************************************************)
(* When a state has no policy.  A trap is a set of states, none of them a  *)
(* goal, that no action leaves for certain: one of its outcomes stays in   *)
(* the set.  IsTrap(t, U, S) allows the outcome to be in S as well: inside *)
(* U a policy can only make progress by way of S.                          *)
(***************************************************************************)
Keeps(t, s, U) ==
  \A a \in DOMAIN Actions(t, s) :
    \E j \in DOMAIN Actions(t, s)[a] : Actions(t, s)[a][j] \in U

IsTrap(t, U, S) == \A s \in U : s \notin Goal(t) /\ Keeps(t, s, U \cup S)

\* No policy that avoids the states of S solves s.
Blocked(t, s, S) == \E U \in SUBSET State : s \in U \cup S /\ IsTrap(t, U, S)

\* No policy solves s.
Doomed(t, s) == Blocked(t, s, {})

ASSUME TaskAssumption == \A t \in Tasks : IsGraph(Graph(t))
=============================================================================
