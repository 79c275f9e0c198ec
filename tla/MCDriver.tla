------------------------------ MODULE MCDriver ------------------------------
(***************************************************************************)
(* Policy files, good and bad, and tasks whose features lie on both sides  *)
(* of the thresholds of the built-in policy.                               *)
(***************************************************************************)
EXTENDS Driver, TLC

\* A rule to which the file gives an empty name.
Unnamed(outcome, when) == [Rule(outcome, when) EXCEPT !.named = FALSE]

Strategy(rules) == [strategy |-> rules]
Heuristic(rules) == [heuristic |-> rules]

MCPolicyFiles ==
  { Strategy(<<Rule("gbfs", {})>>),
    Strategy(<<Rule("aostar", {<<"worlds", "<=", 8>>, <<"kd45", "!=", 1>>}),
               Rule("portfolio", {<<"sensing", ">", 0>>}), Rule("ehc", {})>>),
    Strategy(<<Unnamed("aostar", {<<"sensing", "==", 1>>}), Rule("gbfs", {})>>),
    Strategy(<<Rule("replan", {<<"sensing", "==", 1>>})>>),
    Strategy(<<Rule("ehc", {}), Rule("gbfs", {})>>),
    Strategy(<<Rule("gbfs", {<<"wrlds", "<", 16>>}), Rule("ehc", {})>>),
    Strategy(<<Rule("astar", {})>>),
    Strategy(<< >>),
    Heuristic(<<Rule("ed", {<<"goal_kw_only", ">=", 1>>}), Rule("ug", {})>>),
    Heuristic(<<Rule("ed", {<<"agents", "<", 2>>})>>),
    << >> }

\* A task that senses, one with one or the other threshold exceeded, one that
\* starts at the goal.
Plain ==
  [n \in FeatureNames |->
     CASE n \in {"worlds", "designated", "actions", "goal_unsat_init"} -> 4
       [] n \in {"agents", "atoms"} -> 3
       [] n \in {"max_designated_events", "goal_modal_depth", "goal_has_atom_conjunct"} -> 1
       [] OTHER -> 0]
Senses == [Plain EXCEPT !["sensing"] = 1, !["max_designated_events"] = 2]

MCFeatureSets ==
  { Plain,
    [Plain EXCEPT !["goal_unsat_init"] = 0],
    [Plain EXCEPT !["kd45"] = 1, !["goal_unsat_init"] = 3],
    [Plain EXCEPT !["worlds"] = 20, !["goal_kw_only"] = 1],
    Senses,
    [Senses EXCEPT !["goal_unsat_init"] = 2],
    [Senses EXCEPT !["worlds"] = 40, !["designated"] = 33, !["goal_unsat_init"] = 1] }
=============================================================================
