----------------------------- MODULE Selection ------------------------------
(***************************************************************************)
(* Automatic selection of strategy and heuristic (selection_policy.cpp).   *)
(* A policy is a pair of rule lists.  A rule is a record                   *)
(*     outcome  the label it selects                                       *)
(*     when     a set of conditions <<feature, op, value>>, all of which   *)
(*              have to hold                                               *)
(*     named    its name, which traces show, is not the empty string       *)
(* The features of a task are a function from FeatureNames to numbers;     *)
(* booleans are 0 and 1.                                                   *)
(***************************************************************************)
EXTENDS Sequences, FiniteSetsExt

FeatureNames ==
  {"sensing", "max_designated_events", "worlds", "designated", "actions", "agents", "atoms",
   "goal_modal_depth", "goal_kw_only", "goal_has_atom_conjunct", "kd45", "partial_obs",
   "goal_unsat_init"}
Strategies == {"gbfs", "ehc", "aostar", "replan", "portfolio"}
Heuristics == {"ug", "ed", "ks", "wc", "rpg", "radd", "kadd", "kff", "hd", "hdsum"}

Holds(c, features) ==
  LET v == features[c[1]]
  IN  CASE c[2] = "<=" -> v <= c[3]
        [] c[2] = "<"  -> v < c[3]
        [] c[2] = ">=" -> v >= c[3]
        [] c[2] = ">"  -> v > c[3]
        [] c[2] = "==" -> v = c[3]
        [] c[2] = "!=" -> v # c[3]

Operators == {"<=", "<", ">=", ">", "==", "!="}
AnyRule == [outcome : STRING, when : SUBSET (STRING \X Operators \X Int), named : BOOLEAN]

Matches(r, features) == \A c \in r.when : Holds(c, features)

\* The first rule that matches decides.  A decision is the label and whether the
\* rule has a name; there is neither if no rule matches.
NoLabel == ""
NoDecision == [outcome |-> NoLabel, named |-> FALSE]
Select(rules, features) ==
  LET matching == {k \in DOMAIN rules : Matches(rules[k], features)}
      first == rules[Min(matching)]
  IN  IF matching = {} THEN NoDecision ELSE [outcome |-> first.outcome, named |-> first.named]

-----------------------------------------------------------------------------
(* What is checked of a list before any task is seen. *)

LabelsKnown(rules, labels) ==
  \A r \in Range(rules) : r.outcome \in labels /\ \A c \in r.when : c[1] \in FeatureNames

\* No rule comes after one that always matches.
AllReachable(rules) == \A k \in DOMAIN rules : rules[k].when = {} => k = Len(rules)

\* Fault: an empty list is all that is refused.
NonEmpty(rules) == rules # << >>

\* The last rule always matches.
Terminal(rules) == rules # << >> /\ rules[Len(rules)].when = {}

Validates(rules, labels) == LabelsKnown(rules, labels) /\ AllReachable(rules) /\ Terminal(rules)

-----------------------------------------------------------------------------
\* A file may leave out the name, and the rule is then named by its place.
Rule(outcome, when) == [outcome |-> outcome, when |-> when, named |-> TRUE]

BuiltinStrategy ==
  << Rule("replan", {<<"sensing", "==", 1>>, <<"goal_unsat_init", ">=", 4>>}),
     Rule("aostar", {<<"sensing", "==", 1>>, <<"designated", "<=", 16>>}),
     Rule("aostar", {<<"sensing", "==", 1>>, <<"goal_modal_depth", ">=", 2>>,
                     <<"designated", "<=", 32>>}),
     Rule("aostar", {<<"sensing", "==", 1>>, <<"designated", "<=", 8>>, <<"actions", "<=", 32>>}),
     Rule("gbfs",   {<<"sensing", "==", 1>>}),
     Rule("gbfs",   {<<"partial_obs", "==", 1>>, <<"kd45", "==", 0>>}),
     Rule("aostar", {<<"kd45", "==", 1>>, <<"worlds", "<=", 8>>, <<"designated", "<=", 4>>,
                     <<"goal_modal_depth", ">=", 1>>, <<"goal_unsat_init", "<=", 3>>}),
     Rule("ehc",    {<<"kd45", "==", 0>>, <<"designated", "<=", 4>>, <<"worlds", "<=", 16>>,
                     <<"actions", "<=", 12>>, <<"goal_modal_depth", "<=", 1>>}),
     Rule("gbfs",   {<<"worlds", ">", 16>>}),
     Rule("gbfs",   {<<"actions", ">", 12>>}),
     Rule("ehc",    {}) >>

BuiltinHeuristic ==
  << Rule("kadd", {<<"sensing", "==", 1>>}),
     Rule("kff",  {<<"goal_unsat_init", ">=", 4>>}),
     Rule("ks",   {<<"goal_kw_only", "==", 1>>}),
     Rule("ed",   {<<"sensing", "==", 1>>}),
     Rule("ed",   {<<"goal_has_atom_conjunct", "==", 0>>}),
     Rule("ug",   {}) >>

\* A policy file has a set of named sections, each a rule list.  It may replace
\* one list and keep the other, but not neither.  Load is defined for a file
\* that is Loadable; there is no falling back on the built-in policy.
Loadable(policy) ==
  /\ DOMAIN policy \cap {"strategy", "heuristic"} # {}
  /\ "strategy" \in DOMAIN policy => Validates(policy["strategy"], Strategies)
  /\ "heuristic" \in DOMAIN policy => Validates(policy["heuristic"], Heuristics)

StrategyRules(policy) ==
  IF "strategy" \in DOMAIN policy THEN policy["strategy"] ELSE BuiltinStrategy
HeuristicRules(policy) ==
  IF "heuristic" \in DOMAIN policy THEN policy["heuristic"] ELSE BuiltinHeuristic
=============================================================================
