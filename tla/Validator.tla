----------------------------- MODULE Validator ------------------------------
(***************************************************************************)
(* The plan validator (validator.cpp).  A plan is a tree: the empty tree   *)
(* claims that the goal holds, any other node names an action and has a    *)
(* subtree for each event it expects.                                      *)
(***************************************************************************)
EXTENDS Update

Goal == [branches |-> << >>, action |-> << >>]
Node(name, branches) == [action |-> name, branches |-> branches]

\* Consistency is asked of the states the plan visits, not of the update, and
\* only if the task requires it.
Contradicts(t, s) == t.seriality = "Require" /\ Collapses(s)

\* The size of an update is not limited.
ReplayedOutcomes(t, s, a) ==
  LET seriality == IF t.seriality = "Require" THEN "Ignore" ELSE t.seriality
  IN  ContractedOutcomes(ProductUpdateSplit(s, a, seriality, Pairs(s, a)))

\* The root of a plan is fit for s.  An outcome that the plan has no branch for
\* is passed over.
Fits(t, s, plan) ==
  LET a        == t.actions[plan.action]
      outcomes == ReplayedOutcomes(t, s, a)
  IN  /\ ~Contradicts(t, s)
      /\ IF plan = Goal THEN Satisfies(s, t.goal)
         ELSE /\ plan.action \in DOMAIN t.actions
              /\ Applicable(s, a)
              /\ DOMAIN outcomes # {}
              /\ DOMAIN plan.branches \subseteq DOMAIN outcomes

\* Every pair of a state and a plan in visited is fit, and so is what the replay
\* visits from there: the set that replay collects when it finds no error.
ReplaySucceeds(t, visited) ==
  \A v \in visited :
     /\ Fits(t, v[1], v[2])
     /\ \A e \in DOMAIN v[2].branches :
           <<ReplayedOutcomes(t, v[1], t.actions[v[2].action])[e], v[2].branches[e]>> \in visited
=============================================================================
