------------------------------ MODULE Policies ------------------------------
(***************************************************************************)
(* Policies with heights, the reference for a search that bounds the depth *)
(* of the plans it looks for.                                              *)
(***************************************************************************)
EXTENDS AndOr

CONSTANTS
  Rank,     \* the heights a policy may use
  Heights(_, _)   \* the reference result for a task and a state, see HeightsAssumption

(***************************************************************************)
(* The reference: what it means that a policy exists.  A policy labels     *)
(* states with heights; a labelled state has an action all of whose        *)
(* outcomes are goals or labelled with a smaller height, so following the  *)
(* policy reaches the goal in at most that many actions.                   *)
(***************************************************************************)
Covers(t, height, s) ==
  \E a \in DOMAIN Actions(t, s) :
    \A j \in DOMAIN Actions(t, s)[a] :
      LET b == Actions(t, s)[a][j] IN
        \/ b \in Goal(t)
        \/ b \in DOMAIN height /\ height[b] < height[s]

IsPolicy(t, height) == \A s \in DOMAIN height : Covers(t, height, s)

Policies(t) ==
  {height \in UNION {[D -> Rank] : D \in SUBSET (State \ Goal(t))} :
     IsPolicy(t, height)}

\* The heights that some policy of task t gives to state s.
PolicyHeights(t, s) == {h[s] : h \in {p \in Policies(t) : s \in DOMAIN p}}

Solvable(t, s) == s \in Goal(t) \/ Heights(t, s) # {}

SolvableWithin(t, s, k) == s \in Goal(t) \/ \E r \in Heights(t, s) : r <= k

(***************************************************************************)
(* Assumptions.  Heights is a parameter so that TLC can look the reference *)
(* up; HeightsAssumption says what it stands for.  The last assumption is  *)
(* what h^Delta promises of the states it lets a search prune              *)
(* (hdelta::prunes): no policy exists there.                               *)
(***************************************************************************)
ASSUME RankAssumption == Rank \subseteq Nat \ {0}

\* A policy needs no more heights than there are states to label.
ASSUME RanksSuffice ==
  \/ IsFiniteSet(State) /\ \A t \in Tasks : 1..Cardinality(State \ Goal(t)) \subseteq Rank
  \/ Rank = Nat \ {0}

ASSUME HeightsAssumption ==
  \A t \in Tasks : \A s \in State : Heights(t, s) = PolicyHeights(t, s)

ASSUME DeadEndAssumption ==
  \A t \in Tasks : \A s \in Graph(t).dead : ~Solvable(t, s)
=============================================================================
