----------------------------- MODULE PlanReplay -----------------------------
(***************************************************************************)
(* The plans that AO* finds in the state space, replayed by the validator. *)
(***************************************************************************)
EXTENDS StateSpace, Validator

\* A pair of a node and a state is replayed once; on a finite tree that changes
\* no verdict.
RECURSIVE Replay(_, _, _)
Replay(t, s, plan) ==
  /\ Fits(t, s, plan)
  /\ \A e \in DOMAIN plan.branches :
        Replay(t, ReplayedOutcomes(t, s, t.actions[plan.action])[e], plan.branches[e])

\* The policies of at most k actions that solve the task from s, as AO* builds
\* them: a subtree for every outcome.
RECURSIVE Policies(_, _)
Policies(s, k) ==
  IF Satisfies(s, T.goal) THEN {Goal}
  ELSE IF k = 0 THEN {}
  ELSE UNION { LET next == Branches(s, T.actions[x], T.seriality, T.cap)
                   sub  == [e \in DOMAIN next |-> Policies(next[e], k - 1)]
               IN  IF DOMAIN next = {} THEN {}
                   ELSE {Node(x, f) : f \in {g \in [DOMAIN next -> UNION Range(sub)] :
                                               \A e \in DOMAIN next : g[e] \in sub[e]}}
             : x \in DOMAIN T.actions }

\* The validator accepts every policy that AO* may return from a state, though
\* it asks for consistency at other moments than the search.
PlansValidate == \A p \in Policies(state, 2) : Replay(T, state, p)
=============================================================================
