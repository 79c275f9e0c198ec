-------------------------- MODULE PortfolioProofs ---------------------------
(***************************************************************************)
(* Proofs about Portfolio for every number of members, whatever their      *)
(* searches end with.                                                      *)
(***************************************************************************)
EXTENDS Portfolio, SequenceTheorems, TLAPS

\* The flag is up exactly when there is a winner, which is the report of a
\* member that has ended.
WinnerReported ==
  /\ stop <=> HasPlan(winner)
  /\ stop =>
       /\ winner.member \in Members
       /\ pc[winner.member] = "ended"
       /\ winner = [result[winner.member] EXCEPT !.member = winner.member]

\* A plan is in nobody's hands but those of a member about to report it, or
\* there is a winner.
PlansReported ==
  \A m \in Members :
    /\ pc[m] \in {"unborn", "searching"} => ~HasPlan(result[m])
    /\ pc[m] = "ended" /\ HasPlan(result[m]) => stop

IInv == TypeOK /\ WinnerReported /\ PlansReported /\ NobodyOutlivesTheRace

-----------------------------------------------------------------------------
(***************************************************************************)
(* The invariant holds initially: nobody has found or reported anything.   *)
(***************************************************************************)
LEMMA InitIInv == Init => IInv
<1> SUFFICES ASSUME Init PROVE IInv
  OBVIOUS
<1>1. Order \in Seq(Members) /\ Len(Order) \in Nat /\ DOMAIN Order = 1..Len(Order)
  BY MembersAssumption
<1>2. TypeOK
  <2>1. \A k \in DOMAIN Order : pc[Order[k]] = "unborn" <=> k > started
    BY <1>1 DEF Init, Members
  <2>2. Empty \in Outcome
    BY DEF Empty, Outcome
  <2>3. started \in 0..Len(Order)
    BY <1>1 DEF Init
  <2>4. pc \in [Members -> {"unborn", "searching", "report", "ended"}]
    BY DEF Init
  <2>5. result \in [Members -> Outcome] /\ winner \in Outcome
    BY <2>2 DEF Init
  <2> QED BY <2>1, <2>3, <2>4, <2>5 DEF Init, TypeOK
<1>3. ~HasPlan(Empty)
  BY DEF HasPlan, Empty
<1> QED BY <1>2, <1>3 DEF Init, IInv, WinnerReported, PlansReported, NobodyOutlivesTheRace

(***************************************************************************)
(* Starting the thread of a member changes nothing that was reported.      *)
(***************************************************************************)
LEMMA StartMemberIInv == IInv /\ StartMember => IInv'
<1> SUFFICES ASSUME IInv, StartMember PROVE IInv'
  OBVIOUS
<1>1. Len(Order) \in Nat /\ DOMAIN Order = 1..Len(Order)
  BY MembersAssumption
<1> DEFINE m == Order[started + 1]
<1>2. started \in Nat /\ started + 1 \in DOMAIN Order /\ m \in Members
  BY <1>1 DEF IInv, TypeOK, StartMember, Members
<1>3. pc[m] = "unborn"
  BY <1>2 DEF IInv, TypeOK
<1>4. pc' = [pc EXCEPT ![m] = "searching"] /\ started' = started + 1
  BY DEF StartMember
<1>5. pc \in [Members -> {"unborn", "searching", "report", "ended"}]
  BY DEF IInv, TypeOK
<1>6. ASSUME NEW k \in DOMAIN Order
      PROVE  pc'[Order[k]] = "unborn" <=> k > started'
  <2>1. Order[k] \in Members /\ k \in Nat
    BY <1>1 DEF Members
  <2>2. CASE k = started + 1
    BY <2>2, <2>1, <1>2, <1>4, <1>5
  <2>3. CASE k # started + 1
    <3>1. Order[k] # m
      BY <2>3, <1>2, MembersAssumption
    <3>2. pc'[Order[k]] = pc[Order[k]]
      BY <3>1, <2>1, <1>4, <1>5
    <3>3. pc[Order[k]] = "unborn" <=> k > started
      BY DEF IInv, TypeOK
    <3> QED BY <3>2, <3>3, <2>3, <2>1, <1>2, <1>4
  <2> QED BY <2>2, <2>3
<1>7. TypeOK'
  <2>1. started' \in 0..Len(Order)
    BY <1>1, <1>2, <1>4
  <2>2. pc' \in [Members -> {"unborn", "searching", "report", "ended"}]
    BY <1>2, <1>4, <1>5
  <2> QED BY <2>1, <2>2, <1>6 DEF IInv, TypeOK, StartMember
<1>8. WinnerReported'
  BY <1>2, <1>3, <1>4, <1>5 DEF IInv, WinnerReported, StartMember, HasPlan
<1>9. PlansReported'
  BY <1>2, <1>3, <1>4, <1>5 DEF IInv, PlansReported, StartMember, HasPlan
<1>10. NobodyOutlivesTheRace'
  BY DEF StartMember, NobodyOutlivesTheRace
<1> QED BY <1>7, <1>8, <1>9, <1>10 DEF IInv

(***************************************************************************)
(* A member whose search ends keeps its outcome to itself for now.         *)
(***************************************************************************)
LEMMA EndSearchIInv ==
  ASSUME IInv, NEW m \in Members, NEW outcome \in Outcome, EndSearch(m, outcome)
  PROVE  IInv'
<1>1. /\ pc[m] = "searching" /\ pc' = [pc EXCEPT ![m] = "report"]
      /\ result' = [result EXCEPT ![m] = outcome]
      /\ UNCHANGED <<fate, started, stop, winner, late, racing>>
  BY DEF EndSearch
<1>2. /\ pc \in [Members -> {"unborn", "searching", "report", "ended"}]
      /\ result \in [Members -> Outcome]
  BY DEF IInv, TypeOK
<1>3. TypeOK'
  <2>1. \A k \in DOMAIN Order : pc'[Order[k]] = "unborn" <=> pc[Order[k]] = "unborn"
    BY <1>1, <1>2 DEF Members
  <2> QED BY <2>1, <1>1, <1>2 DEF IInv, TypeOK
<1>4. WinnerReported'
  BY <1>1, <1>2 DEF IInv, WinnerReported, HasPlan
<1>5. PlansReported'
  BY <1>1, <1>2 DEF IInv, PlansReported, HasPlan
<1>6. NobodyOutlivesTheRace'
  BY <1>1 DEF IInv, NobodyOutlivesTheRace
<1> QED BY <1>3, <1>4, <1>5, <1>6 DEF IInv

(***************************************************************************)
(* A report makes a winner only if there is none.                          *)
(***************************************************************************)
LEMMA ReportIInv ==
  ASSUME IInv, NEW m \in Members, Report(m)
  PROVE  IInv'
<1>1. /\ pc[m] = "report" /\ pc' = [pc EXCEPT ![m] = "ended"]
      /\ UNCHANGED <<fate, started, result, late, racing>>
  BY DEF Report
<1>2. /\ pc \in [Members -> {"unborn", "searching", "report", "ended"}]
      /\ result \in [Members -> Outcome] /\ winner \in Outcome
  BY DEF IInv, TypeOK
<1>3. \A k \in DOMAIN Order : pc'[Order[k]] = "unborn" <=> pc[Order[k]] = "unborn"
  BY <1>1, <1>2 DEF Members
<1>4. racing
  BY <1>1 DEF IInv, NobodyOutlivesTheRace
<1>5. NobodyOutlivesTheRace'
  BY <1>1, <1>4 DEF NobodyOutlivesTheRace
<1>6. CASE HasPlan(result[m]) /\ ~stop
  <2>1. stop' = TRUE /\ winner' = [result[m] EXCEPT !.member = m]
    BY <1>6 DEF Report
  <2>2. winner' \in Outcome /\ winner'.member = m
    BY <2>1, <1>2 DEF Outcome
  <2>3. HasPlan(winner')
    BY <2>1, <1>2, <1>6 DEF HasPlan, Outcome
  <2>4. TypeOK'
    BY <2>1, <2>2, <1>1, <1>2, <1>3 DEF IInv, TypeOK
  <2>5. WinnerReported'
    BY <2>1, <2>2, <2>3, <1>1, <1>2 DEF WinnerReported, HasPlan
  <2>6. PlansReported'
    BY <2>1, <1>1, <1>2 DEF IInv, PlansReported, HasPlan
  <2> QED BY <2>4, <2>5, <2>6, <1>5 DEF IInv
<1>7. CASE ~(HasPlan(result[m]) /\ ~stop)
  <2>1. UNCHANGED <<stop, winner>>
    BY <1>7 DEF Report
  <2>2. TypeOK'
    BY <2>1, <1>1, <1>2, <1>3 DEF IInv, TypeOK
  <2>3. WinnerReported'
    BY <2>1, <1>1, <1>2 DEF IInv, WinnerReported, HasPlan
  <2>4. PlansReported'
    BY <2>1, <1>1, <1>2, <1>7 DEF IInv, PlansReported, HasPlan
  <2> QED BY <2>2, <2>3, <2>4, <1>5 DEF IInv
<1> QED BY <1>6, <1>7

(***************************************************************************)
(* The invariant is inductive.                                             *)
(***************************************************************************)
LEMMA NextIInv == IInv /\ [Next]_vars => IInv'
<1> SUFFICES ASSUME IInv, [Next]_vars PROVE IInv'
  OBVIOUS
<1> USE DEF MemberStep, Race
<1>1. CASE StartMember
  BY <1>1, StartMemberIInv
<1>2. CASE ReturnWinner
  <2>1. racing' = FALSE /\ (\A m \in Members : pc[m] = "ended")
        /\ UNCHANGED <<fate, started, pc, result, stop, winner, late>>
    BY <1>2 DEF ReturnWinner
  <2> QED BY <2>1 DEF IInv, TypeOK, WinnerReported, PlansReported, NobodyOutlivesTheRace, HasPlan
<1>3. ASSUME NEW m \in Members, MemberStep(m) PROVE IInv'
  <2> DEFINE plan == IF m \in Conditional THEN [Empty EXCEPT !.contingent = TRUE]
                     ELSE [Empty EXCEPT !.linear = TRUE]
             exhausted == [Empty EXCEPT !.unsolvable = (m = AOStarName)]
  <2>1. plan \in Outcome /\ exhausted \in Outcome /\ Empty \in Outcome
    BY DEF Empty, Outcome
  <2>2. CASE FindPlan(m)
    <3>1. EndSearch(m, plan)
      BY <2>2 DEF FindPlan
    <3> QED BY <3>1, <2>1, EndSearchIInv
  <2>3. CASE Exhaust(m)
    <3>1. EndSearch(m, exhausted)
      BY <2>3 DEF Exhaust
    <3> QED BY <3>1, <2>1, EndSearchIInv
  <2>4. CASE Cancelled(m)
    BY <2>4, <2>1, EndSearchIInv DEF Cancelled
  <2>5. CASE Report(m)
    BY <2>5, ReportIInv
  <2> QED BY <1>3, <2>2, <2>3, <2>4, <2>5
<1>4. CASE Expire
  <2>1. late' = TRUE /\ UNCHANGED <<fate, started, pc, result, stop, winner, racing>>
    BY <1>4 DEF Expire
  <2> QED BY <2>1 DEF IInv, TypeOK, WinnerReported, PlansReported, NobodyOutlivesTheRace, HasPlan
<1>5. CASE UNCHANGED vars
  BY <1>5 DEF vars, IInv, TypeOK, WinnerReported, PlansReported, NobodyOutlivesTheRace, HasPlan
<1> QED BY <1>1, <1>2, <1>3, <1>4, <1>5 DEF Next, Finished

(***************************************************************************)
(* Every reachable state of a race satisfies the invariant.                *)
(***************************************************************************)
LEMMA SpecIInv == Spec => []IInv
BY InitIInv, NextIInv, PTL DEF Spec

(***************************************************************************)
(* When race returns nobody runs any more, and it returns some member's    *)
(* plan, whole and under its label, if and only if some member found one.  *)
(***************************************************************************)
THEOREM RaceKeepsPlans == Spec => []NoPlanIsLost
<1>1. IInv => NoPlanIsLost
  <2> SUFFICES ASSUME IInv, ~racing PROVE NoPlanIsLost
    BY DEF NoPlanIsLost, IInv, WinnerIsWhole, NobodyOutlivesTheRace
  <2>1. \A m \in Members : pc[m] = "ended"
    BY DEF IInv, NobodyOutlivesTheRace
  <2>2. CASE \E m \in Members : HasPlan(result[m])
    BY <2>1, <2>2 DEF IInv, PlansReported, WinnerReported, NoPlanIsLost, WinnerIsWhole,
                      NobodyOutlivesTheRace
  <2>3. CASE ~\E m \in Members : HasPlan(result[m])
    <3>1. ASSUME HasPlan(winner) PROVE FALSE
      <4>1. /\ winner.member \in Members
            /\ winner = [result[winner.member] EXCEPT !.member = winner.member]
        BY <3>1 DEF IInv, WinnerReported
      <4>2. result[winner.member] \in Outcome
        BY <4>1 DEF IInv, TypeOK
      <4>3. HasPlan(result[winner.member])
        BY <4>1, <4>2, <3>1 DEF HasPlan, Outcome
      <4> QED BY <4>1, <4>3, <2>3
    <3> QED BY <3>1, <2>1, <2>3 DEF NoPlanIsLost, WinnerIsWhole, NobodyOutlivesTheRace
  <2> QED BY <2>2, <2>3
<1> QED BY <1>1, SpecIInv, PTL

(***************************************************************************)
(* The first plan wins: once there is a winner it is never replaced,       *)
(* whichever members report plans after it.                                *)
(***************************************************************************)
FirstPlanWins == [][HasPlan(winner) => UNCHANGED winner]_vars

THEOREM FirstPlanStays == Spec => FirstPlanWins
<1>1. IInv /\ [Next]_vars => [HasPlan(winner) => UNCHANGED winner]_vars
  <2> SUFFICES ASSUME IInv, Next, HasPlan(winner) PROVE UNCHANGED winner
    OBVIOUS
  <2>1. stop
    BY DEF IInv, WinnerReported
  <2>2. ASSUME NEW m \in Members, MemberStep(m) PROVE UNCHANGED winner
    BY <2>1, <2>2 DEF MemberStep, FindPlan, Exhaust, Cancelled, Report, EndSearch
  <2> QED BY <2>2 DEF Next, Race, StartMember, ReturnWinner, Expire, Finished, vars
<1> QED BY <1>1, SpecIInv, PTL DEF Spec, FirstPlanWins
=============================================================================
