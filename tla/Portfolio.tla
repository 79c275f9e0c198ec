----------------------------- MODULE Portfolio ------------------------------
(***************************************************************************)
(* race (portfolio.cpp): one thread per search configuration, the first    *)
(* plan wins and cancels the others through a flag that every deadline     *)
(* check of a member reads.  A member is abstracted to what its search can *)
(* do with the task at hand: it finds a plan, it exhausts its space, or it *)
(* goes on until it is told to stop.                                       *)
(***************************************************************************)
EXTENDS Naturals, Sequences, FiniteSets

CONSTANTS
  Order,       \* the members, in the order in which their threads are started
  AOStarName,  \* the member whose search reports that no policy exists
  Conditional, \* the members that return policies; the others return linear plans
  None         \* no member

Members == {Order[k] : k \in DOMAIN Order}

ASSUME MembersAssumption ==
  /\ Order \in Seq(Members)
  /\ \A j, k \in DOMAIN Order : Order[j] = Order[k] => j = k
  /\ AOStarName \in Members
  /\ Conditional \subseteq Members
  /\ None \notin Members

VARIABLES
  fate,      \* what each member's search would end with if nobody stopped it
  started,   \* the number of member threads that race has started
  pc,        \* per member: where its thread is
  result,    \* per member: its local PortfolioOutcome
  stop,      \* the flag
  winner,    \* the outcome that race will return
  late,      \* the deadline has passed
  racing     \* race has not returned

vars == <<fate, started, pc, result, stop, winner, late, racing>>

Fates == {"plan", "exhaust", "endless"}

Empty == [member |-> None, linear |-> FALSE, contingent |-> FALSE, unsolvable |-> FALSE]

Outcome == [member : Members \cup {None}, linear : BOOLEAN, contingent : BOOLEAN,
            unsolvable : BOOLEAN]

HasPlan(o) == o.linear \/ o.contingent

\* What expired(deadline) says in a thread that runs a member.
Expired == stop \/ late

-----------------------------------------------------------------------------
\* The thread of the next member starts and installs the cancel flag.
StartMember ==
  /\ racing
  /\ started < Len(Order)
  /\ started' = started + 1
  /\ pc' = [pc EXCEPT ![Order[started + 1]] = "searching"]
  /\ UNCHANGED <<fate, result, stop, winner, late, racing>>

EndSearch(m, outcome) ==
  /\ pc[m] = "searching"
  /\ pc' = [pc EXCEPT ![m] = "report"]
  /\ result' = [result EXCEPT ![m] = outcome]
  /\ UNCHANGED <<fate, started, stop, winner, late, racing>>

\* A plan can also be found after the flag is up, before the next check of it.
FindPlan(m) ==
  /\ fate[m] = "plan"
  /\ EndSearch(m, IF m \in Conditional THEN [Empty EXCEPT !.contingent = TRUE]
                  ELSE [Empty EXCEPT !.linear = TRUE])

Exhaust(m) ==
  /\ fate[m] = "exhaust"
  /\ EndSearch(m, [Empty EXCEPT !.unsolvable = (m = AOStarName)])

\* The search notices that its time is over.
Cancelled(m) == Expired /\ EndSearch(m, Empty)

\* Fault: the winner does not stop the others.
ReportQuietly(m) ==
  /\ pc[m] = "report"
  /\ IF HasPlan(result[m]) /\ ~HasPlan(winner)
     THEN winner' = [result[m] EXCEPT !.member = m]
     ELSE UNCHANGED winner
  /\ pc' = [pc EXCEPT ![m] = "ended"]
  /\ UNCHANGED <<fate, started, result, stop, late, racing>>

\* Fault: the flag is exchanged before anyone asks whether there is a plan.
ReportSwapped(m) ==
  /\ pc[m] = "report"
  /\ stop' = TRUE
  /\ winner' = IF HasPlan(result[m]) /\ ~stop THEN [result[m] EXCEPT !.member = m] ELSE winner
  /\ pc' = [pc EXCEPT ![m] = "ended"]
  /\ UNCHANGED <<fate, started, result, late, racing>>

\* Under the mutex: the first plan is moved into winner.
Report(m) ==
  /\ pc[m] = "report"
  /\ IF HasPlan(result[m]) /\ ~stop
     THEN /\ stop' = TRUE
          /\ winner' = [result[m] EXCEPT !.member = m]
     ELSE UNCHANGED <<stop, winner>>
  /\ pc' = [pc EXCEPT ![m] = "ended"]
  /\ UNCHANGED <<fate, started, result, late, racing>>

\* Every thread is joined before race returns.
ReturnWinner ==
  /\ racing
  /\ started = Len(Order)
  /\ \A m \in Members : pc[m] = "ended"
  /\ racing' = FALSE
  /\ UNCHANGED <<fate, started, pc, result, stop, winner, late>>

\* The deadline of the run.
Expire ==
  /\ racing
  /\ ~late
  /\ late' = TRUE
  /\ UNCHANGED <<fate, started, pc, result, stop, winner, racing>>

Finished == ~racing /\ UNCHANGED vars

Init ==
  /\ fate \in [Members -> Fates]
  /\ started = 0
  /\ pc = [m \in Members |-> "unborn"]
  /\ result = [m \in Members |-> Empty]
  /\ stop = FALSE
  /\ winner = Empty
  /\ late = FALSE
  /\ racing = TRUE

MemberStep(m) == FindPlan(m) \/ Exhaust(m) \/ Cancelled(m) \/ Report(m)

Race == StartMember \/ ReturnWinner

Next == Race \/ (\E m \in Members : MemberStep(m)) \/ Expire \/ Finished

Spec == Init /\ [][Next]_vars

\* Threads are scheduled, and an endless search still checks its deadline.
FairSpec == Spec /\ WF_vars(Race) /\ \A m \in Members : WF_vars(MemberStep(m))

-----------------------------------------------------------------------------
(* Properties. *)

TypeOK ==
  /\ fate \in [Members -> Fates]
  /\ started \in 0..Len(Order)
  /\ pc \in [Members -> {"unborn", "searching", "report", "ended"}]
  /\ \A k \in DOMAIN Order : pc[Order[k]] = "unborn" <=> k > started
  /\ result \in [Members -> Outcome]
  /\ stop \in BOOLEAN
  /\ winner \in Outcome
  /\ late \in BOOLEAN
  /\ racing \in BOOLEAN

(***************************************************************************)
(* The race loses no plan: it returns one as soon as some member found     *)
(* one, and exactly one member's, with that member's label.  No member     *)
(* outlives it: their threads use the flag, the mutex and the winner on    *)
(* race's stack frame.                                                     *)
(***************************************************************************)
NobodyOutlivesTheRace == ~racing => \A m \in Members : pc[m] = "ended"

WinnerIsWhole ==
  ~racing =>
    IF \E m \in Members : HasPlan(result[m])
    THEN winner.member \in Members
         /\ winner = [result[winner.member] EXCEPT !.member = winner.member]
    ELSE ~HasPlan(winner)

NoPlanIsLost == WinnerIsWhole /\ NobodyOutlivesTheRace

(***************************************************************************)
(* A plan ends the race even if other members would search forever.        *)
(***************************************************************************)
PlanEndsTheRace == (\E m \in Members : fate[m] = "plan") ~> ~racing

(***************************************************************************)
(* PortfolioOutcome::unsolvable is "AO* exhausted (no policy)": a race     *)
(* without a plan reports what AO* has proved.                             *)
(***************************************************************************)
ExhaustionIsReported ==
  ~racing /\ ~HasPlan(winner) /\ result[AOStarName].unsolvable => winner.unsolvable
=============================================================================
