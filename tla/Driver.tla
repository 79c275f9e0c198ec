------------------------------- MODULE Driver -------------------------------
(***************************************************************************)
(* main (main.cpp): the selection policy and the task are loaded, strategy *)
(* and heuristic are chosen, the plan file is opened, h^Delta tests the    *)
(* initial state, the strategy runs with its fallbacks under one deadline, *)
(* and the answer is written.  A search is one step here.  What it can     *)
(* return follows from the task, the limit and the deadline as the modules *)
(* of the searches have it, and from what h^Delta tells them: outside the  *)
(* scope of the relaxation its infinity may be wrong.                      *)
(***************************************************************************)
EXTENDS Selection

CONSTANTS
  PolicyFiles,  \* what the file of --policy may hold
  FeatureSets   \* the features that tasks may have

ASSUME PolicyFilesAssumption ==
  \A p \in PolicyFiles : \A list \in DOMAIN p : p[list] \in Seq(AnyRule)
ASSUME FeatureSetsAssumption == FeatureSets \subseteq [FeatureNames -> Nat]

VARIABLES
  task,        \* what is true of the task, in TaskFacts; never changes
  options,     \* the command line, in Options; never changes
  strategy,    \* the strategy chosen, no label before
  pc,          \* what main does next
  share_over,  \* the time that an auto-selected AO* gets is over
  late,        \* the deadline of the run is over
  refuted,     \* h^Delta claimed that nothing can be found
  exhausted,   \* AO* claimed that there is no policy
  file,        \* the Answers written to the plan file
  status       \* "ok" for exit status 0, or what the error message is about

vars == <<task, options, strategy, pc, share_over, late, refuted, exhausted, file, status>>
given == <<task, options, strategy>>
clock == <<share_over, late>>
claims == <<refuted, exhausted>>

Answers == {"plan", "policy", "[]", "null"}

\* plan, policy: there is one.  Where nothing is sensed they are the same.
\* covered: an infinite h^Delta is right, of the initial state and of all others.
\* It is so where HDelta's InScope holds and the bound on layers is not reached.
TaskFacts ==
  {t \in [features : FeatureSets, sensing : BOOLEAN, at_goal : BOOLEAN,
          plan : BOOLEAN, policy : BOOLEAN, covered : BOOLEAN] :
     /\ t.sensing <=> t.features["sensing"] = 1
     /\ t.at_goal <=> t.features["goal_unsat_init"] = 0
     /\ t.at_goal => t.plan /\ t.policy
     /\ ~t.sensing => (t.plan <=> t.policy)}

\* A label that is not given is chosen by the policy.  "suspect" and "all" let
\* the searches drop states that h^Delta calls dead; they differ in which.
Builtin == [strategy |-> BuiltinStrategy, heuristic |-> BuiltinHeuristic]
Options ==
  [policy : PolicyFiles \cup {Builtin}, strategy : Strategies \cup {NoLabel, "misspelt"},
   heuristic : {NoLabel, "hd", "misspelt"}, portfolio_on : BOOLEAN, limited : BOOLEAN,
   dead_ends : {"off", "root", "suspect", "all", "misspelt"}]

-----------------------------------------------------------------------------
(* What the searches return; "none" is std::nullopt. *)

\* Fault: the empty tree of a policy is written as it is.
FoundAsTree(answer) == IF task.at_goal THEN "null" ELSE answer

Found(answer) == IF task.at_goal THEN "[]" ELSE answer

\* States may be dropped from which there is a way.
Misled == options.dead_ends \in {"suspect", "all"} /\ ~task.covered

Returned(possible) == {r \in DOMAIN possible : possible[r]}

\* The goal test of the initial state comes before the deadline is looked at.
GBFSReturns ==
  Returned([r \in {Found("plan"), "none"} |->
              IF r = "none" THEN ~task.at_goal /\ (~task.plan \/ late \/ options.limited \/ Misled)
              ELSE task.plan])

EHCReturns ==
  Returned([r \in {Found("plan"), "none"} |-> IF r = "none" THEN ~task.at_goal ELSE task.plan])

\* The claim of exhaustion can be wrong where the task has sensing actions; a
\* state that was dropped does not count as cut off by a bound.
AOStarReturns(over) ==
  Returned([r \in {Found("policy"), "none", "exhausted"} |->
              CASE r = "none" -> ~task.at_goal /\ (over \/ options.limited)
                [] r = "exhausted" -> ~task.at_goal /\ (~task.policy \/ task.sensing \/ Misled)
                [] OTHER -> task.policy])

\* solve looks at the deadline first.
ReplanReturns(over) ==
  Returned([r \in {Found("policy"), "none"} |->
              IF r = "none" THEN ~task.policy \/ over \/ (Misled /\ ~task.at_goal)
                            ELSE task.policy])

\* Members are not limited, and one of them is complete for what is there.
RaceReturns ==
  Returned([r \in {Found("plan"), Found("policy"), "none"} |->
              CASE r = "none" -> ~task.at_goal /\ ((~task.plan /\ ~task.policy) \/ late \/ Misled)
                [] r = "policy" -> task.policy
                [] OTHER -> task.plan])

-----------------------------------------------------------------------------
Write(answer) ==
  /\ file' = Append(file, answer)
  /\ pc' = "done"
  /\ status' = "ok"

Quit(about) == pc' = "done" /\ status' = about

\* The policy comes first: a file that does not validate stops the run.
RefusePolicy ==
  /\ pc = "policy"
  /\ ~Loadable(options.policy)
  /\ Quit("policy")
  /\ UNCHANGED <<given, clock, claims, file>>

LoadPolicy ==
  /\ pc = "policy"
  /\ Loadable(options.policy)
  /\ pc' = "task"
  /\ UNCHANGED <<given, clock, claims, file, status>>

CannotLoadTask ==
  /\ pc = "task"
  /\ Quit("task")
  /\ UNCHANGED <<given, clock, claims, file>>

HeuristicLabel ==
  IF options.heuristic # NoLabel THEN options.heuristic
  ELSE Select(HeuristicRules(options.policy), task.features).outcome
StrategyLabel ==
  IF options.strategy # NoLabel THEN options.strategy
  ELSE Select(StrategyRules(options.policy), task.features).outcome

RefuseHeuristic ==
  /\ pc = "task"
  /\ HeuristicLabel \notin Heuristics
  /\ Quit("heuristic")
  /\ UNCHANGED <<given, clock, claims, file>>

RefuseStrategy ==
  /\ pc = "task"
  /\ HeuristicLabel \in Heuristics
  /\ StrategyLabel \notin Strategies
  /\ Quit("strategy")
  /\ UNCHANGED <<given, clock, claims, file>>

Choose ==
  /\ pc = "task"
  /\ HeuristicLabel \in Heuristics
  /\ StrategyLabel \in Strategies
  /\ strategy' = StrategyLabel
  /\ pc' = "open"
  /\ UNCHANGED <<task, options, clock, claims, file, status>>

CannotOpen ==
  /\ pc = "open"
  /\ Quit("output")
  /\ UNCHANGED <<given, clock, claims, file>>

OpenFile ==
  /\ pc = "open"
  /\ pc' = "dead_ends"
  /\ UNCHANGED <<given, clock, claims, file, status>>

RefuseOption ==
  /\ pc = "dead_ends"
  /\ options.dead_ends = "misspelt"
  /\ Quit("dead ends")
  /\ UNCHANGED <<given, clock, claims, file>>

\* h^Delta(s0) is infinite.  Nobody asks whether the goal holds already, and
\* outside the scope of the relaxation there may be a plan or a policy.
RootIsDead ==
  /\ pc = "dead_ends"
  /\ options.dead_ends \in {"root", "suspect", "all"}
  /\ task.covered => ~task.plan /\ ~task.policy
  /\ refuted' = TRUE
  /\ Write("null")
  /\ UNCHANGED <<given, clock, exhausted>>

\* It is finite, or was not found out in time.
PassRootTest ==
  /\ pc = "dead_ends"
  /\ options.dead_ends # "misspelt"
  /\ pc' = strategy
  /\ UNCHANGED <<given, clock, claims, file, status>>

\* A search returned r: it is written, unless there is a fallback.
Answer(r, fallback) ==
  /\ \/ r # "none" /\ Write(r)
     \/ r = "none" /\ fallback = "null" /\ Write("null")
     \/ r = "none" /\ fallback # "null" /\ pc' = fallback /\ UNCHANGED <<file, status>>
  /\ UNCHANGED <<given, clock>>

RunPortfolio ==
  /\ pc = "portfolio"
  /\ \E r \in RaceReturns : Answer(r, "null")
  /\ UNCHANGED claims

-----------------------------------------------------------------------------
(* AO*, which shares its time with replanning if main chose it itself. *)

\* Whether the policy decided is told by the name of its rule.
StrategyRule ==
  /\ options.strategy = NoLabel
  /\ Select(StrategyRules(options.policy), task.features).named

Sharing ==
  /\ options.portfolio_on
  /\ strategy = "aostar"
  /\ StrategyRule
  /\ task.sensing

\* Where main goes when AO* returns nothing.
AfterAOStar == IF Sharing /\ ~exhausted' THEN "share_replan" ELSE "linear"

RunAOStar ==
  /\ pc = "aostar"
  /\ \E r \in AOStarReturns(IF Sharing THEN share_over ELSE late) :
       /\ exhausted' = (r = "exhausted")
       /\ Answer(IF r = "exhausted" THEN "none" ELSE r, AfterAOStar)
  /\ UNCHANGED refuted

RunReplan ==
  /\ pc = "replan"
  /\ \E r \in ReplanReturns(late) : Answer(r, "linear")
  /\ UNCHANGED claims

\* Fault: replanning gets what is left of the share of AO*.
ReplanDeadlineOfShare == share_over

ReplanDeadline == late

ReplanAfterAOStar ==
  /\ pc = "share_replan"
  /\ \E r \in ReplanReturns(ReplanDeadline) : Answer(r, "linear")
  /\ UNCHANGED claims

\* No policy was found.  Without sensing a linear search may still do it.
MayBeLinear == ~task.sensing /\ ~late

GiveUp ==
  /\ pc = "linear"
  /\ ~MayBeLinear
  /\ Write("null")
  /\ UNCHANGED <<given, clock, claims>>

TryLinear ==
  /\ pc = "linear"
  /\ MayBeLinear
  /\ \E r \in GBFSReturns : Answer(r, "null")
  /\ UNCHANGED claims

-----------------------------------------------------------------------------
RunEHC ==
  /\ pc = "ehc"
  /\ \E r \in EHCReturns : Answer(r, "gbfs")
  /\ UNCHANGED claims

RunGBFS ==
  /\ pc = "gbfs"
  /\ \E r \in GBFSReturns : Answer(r, "null")
  /\ UNCHANGED claims

\* The share of AO* is part of the time of the run.
EndShare ==
  /\ pc # "done"
  /\ ~share_over
  /\ share_over' = TRUE
  /\ UNCHANGED <<given, pc, late, claims, file, status>>

Expire ==
  /\ pc # "done"
  /\ ~late
  /\ late' = TRUE
  /\ share_over' = TRUE
  /\ UNCHANGED <<given, pc, claims, file, status>>

Finished == pc = "done" /\ UNCHANGED vars

Init ==
  /\ task \in TaskFacts
  /\ options \in Options
  /\ strategy = NoLabel
  /\ pc = "policy"
  /\ share_over = FALSE
  /\ late = FALSE
  /\ refuted = FALSE
  /\ exhausted = FALSE
  /\ file = <<>>
  /\ status = "ok"

Selecting == RefusePolicy \/ LoadPolicy \/ CannotLoadTask \/ RefuseHeuristic \/ RefuseStrategy \/ Choose

Opening == CannotOpen \/ OpenFile \/ RefuseOption \/ RootIsDead \/ PassRootTest

Conditional == RunAOStar \/ RunReplan \/ ReplanAfterAOStar \/ GiveUp \/ TryLinear

Main == Selecting \/ Opening \/ Conditional \/ RunPortfolio \/ RunEHC \/ RunGBFS

Next == Main \/ EndShare \/ Expire \/ Finished

Spec == Init /\ [][Next]_vars

-----------------------------------------------------------------------------
(* Properties. *)

(***************************************************************************)
(* "On success the plan file holds a plan, on failure it holds null; an    *)
(* empty array means the goal already held": a run that exits with status  *)
(* 0 has written exactly one answer, and it is true of the task.  A goal   *)
(* that holds already is not answered with null in time, unless h^Delta,   *)
(* asked about a task outside its scope, said so first.                    *)
(***************************************************************************)
FileHoldsOneAnswer ==
  pc = "done" /\ status = "ok" =>
    /\ Len(file) = 1
    /\ file[1] = "plan" => task.plan
    /\ file[1] = "policy" => task.policy
    /\ file[1] = "[]" => task.at_goal
    /\ task.at_goal /\ ~late => file[1] = "[]" \/ (refuted /\ ~task.covered)

(***************************************************************************)
(* A run that answers null in time has failed to find what is not there:   *)
(* no policy, no plan, or neither, according to the strategy; fallbacks    *)
(* and the division of the time between AO* and replanning lose nothing.   *)
(* It may be the limit that was in the way, except where replanning, which *)
(* has none, had the last word, and AO* may have claimed exhaustion.  What *)
(* h^Delta said of the initial state, or of states that searches dropped,  *)
(* may be wrong only outside the scope of the relaxation.                  *)
(***************************************************************************)
Wanted ==
  CASE strategy \in {"gbfs", "ehc"} -> task.plan
    [] strategy = "portfolio" -> task.plan \/ task.policy
    [] OTHER -> task.policy

NullIsJustified ==
  pc = "done" /\ file = <<"null">> /\ (refuted \/ (~late /\ (~options.limited \/ Sharing))) =>
    \/ ~Wanted
    \/ ~refuted /\ exhausted /\ task.sensing
    \/ Misled \/ (refuted /\ ~task.covered)

(***************************************************************************)
(* "A policy file is validated at load and the planner refuses to start if *)
(* it does not" pass: a policy that got through decides for every task, so *)
(* that a run stops over a label only if the command line has it; and what *)
(* runs was chosen by the policy asked for, by its first rule that fits.   *)
(***************************************************************************)
PolicyDecides ==
  /\ status = "strategy" => options.strategy = "misspelt"
  /\ status = "heuristic" => options.heuristic = "misspelt"
  /\ strategy # NoLabel /\ options.strategy = NoLabel /\ "strategy" \in DOMAIN options.policy =>
       LET rules == options.policy["strategy"]
       IN  \E k \in DOMAIN rules :
              /\ rules[k].outcome = strategy
              /\ Matches(rules[k], task.features)
              /\ \A j \in 1 .. k - 1 : ~Matches(rules[j], task.features)
=============================================================================
