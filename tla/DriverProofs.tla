---------------------------- MODULE DriverProofs ----------------------------
(***************************************************************************)
(* Proofs about Selection and Driver for every policy file, every task and *)
(* every command line.                                                     *)
(***************************************************************************)
EXTENDS Driver, NaturalsInduction, WellFoundedInduction, TLAPS

-----------------------------------------------------------------------------
(* First-match selection. *)

(***************************************************************************)
(* A nonempty set of natural numbers has a least element, and Min is it.   *)
(***************************************************************************)
LEMMA MinIsLeast ==
  ASSUME NEW S, S \subseteq Nat, S # {}
  PROVE  Min(S) \in S /\ \A k \in S : Min(S) <= k
<1>1. PICK x \in S : \A y \in S : ~(<<y, x>> \in OpToRel(<, Nat))
  BY NatLessThanWellFounded, WFMin
<1>2. OpToRel(<, Nat) = {p \in Nat \X Nat : p[1] < p[2]}
  BY Zenon DEF OpToRel
<1> HIDE DEF OpToRel
<1>3. \A y \in S : x <= y
  <2> SUFFICES ASSUME NEW y \in S, y < x PROVE FALSE
    OBVIOUS
  <2>1. <<y, x>> \in {p \in Nat \X Nat : p[1] < p[2]}
    OBVIOUS
  <2> QED BY <1>1, <1>2, <2>1, Zenon
<1> QED BY <1>3 DEF Min

(***************************************************************************)
(* A list whose last rule has no condition has a first rule that matches,  *)
(* whatever the features of the task, and Select returns its outcome.      *)
(***************************************************************************)
IsList(rules) == Len(rules) \in Nat /\ DOMAIN rules = 1 .. Len(rules)

FirstMatch(rules, k, features) ==
  /\ k \in DOMAIN rules
  /\ Matches(rules[k], features)
  /\ \A j \in 1 .. k - 1 : ~Matches(rules[j], features)

LEMMA SelectTakesFirstMatch ==
  ASSUME NEW rules, IsList(rules), NEW features, Terminal(rules)
  PROVE  \E k \in DOMAIN rules :
            FirstMatch(rules, k, features) /\ Select(rules, features).outcome = rules[k].outcome
<1> DEFINE matching == {k \in DOMAIN rules : Matches(rules[k], features)}
           k == Min(matching)
<1>1. DOMAIN rules = 1 .. Len(rules) /\ Len(rules) \in Nat
  BY DEF IsList
<1>2. Len(rules) \in matching
  <2>1. Len(rules) # 0
    BY <1>1 DEF Terminal
  <2> QED BY <1>1, <2>1 DEF Terminal, Matches
<1>3. matching # {} /\ matching \subseteq Nat
  BY <1>1, <1>2
<1>4. k \in matching /\ \A j \in matching : k <= j
  BY <1>3, MinIsLeast
<1> HIDE DEF k
<1>5. \A j \in 1 .. k - 1 : ~Matches(rules[j], features)
  BY <1>1, <1>4
<1>6. Select(rules, features).outcome = rules[k].outcome
  BY <1>3 DEF Select, k
<1> QED BY <1>4, <1>5, <1>6 DEF FirstMatch

(***************************************************************************)
(* The built-in lists are rule lists that end in an unconditional rule and *)
(* have known labels, so what holds of files that validate holds of them.  *)
(***************************************************************************)
Decisive(rules, labels) ==
  /\ IsList(rules)
  /\ Terminal(rules)
  /\ \A k \in DOMAIN rules : rules[k].outcome \in labels

LEMMA BuiltinStrategyDecides == Decisive(BuiltinStrategy, Strategies)
<1>1. IsList(BuiltinStrategy)
  BY DEF BuiltinStrategy, IsList
<1>2. Terminal(BuiltinStrategy)
  BY DEF BuiltinStrategy, Rule, Terminal
<1>3. \A k \in DOMAIN BuiltinStrategy : BuiltinStrategy[k].outcome \in Strategies
  BY DEF BuiltinStrategy, Rule, Strategies
<1> QED BY <1>1, <1>2, <1>3 DEF Decisive

LEMMA BuiltinHeuristicDecides == Decisive(BuiltinHeuristic, Heuristics)
<1>1. IsList(BuiltinHeuristic)
  BY DEF BuiltinHeuristic, IsList
<1>2. Terminal(BuiltinHeuristic)
  BY DEF BuiltinHeuristic, Rule, Terminal
<1>3. \A k \in DOMAIN BuiltinHeuristic : BuiltinHeuristic[k].outcome \in Heuristics
  BY DEF BuiltinHeuristic, Rule, Heuristics
<1> QED BY <1>1, <1>2, <1>3 DEF Decisive

(***************************************************************************)
(* A policy that was accepted decides for every task: its lists select a   *)
(* known label, as do the built-in ones that it keeps.                     *)
(***************************************************************************)
LEMMA LoadableDecides ==
  ASSUME NEW policy \in PolicyFiles \cup {Builtin}, Loadable(policy)
  PROVE  /\ Decisive(StrategyRules(policy), Strategies)
         /\ Decisive(HeuristicRules(policy), Heuristics)
<1>1. ASSUME NEW list \in {"strategy", "heuristic"}, list \in DOMAIN policy
      PROVE  IsList(policy[list])
  BY <1>1, PolicyFilesAssumption, BuiltinStrategyDecides, BuiltinHeuristicDecides
     DEF Builtin, Decisive, IsList
<1>2. ASSUME NEW rules, IsList(rules), NEW labels, Validates(rules, labels)
      PROVE  Decisive(rules, labels)
  BY <1>2 DEF Validates, LabelsKnown, Decisive, Range
<1>3. Decisive(StrategyRules(policy), Strategies)
  BY <1>1, <1>2, BuiltinStrategyDecides DEF Loadable, StrategyRules
<1>4. Decisive(HeuristicRules(policy), Heuristics)
  BY <1>1, <1>2, BuiltinHeuristicDecides DEF Loadable, HeuristicRules
<1> QED BY <1>3, <1>4

LEMMA DecisiveSelects ==
  ASSUME NEW rules, NEW labels, NEW features, Decisive(rules, labels)
  PROVE  Select(rules, features).outcome \in labels
BY SelectTakesFirstMatch DEF Decisive

-----------------------------------------------------------------------------
(* What the searches return. *)

LEMMA Labels ==
  /\ Found("plan") \in {"plan", "[]"}
  /\ Found("policy") \in {"policy", "[]"}
  /\ task.at_goal => Found("plan") = "[]" /\ Found("policy") = "[]"
  /\ ~task.at_goal => Found("plan") = "plan" /\ Found("policy") = "policy"
BY DEF Found

LEMMA GBFSResult ==
  ASSUME task \in TaskFacts, NEW r \in GBFSReturns
  PROVE  \/ r = Found("plan") /\ task.plan
         \/ r = "none" /\ ~task.at_goal /\ (~task.plan \/ late \/ options.limited \/ Misled)
<1>1. task.plan \in BOOLEAN
  BY DEF TaskFacts
<1> QED BY <1>1, Labels DEF GBFSReturns, Returned

LEMMA EHCResult ==
  ASSUME task \in TaskFacts, NEW r \in EHCReturns
  PROVE  \/ r = Found("plan") /\ task.plan
         \/ r = "none" /\ ~task.at_goal
<1>1. task.plan \in BOOLEAN
  BY DEF TaskFacts
<1> QED BY <1>1, Labels DEF EHCReturns, Returned

LEMMA AOStarResult ==
  ASSUME task \in TaskFacts, NEW over \in BOOLEAN, NEW r \in AOStarReturns(over)
  PROVE  \/ r = Found("policy") /\ task.policy
         \/ r = "none" /\ ~task.at_goal /\ (over \/ options.limited)
         \/ r = "exhausted" /\ ~task.at_goal /\ (~task.policy \/ task.sensing \/ Misled)
<1>1. task.policy \in BOOLEAN
  BY DEF TaskFacts
<1> QED BY <1>1, Labels DEF AOStarReturns, Returned

LEMMA ReplanResult ==
  ASSUME task \in TaskFacts, NEW over \in BOOLEAN, NEW r \in ReplanReturns(over)
  PROVE  \/ r = Found("policy") /\ task.policy
         \/ r = "none" /\ (~task.policy \/ over \/ (Misled /\ ~task.at_goal))
<1>1. task.policy \in BOOLEAN
  BY DEF TaskFacts
<1> QED BY <1>1, Labels DEF ReplanReturns, Returned

LEMMA RaceResult ==
  ASSUME task \in TaskFacts, NEW r \in RaceReturns
  PROVE  \/ r = Found("plan") /\ task.plan
         \/ r = Found("policy") /\ task.policy
         \/ r = "none" /\ ~task.at_goal /\ ((~task.plan /\ ~task.policy) \/ late \/ Misled)
<1>1. task.plan \in BOOLEAN /\ task.policy \in BOOLEAN
  BY DEF TaskFacts
<1> QED BY <1>1, Labels DEF RaceReturns, Returned

-----------------------------------------------------------------------------
(* The inductive invariant. *)

Labelled ==
  /\ task \in TaskFacts
  /\ options \in Options
  /\ strategy \in Strategies \cup {NoLabel}
  /\ pc \in {"policy", "task", "open", "dead_ends", "share_replan", "linear", "done"} \cup Strategies
  /\ share_over \in BOOLEAN /\ late \in BOOLEAN /\ refuted \in BOOLEAN /\ exhausted \in BOOLEAN

\* Nothing is written or refused before the end, and h^Delta's claim ends the run.
Unanswered == pc # "done" => file = <<>> /\ status = "ok" /\ ~refuted

\* The policy is accepted before it is asked; until then there is no strategy.
Accepted ==
  /\ pc = "task" => Loadable(options.policy)
  /\ pc \in {"policy", "task"} => strategy = NoLabel
  /\ pc \notin {"policy", "task", "done"} => strategy \in Strategies

\* What is known where main has got to: which strategy brought it there, and
\* what the searches behind it have shown.
Shown ==
  /\ pc \in Strategies \ {"gbfs"} => strategy = pc
  /\ pc = "gbfs" => strategy \in {"gbfs", "ehc"}
  /\ pc = "share_replan" => strategy = "aostar" /\ Sharing /\ ~task.at_goal
  /\ pc = "linear" =>
       /\ strategy \in {"aostar", "replan"}
       /\ task.at_goal => late
       /\ ~late /\ (~options.limited \/ Sharing) =>
            ~task.policy \/ (exhausted /\ task.sensing) \/ Misled

IInv ==
  /\ Labelled
  /\ Unanswered
  /\ Accepted
  /\ Shown
  /\ FileHoldsOneAnswer
  /\ NullIsJustified
  /\ PolicyDecides

(***************************************************************************)
(* Before the policy is accepted nothing is known and nothing is claimed.  *)
(***************************************************************************)
LEMMA InitIInv == Init => IInv
BY DEF Init, IInv, Labelled, Unanswered, Accepted, Shown, FileHoldsOneAnswer, NullIsJustified,
       PolicyDecides, Strategies, NoLabel

(***************************************************************************)
(* The last step of a run: what remains to be shown is that it answers     *)
(* rightly and does not refuse a label of the policy.                      *)
(***************************************************************************)
LEMMA EndIInv ==
  ASSUME IInv, pc # "done", pc' = "done", UNCHANGED <<given, clock>>,
         refuted' \in BOOLEAN, exhausted' \in BOOLEAN,
         FileHoldsOneAnswer', NullIsJustified', PolicyDecides'
  PROVE  IInv'
<1>1. Labelled'
  BY DEF IInv, Labelled, given, clock
<1>2. Unanswered' /\ Accepted' /\ Shown'
  BY DEF Unanswered, Accepted, Shown, Strategies
<1> QED BY <1>1, <1>2 DEF IInv

(***************************************************************************)
(* A run that stops with an error message has written nothing, so it       *)
(* answers nothing wrongly.                                                *)
(***************************************************************************)
LEMMA QuitIInv ==
  ASSUME IInv, NEW about, about # "ok", pc # "done", Quit(about),
         about = "strategy" => options.strategy = "misspelt",
         about = "heuristic" => options.heuristic = "misspelt",
         UNCHANGED <<given, clock, claims, file>>
  PROVE  IInv'
<1>1. file' = <<>> /\ status' = about /\ pc' = "done"
  BY DEF IInv, Unanswered, Quit
<1>2. FileHoldsOneAnswer' /\ NullIsJustified'
  BY <1>1 DEF FileHoldsOneAnswer, NullIsJustified
<1>3. PolicyDecides'
  BY <1>1 DEF IInv, PolicyDecides, given
<1>4. refuted' \in BOOLEAN /\ exhausted' \in BOOLEAN
  BY DEF IInv, Labelled, claims
<1> QED BY <1>1, <1>2, <1>3, <1>4, EndIInv

(***************************************************************************)
(* Selecting: a label that the policy chose is a known one, so a refused   *)
(* label is from the command line, and the strategy chosen is that of the  *)
(* first rule that matches.                                                *)
(***************************************************************************)
LEMMA SelectedLabels ==
  ASSUME IInv, pc = "task"
  PROVE  /\ options.heuristic = NoLabel => HeuristicLabel \in Heuristics
         /\ options.strategy = NoLabel => StrategyLabel \in Strategies
<1>1. options.policy \in PolicyFiles \cup {Builtin} /\ Loadable(options.policy)
  BY DEF IInv, Labelled, Accepted, Options
<1>2. /\ Decisive(StrategyRules(options.policy), Strategies)
      /\ Decisive(HeuristicRules(options.policy), Heuristics)
  BY <1>1, LoadableDecides
<1>3. options.heuristic = NoLabel => HeuristicLabel \in Heuristics
  BY <1>2, DecisiveSelects DEF HeuristicLabel
<1>4. options.strategy = NoLabel => StrategyLabel \in Strategies
  BY <1>2, DecisiveSelects DEF StrategyLabel
<1> QED BY <1>3, <1>4

LEMMA RefuseLabelIInv == IInv /\ (RefuseHeuristic \/ RefuseStrategy) => IInv'
<1> SUFFICES ASSUME IInv, RefuseHeuristic \/ RefuseStrategy PROVE IInv'
  OBVIOUS
<1>1. pc = "task"
  BY DEF RefuseHeuristic, RefuseStrategy
<1>2. CASE RefuseHeuristic
  <2>1. HeuristicLabel \notin Heuristics
    BY <1>2 DEF RefuseHeuristic
  <2>2. options.heuristic = "misspelt"
    BY <1>1, <2>1, SelectedLabels DEF IInv, Labelled, Options, HeuristicLabel, Heuristics
  <2> QED BY <1>1, <1>2, <2>2, QuitIInv DEF RefuseHeuristic
<1>3. CASE RefuseStrategy
  <2>1. StrategyLabel \notin Strategies
    BY <1>3 DEF RefuseStrategy
  <2>2. options.strategy = "misspelt"
    BY <1>1, <2>1, SelectedLabels DEF IInv, Labelled, Options, StrategyLabel, Strategies
  <2> QED BY <1>1, <1>3, <2>2, QuitIInv DEF RefuseStrategy
<1> QED BY <1>2, <1>3

LEMMA ChooseIInv == IInv /\ Choose => IInv'
<1> SUFFICES ASSUME IInv, Choose PROVE IInv'
  OBVIOUS
<1>1. PolicyDecides'
  <2>1. status' = "ok" /\ strategy' = StrategyLabel /\ UNCHANGED <<task, options>>
    BY DEF Choose, IInv, Unanswered
  <2> SUFFICES ASSUME options.strategy = NoLabel, "strategy" \in DOMAIN options.policy
               PROVE  \E k \in DOMAIN options.policy["strategy"] :
                         /\ options.policy["strategy"][k].outcome = StrategyLabel
                         /\ FirstMatch(options.policy["strategy"], k, task.features)
    BY <2>1 DEF PolicyDecides, FirstMatch
  <2>2. options.policy \in PolicyFiles \cup {Builtin} /\ Loadable(options.policy)
    BY DEF IInv, Labelled, Accepted, Options, Choose
  <2>3. Decisive(options.policy["strategy"], Strategies)
    BY <2>2, LoadableDecides DEF StrategyRules
  <2>4. StrategyLabel = Select(options.policy["strategy"], task.features).outcome
    BY DEF StrategyLabel, StrategyRules
  <2> QED BY <2>3, <2>4, SelectTakesFirstMatch DEF Decisive
<1>2. Labelled'
  BY DEF IInv, Labelled, Choose, clock, claims
<1>3. Unanswered' /\ Accepted' /\ Shown'
  BY DEF IInv, Unanswered, Accepted, Shown, Choose, Strategies, claims
<1>4. FileHoldsOneAnswer' /\ NullIsJustified'
  BY DEF Choose, FileHoldsOneAnswer, NullIsJustified
<1> QED BY <1>1, <1>2, <1>3, <1>4 DEF IInv

LEMMA SelectingIInv == IInv /\ Selecting => IInv'
<1> SUFFICES ASSUME IInv, Selecting PROVE IInv'
  OBVIOUS
<1>1. CASE RefusePolicy \/ CannotLoadTask
  BY <1>1, QuitIInv DEF RefusePolicy, CannotLoadTask
<1>2. CASE LoadPolicy
  BY <1>2 DEF IInv, Labelled, Unanswered, Accepted, Shown, FileHoldsOneAnswer, NullIsJustified,
              PolicyDecides, LoadPolicy, given, clock, claims, Strategies
<1> QED BY <1>1, <1>2, RefuseLabelIInv, ChooseIInv DEF Selecting

(***************************************************************************)
(* A search that writes an answer that is true of the task, and null only  *)
(* where nothing was missed.                                               *)
(***************************************************************************)
LEMMA WriteIInv ==
  ASSUME IInv, NEW answer \in Answers, pc # "done", Write(answer),
         UNCHANGED <<given, clock, refuted>>, exhausted' \in BOOLEAN,
         answer = "plan" => task.plan, answer = "policy" => task.policy,
         answer = "[]" => task.at_goal, task.at_goal /\ ~late => answer = "[]",
         answer = "null" /\ ~late /\ (~options.limited \/ Sharing) =>
            ~Wanted \/ (exhausted' /\ task.sensing) \/ Misled
  PROVE  IInv'
<1>1. file' = <<answer>> /\ status' = "ok" /\ pc' = "done" /\ refuted' = FALSE
  BY DEF IInv, Labelled, Unanswered, Write
<1>2. UNCHANGED <<task, options, strategy, late>>
  BY DEF given, clock
<1>3. FileHoldsOneAnswer'
  BY <1>1, <1>2 DEF FileHoldsOneAnswer
<1>4. NullIsJustified'
  BY <1>1, <1>2 DEF NullIsJustified, Sharing, StrategyRule, Wanted, Misled
<1>5. PolicyDecides'
  BY <1>1, <1>2 DEF IInv, Unanswered, PolicyDecides
<1> QED BY <1>1, <1>3, <1>4, <1>5, EndIInv

(***************************************************************************)
(* The root test may write null although there is something, and even a    *)
(* goal that holds; it may do so only outside the scope of the relaxation. *)
(***************************************************************************)
LEMMA RootIsDeadIInv == IInv /\ RootIsDead => IInv'
<1> SUFFICES ASSUME IInv, RootIsDead PROVE IInv'
  OBVIOUS
<1>1. /\ file' = <<"null">> /\ status' = "ok" /\ pc' = "done" /\ refuted'
      /\ refuted' \in BOOLEAN /\ exhausted' \in BOOLEAN
      /\ pc # "done" /\ UNCHANGED <<given, clock>>
  BY DEF RootIsDead, Write, IInv, Labelled, Unanswered
<1>2. UNCHANGED <<task, options, strategy, late>>
  BY <1>1 DEF given, clock
<1>3. task.covered => ~task.plan /\ ~task.policy /\ ~task.at_goal
  BY DEF RootIsDead, IInv, Labelled, TaskFacts
<1>4. FileHoldsOneAnswer'
  BY <1>1, <1>2, <1>3 DEF FileHoldsOneAnswer
<1>5. NullIsJustified'
  BY <1>1, <1>2, <1>3 DEF NullIsJustified, Wanted
<1>6. PolicyDecides'
  BY <1>1, <1>2 DEF IInv, Unanswered, PolicyDecides
<1> QED BY <1>1, <1>4, <1>5, <1>6, EndIInv

LEMMA OpeningIInv == IInv /\ Opening => IInv'
<1> SUFFICES ASSUME IInv, Opening PROVE IInv'
  OBVIOUS
<1>1. CASE CannotOpen \/ RefuseOption
  BY <1>1, QuitIInv DEF CannotOpen, RefuseOption
<1>2. CASE OpenFile \/ PassRootTest
  <2>1. pc' \in {"dead_ends"} \cup Strategies /\ (pc' = "dead_ends" \/ pc' = strategy)
    BY <1>2 DEF OpenFile, PassRootTest, IInv, Accepted
  <2>2. UNCHANGED <<given, clock, claims, file, status>> /\ pc \in {"open", "dead_ends"}
    BY <1>2 DEF OpenFile, PassRootTest
  <2>3. Labelled'
    BY <2>1, <2>2 DEF IInv, Labelled, given, clock, claims
  <2>4. Unanswered' /\ Accepted' /\ Shown'
    BY <2>1, <2>2 DEF IInv, Unanswered, Accepted, Shown, Strategies, given, claims
  <2>5. FileHoldsOneAnswer' /\ NullIsJustified'
    BY <2>1 DEF FileHoldsOneAnswer, NullIsJustified, Strategies
  <2>6. PolicyDecides'
    BY <2>2 DEF IInv, PolicyDecides, given
  <2> QED BY <2>3, <2>4, <2>5, <2>6 DEF IInv
<1> QED BY <1>1, <1>2, RootIsDeadIInv DEF Opening

-----------------------------------------------------------------------------
(* The strategies. *)

(***************************************************************************)
(* A search that found nothing hands over to its fallback.                 *)
(***************************************************************************)
LEMMA FallbackIInv ==
  ASSUME IInv, NEW fallback \in {"gbfs", "share_replan", "linear"},
         pc \in Strategies \cup {"share_replan", "linear"},
         pc' = fallback, UNCHANGED <<given, clock, refuted, file, status>>,
         exhausted' \in BOOLEAN, Shown'
  PROVE  IInv'
<1>1. Labelled'
  BY DEF IInv, Labelled, given, clock, Strategies
<1>2. Unanswered' /\ Accepted'
  BY DEF IInv, Unanswered, Accepted, given, Strategies
<1>3. FileHoldsOneAnswer' /\ NullIsJustified'
  BY DEF FileHoldsOneAnswer, NullIsJustified
<1>4. PolicyDecides'
  BY DEF IInv, PolicyDecides, given
<1> QED BY <1>1, <1>2, <1>3, <1>4 DEF IInv

(***************************************************************************)
(* GBFS has the last word, whichever strategy led to it.                   *)
(***************************************************************************)
LEMMA LinearIInv ==
  ASSUME IInv, RunGBFS \/ TryLinear
  PROVE  IInv'
<1>1. task \in TaskFacts /\ exhausted' \in BOOLEAN
  BY DEF IInv, Labelled, RunGBFS, TryLinear, claims
<1>2. PICK r \in GBFSReturns : Answer(r, "null")
  BY DEF RunGBFS, TryLinear
<1>3. pc # "done" /\ UNCHANGED <<given, clock, refuted, exhausted>>
  BY <1>2 DEF RunGBFS, TryLinear, Answer, claims
<1>4. CASE r = Found("plan") /\ task.plan
  <2>1. Write(Found("plan")) /\ Found("plan") \in Answers
    BY <1>2, <1>4, Labels DEF Answer, Answers
  <2> QED BY <1>1, <1>3, <1>4, <2>1, Labels, WriteIInv
<1>5. CASE r = "none" /\ ~task.at_goal /\ (~task.plan \/ late \/ options.limited \/ Misled)
  <2>1. Write("null") /\ "null" \in Answers
    BY <1>2, <1>5 DEF Answer, Answers
  <2>2. ~late /\ (~options.limited \/ Sharing) =>
          ~Wanted \/ (exhausted' /\ task.sensing) \/ Misled
    <3>1. CASE RunGBFS
      <4>1. strategy \in {"gbfs", "ehc"}
        BY <3>1 DEF RunGBFS, IInv, Shown
      <4> QED BY <1>5, <4>1 DEF Wanted, Sharing
    <3>2. CASE TryLinear
      <4>1. strategy \in {"aostar", "replan"} /\ ~task.sensing
        BY <3>2 DEF TryLinear, MayBeLinear, IInv, Shown
      <4>2. ~late /\ (~options.limited \/ Sharing) => ~task.policy \/ Misled
        BY <3>2, <4>1 DEF TryLinear, IInv, Shown
      <4> QED BY <4>1, <4>2 DEF Wanted
    <3> QED BY <3>1, <3>2
  <2> QED BY <1>1, <1>3, <1>5, <2>1, <2>2, WriteIInv
<1> QED BY <1>1, <1>4, <1>5, GBFSResult

LEMMA EHCIInv == IInv /\ RunEHC => IInv'
<1> SUFFICES ASSUME IInv, RunEHC PROVE IInv'
  OBVIOUS
<1>1. task \in TaskFacts /\ exhausted' \in BOOLEAN /\ pc = "ehc" /\ strategy = "ehc"
  BY DEF IInv, Labelled, Shown, RunEHC, Strategies, claims
<1>2. PICK r \in EHCReturns : Answer(r, "gbfs")
  BY DEF RunEHC
<1>3. UNCHANGED <<given, clock, refuted>>
  BY <1>2 DEF Answer, RunEHC, claims
<1>4. CASE r = Found("plan") /\ task.plan
  <2>1. Write(Found("plan")) /\ Found("plan") \in Answers
    BY <1>2, <1>4, Labels DEF Answer, Answers
  <2> QED BY <1>1, <1>3, <1>4, <2>1, Labels, WriteIInv
<1>5. CASE r = "none" /\ ~task.at_goal
  <2>1. pc' = "gbfs" /\ UNCHANGED <<file, status>>
    BY <1>2, <1>5 DEF Answer
  <2>2. Shown'
    BY <1>1, <1>3, <2>1 DEF Shown, given, Strategies
  <2> QED BY <1>1, <1>3, <2>1, <2>2, FallbackIInv DEF Strategies
<1> QED BY <1>1, <1>4, <1>5, EHCResult

LEMMA PortfolioIInv == IInv /\ RunPortfolio => IInv'
<1> SUFFICES ASSUME IInv, RunPortfolio PROVE IInv'
  OBVIOUS
<1>1. task \in TaskFacts /\ exhausted' \in BOOLEAN /\ pc = "portfolio" /\ strategy = "portfolio"
  BY DEF IInv, Labelled, Shown, RunPortfolio, Strategies, claims
<1>2. PICK r \in RaceReturns : Answer(r, "null")
  BY DEF RunPortfolio
<1>3. UNCHANGED <<given, clock, refuted>>
  BY <1>2 DEF Answer, RunPortfolio, claims
<1>4. CASE r = Found("plan") /\ task.plan
  <2>1. Write(Found("plan")) /\ Found("plan") \in Answers
    BY <1>2, <1>4, Labels DEF Answer, Answers
  <2> QED BY <1>1, <1>3, <1>4, <2>1, Labels, WriteIInv
<1>5. CASE r = Found("policy") /\ task.policy
  <2>1. Write(Found("policy")) /\ Found("policy") \in Answers
    BY <1>2, <1>5, Labels DEF Answer, Answers
  <2> QED BY <1>1, <1>3, <1>5, <2>1, Labels, WriteIInv
<1>6. CASE r = "none" /\ ~task.at_goal /\ ((~task.plan /\ ~task.policy) \/ late \/ Misled)
  <2>1. Write("null") /\ "null" \in Answers
    BY <1>2, <1>6 DEF Answer, Answers
  <2>2. ~late => ~Wanted \/ Misled
    BY <1>1, <1>6 DEF Wanted
  <2> QED BY <1>1, <1>3, <1>6, <2>1, <2>2, WriteIInv
<1> QED BY <1>1, <1>4, <1>5, <1>6, RaceResult

(***************************************************************************)
(* AO* finds nothing in its share, or within its limit, or claims that     *)
(* there is no policy; only in the first two cases does replanning follow. *)
(***************************************************************************)
LEMMA AOStarIInv == IInv /\ RunAOStar => IInv'
<1> SUFFICES ASSUME IInv, RunAOStar PROVE IInv'
  OBVIOUS
<1> DEFINE over == IF Sharing THEN share_over ELSE late
<1>1. task \in TaskFacts /\ over \in BOOLEAN /\ pc = "aostar" /\ strategy = "aostar"
  BY DEF IInv, Labelled, Shown, RunAOStar, Strategies
<1>2. PICK r \in AOStarReturns(over) :
         /\ exhausted' = (r = "exhausted")
         /\ Answer(IF r = "exhausted" THEN "none" ELSE r, AfterAOStar)
  BY DEF RunAOStar
<1>3. UNCHANGED <<given, clock, refuted>> /\ exhausted' \in BOOLEAN
  BY <1>2 DEF Answer, RunAOStar
<1>4. Sharing' = Sharing /\ Misled' = Misled
  BY <1>3 DEF Sharing, StrategyRule, Misled, given
<1>5. CASE r = Found("policy") /\ task.policy
  <2>1. Write(Found("policy")) /\ Found("policy") \in Answers
    BY <1>2, <1>5, Labels DEF Answer, Answers
  <2> QED BY <1>1, <1>3, <1>5, <2>1, Labels, WriteIInv
<1>6. CASE \/ r = "none" /\ ~task.at_goal /\ (over \/ options.limited)
           \/ r = "exhausted" /\ ~task.at_goal /\ (~task.policy \/ task.sensing \/ Misled)
  <2>1. AfterAOStar \in {"share_replan", "linear"}
    BY DEF AfterAOStar
  <2>2. pc' = AfterAOStar /\ UNCHANGED <<file, status>>
    BY <1>2, <1>6, <2>1 DEF Answer
  <2>3. CASE Sharing /\ ~exhausted'
    <3>1. pc' = "share_replan"
      BY <2>2, <2>3 DEF AfterAOStar
    <3>2. Shown'
      BY <1>1, <1>3, <1>4, <1>6, <2>3, <3>1 DEF Shown, given, Strategies
    <3> QED BY <1>1, <1>3, <2>2, <3>1, <3>2, FallbackIInv DEF Strategies
  <2>4. CASE ~(Sharing /\ ~exhausted')
    <3>1. pc' = "linear"
      BY <2>2, <2>4 DEF AfterAOStar
    <3>2. ~late /\ (~options.limited \/ Sharing) =>
            ~task.policy \/ (exhausted' /\ task.sensing) \/ Misled
      BY <1>2, <1>6, <2>4
    <3>3. Shown'
      BY <1>1, <1>3, <1>4, <1>6, <3>1, <3>2 DEF Shown, given, clock, Strategies
    <3> QED BY <1>1, <1>3, <2>2, <3>1, <3>3, FallbackIInv DEF Strategies
  <2> QED BY <2>3, <2>4
<1> QED BY <1>1, <1>5, <1>6, AOStarResult

(***************************************************************************)
(* Replanning has all of the time of the run, also after AO*.              *)
(***************************************************************************)
LEMMA ReplanIInv == IInv /\ (RunReplan \/ ReplanAfterAOStar) => IInv'
<1> SUFFICES ASSUME IInv, RunReplan \/ ReplanAfterAOStar PROVE IInv'
  OBVIOUS
<1>1. /\ task \in TaskFacts /\ late \in BOOLEAN /\ exhausted' \in BOOLEAN
      /\ pc \in {"replan", "share_replan"} /\ strategy \in {"aostar", "replan"}
  BY DEF IInv, Labelled, Shown, RunReplan, ReplanAfterAOStar, Strategies, claims
<1>2. PICK r \in ReplanReturns(late) : Answer(r, "linear")
  BY DEF RunReplan, ReplanAfterAOStar, ReplanDeadline
<1>3. UNCHANGED <<given, clock, refuted, exhausted>>
  BY <1>2 DEF RunReplan, ReplanAfterAOStar, Answer, claims
<1>4. CASE r = Found("policy") /\ task.policy
  <2>1. Write(Found("policy")) /\ Found("policy") \in Answers
    BY <1>2, <1>4, Labels DEF Answer, Answers
  <2> QED BY <1>1, <1>3, <1>4, <2>1, Labels, WriteIInv
<1>5. CASE r = "none" /\ (~task.policy \/ late \/ (Misled /\ ~task.at_goal))
  <2>1. pc' = "linear" /\ UNCHANGED <<file, status>>
    BY <1>2, <1>5 DEF Answer
  <2>2. task.at_goal => late
    BY <1>1, <1>5 DEF TaskFacts
  <2>3. Shown'
    BY <1>1, <1>3, <1>5, <2>1, <2>2 DEF Shown, Misled, given, clock, Strategies
  <2> QED BY <1>1, <1>3, <2>1, <2>3, FallbackIInv DEF Strategies
<1> QED BY <1>1, <1>4, <1>5, ReplanResult

LEMMA GiveUpIInv == IInv /\ GiveUp => IInv'
<1> SUFFICES ASSUME IInv, GiveUp PROVE IInv'
  OBVIOUS
<1>1. /\ pc = "linear" /\ Write("null") /\ UNCHANGED <<given, clock, refuted, exhausted>>
      /\ exhausted' \in BOOLEAN /\ "null" \in Answers
  BY DEF GiveUp, IInv, Labelled, Answers, claims
<1>2. /\ strategy \in {"aostar", "replan"} /\ (task.at_goal => late)
      /\ ~late /\ (~options.limited \/ Sharing) =>
           ~task.policy \/ (exhausted /\ task.sensing) \/ Misled
  BY <1>1 DEF IInv, Shown
<1>3. Wanted => task.policy
  BY <1>2 DEF Wanted
<1> QED BY <1>1, <1>2, <1>3, WriteIInv

(***************************************************************************)
(* The clock takes nothing back: what was shown in time was shown.         *)
(***************************************************************************)
LEMMA ClockIInv == IInv /\ (EndShare \/ Expire) => IInv'
<1> SUFFICES ASSUME IInv, EndShare \/ Expire PROVE IInv'
  OBVIOUS
<1>1. /\ pc # "done" /\ UNCHANGED <<given, pc, refuted, exhausted, file, status>>
      /\ share_over' \in BOOLEAN /\ late' \in BOOLEAN /\ (late => late')
  BY DEF EndShare, Expire, IInv, Labelled, claims
<1>2. Labelled' /\ Unanswered' /\ Accepted'
  BY <1>1 DEF IInv, Labelled, Unanswered, Accepted, given
<1>3. Shown'
  BY <1>1 DEF IInv, Shown, Sharing, StrategyRule, Misled, given
<1>4. FileHoldsOneAnswer' /\ NullIsJustified' /\ PolicyDecides'
  BY <1>1 DEF IInv, FileHoldsOneAnswer, NullIsJustified, PolicyDecides, given
<1> QED BY <1>2, <1>3, <1>4 DEF IInv

-----------------------------------------------------------------------------
LEMMA Invariance == Spec => []IInv
<1>1. IInv /\ [Next]_vars => IInv'
  <2>1. IInv /\ UNCHANGED vars => IInv'
    BY DEF IInv, Labelled, Unanswered, Accepted, Shown, FileHoldsOneAnswer, NullIsJustified,
           PolicyDecides, Wanted, Sharing, StrategyRule, Misled, vars
  <2> QED BY <2>1, SelectingIInv, OpeningIInv, LinearIInv, EHCIInv, PortfolioIInv, AOStarIInv,
             ReplanIInv, GiveUpIInv, ClockIInv DEF Next, Main, Conditional, Finished
<1> QED BY <1>1, InitIInv, PTL DEF Spec

(***************************************************************************)
(* A run that exits with status 0 has written exactly one answer, and it   *)
(* is true of the task, whatever the options and whenever time runs out.   *)
(* Only h^Delta outside its scope makes it miss a goal that holds already. *)
(***************************************************************************)
THEOREM OneTrueAnswer == Spec => []FileHoldsOneAnswer
BY Invariance, PTL DEF IInv

(***************************************************************************)
(* null is answered in time only where nothing was missed, or where AO*    *)
(* claimed that nothing is there, or h^Delta did outside its scope.        *)
(***************************************************************************)
THEOREM NullsAreJustified == Spec => []NullIsJustified
BY Invariance, PTL DEF IInv

(***************************************************************************)
(* A policy file that was accepted decides for every task there may be.    *)
(***************************************************************************)
THEOREM AcceptedPolicyDecides == Spec => []PolicyDecides
BY Invariance, PTL DEF IInv
=============================================================================
