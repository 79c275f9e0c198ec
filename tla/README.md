# Verification of del-planner

This directory holds TLA+ modules that model del-planner, a planner for
epistemic tasks (Dynamic Epistemic Logic, multi-pointed Kripke models and event
models), TLC configurations that check them on small instances, and TLAPS proofs
for every instance. Paths are relative to the repository, which `PROJECT.json`
calls `src/`; its `map` says for every definition which lines it models.

## 1. The system

The planner reads a grounded task (JSON), chooses a heuristic and a strategy,
searches for a linear plan or a policy, writes it, and replays conditional plans
with an independent validator.

| Component | State it keeps | Operations | Interacts with |
|---|---|---|---|
| Driver `main.cpp` | options, one absolute deadline, the open plan file | select strategy, root h^Δ test, run a strategy and its fallbacks, write plan or `null`, validate | calls every search; reads `exhausted` of AO* to decide whether to replan |
| AO* `search.cpp` (`aostar`) | memo of solved states, memo of refuted states, ancestor set, `truncated`, `tainted` | deepening loop, `dfs`, `expand` | heuristic, product update split, symmetry, h^Δ, deadline |
| Replanning `replan.cpp` | per-state policy, failed actions, dead set | `find_path`, `solve`, repair of dead branches | product update split, heuristic, deadline |
| GBFS `search.cpp` (`gbfs`) | open heap, closed set, arena of parents | expand, helpful-action pass and its retry, parallel successor batches | thread pool, heuristic, h^Δ, symmetry |
| EHC `search.cpp` (`ehc`) | current state, visited set shared by both phases | descent, plateau search | heuristic; the driver falls back to GBFS |
| Portfolio `portfolio.cpp` | `stop` flag, winner under a mutex | one thread per member, first plan wins, join | all searches, through the thread-local cancel flag |
| Thread pool `parallel.cpp` | workers, epoch, next index, busy count | `run`, `try_run`, `drain`, `work`, `set_threads` | GBFS and bisimulation contraction; loops of two portfolio members compete for it |
| Kripke states `state.cpp` | worlds, valuation, interned successor sets, lazy cache of extensions | model checking, fingerprint, compaction, restriction | everything |
| Product update `product_update.cpp`, `action.cpp` | none | applicability, product, split per outcome, belief-consistency check, seriality repair | states, all searches, validator |
| Contraction `bisimulation.cpp` | none | reachability, partition refinement, canonical numbering | states, thread pool |
| Agent symmetry `symmetry.cpp` | verified swaps | detect, stabiliser, keep one action per orbit | searches |
| Heuristics `heuristic.cpp`, `knowledge_relaxation.cpp`, dead ends `hdelta.cpp` | relaxed layers, helpful actions | evaluate, `preferred`, `prunes`, `h_delta_until` | searches, driver |
| Selection policy `selection_policy.cpp`, `signature.cpp`, `strategy.cpp` | rules over task features | load, validate, `select` | driver |
| Validator `validator.cpp` | counters | replay of a policy tree | driver |
| Parser `parser.cpp`, `formula.cpp`, `json.cpp` | interning table of formulas | load a task | driver |

**Hard behaviours.** The memos of AO* outlive the iterations and deadlines in
which their entries are made, and what an entry means depends on the path on
which it was made. The pool's loops, its parking and its teardown interleave at
every lock and at every atomic access; two searches of the portfolio share it.
The portfolio cancels members in the middle of whatever they do. GBFS, EHC and
AO* prune, and each must know when its pruning forfeits the right to say that
no plan exists. Contraction, symmetry and h^Δ are pure algorithms whose
correctness is a theorem about all states; each rests on facts that every later
update must preserve, so an error shows only after several updates.

**What makes each component correct.** AO*: the solved memo is a policy, the
refuted memo is right, exhaustion is a proof. Replanning: every leaf of the
returned tree is a goal, the tree is finite, a dead state has no policy. GBFS and
EHC: plans are executable; "exhausted" means no plan (EHC's message to that
effect is no proof). Portfolio: the plan returned is some member's, whole; nobody outlives
the race. Pool: every index once, nobody left working when `run` returns, no lost
wake-up. State algorithms: contraction after every update is bisimilar to the
uncontracted path and canonical; beliefs that had to be consistent stay so;
skipped symmetric actions lose nothing. h^Δ: each layer covers what as many
updates can do, so that infinity is a proof. Validator: it accepts what the
searches return. Selection: a policy that was accepted decides for every task.
Driver: exactly one answer in the plan file, and `null` only when every
applicable fallback was tried.

## 2. Plan

Done, in the order in which it was written:

1. `AndOr`, `Policies`, `AOStar`, `AOStarProofs`: the conditional search.
2. `ParallelLoop`, `ThreadPool`, `ThreadPoolProofs`: the pool implements "every index once, then return".
3. `Portfolio`, `PortfolioProofs`: the race, over members abstracted to what they
   may return.
4. `Replan`, `GBFS`, `EHC` over the same AND-OR graphs,
   with `GBFSProofs`, `EHCProofs` and `ReplanProofs`.
5. `Kripke`, `Update`, `Symmetry`, composed in `StateSpace`: what a node of those
   graphs is, from the epistemic semantics up, with `StateSpaceProofs`; `Validator`
   and its composition with `StateSpace`, `PlanReplay`.
6. `HDelta`: the dead-end test against real updates, also with `StateSpaceProofs`.
   It shares `TaskPath`, a task and a path of updates, with `StateSpace`.
7. `Selection`, `Driver`: the composition, from the policy file to the contents
   of the plan file, with `DriverProofs`.

Abstract specifications: the parallel loop, which the pool is shown to implement;
a policy (`Policies!IsPolicy`) and its absence (`AndOr!Doomed`) as what every
conditional search must return or prove; the largest bisimulation as what
contraction must compute.

Left: what the heuristics compute, above all the knowledge relaxation; the sum
over goals of `h_delta_both`.

## 3. Modules

### 3.1 The graph that the searches explore: `AndOr`, `Policies`, `TaskFamilies`

All four searches see a task through the same interface: contracted states,
identified by their fingerprints; for a state the applicable actions that
symmetry keeps, in action order; for an action the contracted states of its
outcomes, in the order of `product_update_split`. `AndOr!Graph` is that
interface, for any set of states, and `IsGraph` its only assumption. Product
update, contraction, symmetry and h^Δ are behind it; sections 3.8 and 3.9 are
about them.

What a search must find or prove has two reference definitions. `Policies` gives
states heights that decrease along every outcome; AO* bounds the depth of the
policies it looks for, so heights are what its refutations are about. `AndOr`
defines the absence of a policy by traps: sets of states that no action leaves
for certain (`Doomed`), also relative to states that may not be used
(`Blocked`), which is what the failure of a nested `solve` means. `MCAOStar`
assumes, and TLC evaluates, that the two agree on all its tasks.

`TaskFamilies` enumerates small tasks: all lists of up to two actions per state
over four states, deterministic or with two outcomes, with and without dead
ends; self-loops, cycles, unsolvable tasks and the task whose initial state is a
goal are among them. Four states are enough for two memoised states to refer to
each other, for a cycle that is met from two sides and for a refutation that is
replayed at another depth. EHC uses five states, so that a plateau of two levels
can lead into a second one.

### 3.2 AO*: `AOStar`, `AOStarProofs`

`aostar::search` and `dfs` (`search.cpp` 398-653). The recursion is an explicit
stack: `arg` holds the call being entered or returned from, `ret` its
`DfsResult`, a frame the locals of a call that is past its early returns. There
is one action for each early return, each way through the loop over actions and
branches, and each exit of the deepening loop; the two memos, the ancestor set
and the `truncated` flag are variables. `Expire` may happen between any two
steps, which covers both the clock and the cancel flag of the portfolio.
Candidates are tried in any order, which covers every heuristic.

Run `aostar`: the family with sensing, one without, and a part of the first with
the depth limit 2 (policies there need up to 3 actions, so the limit bites).
It checks the type invariant, that the solved memo is a policy, that the refuted
memo is right, that deepening is exact (a bound is tried only when no smaller one
suffices, and the plan has the least height), that the memos only improve, that
exhaustion is a proof where nothing is sensed, and termination.

Run `aostar_exhaustion` refutes the general claim. On the chain 1, 2, 3, 4, 5
whose first state also has a sensing action with outcomes 3 and 2, a failure
caused by the depth bound is stored as *not truncated*, because the flag was
already up when the state was entered; the next iteration replays it without
raising the flag and the search reports "Search space exhausted" although the
chain itself is a plan. The driver then does not replan either, because it
believes the claim.

Proved in `AOStarProofs`, for every set of states, every task and every depth
limit: `TypeCorrect`, `SolvedMemoCorrect`, `RefutedMemoCorrect`,
`AncestorsCorrect` and `MemosImprove`. None of the invariants is inductive
alone. `IInv` adds what the frames of the stack know: a frame's earlier branches
are certified within its height, and, unless it is tainted, the actions it is
through with are hopeless within its depth (`FramesInv`); each call is the branch
its caller is trying, one level deeper (`PathInv`); and what a result promises
(`ResultInv`). `RefutedMemoCorrect` needs all of it: a failure is memoised only
when no action is left, and the height of a policy is one more than the greatest
height of its branches (`PolicyStep`). One lemma per action or group of actions
shows that `IInv` is kept. Two more theorems rest on invariants of their own,
which `FramesStep` serves: it says what each step does to the actions that the
frames are through with.

`DeepeningExact`: a bound is tried only when no smaller one suffices, and the plan
returned has the least height. The refuted memo cannot show this, because a
failure that the cut on ancestors has tainted is not memoised; but until the
deadline every failure that is returned is right for policies *that stay off the
path* (`RightOffThePath`), and the root has an empty path. The induction is
`AvoidingStep`: a state that has a policy has one that does not come back to it.

`LinearExhaustionCorrect`: without sensing, an exhausted search proves that there
is no plan. Here the search may give up on a state because the path or the refuted
memo met it nearer to the root. `LinearInv` says that in an iteration that nothing
has truncated, every state given up on is nearer to the root than where it was met,
or lost: in a set of states whose successors are in the set one further away, or
no further from the root than the state itself. If the root is lost, then
every state with a plan that can be reached is (`PocketHoldsAll`), and a plan would
have to leave that set (`LostRoot`). With sensing the argument breaks:
an action is abandoned at its first failing branch, so a state that is nearer to
the root need not have been looked at there; run `aostar_exhaustion` is a case.

The assumptions are that graphs have the shape of `IsGraph`, that dead ends have no
policy (`DeadEndAssumption`, the promise of h^Δ), that `Heights` is what its
definition says (`HeightsAssumption`), and that a policy has as many heights to
choose from as there are states to label (`RanksSuffice`; by `Relabel` it needs no
more). `Termination` is liveness and only model-checked.

### 3.3 Replanning: `Replan`, `ReplanProofs`

`replan::solve` and `find_path` (`replan.cpp`), in the same style: `solved`,
`dead`, `banned` and the recursion stack are variables; a frame holds the local
bans, the taint and what is left of the path as a hint to the next branch. In
`find_path` any open node may be expanded next, which covers the heuristic and
the heap; the order of actions and outcomes inside an expansion is the code's,
because an expansion stops at the first goal or solved state.

Run `replan`: on the family with sensing. The solved states form a policy,
whatever order they were found in; a state is dead only if no policy exists; a
call that fails in time proves that no policy avoids the states on the recursion
stack, hence "No solution exists" is true; a hint is the rest of a real path;
nothing on the stack is settled already; the search ends.
The code has a branch for a hinted action that turns out to be inapplicable
(line 226). It is not modelled: a hint is only used in the state it was found in.

Proved in `ReplanProofs`, for every set of states, every task and every order of
expansion: `PoliciesAreSound`, `DeadStatesAreDoomed`, `FailuresAreProofs`,
`HintsStayPaths`, `NothingSettledTwice` and `TypeCorrect`. `IInv` adds what each
frame knows (`FrameFits`): each call is for the branch its caller is trying, the
earlier branches are solved, what is left of the path is a hint, and an action
banned for this call only has an outcome that is blocked by the states below it;
what a result promises (`Results`); and what a path search has seen
(`PathSearch`: the remembered paths are paths, and every allowed action of an
expanded node leads to a node, a dead state or the recursion stack). The core of
the argument is `ExhaustionBlocks`: when nothing is left to expand, the reached
states and those that the stack S blocks are together a trap around S without
the state itself, and around nothing if the search was not tainted. That a state
is solved once, after the states it uses, is why the policy has no cycle
(`SolveStateIInv`). `PruningAssumption` is the promise of h^Δ.

### 3.4 GBFS: `GBFS`, `GBFSProofs`

`gbfs::search` and `run` (`search.cpp` 195-378). A step pops a node and chooses
its candidates (all, or any nonempty part in the run with helpful actions); then
the successors are built either one by one as they are merged, or all at once, in
any order, against the closed set of the expansion's start; then they are merged
in action order. The deadline may cut a batch short. The threads of the pool
appear only as the arbitrary order in which candidates are built.

Run `gbfs`: tasks without sensing, because GBFS applies an action to all
designated worlds and so has one successor per action; part of them with the
limit 2. Plans are executable, no state is in the arena twice, an exhausted run
over all actions is a proof and leaving out actions only delays it, what was
built in parallel merges as if built now, and the search ends.

Two remarks that no run checks. The second run counts its expansions afresh, so
a search may expand up to twice `max_nodes` nodes, which `search.hpp:96` calls
the expansion limit. And `pruned` is still set during the second run, so when
that one is exhausted it says "Helpful-action search exhausted".

Proved in `GBFSProofs`, for any states, any task whose actions have one outcome,
any heuristic, any choice of helpful actions and any limit: `PlansAreExecutable`,
`DuplicatesAreDetected`, `ExhaustionIsProof` and `MergingIsSerial`. `IInv` adds
what the phases have in common (`Phases`), what is being expanded (`Expansion`),
that what was built against an older closed set is still true except that a new
state may have been met since (`BuiltRightly`), that in a run which has left
nothing out every expanded node leads back into the arena or to a state without a
plan (`Explored`), and what an end means (`Ending`). `NothingLeftToTry` is the
argument for exhaustion: the closed states together with the traps of the
hopeless ones form a trap. `LinearAssumption` says that the tasks have no
sensing, `PruningAssumption` that states dropped as dead ends have no plan.

### 3.5 EHC: `EHC`, `EHCProofs`

`ehc::search` (`search.cpp` 670-869). The heuristic is a function from states to
0..2, chosen freely, with 0 at goals; three values allow a descent, a plateau and
a second descent. Expansions are single steps since nothing interleaves with
them and the budget is only read between them.

Run `ehc`: plans are executable; no state enters the arena twice although two
phases share the visited set; the climb compares with the value of the state it
is in, also after an escape; the escape meets states in the order of their
distance from where it began and its queue holds none that is better; the search
ends. EHC is incomplete by design, so its message "BFS escape exhausted — no
solution" is no proof, and no property claims it. The driver falls back to GBFS.

Proved in `EHCProofs`, for any states, any task whose actions have one outcome
(`EHCAssumption`), any values of the heuristic and any limit: `PlansAreExecutable`,
`StatesAreMetOnce` and `EscapeIsBreadthFirst`. All of them rest on one fact about
growth (`GrowthIsNew`): the arena only grows at its end, by children of one node
whose states are outside the visited set and pairwise different. `NoGoalVisited`
is the strengthening that makes a goal, which is never put into the visited set,
new as well; in an expansion of the plateau, `AddedFacts` derives that only the
last child can be a goal or better, so the queue gets none.

### 3.6 Thread pool: `ParallelLoop`, `ThreadPool`, `ThreadPoolProofs`

`ParallelLoop` is the promise of `par::for_each_index`: every index is executed
once, and the call returns when all are finished. `ThreadPool` models
`parallel.cpp`: `run`, `try_run`, `drain`, `work` and the destructor. A critical
section of `m_` is one step and so is every access outside it: taking an index,
comparing it with `n_`, calling the body through `ctx_`. A thread blocked in a
condition variable is in `asleep` until a notification takes it out, so a lost
wake-up would leave it there. Bodies may call loops themselves (`Nesters` says
whose bodies do): while the thread is in a pooled loop, the thread-local
`in_loop` makes such a call serial. `loop` is a history variable that records for
each place a loop can be called from what was executed of it; the refinement
`ImplementsLoops` maps it to the variable of `ParallelLoop`.

Run `pool`: the main thread and a member of the portfolio, each calling one loop
of up to two indices, and two workers: enough for a late worker of the first loop
to meet the second one, and for a second caller to find the pool taken. The
bodies that the main thread executes call a loop of two indices, whose own bodies
run nested once more. The pool implements the loops, is quiet whenever `owner_`
is free (so that `n_`, `ctx_` and `fn_` may be overwritten, which `drain` reads
without a lock), nobody tries a mutex it holds, every call returns and the
workers end with the process.

Proved in `ThreadPoolProofs`, for any number of callers and workers, any sizes,
any number of calls, any depth of nesting and any choice of `Nesters`:
`PoolTypes` (the type invariant), `FreeIsQuiet` and `NoRelock`. `IInv` adds to the types
a description of each thread by itself (`Fits`: its frames belong to the place it
is in, `in_loop` is set exactly inside a pooled body, whoever owns the pool is
in `try_run`, an executing worker has an index), the fact that makes the pool
quiet (`Counted`: `busy_` is the number of workers that still owe a decrement) and
what holds once the pool is being destroyed. A step changes one thread, so one
lemma each says that the other threads still fit, that the debts of the others
are the same, and that what concerns the ending is kept.

The second half of `ThreadPoolProofs` proves `PoolImplementsLoops`: `ThreadPool`
implements `ParallelLoop`. Its invariant `RInv`, on top of `IInv`, says of each thread which
of its places hold a loop (`PlacesFit`) and how far its serial loops are
(`BodiesFit`, `BetweenFits`), and of the loop in the pool, from its publication to
its return, that its place is its owner's (`OwnersPlace`), that the indices begun
are those below `next_` that no thread is still testing, that those not finished
are in some thread's frame (`ProgressFits`), and that no index is with two threads
(`ClaimsFit`). `busy_` being zero then means that no frame holds an index, and the
owner has itself met an index beyond the last, so all have finished. Each step is
shown to be a call, start, finish or return of `ParallelLoop`, or to leave the
loops alone.

Left out: spurious wake-ups (every wait has a predicate, so they only add steps
that change nothing) and spurious failures of `try_lock` (they lead to the serial
path, which is also taken when the pool is taken). `set_threads` is called only
while options are parsed, before there is a pool; it is the constant `Workers`.
Only model-checked: `CallsReturn`, a liveness property.

### 3.7 Portfolio: `Portfolio`, `PortfolioProofs`

`race` (`portfolio.cpp`). A member is what its search would end with: a plan,
exhaustion, or nothing until it is stopped. Run `portfolio`: four members and
every combination of fates. No plan is lost: a race in which some member found a
plan returns one member's, whole and with its label, and nobody outlives the race
(the threads use the frame of `race`); and a plan ends the race although
other members would search for ever.
Run `portfolio_unsolvable`: the flag `unsolvable` of the outcome is never set,
because only outcomes with a plan are kept.

Proved in `PortfolioProofs`, for any number of members: `RaceKeepsPlans`
(`NoPlanIsLost`), from the invariant that the winner is empty or the result of a
member that has ended, and that a member that ended with a plan has left a
winner; and `FirstPlanStays`: a later report never replaces a winner.

### 3.8 States, updates and symmetry: `Kripke`, `Update`, `Symmetry`, `TaskPath`, `StateSpace`, `Validator`, `PlanReplay`, `StateSpaceProofs`

`Kripke` has epistemic states, the model checker for every connective
(`Sat` is the set of worlds where a formula holds, so each connective is a set
operation), restriction to reachable worlds, partition refinement with the
canonical order of classes, and the quotient. The code compares valuations as
lists of signed 32-bit words and sets of classes by size and then as lists, and
the order of classes is the identity of a contracted state, so these orders are
modelled. `Update` has applicability, the choice of one event relation per agent
from the whole state, the product, the treatment of agents left without a world
(`Ignore`, `Require`, `Repair`, the last with the greatest serial core), the split
by outcome and the successors that the searches build. `Symmetry` has the
renamings of two agents, what it takes for one to be a symmetry of the task, the
stabiliser of a state and the filter `Keep`. `Validator` has what the replay of a
plan asks at a node and where it goes from there; `PlanReplay` replays the policies
that AO* may find.

`TaskPath` declares a set of tasks and a path of updates, and `StateSpace` composes
the modules: `Expand` and `ExpandOutcome` follow one path of a
search with contraction after every update (`state`) and the same path on whole
models (`raw`), which is what the path means. What a task may be is stated once, in
`TasksAssumption` and `FormulasAssumption`: a finite Kripke model to start from,
actions whose formulas are interned after their subformulas (`formula.cpp`,
`intern`), one of three treatments of contradictory beliefs.

Run `space`: four tasks (a coin in a box that agents peek at, turn over, open or
lie about, once for each treatment of contradictory beliefs; and agents who call
each other to tell secrets) and paths of three updates. `ContractionIsExact`:
every world that matters has exactly one bisimilar world in the contracted state.
`NumberingIsCanonical`: contracting the uncontracted path in any order of its
worlds gives the identical state, on which closed lists rely.
`BeliefsStayConsistent`: under `Require` and `Repair` no reachable world leaves an
agent without a successor, on either side, except in an initial state that is
inconsistent itself: the searches take it as given, and only the validator refuses
it (`validator.cpp:123`). `SymmetryLosesNothing`: the successor
of a skipped action is, up to swaps that fix the current state, that of a kept
one; this for every subset of these swaps, since a deadline may cut `detect` short
(`symmetry.cpp:233`). `PlansValidate`: every policy of up to two actions that AO* may
build from here is accepted, although the validator asks for consistency before an action
and the search after it.

`StateSpaceProofs` proves the first three for every finite task, and the fourth for
those whose swaps are symmetries (below). The inductive
invariant is `PathInv`: `state` is the contraction of `raw`, number by number
(checked on the run's instance before it was proved). The properties alone are not
inductive: a successor is computed from `state`, so one must know that the update
of a state and the update of its contraction are the same situation. The argument:

1. Bisimilar worlds satisfy the same formulas, common belief included
   (`SatAgrees`), by least counterexample over the height of a formula.
2. So bisimilar models agree on applicability and event relations, their products
   are bisimilar through the same events (`ProductLinked`), the consistency step
   treats them alike and leaves them consistent (`AdmitAgrees`), and their outcomes
   correspond (`UpdateAgrees`, `DesignatingLinked`).
3. The orders that `bisim_contract` sorts by are strict and total
   (`ValuationLessIs`, `ShorterIsStrict`, `PointOrderIsStrict`, `KeyOrderIsStrict`):
   no two different keys tie, so a rank stands for a key (`RankingIs`). A
   comparison of valuations as signed words is the order by the most significant
   difference, the sign bits turned around.
4. Refinement ends (`RefinementEnds`), in classes of worlds that nothing tells
   apart (`FinalClassesAre`), and refines bisimilar models in step with equal class
   numbers (`SplitsAgree`, `FinalClassesAgree`).
5. So a contraction is bisimilar to its model and minimal (`ContractionIs`), and
   bisimilar models have the very same contraction (`ContractionIsCanonical`).

`SymmetrySound` (`SymmetryLosesNothing`) rests on the same facts, in two steps:

1. One swap. A formula and its image hold in the same worlds of a state and of the
   renamed state (`SatRenamed`, by the height of formulas; `RenamesEquations` gives
   the recursive comparison its value); so the product of the renamed state with the
   image of an action is the renamed product (`ProductRenamed`), and the consistency
   step treats it alike (`AdmitRenamed`). If the swap fixes the state, the renamed
   state is bisimilar to it, so the image of an applicable action is applicable and
   leads to the renamed successor (`SuccessorRenamed`).
2. All swaps. Swapping a and b, then b and c, then a and b swaps a and c
   (`SwapTokensThrough`), so any two agents of a component can be exchanged
   (`ComponentsInterchange`), and the first of the names that exchanges make of an
   action's name, in lexicographic order, passes `Keep` (`FirstNameIsKept`).

Its hypothesis `SwapsAreSymmetries` says of a task: the formulas speak of its agents
and atoms, it has finitely many actions, the names of atoms are different (the parser
indexes atoms by name), and two actions that `detect` takes for images
of each other have the same relation for agents without a matching case. The last
does not hold of every task, because `maps_action` does not compare that relation.
TLC evaluates the hypothesis for the tasks of the run (`TasksAreSymmetric`).

`PoliciesValidate` covers policies of any depth, which `PlansValidate` does up to two
actions. A policy is a tree, and induction over trees is out of reach, so both sides
are stated on sets of pairs of a state and a tree: `AOStarPolicies`, a set that with a
pair holds a pair for every outcome of its action, and `ReplaySucceeds`, the set of
pairs that `replay` collects in `visited` when it objects to none. The step is
`StepReplays`: `Require` and `Ignore` differ only in refusing contradictory products,
so the validator's update is AO*'s, its outcomes are the same states and consistent.
The hypothesis is that no initial state that must be consistent is contradictory: AO*
searches from such a state, and the validator refuses it (`TasksAreConsistent` for the
tasks of the run).

What is abstracted: the pool of shared successor sets is equality of values,
bitsets are sets, a fingerprint is the state itself (no hash collisions), and the
lazy cache of extensions, which holds values of `Sat`, is left out.

Remarks from reading the code, which no run checks: `symmetry.cpp:56-83` compares
the observability cases of two actions but not the relation of agents without a
matching case, so two actions that differ only there count as images; the world
cap is unlimited (`world_cap_policy.hpp:54`), while the repository's `README.md`
(line 339) still says that it prunes; the comments at `action.hpp:76` and
`validator.cpp:69` describe applicability of a sensing action as existential,
while `Action::applicable` asks every designated world to be covered;
the validator accepts a tree that lacks a
branch for an outcome that can occur (`Replay` passes it over like the code).

### 3.9 Dead ends: `HDelta`, `StateSpaceProofs`

`hdelta.cpp`: the relaxation whose layers say where each formula may be true and
may be false after a number of updates, which worlds may be eliminated or leave
the designated set, and which edges may be cut. Its four refinements rest on facts
about frames that are read off the start and the event relations: reflexive
agents (R1), events decided by an agent's own attitudes (R2, R4) and
applicability (R3). `Answer`, `GiveUp`, `Step` and `TimeOut` are the loop of
`h_delta_until`; then `Explore` makes real updates from the same start, and `anc`
remembers of which world of the start each world is a descendant.

Run `hdelta`: eight tasks (muddy children with and without the father's
announcement, telephone calls, a mumbled announcement that somebody may have
misheard, coins with false beliefs, two unsolvable ones, and a row of switches
longer than the bound on layers), from the initial state and from each of its
successors. `FormulasCovered`: a formula that holds (fails) at a descendant after
k updates may be true (false) at its ancestor in layer k. `LossesCovered`: what
updates take away was foreseen, and the frame facts hold for good.
`GoalNotBeforeEstimate`: h never exceeds the number of updates to a goal, and no
number of updates reaches it if h is infinite and the last layer a fixed point.
The code also returns infinity when it reaches its bound on layers, which proves
only that no plan of so few updates exists; in the model `Infinity` is one more
than `MaxLayers`, so exactly this is claimed there. The goal of the switches takes
four updates and the bound is three layers, so there infinity is reported of a task
that has a plan, and the run follows that plan. Tasks that repair contradictory
beliefs are left out: repair deletes worlds that the relaxation does not model,
and h^Δ "itself assumes it is off" (`hdelta.cpp:81`).

Run `hdelta_common` refutes admissibility for common belief. F of common belief
needs a path of at least one edge, while the model checker looks at the world
itself too. Where an agent's beliefs are false no edge leads back to the actual
world, the relaxation never lets the common belief be false, and it calls a task
unsolvable that one announcement solves. Asked about the state after the
announcement, where TLC's trace begins, it answers the same although the goal holds
there: no layer looks at the goal as the model checker does. In run `hdelta` common belief is asked
about only where all agents are reflexive.

`StateSpaceProofs` proves the three properties for every finite task in the scope
of the relaxation (`InScope`, a hypothesis of the theorems that TLC evaluates on
all tasks of run `hdelta`): no repair, and a reflexive agent in every group whose
common belief is asked for. One reflexive agent is enough: from a world that
falsifies the formula its edge leads back there. The inductive invariant
`EstimateInv` says that the layers are each the step of the one before, that those
before the last do not reach the goal, that the real state descends from the start
(`Descends`), and that the layer of as many steps as updates were made, or the
last one past the fixed point, stands for it (`Covered`). The properties are not
inductive: what formulas are worth in the next state depends on its literals,
worlds, designated worlds and edges, and those on the events that the layer before
let happen. (A scratch configuration checked the invariant on the run's tasks
first.) The argument:

1. In a layer that stands for a state every formula is covered, whatever its depth
   (`FormulasAreCovered`), by least counterexample over its height; the loops of
   common belief compute a greatest and a closed set (`MayShareIsGreatest`,
   `MayNotShareIsClosed`).
2. The facts of the frame hold for every state the start can become
   (`DescendsKept`): the reading of the start and the event relations at
   `hdelta.cpp:82` is an invariant, although only the start is looked at.
   So a formula about an agent's own attitudes has one value in all worlds the
   agent considers (`OwnAttitudesTravel`, `IntrospectionTravels`), which is what
   R2, R3 and R4 need.
3. The next layer foresees the literals, designated worlds, worlds and edges of an
   update with all its outcomes or one (`LiteralsCovered`, `DesignationsCovered`,
   `WorldsCovered`, `EdgesCovered`), so it stands for it (`CoveredKept`). Cut rows
   only grow from layer to layer (`CutsGrow`), though they are computed anew.
4. A state that satisfies the goal is one whose layer reaches it
   (`ReachedIfSatisfied`), so the layers that did not reach it exclude the goal.

The estimate is for the initial state or a successor of it; a search node further
down is the initial state of another task. Following whole models instead of
contracted ones loses nothing, by `PathInvariant`.

Left out: `prunes` and the h^Δ heuristics, which call the same function from
inside the searches, `h_delta_both`, and the coarser treatment of groups whose
edges are very many.

### 3.10 Selection and driver: `Selection`, `Driver`, `DriverProofs`

`Selection` is `selection_policy.cpp`: the features of a task, rules as sets of
conditions, what is checked of a rule list when a file is loaded (known labels and
features, no rule after one that always matches, a last rule that does), the first
match, and the built-in lists. A file may replace one list and keep the other.

`Driver` is `main` (`main.cpp`) from loading the policy to the exit. The initial
state chooses the command line, the policy file and what is true of the task: its
features, whether a linear plan exists, whether a policy does, and whether the
relaxation covers it (`covered`): an infinite h^Δ is right, of the initial state
and of all others. `EstimateAdmissible` shows this for tasks in `InScope` whose
relaxation ends below the bound on layers: a policy has a leaf, and the path to it
is one of those that `Explore` takes. A search is one
step here, and `GBFSReturns`, `EHCReturns`, `AOStarReturns`, `ReplanReturns` and
`RaceReturns` say what it may return: what the modules above show of it. Two
faults of section 5 reach the driver (on that of `portfolio_unsolvable` only a log
line depends). On a task with sensing actions AO*'s claim of exhaustion may be wrong
(`aostar_exhaustion`). On a task that is not covered infinity may be wrong, for
the reason in `hdelta_common`, or because of seriality repair or the bound on
layers; then the root test (`RootIsDead`) may write `null` whatever the task, even
if its goal holds already, because `main` asks h^Δ before any search looks at the
goal; and under `--dead-ends suspect`, the default, or `all` the searches drop states
from which there is a way, and may return nothing in time (`Misled`). The share of time that an
auto-selected AO* gets (`share_over`) and the deadline of the run (`late`) may end
before any step.

Run `driver` covers every combination of these facts, options, eleven policy files
(good ones, one with a rule of empty name, and ones with a missing last rule, a
dead rule, a misspelt feature, an unknown label, no rule, no list) and moments, for seven kinds of tasks on both
sides of the thresholds of the built-in policy. `FileHoldsOneAnswer`: a run with
exit status 0 has written exactly one answer, which is true of the task, and a
task whose goal holds at once gets `[]`, not `null`, unless the root test wrote
`null` of a task that is not covered. `NullIsJustified`: a run that
answers `null` before its deadline has missed nothing, provided that no limit was
set, or replanning had the last word; the exceptions are a wrong claim of
exhaustion, after which `main` does not replan, and what h^Δ says of a task that is
not covered. A `null` of the root test is held to this whatever the limit and the
clock: of a covered task it is right. `PolicyDecides`
(docs/usage.md:226): a policy that was accepted decides for every task, so that a
label is refused only if it came from the command line, and the strategy that runs
is that of the first rule that fits.

Whether the policy chose AO*, so that replanning follows, `main` tells by the name
of the rule (`StrategyRule`). A policy file may give a rule the empty name: AO* then
keeps the whole time and its limit is final, although "auto-selected AO* on a sensing
task runs as a portfolio" (`main.cpp:327`) and the name "is empty only when a rule
list is itself empty" (`selection_policy.hpp:74`). The model has such a file, and
`NullIsJustified` excuses a limit only where AO* really shares. `docs/usage.md:221` lists fewer outcomes than the code
accepts (`portfolio`, `hd` and `hdsum` are missing); the model accepts what the code
does.

Proved in `DriverProofs`, for every set of policy files, every task and every
moment at which time runs out: `OneTrueAnswer`, `NullsAreJustified` and
`AcceptedPolicyDecides`. `IInv` adds the labels that are possible (`Labelled`),
that nothing is written and nothing refuted before the end (`Unanswered`), when the policy has been
accepted (`Accepted`) and what the searches behind each stage have shown
(`Shown`): a fallback is entered only after a search that proves something or
after the deadline. That selection decides rests on `MinIsLeast`,
`SelectTakesFirstMatch` and `LoadableDecides`: a list that passes validation ends
in a rule that always matches, so a first match exists.

A misspelt `--dead-ends` is noticed after the plan file was opened, so it leaves
the file empty with exit status 1; nothing is claimed of that case. The verdict
of the validator is only logged and changes neither the file nor the status, so
it is left out, as is the parsing of options.
The check for dead rules looks only for rules behind an unconditional one: in the
built-in lists the fourth and the fifth strategy rule for sensing overlap with
earlier ones, and the second heuristic rule on `sensing` can never fire.

## 4. Fairness

Each search has weak fairness on its own steps as a whole: the thread that runs
it is scheduled. Nothing forces the deadline, so termination holds without one.
The pool has weak fairness for each thread, the portfolio for `race` and for each
member (an endless search still reads the flag). `Driver`, `StateSpace` and
`HDelta` state safety only and have no fairness. No run uses strong fairness.
`StateSpace` and `HDelta` stop where a path has its greatest length or no action
applies, so their runs do not check deadlock.

## 5. What disagrees

| Run | What the code does | What it says |
|---|---|---|
| `aostar_exhaustion` | a refutation that hit the bound is stored as complete when the flag was already up (`search.cpp:582`) | "Erring this way can only delay the exhaustion proof, never fabricate one" (`search.cpp:536`) |
| `portfolio_unsolvable` | the flag stays in the member's own outcome (`portfolio.cpp:52`) | "AO* exhausted (no policy)" (`portfolio.hpp:16`) |
| `hdelta_common` | falsity of common belief is sought behind at least one edge (`hdelta.cpp:360`) | common belief includes the world itself (`state.cpp:147`), and "h^Delta = infinity proves that no plan and no policy exists" (`hdelta.hpp:171`) |

## 6. Bounds

Every bound is a constant of an MC module or a configuration.

| Constant | Module | What it bounds, and why it is enough |
|---|---|---|
| `Size` | `TaskFamilies` | states of a task: 4, two memoised states that refer to each other, a cycle met from two sides; 5 for EHC, two plateaus |
| `MaxDepth`, `MaxNodes` | searches | arguments of the searches, 0 for none; 2 where they must bite |
| `MaxH` | `EHC` | values of the heuristic: a descent, a plateau, a second descent |
| `Callers`, `Workers`, `Sizes`, `MaxCalls`, `Nesters`, `NestedSizes`, `MaxNesting` | `ThreadPool` | section 3.6; the proofs need none of them |
| `Order` | `Portfolio` | the members of the race: two with policies, two with linear plans |
| `Agents`, `Atoms`, `Formulas` | `Kripke` | three agents, because symmetry and common belief of a proper group need them; the language of the tasks |
| `MaxDepth` | `StateSpace`, `HDelta` | updates on a path: 3 and 4; the shortest solutions need two to three |
| `MaxLayers` | `HDelta` | layers of the relaxation: 3, the fixed point of all tasks but the switches, whose goal takes 4 updates |
| `PolicyFiles`, `FeatureSets` | `Driver` | section 3.10 |

Nothing else is bounded: counters such as `depth` and `expanded` are finite
because the searches end, which the runs check.

## 7. Proofs

| Module | Theorems | Holds for |
|---|---|---|
| `AOStarProofs` | `TypeCorrect`, `SolvedMemoCorrect`, `RefutedMemoCorrect`, `AncestorsCorrect`, `MemosImprove`, `DeepeningExact`, `LinearExhaustionCorrect` | every set of states, task and depth limit |
| `ThreadPoolProofs` | `Invariance`, `PoolTypes`, `FreeIsQuiet`, `NoRelock`, `PoolImplementsLoops` | any callers, workers, sizes, calls and nesting |
| `PortfolioProofs` | `RaceKeepsPlans`, `FirstPlanStays` | any members and fates |
| `ReplanProofs` | `PoliciesAreSound`, `DeadStatesAreDoomed`, `FailuresAreProofs`, `HintsStayPaths`, `NothingSettledTwice`, `TypeCorrect` | every set of states, task and order of expansion |
| `GBFSProofs` | `PlansAreExecutable`, `DuplicatesAreDetected`, `ExhaustionIsProof`, `MergingIsSerial` | every set of states, task without sensing and limit |
| `EHCProofs` | `PlansAreExecutable`, `StatesAreMetOnce`, `EscapeIsBreadthFirst` | every set of states, task without sensing, heuristic and limit |
| `StateSpaceProofs`, about `StateSpace` | `PathInvariant`, `TypeCorrect`, `NumberingCanonical`, `BeliefsConsistent`, `ContractionExact` | every set of tasks with finite initial models, every finite set of agents and atoms, every closed set of formulas, paths of any length |
| `StateSpaceProofs`, about `Validator` in `StateSpace` | `PoliciesValidate` | the same, for tasks with consistent initial states, policies of any depth |
| `StateSpaceProofs`, about `Symmetry` in `StateSpace` | `SymmetrySound` | the same, for tasks whose swaps are symmetries, any subset of the swaps |
| `StateSpaceProofs`, about `HDelta` | `EstimateInvariant`, `EstimateTypeCorrect`, `FormulasAlwaysCovered`, `LossesAlwaysCovered`, `EstimateAdmissible` | the same, for tasks in the scope of the relaxation, any bound on layers |
| `DriverProofs` | `OneTrueAnswer`, `NullsAreJustified`, `AcceptedPolicyDecides` | every set of policy files, task and options, whether or not the relaxation covers the task |

Each proof has one lemma per action or group of actions, saying that the
inductive invariant `IInv` is kept, and rests on the named assumptions of the
modules only; the theorems about `HDelta` also have the hypothesis `InScope`, `SymmetrySound`
has `SwapsAreSymmetries`, and `PoliciesValidate` that initial states are consistent
where they must be. Type invariants that are proved or that say nothing of their own are
stated in every module but not run everywhere.

What a loop of the code computes is a recursive function of the model. The library's
induction theorems cannot be instantiated here, so `StateSpaceProofs` gets the
value of such a function from least counterexamples: an equation that looks only
at points of smaller measure has a solution (`RecursionExists`), a loop whose
measure falls ends in its stopping set (`IterationExists`), and two loops that keep
a relation between their states end in related states (`IterationsRelate`). The
measures are the height of a formula (model checker, evaluation in a layer), the worlds not yet reached
or not yet deleted (reachability, common belief, seriality repair), the members a set can still gain
(components and orbits) and the classes still to be split (refinement). `AOStarProofs` uses least counterexamples for the
relation between iterations as well.

Only model-checked: liveness, which needs fairness and ENABLED; and
`PlansValidate` as it stands, because its enumeration of policies and its replay are
RECURSIVE operators over trees. `PoliciesValidate` proves its content for policies of
any depth, on sets of pairs (section 3.8).

## 8. What is not modelled

Heuristics (`heuristic.cpp`, `knowledge_relaxation.cpp`) enter the searches as
arbitrary orders and values, so every heuristic is covered; what they compute is
not modelled. A state may be dropped because its heuristic value is infinite, without
asking h^Δ (`prunes`, `hdelta.cpp:592`): that this is right, like h^Δ's own
verdicts, is an assumption of the search modules (`PruningAssumption`,
`DeadEndAssumption`). For linear plans `EstimateAdmissible` proves h^Δ's part of it in
the scope of section 3.9; `hdelta_common` shows tasks outside for which it is wrong.
`Driver` does not assume it: what a wrong infinity does to the answer is part of the
model (section 3.10). The
parser and the JSON reader turn files into immutable data; of the formula table only
the order in which formulas are interned matters (`FormulasAssumption`). The signature, the text of rules, plans and
log lines are output. The driver's modes that only print are left out. Hash
collisions of fingerprints, the cache of extensions and its unsynchronised filling
(`search.cpp:136`) are left out; the hazard list names them. `tools/`, benchmarks
and scripts are outside the planner.
