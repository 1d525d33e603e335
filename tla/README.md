# A verification project for analog-agent

analog-agent designs analog circuits in a closed loop: a request in natural
language is compiled into a task, a surrogate world model predicts what
candidates would do, a planner spends a limited number of real simulations on
the candidates that deserve them, ngspice answers, and the answers calibrate the
world model and are remembered. Around the loop stand optimizers with a store of
their own, experiments that compare the loop with ablations and baselines, and a
package of evidence made from those experiments. This directory holds TLA+
models of these parts, the TLC runs that check them on small instances, and
TLAPS proofs for every value of the constants.

## The system

| Layer | Code | State it keeps | Operations |
| --- | --- | --- | --- |
| interaction | `libs/interaction` | none: a text goes in, a `DesignSpec` or a question comes out | parse, compile, validate, repair in at most a few rounds |
| tasking | `libs/tasking` | none | compile a `DesignSpec` into a `DesignTask`, review a task |
| world model | `libs/world_model` | a `WorldModelBundle`: calibration statistics, usable regions, trust policy, an attached surrogate | predict, transition, roll out, rank, value a simulation, `calibrate_with_truth`, train and attach |
| planner | `libs/planner` | a `SearchState`: candidate pool, frontier, pending simulations, budgets, phase, risk context, traces | initialize, propose, evaluate, plan, select, ingest feedback, advance the phase, decide on termination |
| simulation | `libs/simulation`, `apps/worker_simulator` | one run directory and one artifact registry per simulation | compile, render, execute, measure, verify constraints, attribute failures, feed back |
| memory | `libs/memory` (`MemoryService`) | a `MemoryBundle`: episodes, patterns, reflections | ingest an episode, mine patterns, govern, forget, retrieve |
| episode store | `libs/memory/episode_store.py`, `scripts/run_*_optimization.py` | a JSON file that several processes load and rewrite | load, record, save; consolidate and mine |
| orchestrator | `apps/orchestrator` | the local variables of one loop | `run_planning_truth_loop`, `run_full_system_acceptance` |
| experiments | `libs/eval/experiment_runner.py`, `memory_evidence.py` | the local variables of one run | run one execution mode, run a suite, run a memory study |
| evidence | `libs/eval/*_evidence.py`, `submission_package.py`, export scripts | an archive of JSON, CSV and figure files | export a bundle, build the final package |
| API server | `apps/api_server` | none: the client sends the state and the bundles with every request | one route per service operation |

### How the layers interact

The services run in one process without threads and call each other. What makes
the order of calls interesting is that nobody owns a session: every service
returns a new state, and whoever holds it decides what to call next and with
which bundle. There are four kinds of driver:

- an API client, which sends the state and the bundles with every request;
- the truth loop and the acceptance loop (`apps/orchestrator/job_runner.py`),
  which run propose, evaluate, select, then for every selected candidate
  simulate and ingest, then advance the phase and ask whether to stop;
- the experiment runner, which runs the same services with parts switched off,
  or replaces them by a baseline that fills the search state itself;
- the memory studies, which run the truth loop repeatedly and hand the memory of
  one episode to the next.

The simulation layer takes one candidate through compile, execute, measure,
verify, certify and report. Its result carries a truth record for the world model
and a feedback for the planner, built by different functions;
`ingest_simulation_feedback` combines them. Ngspice runs as a subprocess with a
timeout; a run that fails is a result, a bundle that does not compile is an
exception that no loop catches.

Two parts leave the single process. The optimizer scripts are operating-system
processes that share a file without a lock. The evidence is exported by scripts
into files, and a build of the final package reads whatever is there while it
runs.

### What is hard here

- **Order of calls.** Answers may come late, twice or unasked; proposals
  overwrite records, because candidate ids are hashes; a call may be served with
  another bundle, a task reviewed against another spec than the one before.
- **Derived and cached state.** Frontier, best known candidate, risk context and
  pending list are copies kept beside the pool; predictions outlive the
  calibrations that change them; patterns outlive the episodes they were mined
  from; the package freezes the same figures twice.
- **Partial failure.** A batch is charged before it is simulated, and a
  verification can raise in the middle of it; one analysis of several can fail; a
  process can be killed with the store truncated; an export can die half way.
- **Several verdicts on one thing.** Lifecycle, feasibility, failure class,
  validity and truth record are each computed by a function of its own, and so
  are the claims of the comparison, of the bundles and of the chapter.
- **Limits.** Budgets of four kinds, batch, iteration, stagnation and memory
  limits, each counted in a different place.

`PROJECT.json` lists the hazards with the line where each bites and the
properties that would catch it.

## The modules

| Module | Models | Code |
| --- | --- | --- |
| `SpecCompilation` | parser, compiler, validator and repair loop of a specification | `libs/interaction`, `libs/schema/design_spec.py` |
| `TaskFormalization` | the task compiler and the four routes of both layers, for a client that edits its spec | `libs/tasking`, `apps/api_server/routes` |
| `PlanningService` | the search state and every operation of the planner, for the most general caller | `libs/planner`, `apps/api_server/routes/planning.py` |
| `EscalationLedger` | what the planner promises about simulations: an account that is charged and settled | abstract specification |
| `SimulationVerification` | one verification from compile to report | `libs/simulation` |
| `SimulationAnswers` | what a verification may answer the planner | the contract between the two |
| `PlanningTruthLoop` | the two loops, as a driver of `PlanningService` | `apps/orchestrator/job_runner.py` |
| `SurrogateTraining` | the dataset, its split, the nearest neighbours and their evaluation | `libs/world_model/dataset_builder.py`, `trainable_surrogate.py` |
| `WorldModel` | the bundle and every method of `WorldModelService` | `libs/world_model` |
| `MemoryLayer` | both operations of `MemoryService` and what they call | `libs/memory` |
| `MemoryStudies` | the ablation and the transfer study, as drivers of `MemoryLayer` | `libs/eval/memory_evidence.py` |
| `EpisodeConsolidation` | what is made of a list of stored episodes | `libs/memory/consolidation.py`, `design_pattern_miner.py` |
| `EpisodeStore` | the store and the optimizer processes that share it | `libs/memory/episode_store.py`, `scripts/run_*` |
| `Experiments` | every execution mode of `run_experiment`, as a driver of `PlanningService` | `libs/eval/experiment_runner.py` |
| `MethodEvidence` | the comparison of the methods, and the claims, tables and figures of the bundles | `libs/eval/*_evidence.py`, `benchmark_reporting.py` |
| `SubmissionPackage` | the exporters and the build of the package over an archive of files | `libs/eval/submission_package.py`, `scripts/` |
| `Lists` | what the code does with its lists: choosing, cutting off, stable sorting | Python itself |
| `*_proofs` | the theorems about the module of that name; `Memory_proofs` has those about `MemoryLayer` and `MemoryStudies`, `TasksAndVerdicts_proofs` those about `TaskFormalization` and `SimulationVerification` | |
| `MC*` | the small instances | |

How they are put together:

- `PlanningTruthLoop` and `Experiments` extend `PlanningService`. Their actions
  are a program counter and an operation of the service, so they cannot do
  anything to a search state that the service does not offer. The exception is
  what the code excepts: the baselines of the experiment runner write the pool
  themselves, and have actions for it.
- Neither contains the simulation pipeline. Both draw the answer of a simulation
  from `Answers(fidelity, constrained)` in `SimulationAnswers`, and
  `SimulationVerification` is proved to give only such answers (`PromiseKept`).
- `MemoryStudies` extends `MemoryLayer` and ingests through its operators.
- `EpisodeStore` extends `EpisodeConsolidation`, `WorldModel` extends
  `SurrogateTraining`, `TaskFormalization` extends `SpecCompilation` and
  `SubmissionPackage` extends `MethodEvidence`: in each pair the second is the
  state machine and the first the pure functions it calls.
- `PlanningService` refines `EscalationLedger` (`LedgerKept`).

### SpecCompilation and TaskFormalization

A text is a record of what the patterns of the parser find in it: families,
generic words, hints, and the stated bounds in their order. `spec` is the
`DesignSpec` the client holds, `task` the last answer of the task compiler,
`response` the last answer of any other route. Actions: `CompileSpec`, `Edit`
(what a client may change, validated by nobody), `RepairSpec`, `CompileTask`,
`ValidateTask`. The compilers of task type, topology, design space, objective,
constraints, evaluation plan, solver and task graph are operators, composed in
`CompileDesignTask`. The patterns themselves, units, numeric domains and seeds
are left out.

### PlanningService

| Variable | `SearchState` field |
| --- | --- |
| `pool` | `candidate_pool_state`: id to lifecycle, and the bundle version whose prediction the record stores |
| `frontierIds` | `frontier_state.frontier_candidate_ids` |
| `pendingRefs` | `pending_simulation_refs` |
| `budget` | the four `*_used` counters of `budget_state` |
| `phase`, `stagnation` | `phase_state.current_phase`, `.stagnation_counter` |
| `calibrationRequired` | `risk_context.calibration_required` |
| `bestFeasible` | `best_known_feasible` |
| `traces` | `len(trace_log)` |
| `bundle` | the `WorldModelBundle` the service object holds |

Actions: `ProposeCandidates`, `EvaluateCandidates`, `PlanNextActions`,
`SelectForSimulation`, `IngestSimulationFeedback`, `AdvancePhase`, and
`SupplyBundle` for a request that comes with another bundle. Every action ends
with the `_refresh_search_state` of the code (`RefreshSearchState`).

The world model is a parameter. `Predict(b, c)` is the trust tier, the trust
flag, the probability of feasibility, the value of a simulation, the confidence
and the closeness of the smallest margin, as bundle version `b` sees candidate
`c`; a calibration may lead to any version. Priority scores order candidates in
the code and change with every calibration, so where the code sorts the model
takes any order. Thresholds the code compares with (0.15, 0.5, 0.75, 0.8, 0.45)
are kept, in percent. Not kept: the histories and summaries inside records, the
trace contents, pressures and scores.

### SimulationVerification

`stage` walks through `verify_candidate`; `binding` is what
`_model_binding_from_config` resolved (builtin demonstrator, model card, PDK root
or a missing source), whether ngspice is native, and whether the run is for a
paper. What the simulator computes is a choice: each analysis succeeds or not
(`RunAnalysis`), each metric can be read off it or not (`Extract`), each
constraint holds or not, closely or not (`VerifyConstraints`), the corners hold
or not (`Certify`). The verdict functions are the code's: `CompletionStatus`,
`FailureClass`, `LifecycleUpdate`, `FeasibilityStatus`, `ResultValidity`.
`circuit` stands for the task: its plans, contracts and constraints are parameters,
since every circuit family has its own under `templates/testbench` or none, and so is
the analysis an extractor reads. Nothing is assumed of how a
contract fits its plan: a metric of an analysis that never ran reads as one whose
analysis failed, as in the code, and `Extracted` adds the bandwidth that is read on
the way to a phase margin.

### PlanningTruthLoop

`pc` and `step` are the position in the loop, `queue` the selected candidates
still to be simulated with their requested fidelity, `executed` and `baseline`
the two counters the comparison is made from, `answers` the last answer for each
candidate (`verification_by_candidate`). `truthLevel` is fixed by the model
binding of the machine. `mismatched` has no counterpart in the code, it records
what `MismatchRecovers` talks about. `FirstFidelity` makes the difference between
the two loops: the acceptance loop overrides the fidelity of its first
simulation with `default_fidelity`. `VerificationRaises` is the exception nobody
catches.

### WorldModel

One service is shared by callers who hold the states, rollouts and training runs
they were given and may ask for anything about any of them. `bundle` is
`self.bundle`, `initials` is `self._rollout_initial_states`; `states`, `rollouts`
and `training` are what callers hold. `residuals` is a history: the uncorrected
error of every truth so far, to which the learned correction is compared.
Parameters, metrics, confidences and coverages are integers (percent where the
code has a fraction), and rounding is kept, because running averages are rounded
at every update. The analytic proxies are a table of the family and the sum of
the parameters.

### MemoryLayer and MemoryStudies

`episodes`, `patterns`, `reflections` and `valid` are the memory bundle, `answer`
the last response. `IngestEpisode` is `ingest_episode` with consolidation, mining
over all episodes, governance, forgetting, reflection and validation in the order
of the code; `RetrieveRelevantMemory` scores, filters and advises. The overlap of
two task profiles beyond family and type is a parameter. In `MemoryStudies` the
planning truth loop is a response, its simulations in order and whether it ended
with a best known candidate; the study decides how many steps it may take, what
is ingested and what is counted.

### EpisodeStore

Each run of an optimizer is a process with a `pc` from `idle` over `running`,
`saving` and `verified` to `done`, `failed` or `killed`. `file` is absent, torn or
whole; opening it for writing truncates it, so a save is two steps, and two
writers that have it open together may leave a mixture (`mixed`). `recorded`,
`raced` and `killed` are histories for `SerialRunsKeepAll`. The acquisition and
the evolution are any choice of the next point.

### Experiments

`suite` is the sequence of modes under way; `Config(m)` holds the flags of a
mode; `pc` walks through a step of `run_experiment`; `calls`, `selected`,
`selectable`, `focused`, `hit` and `convergence` are the counters its records
are made of. `ProposeBySampling`, `SampledBatches`, `LearnedBatches` and
`TopKBatches` are the baselines, `Suppress` the branch that swallows an answer's
effect on the phase. What an optimizer draws and what its surrogate predicts is
any value its branch allows.

### MethodEvidence and SubmissionPackage

A suite maps each mode to the averages of its runs; the bundles are functions of
it, with the early ends of their builders (`NoBundle`). In `SubmissionPackage`,
`archive` gives the version each file holds, absent or torn. `Export` and
`ExportDies` are the scripts, `Begin`, `TakeStep`, `BuildDies` and `Finish` a
build, whose `Steps` read one group of files after another and write their
bundles as they go. `frozen` is what each step of this build has read. The
prose of the chapters is left out; the claims it is made of are in.

## What is checked

| Run | Distinct states | Question |
| --- | --- | --- |
| `planning_any_caller` | 53,420 | Do budgets, queue, pending list, views and phases stay consistent under any sequence of calls? |
| `simulation_verification` | 42,405 | Do the verdicts on one verification agree with each other and with what was measured, also when the contract asks for more than the plan yields? |
| `truth_loop` | 89,051 | Do the loop's books and the planner's agree, is every verdict earned, is the comparison with the baseline honest, does the loop end? |
| `world_model` | 2,158 | Does what is learned from truths help, do rollouts replay, and is a prediction never taken for a measurement? |
| `task_formalization` | 23,535 | Does a spec say what its text says, does repair settle, and is an accepted task measured, consistent and able to end? |
| `memory` | 21,844 | Do episodes, patterns, reflections and validity stay in step when the store forgets, and is advice grounded? |
| `memory_studies` | 872,844 | Are the memory modes compared on the same ground, and what are their verdicts worth? |
| `episode_store` | 180,891 | What do processes that overlap, follow each other or die leave in the store and in their reports? |
| `experiments` | 201,741 | Does every mode keep the same account, claim only what it simulated, and end? |
| `evidence_package` | 459,320 | Do claims follow from measurements, do copies agree, and what does readiness mean when files are missing, old or torn? |
| `suite_reduction` | violation | Is the reduction ratio of a suite within the range its schema allows? |
| `loop_mismatch_forgotten` | violation | Does a mismatch between truth and prediction lead to recovery? |

The runs of the planner, the verification and the world model also check a type
invariant each (`TypeOK`, twice, and `WorldTypeOK`). `MC<module>.tla` and
`MC<module>.cfg` are the instance of the module a run checks.

A run's properties are grouped; each group is the conjunction of named parts,
and every group is refuted by a mutated form of the code that stands beside the
definition it replaces.

**planning_any_caller.** `SpendingSound`: what is simulated was charged within
the budget (`BudgetsRespected`), nothing pending is unpaid (`PendingPaid`).
`QueueSound`: the lifecycle in the pool and the pending list, two encodings of
"waiting for the simulator", agree in the direction `should_terminate` relies on
(`QueuedIsPending`, `AnsweredNotPending`), and nothing is queued that its own
record calls blocked (`QueuedNotBlocked`). The converse does not hold and is not
claimed: a re-proposal can replace a queued record while its ref stays pending.
`ViewsFresh`: the derived views are those of the pool. `PhasesSound`:
`advance_phase` agrees with the `allowed_transitions` it never reads, and never
enters verification past a loss of trust it knows of. `LedgerKept`: the planner
implements `EscalationLedger`.

**simulation_verification.** `VerdictsSound` (`VerifiedIffCertified`,
`LostIffConstraintsFail`, `NothingClaimedUnmeasured`, `RejectedIsRefuted`),
`StrongTruthEarned`, and `AnswerPromised`, the contract the loops assume. Of the
two circuits of the instance, the two-stage OTA has a plan that yields every metric
with an extractor. Of the comparator only the power is bounded: its full robustness
plan has no ac analysis, but the contract holds `gbw_hz` and `phase_margin_deg`, which
the sweeps require, so a candidate with every analysis successful and every constraint
certified is sent back with `needs_more_simulation`. `VerifiedIffCertified` and
`LostIffConstraintsFail` say that the verdict for the planner and the feasibility status
agree except in this case, in which the planner never learns that a candidate is
verified or lost.

**truth_loop.** `BooksClose`: `simulations_used` is what was executed plus what
is queued, and `pending_simulation_refs` is what is queued, in every state.
`ComparisonHonest`: the saved simulations are never negative before they are
clipped. `VerdictsEarned`: verified needs a full certification under configured
truth, rejected a failing constraint, best_feasible a boundary verdict.
`StopsByItself`, `Ends`: `max_iterations` counts traces, so the loop ends after a
quarter of it, and every run ends.

**world_model.** `LearningSound`: the correction of a metric lies between zero and
the largest errors seen (`CorrectionWithinResiduals`), takes back a third of an
error all truths agree on (`AgreeingTruthsHelp`), no calibration is lost when a
surrogate is attached (`CalibrationKept`), and a surrogate is judged on records it
was not trained on, unless its split admits it or its candidate was verified again
(`EvalHeldOut`). `RolloutsSound`: frozen variables stay, a rollout is what its
actions make of its start, and its diagnostics are about it. `PredictionsHonest`:
intervals hold their values at the digits their bounds are rounded to (the code does
not round the value, so one of a few millionths may lie outside), a predicted state
shows the proxies of its own parameters and says so, and the trust given with a
ranking is that of its first.

**task_formalization.** `SpecsSound`: `TextsHonoured` (a text raises exactly when
two of its bounds contradict each other; otherwise no repair is needed, every bound
is there or a stronger one, whatever the order, the last target of a metric stands,
and nothing is there that was not stated) and `RepairSettles`. `TasksSound`:
`ReadyTasksKnown`, `MetricsMeasured` (bounds become thresholds, and targets where
there is no bound), `StructureAgrees` (the tables of the two layers agree on what is
designed), `GraphCloses` (wherever a failure sends the search, it can still end) and
`ReviewsRepeat` (a review sees nothing of what the client has supplied since).

**memory.** `ForgettingSound`: the newest episodes are kept, a bundle is valid
exactly while every reflection is on a stored episode, and a pattern names at
most one episode that is gone. `RetrievalSound`: advice is about an episode that
is there, in scope, and a task like a stored one is not answered as if it were
new. `NoFreshnessWithoutSupport`: mining anew makes no pattern fresher.

**memory_studies.** `AblationFair`: a mode sees only episodes it ingested itself,
memory costs an episode at most one step and only for something in return, and
the three counts of repeated failures agree. `EmptyVerdicts`: the block rate of
full memory and two of the verdicts come out the same whatever the loop answers.

**episode_store.** `StoreSound`: runs that follow each other lose nothing
(`SerialRunsKeepAll`), ids never repeat (`IdsUnique`). `ReportsSound`: a report
says met only on account of a feasible point, and its best design is the best.
`KnowledgeKept`: consolidation keeps what was feasible. `TornForGood`: a torn store
with nobody alive is never repaired. `RunsEnd`.

**experiments.** `AccountsSound`: every mode charges what it runs (`BooksBalance`)
and selects no more than it counts as selectable (`RatioValid`). `ClaimsEarned`: a
learned baseline claims a candidate only after a simulation, every baseline
simulates something, and what was found has a step. `SuppressedSteps`: without
calibration replanning no answer sends the search into recovery. `RunsEnd`.

**evidence_package.** `ArchiveSound`: a package lists no bundle older than itself
(`BundlesNotOlder`). `CopiesAgree`: the appendix agrees with the main part, the
verdict of one table with the counts of another, the boundary bundle with the
reports. `ReadinessSound`: ready means that the reports are there, and evidence
that was exported is not replaced by a fallback. `ClaimsMeasured`: each claim of
planner, world model and memory follows from the averages it is about, and each
figure from the rows it draws. A claim that calibration reduces the gap does not
mean that the gap is smaller on some metric: what is compared are averages over the
metrics each mode measured, so the full system may also have measured one that was
not measured without calibration; the instance has measurements of that kind.
`BuildsEnd`.

### Bounds, and why they are enough

- *Planner.* A candidate is the path of mutations that made it, so `Child` is
  injective, as the hash of the code is. Three kinds of prediction reach every
  branch of selection, screening and fidelity. Four calls after initialisation
  (`CallBound = 5`) are enough to queue, overwrite, answer, answer again and
  advance; the proofs have no bound. Three rollouts with two mutations end inside
  a proposal, two simulations in batches of two inside a batch. The code's own
  budgets (8 to 24 rollouts, 3 to 12 simulations) differ in size only.
- *Loop.* Four steps are one more than `MaxIterations = 13` allows, so that both
  ways to stop occur; four rollouts and simulations run out inside it.
- *Simulation.* The analyses of the two-stage OTA, a constraint the quick plan
  cannot measure, and a metric without an extractor; and a comparator,
  whose full contract has two metrics nothing planned yields.
- *World model.* Two families, one of which does not predict one of the metrics,
  a free and a frozen variable, truths that agree, differ and miss a metric,
  datasets that leave the split no choice. `Bounded` limits what a behaviour may
  leave behind to four calibrations or trainings, with a state or a rollout in the
  place of two; four truths are enough to see an average drift by its rounding.
- *Formalization.* Fourteen texts, chosen so that every branch of parser and
  compilers is taken; zero and three repair rounds; two edits, so that a task is
  reviewed against a spec two changes away.
- *Memory.* Three tasks of which two share a family and two a type, a store of
  four episodes and five patterns, six ingestions: forgetting starts at the fifth
  and goes on once more. Stale after one, expired after two, support two.
- *Studies.* Two episodes per mode (a first without and a second with memory),
  every response of up to two simulations.
- *Store.* A process with one run and one with two, two evaluations each, four
  outcomes, one of which is dominated and two of which are at one place. Killed at
  any moment, so every combination of a torn file and a live writer occurs.
- *Experiments.* Every mode alone and the pair a suite compares; two steps, five
  simulations in batches of two, so that a mode runs out inside a step.
- *Package.* Two builds and one export between them: one is enough to make the
  archive newer in the middle of a build, and a second build to leave the first
  one's package behind. The measurements differ from the usual ones in one mode,
  one study or one contract at a time, in every direction a claim tests.

Texts, numbers and file names beyond these do not occur in any guard.

### Fairness

- `LoopSpec` assumes weak fairness of the loop's steps other than
  `VerificationRaises`, `ExperimentSpec` of `ExperimentNext`. Both are sequential
  programs without a wait except for the simulator, and every simulation has a
  timeout (`apps/worker_simulator/ngspice_runner.py`). Nothing forces an
  exception, so fairness does not rely on one to end the loop.
- `EpisodeStore` assumes weak fairness of each process's `Step`: a started process
  goes on by itself, and its ngspice call has a timeout as well. Nothing forces
  anybody to start a run or to kill one.
- `SubmissionPackage` assumes that a build goes on (`TakeStep`, `BuildDies` or
  `Finish`). Exporters and new builds are never forced.
- Callers of the services are assumed to do nothing in particular.

Deadlock checking is off because every program here may stop.

## What is proved

For every value of the constants that satisfies the assumptions named in the
modules:

| Assumption | Says |
| --- | --- |
| `ConstantsAssumption`, `ChildAssumption`, `PredictAssumption` | budgets and limits of the planner are natural numbers, seeds exist, mutations of candidates are candidates, predictions are typed |
| `SimulationAssumption` | the plan of a circuit for a fidelity is a list of analyses |
| `LoopAssumption`, `ExperimentAssumption` | a loop takes a step; a suite is a list of modes, an experiment takes a step |
| `MemoryAssumption`, `IngestionAssumption` | the limits of the store are positive; a search that is ingested has a trace, and its failures and actions are texts |
| `StudyAssumption`, `ResponseAssumption`, `StudyIngestionAssumption` | a study has two episodes a mode and a step to spend; the loop numbers its simulations by its steps; what the studies ingest is among what may be ingested |
| `EpisodeStoreAssumption` | every run has evaluations to make, and an outcome measures natural numbers |
| `TaskAssumption`, `TrainingAssumption` | a task has finitely many variables, its frozen ones among them, and a family or templates to choose one from; circuit families are listed once, metrics are finitely many |
| `CallerAssumption`, `ChoiceAssumption`, `RolloutAssumption` | callers send requests and actions of the schema, an accepted action leaves a choice a choice (anything else raises), a rollout is asked for with a list of such actions |
| `TextAssumption`, `RoundsAssumption` | the patterns of the parser find what they can find in a text: finitely many words, hints of the table, and numbers for metrics that can be constrained; repair is allowed a number of rounds |
| `TruthAssumption`, `RecordsAssumption` | a truth measures integers; verification statistics are lists of their shape, caps are natural numbers |
| `EvidenceAssumption`, `PackageAssumption` | what was measured has the shape of a suite, a chapter (`IsChapter`) and contracts |

Three theorems about the world model have a hypothesis besides, `TablesTotal`:
normalization is defined for every value of a variable and the proxies for every sum
of parameters, as the functions of the code are (`feature_projection.py`,
`service.py`). It speaks of all integers, which TLC cannot enumerate, so it is a
hypothesis and not an `ASSUME`; the tables of `MCWorldModel` satisfy it, being
functions on `Int`.

**Planner** (`PlanningService_proofs`). `EscalationInvariant` is inductive. Its
parts are not, on their own: that a batch can be paid needs the budget's type;
that pending refs are paid needs that the batch is finite and charged in full;
that an answered candidate is not pending needs that queued ones are, and that a
selection only takes open records. `EscalationStep` has one step per operation
and reduces the two evaluating operations, the selection and the ingestion to one
lemma each (`EvaluationEffect`, `SelectionEffect`, `FeedbackEffect`).
`SpendingCorrect`, `QueueCorrect`, `ViewsCorrect` and `PhasesCorrect` follow.
`LedgerCorrect` shows that the planner implements `EscalationLedger` with
`charged <- budget.simulations, outstanding <- pendingRefs`: a selection is an
`Escalate`, an answer a `Settle` when it was awaited and a stutter otherwise.
All step lemmas are stated for `[Call]_vars`, without the bound on calls, so that
a driver inherits them.

**Verification** (`TasksAndVerdicts_proofs`). `PipelineInvariant` says what each
stage leaves for the ones behind it. `VerdictsCorrect` and `StrongTruthCorrect`
follow from it at stage `done`. The crux is `BlamedIsUnplanned`: when every analysis
of the plan succeeded, a metric is blamed on its analysis exactly when that analysis
is not in the plan, which needs that the whole plan was executed. Nothing is assumed
of the contract. `PromiseKept` is the guarantee the loops assume.

**Formalization** (`TasksAndVerdicts_proofs`). `ServicesInv` says that the client
holds a spec of the schema, whatever it has done to it (`EditsTyped`), that a task
was compiled from a spec the schema accepted, and that a review is of the task at
hand. `SpecsCorrect` rests on what the parser makes of any list of statements: by
induction along it, every bound that was stated is there or a stronger one, the
target is the last one that was stated, and every number of the spec was stated
(`Honoured`). The one direction makes contradictory statements contradict each other
in the spec, where the schema refuses them; the other makes a spec that is not
refused valid as it is, without a repair (`BuiltValid`). A round of repair mends all
but an overlap, on which it raises, and negative bounds, whose sign a swap keeps
(`RepairMends`); `Looped` lists where a loop can be after any number of rounds, and
`RepairSettles` is read off it. `TasksCorrect` is proved of the task that was
compiled: that an accepted task has no errors gives the directions of its
constraints (`NoErrors`), and that the search can end follows the edges back from
the end, one at a time, in the function `GraphCloses` defines (`GraphHolds`).

**Loop** (`PlanningTruthLoop_proofs`). `LoopStepIsCall`: a step of the loop is a
call of the service or leaves the search state alone, so `EscalationInvariant`
is inherited. `LoopInvariant` adds the books and, for the moment before a
selection, that what the baseline has just counted is all a batch can be taken
from (`BatchInBaseline`); without that conjunct `ComparisonHonest` is not
inductive. `VerdictsCorrect` is inductive relative to `LoopInvariant`.
`StopsCorrect` rests on `TraceInvariant`, which counts the operations of a step.

**Experiments** (`Experiments_proofs`). The baselines write the pool themselves, so
`EscalationInvariant` does not carry over: after a baseline's batch the queue is
what the mode says it is. `ExperimentInvariant` has an invariant of each kind of
mode in it. That a step never selects more than it counts as selectable
(`RatioValid`) needs that no driver leaves a candidate unevaluated
(`AllEvaluated`). That a learned baseline claims nothing unsimulated needs that its
surrogate stays below the threshold of belief until a simulation was feasible
(`SurrogateCautious`). That every compared baseline simulates something needs that
its first step has something to take (`FirstBatchComes`): a budget above zero
alone does not give that. That what was found has a step needs that a hit in an
open step is written to the log when it is closed (`FirstHitKept`).
`SuppressedCorrect` is the action property `SuppressedSteps`; it needs that the
flag is down again when a step is closed (`FlagSuppressed`). One lemma per action.

**Memory** (`Memory_proofs`). A first part is about the lists of the layer:
filtering, stable sorting and cutting off keep members and order, and the places of
a sort are taken once (`PlacesAreTaken`). `ForgettingSound` is not inductive: that a
bundle is valid exactly while its reflections are on stored episodes needs that
every pattern names an episode that was reflected on, with the count it was mined
with and the age that follows from it (`PatternsTraced`), and that all the episodes
patterns name and the store has not are one and the same (`OneGone`).
`NewestKept` ties the stored episodes to the newest reflections. `RetrievalCorrect`
needs the scores in the ranges the schema gives them: a task that shares family and
type with an episode scores above half whatever else differs. `FreshnessCorrect` is
the action property: the number of stored episodes never falls, and the age of a
pattern is a function of that number and its support.

**Studies** (`Memory_proofs`). `StudyInvariant` holds the memory layer's invariant
through both studies, since they ingest by its operators. Neither group of
properties is inductive. `AblationCorrect` needs that the reflections are as many as
the remembered records of the mode (`OwnReflections`), because reflections are never
forgotten and tie the size of the store to what was ingested, that failure classes
once seen stay known (`FailuresKept`), and that a shorter budget implies a retrieval
that gave something. `VerdictsCorrect` needs that the store holds the episodes of
one task only (`StoredOf`), so that a retrieval for a task without a common family or
type scores too low for governance to let it through; that no reflection is written
with a confidence below 55; and that the governed mode is the second of its study
(`SummariesSound`).

**Store** (`EpisodeStore_proofs`). `StoreSound` is not inductive: that ids do not
repeat needs that they are the places in the list, in memory and in the file
(`Numbers`), and that serial runs lose nothing needs that, while nothing has
raced, at most one process is alive and holds what was recorded (`Serial`).
Recording is the one step two optimizers share and has one lemma
(`RecordKeeps`). `TornCorrect` is the action property `TornForGood`.
`ReportsCorrect` follows the trail of a run: its best is the best of the trail
after every evaluation (`BestOf`), what a Bayesian run has evaluated is among the
episodes it holds, and a report that says met counts a feasible one of them
(`RunSound`). `KnowledgeCorrect` is about every list of recorded episodes. Its crux
is that deduplication drops an episode only for one that stands for it
(`Undominated`), which is shown by induction along the list. The prover cannot use
an induction theorem that takes a predicate; `Induct` states induction about a set
of numbers instead, and follows from numbers being well-founded.

**World model** (`WorldModel_proofs`). `RolloutsSound` is not inductive:
`RolloutInvariant` adds that a state tells its parameters in its id, that a rollout
passes through states each made from the one before by an action the task admits
(`Passes`), and that what the service remembers under the two ends of a rollout is
a state of the same parameters, although a later rollout between the same ends may
have replaced it (`Remembered`). The loop of a rollout and the replay of its actions
are recursive functions, so that they meet by `Induct`.

`LearningCorrect`, `PredictionsCorrect` and `WorldTypeCorrect` share
`LearningInvariant`: states are of the schema, the bundle and the training run are
sound (`SoundBundle`, `SoundRun`), every truth is counted (`Counted`), and each metric
knows what its residuals say (`Learned`). None of the three properties is inductive
without the last. The code averages the errors of predictions that were already
corrected, so the bias is no mean of the residuals; what survives is that it stays
between some residual and zero (`BiasStays`) and, while all truths agree on a residual
r, at least at half of r up to the rounding (`Halved`, `HalfStays`). The first truth
takes back a third of a bias that is all of r, the second two thirds and later ones the
whole of a bias that is at least half of it, so that a third of r is always taken back
(`ThirdHelps`). That an average of
percentages is a percentage, and a weighted average of neighbours an integer with a
spread that is not negative, follows from bounds on sums (`SumBetween`, `MeanBetween`)
and on the rounding of a fraction (`RoundedBetween`). A training run is followed from
the records of a dataset through the split to its examples: each list is made of
places of the one before, none taken twice (`PartOf`), which is why what was held back
for judging cannot have been trained on. `PredictionsCorrect` also needs
`RolloutInvariant`: `PredictedIsNotMeasured` is about the states a rollout passed
through, and follows along `Passes`. `RankingTrustIsTheBest` needs that the sorted list
begins with one of the two states (`RankedFirst`), which its id then identifies.
`WorldTypeCorrect` adds the rollouts callers hold (`RolloutsTyped`) and every dataset
that can be compiled (`DatasetTyped`).

**Package** (`SubmissionPackage_proofs`). That no bundle is older than the package
that lists it (`ArchiveCorrect`) needs that the steps a build has taken left its own
number behind. `ReadyCorrect` needs that a build inside the root of the papers has
made that root before it asks whether it exists. `AppendixCorrect` compares two
readings of a standing archive, and needs that the list of steps contains each
figure and table for each pack (`StepsSequence`). `CopiesCorrect` and
`ReadinessCorrect` add that what a step read could be parsed (`ReadingInvariant`),
and that a world-model bundle that can be parsed was written by an export whose
suite has the modes (`EvidenceInvariant`): an early end writes no file, which is why
a table never finds a bundle without its rows. `MeasuredCorrect` is about every suite
and every chapter: each claim is followed back to the averages it is made of. Sums are
the number of points under a graph (`Total`), so that a larger sum has a larger
summand by the cardinality of subsets (`TotalMonotone`) and needs no induction.

**Only model-checked.** Liveness (`Ends`, both `RunsEnd`, `BuildsEnd`) is out of the
prover's reach. Every safety invariant and every action property of a passing run is stated
by a theorem. The two runs that end in a counterexample have nothing to prove.

## Where the code and its own statements disagree

Two of these are runs that end in a counterexample; `PROJECT.json` quotes the
lines.

1. `ReductionValid`: the reduction ratio of a suite divides by the calls of a
   baseline that may have ended early; with two calls against five it is -1.5, and
   the schema refuses it.
2. `MismatchRecovers`: the last answer of a batch decides alone whether
   calibration is required.

Others were met while the code was modelled and are what the models do; no run is
spent on them.

- Planner and simulation: the contract of a full robustness run asks for `gbw_hz` and
  `phase_margin_deg` on account of its sweeps (`testbench_builder.py:193-201`, `262-274`),
  which are read from ac (`measurement_extractors.py`); without an ac analysis the
  planner is told `needs_more_simulation` about a candidate the feasibility status calls
  certified (`service.py:211`, `364-377`); the proxy budget is charged and never limited;
  escalation advice is produced and not read; the phase "verified feasible
  candidate available" opens is entered on a prediction; after a failed run the
  truth record still says strong; any close constraint, not the worst one, makes
  a boundary; `early_termination_rules` are compiled into the plan and
  `execute_bundle` runs every analysis all the same.
- Formalization: contradictory bounds make `compile_spec` raise before the repair
  that would swap them; repair is never needed on a compiled text; a second target
  replaces the first, and a target beside a bound is left out of the task; repair
  leaves negative bounds and raises on the overlap of objectives it means to mend;
  two families in one text are resolved silently by the order of a table; the
  compile route of the task layer does not run the interaction validator.
- World model: the bounds of a trained interval are rounded to six digits and the
  value is not, so that a power of a few microwatts may lie outside its interval;
  calibration averages the residuals of predictions that were already corrected, so
  a correction converges to a part of the bias; the first usable region is moved by
  a truth of any family; the action that freezes a variable freezes nothing; a
  target metric without a neighbour is predicted as zero; one candidate in two runs,
  and one that is verified twice in a run whose records are all for training, may be
  trained on and judged on.
- Memory and studies: reflections are never forgotten, so a bundle that forgets is
  invalid from then on; two verdicts of the studies have no content
  (`EmptyVerdicts`).
- Evidence: the package reads the planner evidence of its primary benchmark where
  only a test writes it; the fallback of the world model contradicts itself;
  without an archive of papers a package is ready; a bar chart draws only the
  first value of each series; narrative bundles cite paths nothing writes; "calibration
  reduces the prediction gap" compares averages over different sets of metrics.

## What is not modelled, and what is left

`PROJECT.json` lists every component with its status.

- *Left out for good*: numerical code (surrogate kernels, optimisers, the analytic
  truth model, waveform arithmetic), text (patterns, prompts, netlists, prose,
  SVG), `libs/topology` and the GAN (numerical search, no protocol), the LLM worker
  (one request without a retry), the vertical slices (they call the layers above),
  data definitions and pure helpers.
- *Not modelled yet*: the artifact registry and the replay manifest, with the run
  directory two verifications of one candidate share; the classification of one
  ngspice run (missing binary, timeout, bad output), as a refinement of
  `RunAnalysis`; the graph and run-state helpers of the orchestrator, which no loop
  calls.
- *Partly modelled*: the truth loop ends before the closing baseline and its
  report; the simulation service leaves out its registry; the world model leaves
  out operating points and reasons; the evidence leaves out statistical intervals.
