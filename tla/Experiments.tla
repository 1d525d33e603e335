----------------------------- MODULE Experiments -----------------------------
(***************************************************************************)
(* libs/eval/experiment_runner.py: a suite runs the same task under the    *)
(* execution modes it compares, each run a driver of the planner like the  *)
(* truth loop, with components of the system switched off or replaced by a *)
(* baseline that fills the same search state by itself.                    *)
(*                                                                         *)
(* The predictions a baseline invents for its candidates are bundle        *)
(* versions of their own: what the code may invent is stated by the        *)
(* predicates below, and Predict gives the values of an instance.          *)
(***************************************************************************)
EXTENDS PlanningService, SimulationAnswers, Sequences

CONSTANTS
    Suites,            \* the sequences of modes that are run
    MaxSteps,          \* steps of a run
    Samples,           \* candidates the samplers can draw from the design space
    Versions,          \* the bundle versions of the world model
    FirstVersion,      \* the one compile_world_model_bundle makes
    TruthLevel,        \* truth the model binding gives
    NoMode, NoStep

Mode == {"full_simulation_baseline", "top_k_baseline", "random_search_baseline",
         "bayesopt_baseline", "cmaes_baseline", "rl_baseline",
         "no_world_model_baseline", "full_system", "no_world_model",
         "no_calibration", "no_fidelity_escalation", "no_phase_updates",
         "no_calibration_replanning", "no_rollout_planning"}

\* run_experiment raises max_iterations to four times the steps of a run.
ASSUME ExperimentAssumption ==
    /\ Suites \subseteq Seq(Mode) /\ <<>> \notin Suites
    /\ MaxSteps \in Nat \ {0}
    /\ MaxIterations >= 4 * MaxSteps
    /\ Samples \subseteq Candidate /\ Samples # {} /\ IsFiniteSet(Samples)
    /\ Versions \subseteq Bundles /\ FirstVersion \in Versions
    /\ TruthLevel \in {"strong", "weak", "demonstrator"}
    /\ NoMode \notin Mode /\ NoStep \notin Nat

VARIABLES
    suite,       \* the modes of the suite
    force,       \* force_full_steps
    results,     \* one ExperimentResult per finished run
    mode,        \* mode of the run
    pc,          \* what the run does next
    step,        \* step_index
    queue,       \* selected candidates still to simulate
    selected,    \* len(selection.selected_candidates) of the step
    selectable,  \* selectable_count of the step
    calls,       \* len(simulation_executions)
    focused,     \* focused_truth_call_count
    feasible,    \* some execution was feasible
    hit,         \* step_feasible_hit
    firstHit,    \* the first step with one
    convergence  \* convergence_step

runVars == <<suite, force, results, mode, pc, step, queue, selected, selectable, calls,
             focused, feasible, hit, firstHit, convergence>>
allVars == <<vars, runVars>>

(***************************************************************************)
(* The modes                                                               *)
(***************************************************************************)

\* _mode_config: what a mode switches on.
Config(m) ==
    LET baseline == m \in {"full_simulation_baseline", "random_search_baseline",
                           "bayesopt_baseline", "cmaes_baseline", "rl_baseline"}
        blind == m \in {"no_world_model", "no_world_model_baseline"}
    IN  [world       |-> ~baseline /\ ~blind,
         calibration |-> ~baseline /\ ~blind /\ m # "no_calibration",
         escalation  |-> ~baseline /\ m \notin {"top_k_baseline", "no_fidelity_escalation"},
         phases      |-> m \notin {"top_k_baseline", "no_phase_updates"},
         replanning  |-> m \in {"full_system", "no_fidelity_escalation",
                                "no_phase_updates", "no_rollout_planning"},
         rollout     |-> m \in {"full_system", "no_calibration",
                                "no_fidelity_escalation", "no_phase_updates",
                                "no_calibration_replanning"}]

Learned == {"bayesopt_baseline", "cmaes_baseline", "rl_baseline"}
Sampling == Learned \cup {"random_search_baseline"}

UsesBaselinePredictions(m) == ~Config(m).world /\ m \notin Sampling

\* _baseline_trust, and the simulation value _baseline_predictions adds.
BaselineTrust(m, p) ==
    CASE m = "full_simulation_baseline" ->
           p.tier = "must_escalate" /\ p.mustEscalate /\ p.confidence = 15
      [] m = "random_search_baseline" ->
           p.tier = "screening_only" /\ ~p.mustEscalate /\ p.confidence \in 10..15
      [] OTHER -> p.tier = "ranking_ready" /\ ~p.mustEscalate /\ p.confidence \in 25..40
BaselinePredicts(m, p) ==
    /\ BaselineTrust(m, p)
    /\ IF m \in {"full_simulation_baseline", "random_search_baseline"}
       THEN p.value = 100 ELSE p.value \in 35..75

\* build_surrogate_predictions of the three learned baselines, from n observations
\* of which some were feasible or none: cold starts are fixed, and without a
\* feasible observation the surrogate leaves most of the probability out.
BayesoptPredicts(p, n, some) ==
    /\ p.tier = "ranking_ready" /\ ~p.mustEscalate
    /\ IF n = 0 THEN p.feasibility = 35 /\ p.value = 85 /\ p.confidence = 15
       ELSE p.confidence \in 20..95 /\ p.feasibility <= IF some THEN 98 ELSE 38
CmaesPredicts(p, n, some) ==
    /\ p.tier = "ranking_ready" /\ ~p.mustEscalate
    /\ IF n = 0 THEN p.feasibility = 33 /\ p.value = 78 /\ p.confidence = 18
       ELSE p.confidence \in 23..90 /\ p.feasibility \in 10..(IF some THEN 95 ELSE 10)
RlPredicts(p, n, some) ==
    /\ p.tier = "ranking_ready" /\ ~p.mustEscalate
    /\ IF n = 0 THEN p.feasibility = 34 /\ p.value = 80 /\ p.confidence = 20
       ELSE p.confidence \in 32..92 /\ p.feasibility \in 12..(IF some THEN 95 ELSE 12)

\* Mutant: a surrogate forgets to look whether its observations were feasible.
PredictsCredulous(m, p) ==
    CASE m = "bayesopt_baseline" -> BayesoptPredicts(p, calls, calls > 0)
      [] m = "cmaes_baseline" -> CmaesPredicts(p, calls, calls > 0)
      [] m = "rl_baseline" -> RlPredicts(p, calls, calls > 0)
      [] OTHER -> BaselinePredicts(m, p)

Predicts(m, p) ==
    CASE m = "bayesopt_baseline" -> BayesoptPredicts(p, calls, feasible)
      [] m = "cmaes_baseline" -> CmaesPredicts(p, calls, feasible)
      [] m = "rl_baseline" -> RlPredicts(p, calls, feasible)
      [] OTHER -> BaselinePredicts(m, p)

\* The beliefs a baseline may form of a set of candidates.
Beliefs(m, cs) ==
    {b \in [cs -> Bundles \ Versions] : \A c \in cs : Predicts(m, Predict(b[c], c))}

\* _evaluate_mode_candidates for a baseline: whatever it predicts, the candidate goes
\* to the frontier.
Invented(belief) == [c \in DOMAIN belief |-> [status |-> "frontier", belief |-> belief[c]]]

(***************************************************************************)
(* The start of a run                                                      *)
(***************************************************************************)

NoBudget == [proxy |-> 0, rollouts |-> 0, simulations |-> 0, calibrations |-> 0]

ExperimentInit ==
    /\ suite \in Suites /\ force \in BOOLEAN /\ results = <<>> /\ mode = NoMode /\ pc = "begin"
    /\ step = 0 /\ queue = {} /\ selected = 0 /\ selectable = 0
    /\ calls = 0 /\ focused = 0 /\ feasible = FALSE /\ hit = FALSE
    /\ convergence = NoStep /\ firstHit = NoStep
    /\ pool = <<>> /\ frontierIds = {} /\ pendingRefs = {} /\ budget = NoBudget
    /\ phase = InitialPhase /\ stagnation = 0 /\ calibrationRequired = FALSE
    /\ bestFeasible = NoCandidate /\ traces = 0 /\ bundle = FirstVersion

\* _initialize_random_search_state: an empty search.
EmptySearch ==
    /\ pool' = <<>> /\ bestFeasible' = NoCandidate
    /\ budget' = NoBudget /\ traces' = 0

\* _initialize_baseline_state: one baseline charges for its seeds, and the first seed
\* is the best known feasible candidate until the first proposal.
BaselineSearch(m) ==
    /\ \E belief \in Beliefs(m, Seeds) : pool' = Invented(belief)
    /\ bestFeasible' \in Seeds
    /\ budget' = [NoBudget EXCEPT !.proxy =
                     IF m = "no_world_model_baseline" THEN Cardinality(Seeds) ELSE 0]
    /\ traces' = 0

\* initialize_search of the service.
ServiceSearch ==
    /\ pool' = [c \in Seeds |-> Evaluated(FirstVersion, c)]
    /\ bestFeasible' \in BestKnownFeasible(pool')
    /\ budget' = [NoBudget EXCEPT !.proxy = Cardinality(Seeds)]
    /\ traces' = 1

BeginRun ==
    /\ pc = "begin" /\ Len(results) < Len(suite)
    /\ mode' = suite[Len(results) + 1]
    /\ IF mode' \in Sampling THEN EmptySearch
       ELSE IF UsesBaselinePredictions(mode') THEN BaselineSearch(mode')
       ELSE ServiceSearch
    /\ frontierIds' = HasStatus(pool', {"frontier"})
    /\ calibrationRequired' = (TrustAlerts(pool') # {})
    /\ phase' = InitialPhase /\ stagnation' = 0 /\ pendingRefs' = {}
    /\ bundle' = FirstVersion
    /\ step' = 0 /\ calls' = 0 /\ focused' = 0 /\ feasible' = FALSE /\ hit' = FALSE
    /\ convergence' = NoStep /\ firstHit' = NoStep /\ selected' = 0 /\ selectable' = 0
    /\ pc' = "propose"
    /\ UNCHANGED <<suite, force, results, queue>>

(***************************************************************************)
(* A step: propose, evaluate, guide, select                                *)
(***************************************************************************)

counters == <<suite, force, results, mode, step, calls, focused, feasible, firstHit, convergence>>

\* The service proposes and evaluates, in the modes with a world model.
ProposeByService ==
    /\ pc = "propose" /\ Config(mode).world /\ pc' = "evaluate"
    /\ ProposeCandidates
    /\ UNCHANGED <<counters, queue, selected, selectable, hit>>

EvaluateByService ==
    /\ pc = "evaluate"
    /\ EvaluateCandidates
    /\ pc' = IF Config(mode).rollout THEN "guide" ELSE "select"
    /\ UNCHANGED <<counters, queue, selected, selectable, hit>>

\* _apply_rollout_guidance: the look-ahead moves priorities, nothing else.
Guide ==
    /\ pc = "guide" /\ pc' = "select"
    /\ IF DOMAIN pool # {} /\ 1 <= Horizon /\ Horizon <= RemainingRollouts
       THEN PlanNextActions(Horizon) ELSE UNCHANGED vars
    /\ UNCHANGED <<counters, queue, selected, selectable, hit>>

\* _propose_baseline_candidates: every mutation of the anchors, whatever rollouts
\* remain; a candidate of the same id is replaced.
ProposeByMutation ==
    /\ pc = "propose" /\ UsesBaselinePredictions(mode) /\ pc' = "select"
    /\ \E anchors \in Anchors :
         LET n == Branching * Cardinality(DOMAIN anchors)
         IN  \E belief \in Beliefs(mode, Proposed(anchors, n)) :
               /\ pool' = Upsert(pool, Invented(belief))
               /\ budget' = [budget EXCEPT !.proxy =
                                @ + (IF mode = "no_world_model_baseline" THEN n ELSE 0)]
    /\ frontierIds' = FrontierCandidates(pool')
    /\ RefreshSearchState(FALSE)
    /\ UNCHANGED <<pendingRefs, phase, stagnation, bundle>>
    /\ UNCHANGED <<counters, queue, selected, selectable, hit>>

SampleBatch == Min2(BatchSize, RemainingSimulations)

AtLeast(n, m) == IF n < m THEN m ELSE n

\* The four samplers: how many parameter assignments each draws for a batch, and how
\* many predictions it charges for.
RandomDraw == [drawn |-> SampleBatch, charged |-> 0]
BayesoptPool == AtLeast(4 * SampleBatch, 8)
BayesoptDraw == [drawn |-> BayesoptPool, charged |-> BayesoptPool]
CmaesPopulation ==
    IF calls = 0 THEN AtLeast(2 * SampleBatch, 4) ELSE AtLeast(4 * SampleBatch, 6)
CmaesDraw == [drawn |-> CmaesPopulation, charged |-> CmaesPopulation]
RlPopulation ==
    IF calls = 0 THEN AtLeast(2 * SampleBatch, 4) ELSE AtLeast(4 * SampleBatch, 6)
RlDraw == [drawn |-> RlPopulation, charged |-> RlPopulation]

Draw == CASE mode = "random_search_baseline" -> RandomDraw
          [] mode = "bayesopt_baseline" -> BayesoptDraw
          [] mode = "cmaes_baseline" -> CmaesDraw
          [] OTHER -> RlDraw

\* What assignments of the design space a draw gives: equal ones have one id.
SampledBatches(n) == {s \in SUBSET Samples : s # {} /\ Cardinality(s) <= n}

\* Without a simulation left a sampler returns the search state as it is.
ProposeBySampling ==
    /\ pc = "propose" /\ mode \in Sampling /\ pc' = "select"
    /\ IF SampleBatch = 0 THEN UNCHANGED vars
       ELSE /\ \E fresh \in SampledBatches(Draw.drawn) : \E belief \in Beliefs(mode, fresh) :
                 /\ pool' = Upsert(pool, Invented(belief))
                 /\ frontierIds' = fresh
            /\ budget' = [budget EXCEPT !.proxy = @ + Draw.charged]
            /\ RefreshSearchState(FALSE)
            /\ UNCHANGED <<pendingRefs, phase, stagnation, bundle>>
    /\ UNCHANGED <<counters, queue, selected, selectable, hit>>

Selectable == IF OpenForSimulation = {} THEN 1 ELSE Cardinality(OpenForSimulation)

KSubsets(k, s) == {t \in SUBSET s : Cardinality(t) = Min2(k, Cardinality(s))}

Fresh == HasStatus(pool, {"proposed", "frontier"}) \cap frontierIds

\* _select_candidates_for_mode: random search takes what it drew, the learned
\* baselines the best of it, top-k the best of the frontier, and full simulation
\* everything that is open; the order of the pool and of the priorities is any order.
RandomBatches == KSubsets(RemainingSimulations, Fresh)
LearnedBatches == KSubsets(SampleBatch, Fresh)
TopKBatches ==
    KSubsets(Min2(IF BatchSize < 2 THEN 2 ELSE BatchSize, RemainingSimulations),
             FrontierCandidates(pool) \cap frontierIds)
Everything ==
    KSubsets(RemainingSimulations,
             HasStatus(pool, {"proposed", "frontier", "best_feasible", "best_infeasible",
                              "queued_for_rollout"}))

\* The policy of a mode without escalation limits the batch to one.
ServiceBatches ==
    IF Config(mode).escalation \/ WorthSimulating = {} THEN SimulationBatches
    ELSE KSubsets(Min2(1, TopK(Cardinality(WorthSimulating))), WorthSimulating)

Batches ==
    CASE mode = "random_search_baseline" -> RandomBatches
      [] mode \in Learned -> LearnedBatches
      [] mode = "top_k_baseline" -> TopKBatches
      [] mode = "full_simulation_baseline" -> Everything
      [] OTHER -> ServiceBatches

\* The selection marks, charges and lists its batch, the service's and a baseline's
\* alike; full simulation only charges it.
TakeBatch(batch) ==
    LET marked == IF mode = "full_simulation_baseline" THEN {} ELSE batch
    IN  /\ pool' = [c \in DOMAIN pool |->
                      IF c \in marked
                      THEN [pool[c] EXCEPT !.status = "queued_for_simulation"]
                      ELSE pool[c]]
        /\ frontierIds' = FrontierCandidates(pool')
        /\ pendingRefs' = pendingRefs \cup marked
        /\ budget' = Consumed(budget, 0, Cardinality(batch))
        /\ RefreshSearchState(FALSE)
        /\ UNCHANGED <<phase, stagnation, bundle>>

Select ==
    /\ pc = "select"
    /\ \E batch \in Batches :
         /\ TakeBatch(batch)
         /\ queue' = batch
         /\ selected' = Cardinality(batch)
         /\ pc' = IF batch = {} THEN "close" ELSE "simulate"
    /\ selectable' = Selectable
    /\ hit' = FALSE
    /\ UNCHANGED counters

(***************************************************************************)
(* Simulation and the end of a step                                        *)
(***************************************************************************)

\* _requested_fidelity.  The focused share of a batch is limited by the service;
\* which of its candidates have it is left open.
RequestedFidelity(c) ==
    IF ~Config(mode).escalation THEN {"quick_truth"}
    ELSE {"quick_truth", RecommendedFidelity(Believed(pool, c))}

\* feasibility_status of the result is feasible, for an answer the planner gets.
CanHit(a) == a.lifecycle \in {"verified", "needs_more_simulation"} /\ a.verdict # "fail"

Suppresses == Config(mode).calibration /\ ~Config(mode).replanning

\* One candidate is verified and its truth ingested.
Simulate(c) ==
    /\ pc = "simulate" /\ c \in queue
    /\ \E f \in RequestedFidelity(c) : \E a \in Answers(f, TRUE) : \E h \in BOOLEAN :
         /\ h => CanHit(a)
         /\ a.lifecycle = "verified" => h
         /\ IngestSimulationFeedback(c, [verdict |-> a.verdict, level |-> TruthLevel],
                                     a.lifecycle, Config(mode).calibration)
         /\ bundle' \in Versions
         /\ focused' = focused + (IF f = "focused_truth" THEN 1 ELSE 0)
         /\ feasible' = (feasible \/ h)
         /\ hit' = (hit \/ h)
    /\ queue' = queue \ {c}
    /\ calls' = calls + 1
    /\ pc' = IF Suppresses THEN "suppress" ELSE IF queue' = {} THEN "close" ELSE "simulate"
    /\ UNCHANGED <<suite, force, results, mode, step, selected, selectable, firstHit, convergence>>

\* Mutant: the flag is left as the answer set it.
FlagKept == UNCHANGED calibrationRequired

FlagCleared == calibrationRequired' = FALSE

\* _suppress_calibration_replanning, after every answer of the modes without it.
Suppress ==
    /\ pc = "suppress"
    /\ FlagCleared
    /\ pc' = IF queue = {} THEN "close" ELSE "simulate"
    /\ UNCHANGED <<pool, frontierIds, pendingRefs, budget, phase, stagnation,
                   bestFeasible, traces, bundle>>
    /\ UNCHANGED <<counters, queue, selected, selectable, hit>>

\* The three tests that end a run before its last step.
Stops ==
    /\ ~force
    /\ \/ hit /\ mode # "full_simulation_baseline"
       \/ ~UsesBaselinePredictions(mode) /\ ShouldTerminate'
       \/ UsesBaselinePredictions(mode) /\ RemainingSimulations' = 0

\* The end of the loop over range(steps).
LastStep == step + 1 = MaxSteps

CloseStep ==
    /\ pc = "close"
    /\ IF Config(mode).phases THEN AdvancePhase
       ELSE /\ IncrementPhaseIteration(selected > 0)
            /\ UNCHANGED <<pool, frontierIds, pendingRefs, budget, calibrationRequired,
                           bestFeasible, traces, bundle>>
    /\ convergence' = IF convergence = NoStep /\ bestFeasible' # NoCandidate
                      THEN step ELSE convergence
    /\ firstHit' = IF firstHit = NoStep /\ hit THEN step ELSE firstHit
    /\ step' = step + 1
    /\ pc' = IF Stops \/ LastStep THEN "report" ELSE "propose"
    /\ UNCHANGED <<suite, force, results, mode, queue, selected, selectable, calls, focused,
                   feasible, hit>>

(***************************************************************************)
(* Results                                                                 *)
(***************************************************************************)

\* ExperimentResult with its stats_record, as far as a comparison reads it.
Result == [mode: Mode, calls: Nat, found: BOOLEAN, convergence: Nat \cup {NoStep},
           focused: Nat, calibrations: Nat]

\* convergence_step, from the log when the planner never believed in a candidate.
ConvergenceStep == IF convergence = NoStep THEN firstHit ELSE convergence

\* Mutant: a run that found nothing is run again.
ReportFound ==
    /\ pc = "report" /\ pc' = "begin"
    /\ results' = IF ~feasible THEN results ELSE Append(results,
         [mode |-> mode, calls |-> calls, found |-> feasible, convergence |-> ConvergenceStep,
          focused |-> focused, calibrations |-> budget.calibrations])
    /\ UNCHANGED <<vars, suite, force, mode, step, queue, selected, selectable, calls,
                   focused, feasible, hit, firstHit, convergence>>

ReportRun ==
    /\ pc = "report" /\ pc' = "begin"
    /\ results' = Append(results,
         [mode |-> mode, calls |-> calls, found |-> feasible,
          convergence |-> ConvergenceStep,
          focused |-> focused, calibrations |-> budget.calibrations])
    /\ UNCHANGED <<vars, suite, force, mode, step, queue, selected, selectable, calls, focused,
                   feasible, hit, firstHit, convergence>>

ExperimentNext ==
    \/ BeginRun
    \/ ProposeByService
    \/ EvaluateByService
    \/ Guide
    \/ ProposeByMutation
    \/ ProposeBySampling
    \/ Select
    \/ \E c \in queue : Simulate(c)
    \/ Suppress
    \/ CloseStep
    \/ ReportRun

ExperimentSpec == ExperimentInit /\ [][ExperimentNext]_allVars /\ WF_allVars(ExperimentNext)

(***************************************************************************)
(* What the comparison may rely on                                         *)
(***************************************************************************)

\* Every variable of a run has its type.  run_experiment and its result schemas.
ExperimentTypeOK ==
    /\ suite \in Suites /\ results \in Seq(Result) /\ Len(results) <= Len(suite)
    /\ \A i \in DOMAIN results : results[i].mode = suite[i]
    /\ mode \in Mode \cup {NoMode} /\ step \in 0..MaxSteps
    /\ pc \in {"begin", "propose", "evaluate", "guide", "select", "simulate",
               "suppress", "close", "report"}
    /\ queue \subseteq DOMAIN pool /\ {selected, selectable, calls, focused} \subseteq Nat
    /\ {force, feasible, hit} \subseteq BOOLEAN
    /\ {convergence, firstHit} \subseteq 0..MaxSteps \cup {NoStep}

\* Every simulation a mode charges to the shared budget is run, or about to be, and
\* the refs of the search state are the answers still missing, however the mode
\* selected its batch: the modes are compared on the same account.
BooksBalance ==
    /\ budget.simulations = calls + Cardinality(queue)
    /\ budget.simulations <= SimulationBudget
    /\ pendingRefs = IF mode = "full_simulation_baseline" THEN {} ELSE queue
    /\ queue # {} => pc \in {"simulate", "suppress"}

\* simulation_selection_ratio of a step stays a ratio: no mode selects more than the
\* candidates counted as selectable, or the log record raises in the middle of a run.
RatioValid == pc \in {"simulate", "suppress", "close"} => selected <= selectable

\* Every mode keeps the same account, which its records can be made of.
AccountsSound == ExperimentTypeOK /\ BooksBalance /\ RatioValid

\* A learned baseline claims a best feasible candidate only after a feasible
\* simulation, or for a candidate it simulated: its surrogate alone is no evidence.
SurrogateClaimsEarned ==
    mode \in Learned /\ pc # "begin" /\ bestFeasible # NoCandidate =>
        feasible \/ pool[bestFeasible].status \in {"verified", "best_feasible"}

\* Every baseline that is compared has simulated something.
BaselinesSimulate ==
    \A i \in DOMAIN results :
        results[i].mode \in Sampling \cup {"full_simulation_baseline", "no_world_model",
                                         "no_world_model_baseline"} =>
            results[i].calls > 0

\* Without calibration replanning no answer sends the search into recovery: a step
\* that simulated something never does.
SuppressedSteps ==
    [][Suppresses /\ selected > 0 /\ phase' = "calibration_recovery" =>
          phase = "calibration_recovery"]_allVars

\* A run reports a convergence step whenever it found a feasible candidate.
FoundHasStep ==
    \A i \in DOMAIN results : results[i].found => results[i].convergence # NoStep

\* What a run claims was simulated, and when.
ClaimsEarned == SurrogateClaimsEarned /\ BaselinesSimulate /\ FoundHasStep

\* The suite comes to its end, each mode by its own tests or after its last step.
RunsEnd == <>(pc = "begin" /\ Len(results) = Len(suite))

\* simulation_reduction_ratio of a suite is within [-1, 1]
\* (libs/schema/stats.py:178): the system never simulates more than twice as often
\* as the baseline that simulates everything.
ReductionValid ==
    \A i, j \in DOMAIN results :
        /\ results[i].mode = "full_simulation_baseline" /\ results[i].calls > 0
        /\ results[j].mode = "full_system"
        => results[j].calls <= 2 * results[i].calls
=============================================================================
