-------------------------- MODULE PlanningService --------------------------
(***************************************************************************)
(* The planning layer (libs/planner): one SearchState and the operations   *)
(* PlanningService offers on it.  The service keeps no session: whoever    *)
(* drives it (an API client, the truth loop, an experiment) owns the       *)
(* search state and may call the operations in any order.  Next is that    *)
(* most general caller; the drivers are modelled in modules of their own.  *)
(*                                                                         *)
(* Predictions of the surrogate world model are data: Predict(b, c) is     *)
(* what bundle version b says of candidate c.  Priority scores are floats  *)
(* over those predictions that move with every calibration, so any order   *)
(* of the candidates is allowed where the code sorts by priority.          *)
(***************************************************************************)
EXTENDS Integers, FiniteSets

CONSTANTS
    Candidate,           \* candidate ids
    NoCandidate,         \* stands for None
    Seeds,               \* ids of the task's seed candidates
    Child(_, _, _),      \* id of the k-th mutation of an anchor in a phase
    Branching,           \* number of mutations build_candidate_actions returns
    Horizon,             \* longest look-ahead action chain a caller asks for
    Bundles,             \* versions of the world-model bundle
    Predict(_, _),       \* prediction of a bundle version for a candidate
    MinSimulationValue,  \* escalation_policy.min_simulation_value, in percent
    BatchSize,           \* budget_controller.batch_size
    MaxBatchSize,        \* escalation_policy.max_batch_size
    FocusedTruthBatchLimit, \* escalation_policy.focused_truth_batch_limit
    ProxyBudget,
    RolloutBudget,
    SimulationBudget,
    CalibrationBudget,
    MaxIterations,       \* termination_policy.max_iterations
    StagnationPatience,  \* termination_policy.stagnation_patience
    InitialPhase,
    CallBound            \* model bound: calls a caller makes on one search

Phase == {"feasibility_bootstrapping", "performance_refinement",
          "robustness_verification", "calibration_recovery", "terminated"}

Status == {"proposed", "frontier", "screened_out", "queued_for_rollout",
           "queued_for_simulation", "verified", "rejected", "archived",
           "best_feasible", "best_infeasible"}

Percent == 0..100

\* What the world model says of a candidate: its trust tier and flag, the
\* probability of feasibility, the value of a simulation, the confidence, and
\* whether the smallest predicted margin is within the near-feasible threshold.
Prediction ==
    {p \in [tier: {"rollout_ready", "ranking_ready", "screening_only",
                   "must_escalate", "hard_block"},
            mustEscalate: BOOLEAN, feasibility: Percent, value: Percent,
            confidence: Percent, nearBoundary: BOOLEAN] :
        /\ p.tier = "must_escalate" => p.mustEscalate
        /\ p.mustEscalate => p.tier \in {"must_escalate", "hard_block"}}

ASSUME ConstantsAssumption ==
    /\ NoCandidate \notin Candidate
    /\ Seeds \subseteq Candidate /\ Seeds # {} /\ IsFiniteSet(Seeds)
    /\ Branching \in Nat \ {0} /\ Horizon \in Nat
    /\ BatchSize \in Nat \ {0} /\ MaxBatchSize \in Nat \ {0}
    /\ ProxyBudget \in Nat /\ RolloutBudget \in Nat
    /\ SimulationBudget \in Nat \ {0} /\ CalibrationBudget \in Nat
    /\ MaxIterations \in Nat \ {0} /\ StagnationPatience \in Nat \ {0}
    /\ FocusedTruthBatchLimit \in Nat /\ MinSimulationValue \in Percent
    /\ InitialPhase \in {"feasibility_bootstrapping", "performance_refinement"}
    /\ CallBound \in Nat

ASSUME ChildAssumption ==
    \A a \in Candidate, ph \in Phase, k \in 1..Branching :
        Child(a, ph, k) \in Candidate

ASSUME PredictAssumption ==
    /\ Bundles # {}
    /\ \A b \in Bundles, c \in Candidate : Predict(b, c) \in Prediction

VARIABLES
    pool,                \* candidate_pool_state: id -> record
    frontierIds,         \* frontier_state.frontier_candidate_ids
    pendingRefs,         \* pending_simulation_refs
    budget,              \* the four *_used counters of budget_state
    phase,               \* phase_state.current_phase
    stagnation,          \* phase_state.stagnation_counter
    calibrationRequired, \* risk_context.calibration_required
    bestFeasible,        \* best_known_feasible (its id)
    traces,              \* Len(trace_log)
    bundle               \* world-model bundle the next call is served with

vars == <<pool, frontierIds, pendingRefs, budget, phase, stagnation,
          calibrationRequired, bestFeasible, traces, bundle>>

\* Of a CandidateRecord: the lifecycle, and the bundle version that made the
\* stored prediction.
Record == [status: Status, belief: Bundles]

Budget == [proxy: Nat, rollouts: Nat, simulations: Nat, calibrations: Nat]

Min2(a, b) == IF a <= b THEN a ELSE b

(***************************************************************************)
(* budget_controller and candidate_manager                                 *)
(***************************************************************************)

RemainingRollouts == IF budget.rollouts <= RolloutBudget
                     THEN RolloutBudget - budget.rollouts ELSE 0

RemainingSimulations == IF budget.simulations <= SimulationBudget
                        THEN SimulationBudget - budget.simulations ELSE 0

\* consume_rollouts and consume_simulations.
Consumed(b, rollouts, simulations) ==
    [b EXCEPT !.rollouts = @ + rollouts, !.simulations = @ + simulations]

Believed(p, c) == Predict(p[c].belief, c)

HasStatus(p, statuses) == {c \in DOMAIN p : p[c].status \in statuses}

FrontierCandidates(p) ==
    HasStatus(p, {"proposed", "frontier", "best_infeasible", "best_feasible"})

\* upsert_candidate for every record of a batch: a record of the same id is
\* replaced, whatever its lifecycle was.
Upsert(p, records) ==
    [c \in DOMAIN p \cup DOMAIN records |->
        IF c \in DOMAIN records THEN records[c] ELSE p[c]]

(***************************************************************************)
(* selection_engine and the risk context                                   *)
(***************************************************************************)

\* choose_best_known(feasible=True): a verified or best_feasible record wins over
\* any prediction, otherwise a predicted probability of 0.8 is enough.
BestKnownFeasible(p) ==
    LET confirmed == HasStatus(p, {"verified", "best_feasible"})
        predicted == {c \in DOMAIN p : Believed(p, c).feasibility >= 80}
    IN  IF confirmed # {} THEN confirmed
        ELSE IF predicted # {} THEN predicted
        ELSE {NoCandidate}

TrustAlerts(p) ==
    {c \in DOMAIN p : \/ Believed(p, c).mustEscalate
                      \/ Believed(p, c).tier = "hard_block"}

\* Mutant: the best known candidate is chosen from the pool before the call.
RefreshStale(required) ==
    /\ bestFeasible' \in BestKnownFeasible(pool)
    /\ calibrationRequired' = (required \/ TrustAlerts(pool') # {})
    /\ traces' = traces + 1

\* _refresh_search_state: the views derived from the pool, and one more trace.
RefreshSearchState(required) ==
    /\ bestFeasible' \in BestKnownFeasible(pool')
    /\ calibrationRequired' = (required \/ TrustAlerts(pool') # {})
    /\ traces' = traces + 1

IncrementPhaseIteration(improved) ==
    /\ stagnation' = IF improved THEN 0 ELSE stagnation + 1
    /\ UNCHANGED phase

(***************************************************************************)
(* _evaluate_records                                                       *)
(***************************************************************************)

Defers(p) == ~p.mustEscalate /\ p.value < 45

ScreenedStatus(p) ==
    IF p.tier = "hard_block" \/ (p.feasibility < 15 /\ Defers(p))
    THEN "screened_out" ELSE "frontier"

\* The record of c after the current bundle has evaluated it.
Evaluated(b, c) == [status |-> ScreenedStatus(Predict(b, c)), belief |-> b]

(***************************************************************************)
(* initialize_search                                                       *)
(***************************************************************************)

Init ==
    /\ bundle \in Bundles
    /\ pool = [c \in Seeds |-> Evaluated(bundle, c)]
    /\ frontierIds = HasStatus(pool, {"frontier"})
    /\ pendingRefs = {}
    /\ budget = [proxy |-> Cardinality(Seeds), rollouts |-> 0,
                 simulations |-> 0, calibrations |-> 0]
    /\ phase = InitialPhase
    /\ stagnation = 0
    /\ bestFeasible \in BestKnownFeasible(pool)
    /\ calibrationRequired = (TrustAlerts(pool) # {})
    /\ traces = 1

(***************************************************************************)
(* The operations of the service                                           *)
(***************************************************************************)

\* The best-ranked frontier candidates, in rank order.
Anchors ==
    LET frontier == FrontierCandidates(pool)
        k == Min2(BatchSize, Cardinality(frontier))
    IN  {a \in [1..k -> frontier] :
            \A i, j \in 1..k : i # j => a[i] # a[j]}

\* The ids of those of the first n mutations, counted anchor by anchor, that the
\* j-th anchor has.
Mutations(anchors, j, n) ==
    {Child(anchors[j], phase, k) :
        k \in {i \in 1..Branching : (j - 1) * Branching + i <= n}}

Proposed(anchors, n) == UNION {Mutations(anchors, j, n) : j \in DOMAIN anchors}

\* propose_candidates: every mutation costs a rollout while rollouts last; the
\* new records are evaluated whatever proxy budget remains, and an id that is
\* already in the pool is replaced by the fresh record.
ProposeCandidates ==
    \E anchors \in Anchors :
        LET n == Min2(RemainingRollouts, Branching * Cardinality(DOMAIN anchors))
        IN  /\ pool' = Upsert(pool, [c \in Proposed(anchors, n) |->
                                        Evaluated(bundle, c)])
            /\ frontierIds' = FrontierCandidates(pool')
            /\ budget' = [Consumed(budget, n, 0) EXCEPT !.proxy = @ + n]
            /\ IncrementPhaseIteration(n > 0)
            /\ RefreshSearchState(FALSE)
            /\ UNCHANGED <<pendingRefs, bundle>>

\* evaluate_candidates: re-evaluates the stored frontier, also the candidates a
\* simulation already marked best_feasible.
EvaluateCandidates ==
    LET stale == frontierIds \cap DOMAIN pool
    IN  /\ pool' = Upsert(pool, [c \in stale |->
                                    Evaluated(bundle, c)])
        /\ frontierIds' = FrontierCandidates(pool')
        /\ budget' = [budget EXCEPT !.proxy = @ + Cardinality(stale)]
        /\ IncrementPhaseIteration(stale # {})
        /\ RefreshSearchState(FALSE)
        /\ UNCHANGED <<pendingRefs, bundle>>

\* plan_next_actions with a chain of h actions: look-ahead only; it happens when
\* the whole chain can be paid for, and leaves no trace otherwise.
PlanNextActions(h) ==
    /\ h <= RemainingRollouts
    /\ budget' = Consumed(budget, h, 0)
    /\ traces' = traces + 1
    /\ UNCHANGED <<pool, frontierIds, pendingRefs, phase, stagnation,
                   calibrationRequired, bestFeasible, bundle>>

OpenForSimulation == HasStatus(pool, {"frontier", "best_feasible", "best_infeasible"})

WorthSimulating ==
    {c \in OpenForSimulation :
        /\ Believed(pool, c).tier \in {"ranking_ready", "rollout_ready",
                                       "must_escalate"}
        /\ \/ Believed(pool, c).value >= MinSimulationValue
           \/ Believed(pool, c).mustEscalate}

FallbackPool == {c \in OpenForSimulation : Believed(pool, c).tier # "hard_block"}

\* Mutant: the remaining simulations are not looked at.
TopKUnmetered(k) == IF k > 1 THEN Min2(MaxBatchSize, k - 1) ELSE k

\* How many of k ranked candidates go to the simulator: at least one of several
\* is always held back.
TopK(k) ==
    IF k > 1 THEN Min2(MaxBatchSize, Min2(RemainingSimulations, k - 1))
             ELSE Min2(k, Min2(1, RemainingSimulations))

\* The batches select_for_simulation can pick.
SimulationBatches ==
    IF WorthSimulating = {} /\ FallbackPool # {} /\ RemainingSimulations > 0
    THEN {{c} : c \in FallbackPool}
    ELSE {batch \in SUBSET WorthSimulating :
            Cardinality(batch) = TopK(Cardinality(WorthSimulating))}

\* select_for_simulation: the budget is charged here, before any simulation.
SelectForSimulation(batch) ==
    /\ batch \in SimulationBatches
    /\ pool' = [c \in DOMAIN pool |->
                   IF c \in batch
                   THEN [pool[c] EXCEPT !.status = "queued_for_simulation"]
                   ELSE pool[c]]
    /\ frontierIds' = FrontierCandidates(pool')
    /\ budget' = Consumed(budget, 0, Cardinality(batch))
    /\ pendingRefs' = pendingRefs \cup batch
    /\ RefreshSearchState(FALSE)
    /\ UNCHANGED <<phase, stagnation, bundle>>

\* recommend_simulation_fidelity, and the cap on promoted requests in a batch.
RecommendedFidelity(p) ==
    IF \/ p.mustEscalate /\ p.value >= MinSimulationValue
       \/ p.feasibility >= 75
       \/ p.nearBoundary
    THEN "focused_truth" ELSE "quick_truth"

RequestedFidelities(batch) ==
    LET promotable == {c \in batch :
            RecommendedFidelity(Believed(pool, c)) = "focused_truth"}
    IN  {[c \in batch |-> IF c \in promoted THEN "focused_truth" ELSE "quick_truth"] :
            promoted \in {s \in SUBSET promotable :
                Cardinality(s) = Min2(FocusedTruthBatchLimit, Cardinality(promotable))}}

\* A TruthCalibrationRecord: whether its constraints are all satisfied (or it has
\* none), and whether it is configured truth with a strong or a weaker physical
\* validation or only demonstrates the flow.
Truth == [verdict: {"pass", "fail", "none"},
          level: {"strong", "weak", "demonstrator"}]

\* lifecycle_update of the optional PlannerFeedback.
Feedback == {"none", "verified", "rejected", "needs_more_simulation",
             "boundary_candidate"}

\* A record without constraints is judged by the stored prediction.
TruthFeasible(c, truth) ==
    IF truth.verdict = "none" THEN Believed(pool, c).feasibility >= 80
                              ELSE truth.verdict = "pass"

\* Mutant: a demonstrator run may verify a candidate.
RequestedLifecycleTrusting(c, truth, feedback) ==
    IF feedback # "none" THEN feedback
    ELSE IF TruthFeasible(c, truth) THEN "verified" ELSE "rejected"

RequestedLifecycle(c, truth, feedback) ==
    LET asked == IF feedback # "none" THEN feedback
                 ELSE IF TruthFeasible(c, truth) THEN "verified" ELSE "rejected"
    IN  IF truth.level = "demonstrator" /\ asked = "verified"
        THEN "boundary_candidate" ELSE asked

\* Mutant: a lifecycle update is stored untranslated.
LifecycleUntranslated ==
    [verified |-> "verified", rejected |-> "rejected",
     needs_more_simulation |-> "frontier", boundary_candidate |-> "boundary_candidate"]

LifecycleStatus ==
    [verified |-> "verified", rejected |-> "rejected",
     needs_more_simulation |-> "frontier", boundary_candidate |-> "best_feasible"]

\* The world model promised what the simulator refuted.
Mismatch(c, truth) ==
    /\ ~TruthFeasible(c, truth)
    /\ \/ Believed(pool, c).feasibility >= 50
       \/ Believed(pool, c).confidence >= 45

\* Mutant: an answer leaves its ref pending.
StillPending(c) == pendingRefs

\* Mutant: an answer settles the whole batch.
BatchSettled(c) == {}

PendingAfterAnswer(c) == pendingRefs \ {c}

\* ingest_simulation_feedback: any candidate of the pool, whether or not it was
\* selected or is still pending; an unknown id is an error that changes nothing.
\* Calibration leaves a new version of the bundle and costs one update, whatever
\* calibration budget remains.
IngestSimulationFeedback(c, truth, feedback, applyCalibration) ==
    /\ c \in DOMAIN pool
    /\ pool' = [pool EXCEPT
                  ![c].status = LifecycleStatus[RequestedLifecycle(c, truth, feedback)]]
    /\ frontierIds' = FrontierCandidates(pool')
    /\ pendingRefs' = PendingAfterAnswer(c)
    /\ IF applyCalibration
       THEN /\ bundle' \in Bundles
            /\ budget' = [budget EXCEPT !.calibrations = @ + 1]
       ELSE UNCHANGED <<bundle, budget>>
    /\ RefreshSearchState(Mismatch(c, truth) \/ truth.level # "strong")
    /\ UNCHANGED <<phase, stagnation>>

\* Mutant: a best known candidate outranks the loss of trust.
NextPhaseHasty ==
    CASE /\ phase = "feasibility_bootstrapping"
         /\ bestFeasible # NoCandidate \/ budget.simulations > 0
           -> "performance_refinement"
      [] /\ phase = "performance_refinement"
         /\ bestFeasible # NoCandidate /\ budget.simulations > 0
           -> "robustness_verification"
      [] OTHER -> phase

\* The phase advance_phase moves to, the current one when no rule applies.
NextPhase ==
    CASE /\ phase = "feasibility_bootstrapping"
         /\ bestFeasible # NoCandidate \/ budget.simulations > 0
           -> "performance_refinement"
      [] phase = "performance_refinement" /\ calibrationRequired
           -> "calibration_recovery"
      [] /\ phase = "performance_refinement" /\ ~calibrationRequired
         /\ bestFeasible # NoCandidate /\ budget.simulations > 0
           -> "robustness_verification"
      [] phase = "calibration_recovery" /\ ~calibrationRequired
           -> "performance_refinement"
      [] OTHER -> phase

\* advance_phase: a change of phase clears the stagnation counter, no change adds
\* to it.
AdvancePhase ==
    /\ IF NextPhase # phase
       THEN phase' = NextPhase /\ stagnation' = 0
       ELSE IncrementPhaseIteration(FALSE)
    /\ UNCHANGED <<pool, frontierIds, pendingRefs, budget, bundle>>
    /\ RefreshSearchState(calibrationRequired)

\* Mutant: nothing limits the number of iterations.
TerminationUnbounded ==
    IF bestFeasible # NoCandidate /\ phase \in {"robustness_verification", "terminated"}
    THEN "verified_solution_ready"
    ELSE IF RemainingSimulations = 0 /\ pendingRefs = {} THEN "budget_exhausted"
    ELSE IF stagnation >= StagnationPatience THEN "stagnation_limit" ELSE "continue"

\* should_terminate: its reason, or "continue"; the tests are tried in this order.
TerminationReason ==
    IF bestFeasible # NoCandidate /\ phase \in {"robustness_verification", "terminated"}
    THEN "verified_solution_ready"
    ELSE IF traces >= MaxIterations \/ (RemainingSimulations = 0 /\ pendingRefs = {})
    THEN "budget_exhausted"
    ELSE IF stagnation >= StagnationPatience THEN "stagnation_limit"
    ELSE IF calibrationRequired /\ RemainingSimulations = 0
    THEN "world_model_safety_block"
    ELSE "continue"

ShouldTerminate == TerminationReason # "continue"

(***************************************************************************)
(* Any caller                                                              *)
(***************************************************************************)

\* Every request of the API carries the bundle it is to be served with, which
\* may be an older or a newer one than the last call used.
SupplyBundle ==
    /\ bundle' \in Bundles \ {bundle}
    /\ UNCHANGED <<pool, frontierIds, pendingRefs, budget, phase, stagnation,
                   calibrationRequired, bestFeasible, traces>>

IngestAny ==
    \E c \in DOMAIN pool, truth \in Truth, feedback \in Feedback, apply \in BOOLEAN :
        IngestSimulationFeedback(c, truth, feedback, apply)

Call ==
    \/ ProposeCandidates
    \/ EvaluateCandidates
    \/ \E h \in 1..Horizon : PlanNextActions(h)
    \/ \E batch \in SimulationBatches : SelectForSimulation(batch)
    \/ IngestAny
    \/ AdvancePhase
    \/ SupplyBundle

Next == traces < CallBound /\ Call

Spec == Init /\ [][Next]_vars

(***************************************************************************)
(* What must hold whoever calls                                            *)
(***************************************************************************)

PoolOK(p) ==
    /\ DOMAIN p \subseteq Candidate /\ IsFiniteSet(DOMAIN p)
    /\ p \in [DOMAIN p -> Record]

TypeOK ==
    /\ PoolOK(pool)
    /\ frontierIds \subseteq DOMAIN pool
    /\ pendingRefs \subseteq DOMAIN pool
    /\ budget \in Budget
    /\ phase \in Phase
    /\ stagnation \in Nat
    /\ calibrationRequired \in BOOLEAN
    /\ bestFeasible \in DOMAIN pool \cup {NoCandidate}
    /\ traces \in Nat
    /\ bundle \in Bundles

\* validate_search_state's budget errors that no sequence of calls can cause:
\* every rollout and every simulation is counted against what remains before it
\* is spent, also when the same candidate is proposed or selected again.
BudgetsRespected ==
    /\ budget.rollouts <= RolloutBudget
    /\ budget.simulations <= SimulationBudget

\* A candidate waiting for the simulator is one the driver was told to simulate:
\* neither a re-proposal nor an early answer leaves a queued record without a ref.
QueuedIsPending == HasStatus(pool, {"queued_for_simulation"}) \subseteq pendingRefs

\* Every outstanding simulation has been charged: answers that come late, twice
\* or unasked never leave more refs pending than simulations were paid for.
PendingPaid == Cardinality(pendingRefs) <= budget.simulations

\* What was spent: no order of calls overspends a budget or leaves more answers
\* outstanding than were paid for.
SpendingSound == BudgetsRespected /\ PendingPaid

\* What the simulator answered for is off the pending list until it is selected
\* anew, so should_terminate cannot wait for an answer it already has.
AnsweredNotPending ==
    HasStatus(pool, {"verified", "rejected", "best_feasible"}) \cap pendingRefs = {}

\* The derived views agree with the pool after every call: the frontier ids, the
\* best known feasible candidate, and the alert that blocks a loss of trust from
\* going unnoticed.
ViewsFresh ==
    /\ frontierIds = FrontierCandidates(pool)
    /\ bestFeasible \in BestKnownFeasible(pool)
    /\ TrustAlerts(pool) # {} => calibrationRequired

\* A simulation is never spent on a candidate the world model blocks, whatever
\* calibration did between its evaluation and its selection.
QueuedNotBlocked ==
    \A c \in HasStatus(pool, {"queued_for_simulation"}) :
        Believed(pool, c).tier # "hard_block"

\* The queue, the pending list and the answers agree, whatever order they come in,
\* and nothing that is queued is blocked.
QueueSound == QueuedIsPending /\ AnsweredNotPending /\ QueuedNotBlocked

\* The verification phase is only entered after a simulation was paid for, and no
\* loss of trust known at that moment is skipped over.
RobustnessEarned ==
    phase' = "robustness_verification" /\ phase # phase' =>
        budget.simulations > 0 /\ ~calibrationRequired /\ TrustAlerts(pool) = {}

\* allowed_transitions of the compiled phase controller; advance_phase never reads
\* them.
AllowedTransitions ==
    {<<"feasibility_bootstrapping", "performance_refinement">>,
     <<"performance_refinement", "robustness_verification">>,
     <<"performance_refinement", "calibration_recovery">>,
     <<"robustness_verification", "terminated">>,
     <<"calibration_recovery", "performance_refinement">>}

\* The hard-coded rules of advance_phase agree with the compiled phase controller.
PhasesAllowed == phase' # phase => <<phase, phase'>> \in AllowedTransitions

\* No call leads the search into a phase that the controller does not list or that
\* was not earned.
PhasesSound == [][RobustnessEarned /\ PhasesAllowed]_vars

\* The charges of select_for_simulation and the refs that ingestion removes are a
\* correct escalation account: one batch charged, or one answer settled, at a time.
Ledger == INSTANCE EscalationLedger
            WITH charged <- budget.simulations, outstanding <- pendingRefs

LedgerKept == Ledger!Spec

\* Everything above that a reachable search state satisfies: together the parts
\* are preserved by every call, which most of them are not on their own.
EscalationInvariant ==
    /\ TypeOK
    /\ BudgetsRespected
    /\ QueuedIsPending
    /\ PendingPaid
    /\ AnsweredNotPending
    /\ ViewsFresh
    /\ QueuedNotBlocked
=============================================================================
