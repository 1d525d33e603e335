------------------------------ MODULE WorldModel ------------------------------
(***************************************************************************)
(* WorldModelService (libs/world_model/service.py) with the builders of    *)
(* states and actions, the compiled bundle, the proxies it predicts with,  *)
(* the surrogate attached to it and the calibration with simulated truth.  *)
(*                                                                         *)
(* One service is shared by callers who hold the states they were given    *)
(* and may ask for anything about any of them.  Numbers as in              *)
(* SurrogateTraining.  One constraint is kept apart: the stability one,    *)
(* whose margin decides an escalation.                                     *)
(***************************************************************************)
EXTENDS SurrogateTraining

CONSTANTS
    CircuitFamily,     \* of the task: a family, or "unknown" when a variable chooses it
    TemplateChoices,   \* the families topology_template_choice may name, as a sequence
    TopologyMode,      \* of the task
    Cost,              \* evaluation_cost of the task
    FrozenVariables,   \* a subset of FeatureKeys, the numeric variables
    NormalizedValue,   \* NormalizedValue[v] of an integer value v of a variable
    Proxy,             \* Proxy[f][x][m]: project_metrics for the sum x of the parameters
    StabilityMetric, Threshold,  \* the hard constraint: the metric is at least Threshold
    Requests,          \* parameters and loads that states are built for
    DesignActions,     \* the actions callers know
    Rollouts,          \* the sequences of actions callers roll out
    TruthRecords,      \* the answers of simulations
    Experiments,       \* lists of verifications that datasets are built from
    Caps,              \* max_records_per_family, 0 for None
    MaxStates, MaxRollouts, MaxCalibrations  \* bounds of the exploration

\* A task has a family, or a variable that chooses one of its templates.
ASSUME TaskAssumption ==
    /\ IsFiniteSet(FeatureKeys) /\ FrozenVariables \subseteq FeatureKeys
    /\ CircuitFamily \in Families \cup {"unknown"}
    /\ TemplateChoices \in Seq(Families)
    /\ Threshold \in Int

ASSUME RolloutAssumption == Rollouts \subseteq Seq(DesignActions)

ASSUME TruthAssumption == \A truth \in TruthRecords : MapOf(truth.measured, Metrics, Int)

ASSUME RecordsAssumption ==
    /\ \A stats \in Experiments : /\ stats \in Seq(Range(stats))
                                  /\ \A n \in DOMAIN stats : VerificationStats(stats[n])
    /\ Caps \subseteq Nat

VARIABLES
    bundle,      \* self.bundle
    states,      \* the states callers hold
    rollouts,    \* the rollouts callers hold
    initials,    \* self._rollout_initial_states
    training,    \* the training run callers hold
    residuals,   \* residuals[m]: raw prediction minus truth, of every truth so far
    asked        \* the number of calibrations

vars == <<bundle, states, rollouts, initials, training, residuals, asked>>

(***************************************************************************)
(* The shapes of what the service keeps and hands out.                     *)
(***************************************************************************)

AnalysisFidelities == {"quick_screening", "partial_simulation", "full_ground_truth"}
StateOrigins == {"offline_dataset", "real_simulation", "model_rollout"}
SourceStages == {"initial", "predicted", "simulated"}
FieldSources == {"truth", "prediction"}
Loads == {"nominal", "heavy"}

ParameterValues == [choice : 0 .. Len(TemplateChoices), value : [FeatureKeys -> Int]]
UncertaintyContext ==
    [source : FieldSources, confidence : Percent, epistemic : Percent, aleatoric : Percent,
     ood : Percent]
ProvenanceRecord ==
    [origin : StateOrigins, stage : SourceStages, artifacts : BOOLEAN]
HistoryContext == [actions : Seq({a.id : a \in DesignActions}), depth : Nat]
WorldState(s) ==
    /\ s.parameters \in ParameterValues
    /\ s.load \in Loads
    /\ s.fidelity \in AnalysisFidelities
    /\ MapOf(s.observed, Metrics, Int)
    /\ s.history \in HistoryContext
    /\ s.uncertainty \in UncertaintyContext
    /\ s.provenance \in ProvenanceRecord

ActionFamilies == {"parameter_update", "topology_switch", "fidelity_upgrade"}
ActionOperators == {"set", "shift", "scale", "freeze", "promote_fidelity"}
DesignAction ==
    [id : STRING, family : ActionFamilies, operator : ActionOperators,
     targets : SUBSET (FeatureKeys \cup {"choice"}), payload : Seq(Int)]

TrustLevels == {"high", "medium", "low", "blocked"}
ServiceTiers == {"screening_only", "ranking_ready", "rollout_ready", "must_escalate",
                 "hard_block"}
TrustAssessment ==
    [level : TrustLevels, tier : ServiceTiers, confidence : Percent, uncertainty : Percent,
     must_escalate : BOOLEAN]
Backend == [kind : {"heuristic_proxy", "trainable_tabular_surrogate"},
            families : SUBSET (Families \cup {"unknown"}), fallback : BOOLEAN]
MetricUncertainty == [uncertainty : Nat, low : Int, high : Int]
MetricsPrediction(p) ==
    /\ MapOf(p.value, Metrics, Int)
    /\ MapOf(p.spread, Metrics, MetricUncertainty)
    /\ p.backend \in Backend
    /\ p.trust \in TrustAssessment
SimulationValueEstimate == [value : Percent, decision : {"defer", "simulate", "prioritize"}]
TransitionPrediction(t) ==
    /\ WorldState(t.next)
    /\ MetricsPrediction(t.metrics)
    /\ MapOf(t.deltas, Metrics, Int)
RolloutStep(s) ==
    /\ s.action \in DesignActions
    /\ TransitionPrediction(s.transition)
    /\ s.simulation \in SimulationValueEstimate
RolloutResponse(r) ==
    /\ WorldState(r.start)
    /\ WorldState(r.terminal)
    /\ r.horizon \in Nat
    /\ \A n \in DOMAIN r.steps : RolloutStep(r.steps[n])
    /\ r.trust \in TrustAssessment

MetricErrorSummary == [sample_count : Nat, mae : Nat, signed_bias : Int]
OODStatistics == [query_count : Nat, high_risk_count : Nat]
UsableRegion == [family : Families \cup {"unknown"}, readiness : {"screening", "rollout_ready"}]
CalibrationState ==
    [of : [Metrics -> MetricErrorSummary], ood : OODStatistics, patches : Nat,
     regions : Seq(UsableRegion)]
\* The checkpoint of a bundle is a sequence of at most one, as is the training run.
Checkpoint(c) == /\ c.families \subseteq Families \cup {"unknown"}
                 /\ SurrogateTrainingRun(c.run)
ThresholdSpec == [ood : Percent, uncertainty : Percent, confidence : Percent]
TrustPolicy == [screening : ThresholdSpec, ranking : ThresholdSpec, rollout : ThresholdSpec]

ASSUME CallerAssumption ==
    /\ \A request \in Requests : request.parameters \in ParameterValues /\ request.load \in Loads
    /\ DesignActions \subseteq DesignAction

(***************************************************************************)
(* The compiled bundle (compiler.py, design_task_adapter.py).              *)
(***************************************************************************)

\* infer_supported_families
SupportedFamilies ==
    IF CircuitFamily # "unknown" THEN <<CircuitFamily>>
    ELSE IF TemplateChoices # <<>> THEN TemplateChoices
    ELSE <<"unknown">>
\* resolve_active_family
ActiveFamily(parameters) ==
    IF CircuitFamily # "unknown" THEN CircuitFamily
    ELSE IF parameters.choice # 0 THEN TemplateChoices[parameters.choice]
    ELSE SupportedFamilies[1]

\* _trust_policy
Policy ==
    [screening |-> [ood |-> 85, uncertainty |-> 85, confidence |-> 20],
     ranking   |-> [ood |-> IF Cost = "expensive" THEN 60 ELSE 70, uncertainty |-> 55,
                    confidence |-> 45],
     rollout   |-> [ood |-> 35, uncertainty |-> IF Cost = "cheap" THEN 35 ELSE 30,
                    confidence |-> 70]]

\* compile_world_model_bundle
CompiledBundle ==
    [calibration |->
       [of |-> [m \in Metrics |-> [sample_count |-> 0, mae |-> 0, signed_bias |-> 0]],
        ood |-> [query_count |-> 0, high_risk_count |-> 0],
        patches |-> 0,
        regions |-> [n \in DOMAIN SupportedFamilies |->
                       [family |-> SupportedFamilies[n], readiness |-> "screening"]]],
     checkpoint |-> <<>>]

(***************************************************************************)
(* The proxies (feature_projection.py) and the state builder.              *)
(***************************************************************************)

LoadPenalty(load) == IF load = "heavy" THEN 100 ELSE 0
\* project_metrics, of the family, the parameters and the load of a state.
Projected(parameters, load) ==
    LET x == Total(FeatureKeys, parameters.value)
        p == Proxy[ActiveFamily(parameters)][x]
    IN  [m \in DOMAIN p |-> p[m] - (IF load = "heavy" THEN p[m] \div 10 ELSE 0)]

\* The normalized distance to the domain, of the parameter that is farthest.
OodScore(parameters) ==
    Max({0} \cup {LET n == NormalizedValue[parameters.value[v]] IN Abs(n - Clip(n, 0, 100)) :
                    v \in FeatureKeys})

\* The state_id: neither the load, nor the history, nor what was observed takes part.
StateId(parameters, fidelity) == <<ActiveFamily(parameters), fidelity, parameters>>

\* build_world_state
BuildWorldState(parameters, load, fidelity, history, provenance) ==
    LET ood       == OodScore(parameters)
        epistemic == Min({100, 15 + Rounded(45 * ood, 100)
                               + (IF CircuitFamily = "unknown" THEN 10 ELSE 0)})
        aleatoric == Min({100, 12 + Rounded(15 * LoadPenalty(load), 100)})
    IN  [id |-> StateId(parameters, fidelity),
         parameters |-> parameters, load |-> load, fidelity |-> fidelity,
         observed |-> Projected(parameters, load), history |-> history,
         uncertainty |-> [source |-> "prediction", epistemic |-> epistemic,
                          aleatoric |-> aleatoric, ood |-> Clip(ood, 0, 100),
                          confidence |-> Clip(100 - Rounded(60 * epistemic + 40 * aleatoric, 100),
                                              5, 98)],
         provenance |-> provenance]

\* provenance_map of build_world_state_from_design_task
Provenance(stage, artifacts) ==
    [stage |-> stage, artifacts |-> artifacts,
     origin |-> CASE stage = "initial"   -> "offline_dataset"
                  [] stage = "predicted" -> "model_rollout"
                  [] stage = "simulated" -> "real_simulation"]
NoHistory == [actions |-> <<>>, depth |-> 0]

(***************************************************************************)
(* Trust and predictions.                                                  *)
(***************************************************************************)

\* constraint_margin of the stability constraint; a metric without a value counts as 0.
Margin(value) ==
    (IF StabilityMetric \in DOMAIN value THEN value[StabilityMetric] ELSE 0) - Threshold

\* _trust_assessment
Trust(s, value, confidence, uncertainty) ==
    LET within(t) == /\ confidence >= t.confidence
                     /\ s.uncertainty.ood <= t.ood
                     /\ uncertainty <= t.uncertainty
        tier  == IF within(Policy.rollout) THEN "rollout_ready"
                 ELSE IF within(Policy.ranking) THEN "ranking_ready"
                 ELSE IF confidence >= Policy.screening.confidence THEN "screening_only"
                 ELSE "hard_block"
        level == CASE tier = "rollout_ready" -> "high" [] tier = "ranking_ready" -> "medium"
                   [] tier = "screening_only" -> "low" [] tier = "hard_block" -> "blocked"
        near  == Margin(value) < 3
    IN  [tier |-> IF near /\ tier # "hard_block" THEN "must_escalate" ELSE tier,
         level |-> IF near /\ level = "medium" THEN "low" ELSE level,
         confidence |-> confidence, uncertainty |-> uncertainty, must_escalate |-> near]

\* The trust in a proxy: uncertainty and confidence from the state alone.
HeuristicTrust(s, value) ==
    LET u == Rounded(60 * s.uncertainty.epistemic + 40 * s.uncertainty.aleatoric, 100)
    IN  Trust(s, value, Clip(100 - Rounded(65 * u + 35 * s.uncertainty.ood, 100), 0, 100), u)

\* Mutant: the bias is added.
CorrectedAway(of, m, v) ==
    v + Rounded(of[m].signed_bias * Min({of[m].sample_count, 3}), 3)

\* _apply_calibration_correction, one metric.
Corrected(of, m, v) ==
    LET limit == Max({Abs(v) \div 2, of[m].mae \div 2})
        bias  == Rounded(of[m].signed_bias * Min({of[m].sample_count, 3}), 3)
    IN  v - Clip(bias, -limit, limit)
CorrectedAll(b, value) == [m \in DOMAIN value |-> Corrected(b.calibration.of, m, value[m])]

\* _heuristic_uncertainty_summary; the spans of build_metric_estimates are the same.
HeuristicSpread(value, trust) ==
    [m \in DOMAIN value |->
       LET span == Rounded(Abs(value[m]) * Max({300, 18 * trust.uncertainty}), 10000)
       IN  [uncertainty |-> trust.uncertainty, low |-> value[m] - span, high |-> value[m] + span]]

\* The values before the correction: the trained ones laid over the proxies.
Overlaid(value, of) == [m \in DOMAIN value \cup DOMAIN of |->
                          IF m \in DOMAIN of THEN of[m].value ELSE value[m]]

Features(s) == [v \in FeatureKeys |-> NormalizedValue[s.parameters.value[v]]]
\* _trained_surrogate_prediction answers.
Serves(b, s) == /\ b.checkpoint # <<>>
                /\ b.checkpoint[1].run.split.train # <<>>
                /\ ActiveFamily(s.parameters) \in b.checkpoint[1].families

InferenceFor(b, s) ==
    Inference(b.checkpoint[1].run.split.train, ActiveFamily(s.parameters), Features(s),
              b.checkpoint[1].run.targets)
Raw(b, s) ==
    LET proxy == Projected(s.parameters, s.load)
    IN  IF Serves(b, s) THEN Overlaid(proxy, InferenceFor(b, s).of) ELSE proxy

\* The interval of a trained metric, around the corrected value.  The bounds are rounded to
\* six digits and the value is not: here both are given to the digit of the bounds.
TrainedInterval(value, of) ==
    [uncertainty |-> of.spread, low |-> value - HalfWidth(value, of.spread),
     high |-> value + HalfWidth(value, of.spread)]

\* The trust in an inference: the doubt grows with the spread of its neighbors.
TrainedTrust(b, s, inference, value) ==
    LET targets  == b.checkpoint[1].run.targets
        relative == [m \in targets |->
                       Min({100, Rounded(100 * inference.of[m].spread, Max({Abs(value[m]), 1}))})]
        doubt == Clip(Rounded(75 * Mean(targets, relative)
                              + 25 * s.uncertainty.ood, 100), 0, 100)
    IN  Trust(s, value, Rounded(inference.confidence * (400 - s.uncertainty.ood), 400), doubt)

\* _trained_surrogate_prediction
TrainedPrediction(b, inference, value, trust) ==
    LET spread == HeuristicSpread(value, trust)
    IN  [value |-> value, trust |-> trust,
         spread |-> [m \in DOMAIN value |->
                       IF m \in b.checkpoint[1].run.targets
                       THEN TrainedInterval(value[m], inference.of[m])
                       ELSE spread[m]],
         backend |-> [kind |-> "trainable_tabular_surrogate",
                      families |-> b.checkpoint[1].families, fallback |-> FALSE]]

ProxyPrediction(b, value, trust) ==
    [value |-> value, trust |-> trust, spread |-> HeuristicSpread(value, trust),
     backend |-> [kind |-> "heuristic_proxy", families |-> Range(SupportedFamilies),
                  fallback |-> b.checkpoint # <<>>]]

\* predict_metrics, of the inference, if there is one, and of the corrected value.
PredictionOf(b, s, inference, value) ==
    IF Serves(b, s)
    THEN TrainedPrediction(b, inference, value, TrainedTrust(b, s, inference, value))
    ELSE ProxyPrediction(b, value, HeuristicTrust(s, value))
Prediction(b, s) == PredictionOf(b, s, InferenceFor(b, s), CorrectedAll(b, Raw(b, s)))

\* predict_feasibility: the probability of the constraint, at least 5 percent.
Feasibility(value) ==
    Max({5, Clip(50 + Rounded(100 * Margin(value), Abs(Threshold) + 1), 0, 100)})

\* estimate_simulation_value
SimulationValue(p) ==
    LET boundary == Rounded(100, 1 + Abs(Margin(p.value)))
        value == Clip(Rounded(40 * Feasibility(p.value) + 35 * p.trust.uncertainty
                              + 25 * boundary, 100), 0, 100)
    IN  [value |-> value,
         decision |-> IF p.trust.must_escalate \/ value >= 75 THEN "prioritize"
                      ELSE IF value >= 45 THEN "simulate" ELSE "defer"]

\* The score of a prediction in a ranking, of a task without objective terms.
RankingScore(p) == 2 * Feasibility(p.value) - p.trust.uncertainty
\* rank_candidates, of a sequence of states: their places by falling score.
RankedBy(score) ==
    SortedBy([n \in DOMAIN score |-> n], [n \in DOMAIN score |-> -score[n]])
Ranked(b, asking) == RankedBy([n \in DOMAIN asking |-> RankingScore(Prediction(b, asking[n]))])

\* The state that the trust given with a ranking is of: the first one asked about that has
\* the id of the best one.
TrustedState(asking, best) ==
    asking[Min({n \in DOMAIN asking : asking[n].id = best.id})]
TrustOfRanking(b, asking, ranked) == Prediction(b, TrustedState(asking, asking[ranked[1]])).trust

(***************************************************************************)
(* Actions, transitions and rollouts.                                      *)
(***************************************************************************)

\* The guard that build_design_action gives an action.
AllowedTopologyModes(a) ==
    IF a.family = "topology_switch" THEN {"template_family", "search_space"}
    ELSE {TopologyMode}
\* validate_design_action
Admissible(a) ==
    /\ TopologyMode \in AllowedTopologyModes(a)
    /\ a.targets \cap FrozenVariables = {}
    /\ a.operator \in {"set", "shift", "scale"} => a.payload # <<>>

NewValue(a, current) ==
    CASE a.operator = "set"   -> a.payload[1]
      [] a.operator = "shift" -> current + a.payload[1]
      [] a.operator = "scale" -> current * a.payload[1]
      [] OTHER -> current
\* A choice stays a choice: to shift or to scale a name raises (service.py:391).
ASSUME ChoiceAssumption ==
    \A a \in DesignActions, choice \in 0 .. Len(TemplateChoices) :
        "choice" \in a.targets /\ Admissible(a) => NewValue(a, choice) \in 0 .. Len(TemplateChoices)

\* _apply_action: freezing and promoting leave every value as it is.
Applied(parameters, a) ==
    [choice |-> IF "choice" \in a.targets THEN NewValue(a, parameters.choice)
                ELSE parameters.choice,
     value |-> [v \in FeatureKeys |-> IF v \in a.targets THEN NewValue(a, parameters.value[v])
                                      ELSE parameters.value[v]]]

\* Mutant: the next state is the old one with new parameters.
CopiedState(s, a) ==
    [s EXCEPT !.parameters = Applied(s.parameters, a), !.provenance.origin = "model_rollout",
              !.provenance.stage = "predicted",
              !.history = [actions |-> Append(@.actions, a.id), depth |-> @.depth + 1]]

\* The next state of predict_transition: built anew, the artifacts are handed on.  A payload
\* carries numbers, so a promotion names no fidelity and leads to the default one.
NextState(s, a) ==
    BuildWorldState(Applied(s.parameters, a), s.load,
                    IF a.operator = "promote_fidelity" THEN "partial_simulation" ELSE s.fidelity,
                    [actions |-> Append(s.history.actions, a.id), depth |-> s.history.depth + 1],
                    Provenance("predicted", s.provenance.artifacts))

\* predict_transition, to the next state, with the prediction p for it.
TransitionTo(s, next, p) ==
    LET old(m) == IF m \in DOMAIN s.observed THEN s.observed[m] ELSE 0
    IN  [next |-> next, metrics |-> p, deltas |-> [m \in DOMAIN p.value |-> p.value[m] - old(m)]]
Transition(b, s, a) == TransitionTo(s, NextState(s, a), Prediction(b, NextState(s, a)))

WithStep(b, so, a, t) ==
    [current |-> t.next,
     steps |-> Append(so.steps, [action |-> a, transition |-> t,
                                 simulation |-> SimulationValue(t.metrics)])]

\* Mutant: every action is applied to the state the rollout began with.
StepFromStart(b, start, so, a) == WithStep(b, so, a, Transition(b, start, a))

\* One round of the loop of rollout.
StepOn(b, start, so, a) == WithStep(b, so, a, Transition(b, so.current, a))

RolloutAfter(b, start, horizon, all) ==
    [start |-> start, horizon |-> horizon, steps |-> all.steps, terminal |-> all.current,
     trust |-> Prediction(b, all.current).trust]
\* The rollout of the first n of the actions.
Walk(b, start, actions, n) ==
    LET walk[k \in 0 .. n] == IF k = 0 THEN [current |-> start, steps |-> <<>>]
                              ELSE StepOn(b, start, walk[k - 1], actions[k])
    IN  walk[n]
\* The horizon of a rollout, 0 being taken for all the actions, and how many it takes.
LengthOf(actions, horizon) == IF horizon = 0 THEN Len(actions) ELSE horizon
Taken(actions, horizon) ==
    IF LengthOf(actions, horizon) < Len(actions) THEN LengthOf(actions, horizon)
    ELSE Len(actions)
\* rollout
RolledOut(b, start, actions, horizon) ==
    RolloutAfter(b, start, LengthOf(actions, horizon),
                 Walk(b, start, actions, Taken(actions, horizon)))

(***************************************************************************)
(* Latent states and the diagnostics of a rollout (latent_state.py).       *)
(***************************************************************************)

\* build_latent_state: of a state, everything but its provenance and history.
Latent(s) == [parameters |-> s.parameters, load |-> s.load, observed |-> s.observed,
              doubt |-> <<s.uncertainty.epistemic, s.uncertainty.aleatoric, s.uncertainty.ood>>]
\* compare_latent_states: the number of groups of features that differ.
LatentDistance(s, t) ==
    Cardinality({g \in DOMAIN Latent(s) : Latent(s)[g] # Latent(t)[g]})

PathKey(r) == <<r.start.id, r.terminal.id>>
\* The path of rollout_error_summary, from the initial state that rollout_diagnostics finds.
PathStates(r) ==
    (IF PathKey(r) \in DOMAIN initials THEN <<initials[PathKey(r)]>> ELSE <<>>)
    \o [n \in DOMAIN r.steps |-> r.steps[n].transition.next]
PathDistances(r) ==
    LET path == PathStates(r)
    IN  [n \in 1 .. Len(path) - 1 |-> LatentDistance(path[n], path[n + 1])]

(***************************************************************************)
(* The operations.                                                         *)
(***************************************************************************)

Init == /\ bundle = CompiledBundle
        /\ states = {}
        /\ rollouts = {}
        /\ initials = <<>>
        /\ training = <<>>
        /\ residuals = [m \in Metrics |-> {}]
        /\ asked = 0

Hold(s) == /\ Cardinality(states) < MaxStates
           /\ states' = states \cup {s}

\* build_world_state_from_design_task
BuildState(request) ==
    /\ Hold(BuildWorldState(request.parameters, request.load, "quick_screening", NoHistory,
                            Provenance("initial", FALSE)))
    /\ UNCHANGED <<bundle, rollouts, initials, training, residuals, asked>>

\* predict_transition, asked by a caller who keeps the next state.
PredictTransition(s, a) ==
    /\ Admissible(a)
    /\ Hold(Transition(bundle, s, a).next)
    /\ UNCHANGED <<bundle, rollouts, initials, training, residuals, asked>>

\* rollout; a single action taken that is not admissible and there is none.
Rollout(s, actions, horizon) ==
    /\ Cardinality(rollouts) < MaxRollouts
    /\ \A n \in 1 .. Taken(actions, horizon) : Admissible(actions[n])
    /\ \E r \in {RolledOut(bundle, s, actions, horizon)} :
         /\ rollouts' = rollouts \cup {r}
         /\ initials' = [key \in DOMAIN initials \cup {PathKey(r)} |->
                           IF key = PathKey(r) THEN s ELSE initials[key]]
    /\ UNCHANGED <<bundle, states, training, residuals, asked>>

\* build_truth_state_from_verification: the state keeps its id, its parameters and its history.
TruthState(s, truth) ==
    LET strong == truth.level = "configured_truth" /\ truth.status = "strong"
    IN  /\ Hold([s EXCEPT
                   !.fidelity = "full_ground_truth",
                   !.observed = truth.measured,
                   !.uncertainty.source = "truth",
                   !.uncertainty.confidence = IF strong THEN 100 ELSE 75,
                   !.uncertainty.epistemic = IF strong THEN 2 ELSE 12,
                   !.uncertainty.aleatoric = IF strong THEN 3 ELSE 8,
                   !.provenance = Provenance("simulated", TRUE)])
        /\ UNCHANGED <<bundle, rollouts, initials, training, residuals, asked>>

\* Mutant: the mean error is that of the signed errors.
AveragedSigned(e, error) ==
    LET n == e.sample_count + 1
    IN  [sample_count |-> n,
         mae |-> Rounded(e.mae * e.sample_count + error, n),
         signed_bias |-> Rounded(e.signed_bias * e.sample_count + error, n)]

\* The running means of one metric.
Averaged(e, error) ==
    LET n == e.sample_count + 1
    IN  [sample_count |-> n,
         mae |-> Rounded(e.mae * e.sample_count + Abs(error), n),
         signed_bias |-> Rounded(e.signed_bias * e.sample_count + error, n)]

\* A metric the model does not predict has no error.
ErrorOf(value, truth, m) == IF m \in DOMAIN value THEN value[m] - truth.measured[m] ELSE 0

\* The readiness that a truth gives to the first region, at less than 40 percent of high risk.
Readiness(truth, ood) ==
    IF /\ truth.level = "configured_truth"
       /\ truth.status = "strong"
       /\ 10 * ood.high_risk_count < 4 * Max({1, ood.query_count})
    THEN "rollout_ready" ELSE "screening"

\* calibrate_with_truth: the errors are those of the corrected prediction.
Calibrated(b, s, truth) ==
    LET value == Prediction(b, s).value
        risky == s.uncertainty.ood > 60
        ood   == [query_count |-> b.calibration.ood.query_count + 1,
                  high_risk_count |-> b.calibration.ood.high_risk_count
                                      + (IF risky THEN 1 ELSE 0)]
    IN  [b EXCEPT
           !.calibration.of = [m \in Metrics |->
               IF m \in DOMAIN truth.measured THEN Averaged(@[m], ErrorOf(value, truth, m))
               ELSE @[m]],
           !.calibration.ood = ood,
           !.calibration.patches = @ + 1,
           !.calibration.regions[1].readiness = Readiness(truth, ood)]

Calibrate(s, truth) ==
    /\ asked < MaxCalibrations
    /\ bundle' = Calibrated(bundle, s, truth)
    /\ asked' = asked + 1
    /\ residuals' = [m \in Metrics |->
                       IF m \in DOMAIN truth.measured
                       THEN residuals[m] \cup {ErrorOf(Raw(bundle, s), truth, m)}
                       ELSE residuals[m]]
    /\ UNCHANGED <<states, rollouts, initials, training>>

\* train_from_dataset, of the dataset of some experiments.
Train(stats, cap) ==
    LET dataset == WorldModelDataset(stats, cap)
    IN  /\ training = <<>>
        /\ Trainable(dataset)
        /\ training' = <<TrainedRun(dataset)>>
        /\ UNCHANGED <<bundle, states, rollouts, initials, residuals, asked>>

\* The families of a checkpoint: those of its examples that the bundle supports, and all
\* of the bundle when there are none.
CheckpointFamilies(run) ==
    LET trained == {run.split.train[n].family : n \in DOMAIN run.split.train}
                   \cap Range(SupportedFamilies)
    IN  IF trained = {} THEN Range(SupportedFamilies) ELSE trained
\* attach_training_run; the calibration stays.
Attach ==
    /\ training # <<>>
    /\ bundle' = [bundle EXCEPT !.checkpoint =
                   <<[families |-> CheckpointFamilies(training[1]), run |-> training[1]]>>]
    /\ UNCHANGED <<states, rollouts, initials, training, residuals, asked>>

Next ==
    \/ \E request \in Requests : BuildState(request)
    \/ \E s \in states :
         \/ \E a \in DesignActions : PredictTransition(s, a)
         \/ \E actions \in Rollouts, horizon \in 0 .. 2 : Rollout(s, actions, horizon)
         \/ \E truth \in TruthRecords : TruthState(s, truth) \/ Calibrate(s, truth)
    \/ \E stats \in Experiments, cap \in Caps : Train(stats, cap)
    \/ Attach

Spec == Init /\ [][Next]_vars

(***************************************************************************)
(* Properties.                                                             *)
(***************************************************************************)

\* Every answer and every record has the shape its schema demands.
WorldTypeOK ==
    /\ \A s \in states : WorldState(s)
    /\ \A r \in rollouts : RolloutResponse(r)
    /\ bundle.calibration \in CalibrationState
    /\ \A n \in DOMAIN bundle.checkpoint : Checkpoint(bundle.checkpoint[n])
    /\ \A n \in DOMAIN training : SurrogateTrainingRun(training[n])
    /\ \A s \in states : MetricsPrediction(Prediction(bundle, s))
    /\ \A r \in rollouts : \A n \in DOMAIN r.steps : r.steps[n].action \in DesignAction
    /\ Policy \in TrustPolicy
    /\ \A stats \in Experiments, cap \in Caps :
          WorldModelDatasetBundle(WorldModelDataset(stats, cap))

\* Calibration never overshoots: the bias it has learned of a metric lies between 0 and
\* the largest errors that the uncorrected predictions made, on either side, although
\* what is averaged are the errors of corrected predictions (service.py:565).
CorrectionWithinResiduals ==
    \A m \in Metrics :
        LET seen == residuals[m] \cup {0}
            bias == bundle.calibration.of[m].signed_bias
        IN  Min(seen) <= bias /\ bias <= Max(seen)

\* Truths that agree help: while every truth about a metric found the uncorrected
\* prediction off by the same r, a third of r is taken back, at any number of truths.
\* (A value so small that its correction is capped is left out.)
AgreeingTruthsHelp ==
    \A m \in Metrics, s \in states :
        LET raw == Raw(bundle, s)
            r   == CHOOSE r \in residuals[m] : TRUE
        IN  Cardinality(residuals[m]) = 1 /\ m \in DOMAIN raw /\ Abs(raw[m]) >= 2 * Abs(r)
            => 3 * Abs(Corrected(bundle.calibration.of, m, raw[m]) - (raw[m] - r))
               <= 2 * Abs(r) + 3

\* What was learned from simulations is in the bundle as often as it was asked for, the
\* surrogate that is attached later included: no calibration is lost or counted twice.
CalibrationKept ==
    LET c == bundle.calibration
    IN  /\ c.patches = asked
        /\ c.ood.query_count = asked
        /\ c.ood.high_risk_count <= asked
        /\ \A m \in Metrics : /\ c.of[m].sample_count <= asked
                              /\ residuals[m] = {} <=> c.of[m].sample_count = 0

\* The records of candidates that were verified more than once in a run.
VerifiedAgain ==
    {id \in Runs \X Candidates :
        \E stats \in Experiments : \E i, j \in DOMAIN stats :
            i # j /\ \A n \in {i, j} : <<stats[n].run, stats[n].candidate>> = id}

\* A surrogate is judged on records it was not trained on, unless its split admits that
\* a single record, or a dataset without training records, left no choice; where the last
\* records were held back for want of others, a candidate that was verified again may be
\* among them and among those before.
EvalHeldOut ==
    \A n \in DOMAIN training :
        LET split == training[n].split
            both  == IdsOf(split.train) \cap IdsOf(split.eval)
        IN  /\ split.source = "dataset_declared" => both = {}
            /\ split.source = "fallback_missing_eval" => both \subseteq VerifiedAgain

\* What the world model learns from truths, and from records, makes it no worse: the
\* correction stays within the errors seen and helps where they agree, nothing learned
\* is lost, and what judges a surrogate was kept from it.
LearningSound ==
    /\ CorrectionWithinResiduals
    /\ AgreeingTruthsHelp
    /\ CalibrationKept
    /\ EvalHeldOut

\* No sequence of actions that the service accepts moves a variable the task froze.
FrozenStay ==
    \A r \in rollouts : \A n \in DOMAIN r.steps : \A v \in FrozenVariables :
        r.steps[n].transition.next.parameters.value[v] = r.start.parameters.value[v]

\* What a list of actions makes of parameters, applied one after the other.
AppliedAll(parameters, actions) ==
    LET after[k \in 0 .. Len(actions)] ==
            IF k = 0 THEN parameters ELSE Applied(after[k - 1], actions[k])
    IN  after[Len(actions)]

\* A rollout is what its actions make of the state it began with: applied one after the
\* other they give the parameters of the terminal state, and its history tells them.
RolloutsReplay ==
    \A r \in rollouts :
        /\ r.terminal.parameters =
             AppliedAll(r.start.parameters, [n \in DOMAIN r.steps |-> r.steps[n].action])
        /\ r.terminal.history =
             [actions |-> r.start.history.actions
                          \o [n \in DOMAIN r.steps |-> r.steps[n].action.id],
              depth |-> r.start.history.depth + Len(r.steps)]

\* The diagnostics of a rollout cover each of its steps, and begin with a state of the
\* parameters it began with, whatever was rolled out since (service.py:543).
DiagnosticsCoverRollout ==
    \A r \in rollouts :
        /\ Len(PathDistances(r)) = Len(r.steps)
        /\ PathStates(r)[1].parameters = r.start.parameters

\* A rollout is a walk of the actions it was asked for, within what the task allows,
\* and its diagnostics are about that walk.
RolloutsSound == FrozenStay /\ RolloutsReplay /\ DiagnosticsCoverRollout

\* The interval given with a predicted metric holds the value given with it, the
\* correction included, at the digits the bounds are given with (the value itself is not
\* rounded, service.py:234-235 and 315-318, and one below these digits may lie outside);
\* MetricEstimate refuses nothing but inverted bounds.
IntervalsHoldValues ==
    \A s \in states :
        \A p \in {Prediction(bundle, s)} :
            \A m \in DOMAIN p.value : /\ p.spread[m].low <= p.value[m]
                                      /\ p.value[m] <= p.spread[m].high

\* What was only predicted is never taken for measured: a state that a transition made
\* shows the proxies of its own parameters, and says so, even when it was made from a
\* state that had been simulated and carries its artifacts.
PredictedIsNotMeasured ==
    \A s \in states \cup UNION {{r.steps[n].transition.next : n \in DOMAIN r.steps} :
                                r \in rollouts} :
        s.provenance.origin # "real_simulation" =>
            /\ s.uncertainty.source = "prediction"
            /\ s.observed = Projected(s.parameters, s.load)

\* The trust given with a ranking is that of the state ranked first, when no two of the
\* states have the same id.
RankingTrustIsTheBest ==
    \A s, t \in states :
        s.id # t.id =>
            \A ranked \in {Ranked(bundle, <<s, t>>)} :
                TrustOfRanking(bundle, <<s, t>>, ranked)
                    = Prediction(bundle, <<s, t>>[ranked[1]]).trust

\* What is said of a state is said as a prediction, with a value its interval holds and
\* a trust that is its own.
PredictionsHonest ==
    /\ IntervalsHoldValues
    /\ PredictedIsNotMeasured
    /\ RankingTrustIsTheBest
=============================================================================
