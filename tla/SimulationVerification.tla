----------------------- MODULE SimulationVerification -----------------------
(***************************************************************************)
(* The simulation layer (libs/simulation): SimulationService takes one     *)
(* candidate through compile, execute, measure, verify, certify and        *)
(* report.  What ngspice computes is data: an analysis ends well or badly, *)
(* a metric can be read off it or not, a constraint on it holds or not, by *)
(* a margin within 0.05 of the threshold or not.  The verdicts the service *)
(* derives from them, and the order it derives them in, are the code's.    *)
(***************************************************************************)
EXTENDS Integers, Sequences, FiniteSets, SimulationAnswers

CONSTANTS
    Circuit,          \* the circuits a task may be about
    Plan(_, _),       \* ordered analyses of the plan for a circuit and a fidelity
    Contract(_, _),   \* metrics of the measurement contract for a circuit and a fidelity
    Source(_),        \* the analysis the extractor of a metric reads
    NoExtractor,      \* stands for the source of a metric without an extractor
    Constraints(_),   \* hard and soft constraints of the task on a circuit
    MetricOf(_)       \* the metric a constraint is on

\* A plan is a list of analyses.  A contract may well hold metrics that are read from
\* an analysis the plan leaves out: it lists what the planned analyses require, and a
\* sweep requires metrics that only the ac analysis yields.
ASSUME SimulationAssumption ==
    \A k \in Circuit, f \in Fidelity : Plan(k, f) \in Seq(STRING)

\* A ModelBinding with its backend: the model behind the netlist, whether ngspice
\* runs natively, and whether the run is for a paper.
Binding == [model: {"builtin", "model_card", "pdk_root", "missing"},
            native: BOOLEAN, paper: BOOLEAN]

MetricStatus == {"measured", "extraction_failed", "indeterminate", "missing",
                 "analysis_failed"}

\* A ConstraintAssessmentRecord: whether it is satisfied and whether its absolute
\* margin is at most 0.05, or that its metric is not available.
Assessment == {"pass", "pass_near", "fail_near", "fail", "unavailable"}

Certification == {"nominal_only", "partial_robust", "robust_certified",
                  "robustness_failed"}

VARIABLES
    stage,       \* what verify_candidate does next
    circuit,     \* of the task
    fidelity,
    binding,
    outcomes,    \* success of the analyses executed so far
    status,      \* status of every metric that was extracted
    assessment,  \* assessment of every constraint
    robustness,  \* certification_status
    result       \* the VerificationResult, None until it is emitted

vars == <<stage, circuit, fidelity, binding, outcomes, status, assessment, robustness, result>>

None == [lifecycle |-> "none"]

(***************************************************************************)
(* Compilation                                                             *)
(***************************************************************************)

\* _supports_native_ngspice, for a task and a machine that do.
NativeAnalyses == {"op", "ac", "tran"}
NativePossible(k, f) == \A i \in 1..Len(Plan(k, f)) : Plan(k, f)[i] \in NativeAnalyses

\* The errors of validate_simulation_bundle, for a netlist that rendered or not.
BundleValid(k, f, b, rendered) ==
    /\ rendered
    /\ Plan(k, f) # <<>> /\ Contract(k, f) # {}
    /\ b.model # "missing"
    /\ b.paper => b.native

\* _physical_validation_status: what the compiler says the bundle may claim.
CompiledValidity(b) ==
    IF b.model = "missing" THEN "invalid"
    ELSE IF b.model = "model_card" /\ b.native THEN "strong" ELSE "weak"

\* _physical_validation_from_bundle without a completion status.
BindingValidity(b) ==
    CASE b.model = "missing" -> "invalid"
      [] b.model = "builtin" -> "weak"
      [] OTHER -> "strong"

Init ==
    /\ stage = "compile"
    /\ circuit \in Circuit /\ fidelity \in Fidelity
    /\ binding \in {b \in Binding : b.native => NativePossible(circuit, fidelity)}
    /\ outcomes = <<>>
    /\ status = <<>>
    /\ assessment = <<>>
    /\ robustness = "nominal_only"
    /\ result = None

\* compile_simulation_bundle: a bundle with an error is not returned, and
\* verify_candidate raises.
Compile ==
    /\ stage = "compile"
    /\ \E rendered \in BOOLEAN :
         stage' = IF BundleValid(circuit, fidelity, binding, rendered) THEN "execute"
                                                              ELSE "refused"
    /\ UNCHANGED <<circuit, fidelity, binding, outcomes, status, assessment, robustness,
                   result>>

(***************************************************************************)
(* Execution and measurement                                               *)
(***************************************************************************)

\* One round of the loop of execute_bundle: the analyses run in order and a failure
\* does not stop the ones behind it.
RunAnalysis ==
    /\ stage = "execute"
    /\ \E ok \in BOOLEAN :
         /\ outcomes' = Append(outcomes, ok)
         /\ stage' = IF Len(outcomes') = Len(Plan(circuit, fidelity)) THEN "measure" ELSE stage
    /\ UNCHANGED <<circuit, fidelity, binding, status, assessment, robustness, result>>

AllSucceeded == \A i \in DOMAIN outcomes : outcomes[i]
Succeeded(analysis) ==
    \E i \in DOMAIN outcomes : Plan(circuit, fidelity)[i] = analysis /\ outcomes[i]

\* The metrics a report has a result for: the phase margin is read at the crossing that
\* gives the bandwidth, which is then reported whether the contract asks for it or not.
Extracted(k, f) ==
    Contract(k, f) \cup (IF "phase_margin_deg" \in Contract(k, f) THEN {"gbw_hz"} ELSE {})

\* What the extractor of a metric can return; an analysis that was never run reads as
\* one that failed.
PossibleStatus(m) ==
    IF Source(m) = NoExtractor THEN {"missing"}
    ELSE IF Succeeded(Source(m)) THEN {"measured", "extraction_failed", "indeterminate"}
    ELSE {"analysis_failed"}

\* The loop of extract_measurement_report over the definitions of the contract.
Extract ==
    /\ stage = "measure"
    /\ stage' = "verify"
    /\ status' \in {s \in [Extracted(circuit, fidelity) -> MetricStatus] :
                      \A m \in Extracted(circuit, fidelity) : s[m] \in PossibleStatus(m)}
    /\ UNCHANGED <<circuit, fidelity, binding, outcomes, assessment, robustness, result>>

Measured == {m \in Extracted(circuit, fidelity) : status[m] = "measured"}

PossibleAssessment(c) ==
    IF MetricOf(c) \in Measured THEN {"pass", "pass_near", "fail_near", "fail"}
                                ELSE {"unavailable"}

\* verify_constraints over the hard and the soft constraints.
VerifyConstraints ==
    /\ stage = "verify"
    /\ stage' = "certify"
    /\ assessment' \in {a \in [Constraints(circuit) -> Assessment] :
                          \A c \in Constraints(circuit) : a[c] \in PossibleAssessment(c)}
    /\ UNCHANGED <<circuit, fidelity, binding, outcomes, status, robustness, result>>

PossibleCertification ==
    CASE fidelity = "full_robustness_certification" ->
           {"robust_certified", "robustness_failed"}
      [] fidelity = "focused_truth" -> {"partial_robust", "robustness_failed"}
      [] OTHER -> {"nominal_only"}

\* certify_robustness: the corners are evaluated by the analytic truth model, not by
\* the measurements of this run.
Certify ==
    /\ stage = "certify"
    /\ stage' = "report"
    /\ robustness' \in PossibleCertification
    /\ UNCHANGED <<circuit, fidelity, binding, outcomes, status, assessment, result>>

(***************************************************************************)
(* The verdicts                                                            *)
(***************************************************************************)

CompletionStatus ==
    IF ~AllSucceeded THEN "simulator_failure"
    ELSE IF Measured = {} THEN "measurement_failure"
    ELSE IF Measured # Extracted(circuit, fidelity) THEN "partial_success" ELSE "success"

Unavailable == {c \in Constraints(circuit) : assessment[c] = "unavailable"}
Satisfied == {c \in Constraints(circuit) : assessment[c] \in {"pass", "pass_near"}}
AllPass == Satisfied = Constraints(circuit)

\* attribute_failures, as far as the planner's feedback tells its classes apart.
FailureClass ==
    IF CompletionStatus = "simulator_failure" THEN "simulation_invalid"
    ELSE IF \E m \in Extracted(circuit, fidelity) : status[m] = "analysis_failed"
    THEN "analysis_failure"
    ELSE IF Measured = {} \/ Unavailable # {} THEN "measurement_failure"
    ELSE IF robustness = "robustness_failed" THEN "robustness_failure"
    ELSE IF ~AllPass THEN "design_failure" ELSE "none"

\* Mutants: a verdict on the constraints whatever became of the simulation, and one
\* that does not ask for the certificate.
LifecycleRash ==
    IF AllPass /\ robustness # "robustness_failed"
               /\ fidelity = "full_robustness_certification"
    THEN "verified"
    ELSE IF AllPass THEN "needs_more_simulation"
    ELSE IF \E c \in Constraints(circuit) : assessment[c] \in {"pass_near", "fail_near"}
    THEN "boundary_candidate" ELSE "rejected"

LifecycleUncertified ==
    IF FailureClass \in {"measurement_failure", "analysis_failure", "simulation_invalid"}
    THEN "needs_more_simulation"
    ELSE IF AllPass THEN "verified"
    ELSE IF \E c \in Constraints(circuit) : assessment[c] \in {"pass_near", "fail_near"}
    THEN "boundary_candidate" ELSE "rejected"

\* lifecycle_update of _planner_feedback.
LifecycleUpdate ==
    IF FailureClass \in {"measurement_failure", "analysis_failure", "simulation_invalid"}
    THEN "needs_more_simulation"
    ELSE IF AllPass /\ robustness # "robustness_failed"
                    /\ fidelity = "full_robustness_certification"
    THEN "verified"
    ELSE IF AllPass THEN "needs_more_simulation"
    ELSE IF \E c \in Constraints(circuit) : assessment[c] \in {"pass_near", "fail_near"}
    THEN "boundary_candidate" ELSE "rejected"

FeasibilityStatus ==
    IF CompletionStatus = "simulator_failure" THEN "simulation_invalid"
    ELSE IF CompletionStatus = "measurement_failure" \/ Unavailable # {}
    THEN "measurement_invalid"
    ELSE IF ~AllPass THEN "constraint_fail"
    ELSE IF fidelity = "full_robustness_certification"
    THEN IF robustness = "robust_certified" THEN "feasible_certified"
                                            ELSE "robustness_fail"
    ELSE "feasible_nominal"

\* Mutant: a failed run keeps the validity of its binding.
ResultValidityOfBinding == BindingValidity(binding)

\* _physical_validation_from_bundle with the completion status.
ResultValidity ==
    IF /\ CompletionStatus \in {"simulator_failure", "measurement_failure"}
       /\ BindingValidity(binding) = "strong"
    THEN "weak" ELSE BindingValidity(binding)

\* The VerificationResult: the verdict for the planner, the feasibility, the
\* validity, and the truth record for the world model.
Verdict == [lifecycle |-> LifecycleUpdate,
            feasibility |-> FeasibilityStatus,
            completion |-> CompletionStatus,
            validity |-> ResultValidity,
            recordValidity |-> BindingValidity(binding),
            recordSatisfied |-> Satisfied]

Report ==
    /\ stage = "report"
    /\ stage' = "done"
    /\ result' = Verdict
    /\ UNCHANGED <<circuit, fidelity, binding, outcomes, status, assessment, robustness>>

Next ==
    \/ Compile
    \/ RunAnalysis
    \/ Extract
    \/ VerifyConstraints
    \/ Certify
    \/ Report

Spec == Init /\ [][Next]_vars

(***************************************************************************)
(* What must hold of a result                                              *)
(***************************************************************************)

Stages == {"compile", "refused", "execute", "measure", "verify", "certify",
           "report", "done"}

Result == [lifecycle: {"verified", "rejected", "needs_more_simulation",
                       "boundary_candidate"},
           feasibility: {"simulation_invalid", "measurement_invalid",
                         "constraint_fail", "feasible_certified", "robustness_fail",
                         "feasible_nominal"},
           completion: {"success", "partial_success", "measurement_failure",
                        "simulator_failure"},
           validity: {"strong", "weak", "invalid"},
           recordValidity: {"strong", "weak", "invalid"},
           recordSatisfied: SUBSET Constraints(circuit)]

AfterExecution == {"measure", "verify", "certify", "report", "done"}
AfterMeasurement == {"verify", "certify", "report", "done"}
AfterVerification == {"certify", "report", "done"}

TypeOK ==
    /\ stage \in Stages
    /\ circuit \in Circuit /\ fidelity \in Fidelity /\ binding \in Binding
    /\ outcomes \in Seq(BOOLEAN)
    /\ stage \in AfterMeasurement => status \in [Extracted(circuit, fidelity) -> MetricStatus]
    /\ stage \in AfterVerification => assessment \in [Constraints(circuit) -> Assessment]
    /\ robustness \in Certification
    /\ stage = "done" => result \in Result

Done == stage = "done"

\* What is extracted from an analysis that the plan leaves out.
Unplanned(k, f) ==
    {m \in Extracted(k, f) : /\ Source(m) # NoExtractor
                             /\ \A i \in 1..Len(Plan(k, f)) : Plan(k, f)[i] # Source(m)}

\* The verdict for the planner and the feasibility status are computed apart, from
\* different tests.  A verified candidate is certified; a certified one is verified
\* unless a metric was to be read from an analysis the plan leaves out, for then the
\* planner is asked for more simulation whatever the simulation showed.
VerifiedIffCertified ==
    Done => (result.lifecycle = "verified"
                <=> /\ result.feasibility = "feasible_certified"
                    /\ Unplanned(circuit, fidelity) = {})

\* And the planner is told that a candidate lost, or is at the boundary, exactly
\* when the feasibility status blames its constraints, with the same exception.
LostIffConstraintsFail ==
    Done => (result.lifecycle \in {"rejected", "boundary_candidate"}
                <=> /\ result.feasibility = "constraint_fail"
                    /\ Unplanned(circuit, fidelity) = {})

\* No verdict on a candidate rests on a simulation that did not run or a constraint
\* that was not measured: a single failed analysis is enough to ask for more.
NothingClaimedUnmeasured ==
    Done /\ (~AllSucceeded \/ \E c \in Constraints(circuit) : MetricOf(c) \notin Measured) =>
        /\ result.lifecycle = "needs_more_simulation"
        /\ result.feasibility \in {"simulation_invalid", "measurement_invalid"}

\* A rejected candidate was refuted by the simulator: every constraint was measured,
\* one of them fails, and none of them is close to its threshold.
RejectedIsRefuted ==
    Done /\ result.lifecycle = "rejected" =>
        /\ AllSucceeded
        /\ \A c \in Constraints(circuit) : assessment[c] \in {"pass", "fail"}
        /\ \E c \in Constraints(circuit) : assessment[c] = "fail"

\* Two functions judge a candidate and a third one names what failed: whichever
\* analyses failed and whatever could not be measured, none of the three verdicts says
\* more than the measurements do, and the only thing they can disagree about is a
\* candidate whose contract asks for a metric of an analysis that was not planned.
VerdictsSound ==
    /\ VerifiedIffCertified
    /\ LostIffConstraintsFail
    /\ NothingClaimedUnmeasured
    /\ RejectedIsRefuted

\* Strong physical truth is only claimed for a run that executed and measured
\* something under a configured, trusted model binding; and what the compiler let the
\* bundle claim is not lost on the way to the result of such a run.
StrongTruthEarned ==
    Done =>
        /\ result.validity = "strong" =>
              /\ AllSucceeded /\ Measured # {}
              /\ binding.model \in {"model_card", "pdk_root"}
        /\ CompiledValidity(binding) = "strong" /\ AllSucceeded /\ Measured # {} =>
              result.validity = "strong"

\* What PlanningTruthLoop relies on: the feedback for the planner and the truth record
\* for the world model are built by different functions, and together they are one
\* of the answers of that fidelity.
RecordVerdict ==
    IF Constraints(circuit) = {} THEN "none"
    ELSE IF result.recordSatisfied = Constraints(circuit) THEN "pass" ELSE "fail"

AnswerPromised ==
    Done => [lifecycle |-> result.lifecycle, verdict |-> RecordVerdict]
                \in Answers(fidelity, Constraints(circuit) # {})

\* What each stage leaves for the ones behind it: the whole plan was executed, a
\* status can only come from its analysis, an assessment from its metric, and the
\* result is the verdict on all of them.
PipelineInvariant ==
    /\ TypeOK
    /\ stage \in {"compile", "refused"} => outcomes = <<>>
    /\ stage = "execute" => Len(outcomes) < Len(Plan(circuit, fidelity))
    /\ stage \in AfterExecution => Len(outcomes) = Len(Plan(circuit, fidelity))
    /\ stage \in AfterMeasurement =>
          \A m \in Extracted(circuit, fidelity) : status[m] \in PossibleStatus(m)
    /\ stage \in AfterVerification =>
          \A c \in Constraints(circuit) : assessment[c] \in PossibleAssessment(c)
    /\ stage \in {"report", "done"} => robustness \in PossibleCertification
    /\ stage = "done" => result = Verdict
=============================================================================
