---------------------- MODULE TasksAndVerdicts_proofs ----------------------
(***************************************************************************)
(* Proofs about the two pipelines that no other component is proved with:  *)
(* the verification of a simulation (SimulationVerification), for every    *)
(* plan, measurement contract and set of constraints, and the way from a   *)
(* text to a task (TaskFormalization), for every text.  They share no      *)
(* variable and no definition.                                             *)
(***************************************************************************)
EXTENDS SimulationVerification, TaskFormalization, FiniteSetTheorems, WellFoundedInduction, TLAPS

(***************************************************************************)
(* SimulationVerification: the pipeline and its verdict                    *)
(***************************************************************************)

\* The verdict is a well-formed VerificationResult.
LEMMA VerdictType == Verdict \in Result
  <1>1. LifecycleUpdate \in {"verified", "rejected", "needs_more_simulation",
                             "boundary_candidate"}
    BY DEF LifecycleUpdate
  <1>2. FeasibilityStatus \in {"simulation_invalid", "measurement_invalid",
                               "constraint_fail", "feasible_certified",
                               "robustness_fail", "feasible_nominal"}
    BY DEF FeasibilityStatus
  <1>3. CompletionStatus \in {"success", "partial_success", "measurement_failure",
                              "simulator_failure"}
    BY DEF CompletionStatus
  <1>4. BindingValidity(binding) \in {"strong", "weak", "invalid"}
    BY DEF BindingValidity
  <1>5. ResultValidity \in {"strong", "weak", "invalid"}
    BY <1>4 DEF ResultValidity
  <1>6. Satisfied \in SUBSET Constraints(circuit)
    BY DEF Satisfied
  <1> QED  BY <1>1, <1>2, <1>3, <1>4, <1>5, <1>6 DEF Verdict, Result

LEMMA PipelineInit == Init => PipelineInvariant
  BY SMT DEF Init, PipelineInvariant, TypeOK, Stages, Certification, AfterExecution,
             AfterMeasurement, AfterVerification, Binding

\* What later steps leave alone keeps its meaning.
LEMMA PipelineStep ==
  PipelineInvariant /\ [Next]_vars => PipelineInvariant'
  <1> SUFFICES ASSUME PipelineInvariant, [Next]_vars PROVE PipelineInvariant'
    OBVIOUS
  <1> USE DEF PipelineInvariant, TypeOK, Stages, AfterExecution, AfterMeasurement,
              AfterVerification
  <1>1. CASE Compile
    <2>1. BundleValid(circuit, fidelity, binding, TRUE) => Len(Plan(circuit, fidelity)) > 0
      BY SimulationAssumption DEF BundleValid
    <2>2. stage' = "refused" \/ (stage' = "execute" /\ Len(Plan(circuit, fidelity)) > 0)
      BY <1>1, <2>1 DEF Compile, BundleValid
    <2> QED  BY <1>1, <2>2 DEF Compile
  <1>2. CASE RunAnalysis
    <2>1. PICK ok \in BOOLEAN :
            /\ outcomes' = Append(outcomes, ok)
            /\ stage' = IF Len(outcomes') = Len(Plan(circuit, fidelity)) THEN "measure"
                                                                ELSE stage
      BY <1>2 DEF RunAnalysis
    <2>2. /\ outcomes' \in Seq(BOOLEAN)
          /\ Len(outcomes') = Len(outcomes) + 1
      BY <2>1
    <2>3. Len(Plan(circuit, fidelity)) \in Nat /\ Len(outcomes) \in Nat
      BY SimulationAssumption
    <2> QED  BY <1>2, <2>1, <2>2, <2>3 DEF RunAnalysis
  <1>3. CASE Extract
    BY <1>3 DEF Extract, PossibleStatus, Succeeded
  <1>4. CASE VerifyConstraints
    BY <1>4 DEF VerifyConstraints, PossibleStatus, Succeeded, PossibleAssessment, Measured
  <1>5. CASE Certify
    BY <1>5 DEF Certify, PossibleStatus, Succeeded, PossibleAssessment, Measured,
                PossibleCertification, Certification
  <1>6. CASE Report
    <2>1. Verdict' = Verdict
      BY <1>6 DEF Report, Verdict, LifecycleUpdate, FeasibilityStatus, CompletionStatus,
                  ResultValidity, BindingValidity, Satisfied, FailureClass, AllPass,
                  AllSucceeded, Measured, Unavailable
    <2>2. Result' = Result
      BY <1>6 DEF Report, Result
    <2> QED  BY <1>6, <2>1, <2>2, VerdictType
             DEF Report, PossibleStatus, Succeeded, PossibleAssessment, Measured,
                 PossibleCertification
  <1>7. CASE UNCHANGED vars
    <2>1. Verdict' = Verdict
      BY <1>7 DEF vars, Verdict, LifecycleUpdate, FeasibilityStatus, CompletionStatus,
                  ResultValidity, BindingValidity, Satisfied, FailureClass, AllPass,
                  AllSucceeded, Measured, Unavailable
    <2>2. Result' = Result
      BY <1>7 DEF vars, Result
    <2> QED  BY <1>7, <2>1, <2>2
             DEF vars, PossibleStatus, Succeeded, PossibleAssessment, Measured,
                 PossibleCertification
  <1> QED  BY <1>1, <1>2, <1>3, <1>4, <1>5, <1>6, <1>7 DEF Next

\* The stages leave behind them what the ones after them rely on.
THEOREM PipelineCorrect == Spec => []PipelineInvariant
  BY PipelineInit, PipelineStep, PTL DEF Spec

\* Every stage finds the records of the stages before it complete and well formed.
COROLLARY PipelineTypes == Spec => []TypeOK
  <1>1. PipelineInvariant => TypeOK
    BY DEF PipelineInvariant
  <1> QED  BY <1>1, PipelineCorrect, PTL

(***************************************************************************)
(* What the invariant says of a result                                     *)
(***************************************************************************)

\* When every analysis of the plan succeeded, a metric blames its analysis exactly when
\* that analysis is not in the plan.
LEMMA BlamedIsUnplanned ==
  PipelineInvariant /\ Done /\ AllSucceeded =>
    \A m \in Extracted(circuit, fidelity) :
       status[m] = "analysis_failed" <=> m \in Unplanned(circuit, fidelity)
  <1> SUFFICES ASSUME PipelineInvariant, Done, AllSucceeded,
                      NEW m \in Extracted(circuit, fidelity)
               PROVE  status[m] = "analysis_failed" <=> m \in Unplanned(circuit, fidelity)
    OBVIOUS
  <1>1. /\ circuit \in Circuit /\ fidelity \in Fidelity /\ outcomes \in Seq(BOOLEAN)
        /\ Len(outcomes) = Len(Plan(circuit, fidelity))
        /\ status[m] \in PossibleStatus(m)
    BY DEF PipelineInvariant, TypeOK, Done, AfterExecution, AfterMeasurement
  <1>2. CASE Source(m) = NoExtractor
    BY <1>1, <1>2 DEF PossibleStatus, Unplanned
  <1>3. CASE Source(m) # NoExtractor
    <2>1. DOMAIN outcomes = 1..Len(Plan(circuit, fidelity))
      BY <1>1
    <2>2. Succeeded(Source(m)) <=> m \notin Unplanned(circuit, fidelity)
      BY <1>3, <2>1 DEF AllSucceeded, Succeeded, Unplanned
    <2> QED  BY <1>1, <1>3, <2>2 DEF PossibleStatus
  <1> QED  BY <1>2, <1>3

\* The failure classes that make the planner ask for more are those of a simulation, or
\* a measurement, that says nothing of the candidate, and of a metric whose analysis
\* was not planned.
LEMMA InconclusiveClass ==
  PipelineInvariant /\ Done =>
    (FailureClass \in {"measurement_failure", "analysis_failure", "simulation_invalid"}
       <=> \/ ~AllSucceeded \/ Measured = {} \/ Unavailable # {}
           \/ Unplanned(circuit, fidelity) # {})
  <1> SUFFICES ASSUME PipelineInvariant, Done
               PROVE  FailureClass \in {"measurement_failure", "analysis_failure",
                                        "simulation_invalid"}
                        <=> \/ ~AllSucceeded \/ Measured = {} \/ Unavailable # {}
                            \/ Unplanned(circuit, fidelity) # {}
    OBVIOUS
  <1>1. AllSucceeded =>
          ((\E m \in Extracted(circuit, fidelity) : status[m] = "analysis_failed")
             <=> Unplanned(circuit, fidelity) # {})
    BY BlamedIsUnplanned DEF Unplanned
  <1> QED  BY <1>1 DEF FailureClass, CompletionStatus

LEMMA ResultIsVerdict ==
  PipelineInvariant /\ Done => result = Verdict /\ robustness \in PossibleCertification
  BY DEF PipelineInvariant, Done

\* The lifecycle update and the feasibility status, computed apart, agree on which
\* candidates are certified, but for a metric whose analysis was not planned.
LEMMA VerifiedCorrect == PipelineInvariant => VerifiedIffCertified
  <1> SUFFICES ASSUME PipelineInvariant, Done
               PROVE  LifecycleUpdate = "verified"
                        <=> /\ FeasibilityStatus = "feasible_certified"
                            /\ Unplanned(circuit, fidelity) = {}
    BY ResultIsVerdict DEF VerifiedIffCertified, Verdict
  <1>1. fidelity = "full_robustness_certification" =>
          robustness \in {"robust_certified", "robustness_failed"}
    BY ResultIsVerdict DEF PossibleCertification
  <1> QED  BY <1>1, InconclusiveClass
           DEF LifecycleUpdate, FeasibilityStatus, CompletionStatus

\* And on which ones lost on their constraints.
LEMMA LostCorrect == PipelineInvariant => LostIffConstraintsFail
  <1> SUFFICES ASSUME PipelineInvariant, Done
               PROVE  LifecycleUpdate \in {"rejected", "boundary_candidate"}
                        <=> /\ FeasibilityStatus = "constraint_fail"
                            /\ Unplanned(circuit, fidelity) = {}
    BY ResultIsVerdict DEF LostIffConstraintsFail, Verdict
  <1> QED  BY InconclusiveClass
           DEF LifecycleUpdate, FeasibilityStatus, CompletionStatus

\* A simulation that failed, or a constraint that could not be measured, decides
\* nothing about the candidate.
LEMMA UnmeasuredCorrect == PipelineInvariant => NothingClaimedUnmeasured
  <1> SUFFICES ASSUME PipelineInvariant, Done,
                      ~AllSucceeded \/ \E c \in Constraints(circuit) : MetricOf(c) \notin Measured
               PROVE  /\ LifecycleUpdate = "needs_more_simulation"
                      /\ FeasibilityStatus \in {"simulation_invalid",
                                                "measurement_invalid"}
    BY ResultIsVerdict DEF NothingClaimedUnmeasured, Verdict
  <1>1. \A c \in Constraints(circuit) : MetricOf(c) \notin Measured => c \in Unavailable
    BY DEF PipelineInvariant, Done, AfterVerification, PossibleAssessment, Unavailable
  <1> QED  BY <1>1, InconclusiveClass
           DEF LifecycleUpdate, FeasibilityStatus, CompletionStatus

\* Only a simulation that ran to its end and measured every constraint rejects.
LEMMA RejectionCorrect == PipelineInvariant => RejectedIsRefuted
  <1> SUFFICES ASSUME PipelineInvariant, Done, LifecycleUpdate = "rejected"
               PROVE  /\ AllSucceeded
                      /\ \A c \in Constraints(circuit) : assessment[c] \in {"pass", "fail"}
                      /\ \E c \in Constraints(circuit) : assessment[c] = "fail"
    BY ResultIsVerdict DEF RejectedIsRefuted, Verdict
  <1>1. /\ AllSucceeded /\ Unavailable = {} /\ ~AllPass
        /\ \A c \in Constraints(circuit) : assessment[c] \notin {"pass_near", "fail_near"}
    BY InconclusiveClass DEF LifecycleUpdate
  <1>2. \A c \in Constraints(circuit) : assessment[c] \in Assessment
    BY DEF PipelineInvariant, TypeOK, Done, AfterVerification
  <1>3. \A c \in Constraints(circuit) : assessment[c] \in {"pass", "fail"}
    BY <1>1, <1>2 DEF Assessment, Unavailable
  <1>4. PICK c \in Constraints(circuit) : c \notin Satisfied
    BY <1>1 DEF AllPass, Satisfied
  <1> QED  BY <1>1, <1>3, <1>4 DEF Satisfied

\* No verdict a verification ends with says more than was measured, and the verdicts
\* contradict each other only on a contract with a metric whose analysis was not
\* planned: for every plan, every contract, whether it fits the plan or not, and every
\* set of constraints.
THEOREM VerdictsCorrect == Spec => []VerdictsSound
  <1>1. PipelineInvariant => VerdictsSound
    BY VerifiedCorrect, LostCorrect, UnmeasuredCorrect, RejectionCorrect
    DEF VerdictsSound
  <1> QED  BY <1>1, PipelineCorrect, PTL

\* Strong physical truth is never claimed for a run that failed or for a model
\* that was built in or missing.
THEOREM StrongTruthCorrect == Spec => []StrongTruthEarned
  <1>1. PipelineInvariant => StrongTruthEarned
    <2> SUFFICES ASSUME PipelineInvariant, Done
                 PROVE  /\ ResultValidity = "strong" =>
                              /\ AllSucceeded /\ Measured # {}
                              /\ binding.model \in {"model_card", "pdk_root"}
                        /\ CompiledValidity(binding) = "strong"
                              /\ AllSucceeded /\ Measured # {} =>
                              ResultValidity = "strong"
      BY ResultIsVerdict DEF StrongTruthEarned, Verdict
    <2>1. binding.model \in {"builtin", "model_card", "pdk_root", "missing"}
      BY DEF PipelineInvariant, TypeOK, Binding
    <2>2. ASSUME ResultValidity = "strong"
          PROVE  /\ AllSucceeded /\ Measured # {}
                 /\ binding.model \in {"model_card", "pdk_root"}
      <3>1. /\ BindingValidity(binding) = "strong"
            /\ CompletionStatus \notin {"simulator_failure", "measurement_failure"}
        BY <2>2 DEF ResultValidity
      <3>2. binding.model \notin {"builtin", "missing"}
        BY <3>1, SMT DEF BindingValidity
      <3> QED  BY <2>1, <3>1, <3>2 DEF CompletionStatus
    <2>3. ASSUME CompiledValidity(binding) = "strong", AllSucceeded, Measured # {}
          PROVE  ResultValidity = "strong"
      <3>1. binding.model = "model_card"
        BY <2>3, SMT DEF CompiledValidity
      <3>2. BindingValidity(binding) = "strong"
        BY <3>1, SMT DEF BindingValidity
      <3>3. CompletionStatus \notin {"simulator_failure", "measurement_failure"}
        BY <2>3 DEF CompletionStatus
      <3> QED  BY <3>2, <3>3 DEF ResultValidity
    <2> QED  BY <2>2, <2>3
  <1> QED  BY <1>1, PipelineCorrect, PTL

\* The feedback and the truth record together are an answer the planner's loop is
\* prepared for.
THEOREM PromiseKept == Spec => []AnswerPromised
  <1>1. PipelineInvariant => AnswerPromised
    <2> SUFFICES ASSUME PipelineInvariant, Done
                 PROVE  [lifecycle |-> result.lifecycle, verdict |-> RecordVerdict]
                            \in Answers(fidelity, Constraints(circuit) # {})
      BY DEF AnswerPromised
    <2>1. /\ result.lifecycle = LifecycleUpdate
          /\ result.recordSatisfied = Satisfied
      BY ResultIsVerdict DEF Verdict
    <2>2. LifecycleUpdate \in {"verified", "rejected", "needs_more_simulation",
                               "boundary_candidate"}
      BY DEF LifecycleUpdate
    <2>3. /\ RecordVerdict \in {"pass", "fail", "none"}
          /\ RecordVerdict = "none" <=> Constraints(circuit) = {}
      BY DEF RecordVerdict
    <2>4. Constraints(circuit) = {} => AllPass
      BY DEF AllPass, Satisfied
    <2>5. LifecycleUpdate = "verified" =>
            RecordVerdict # "fail" /\ fidelity = "full_robustness_certification"
      BY <2>1 DEF LifecycleUpdate, RecordVerdict, AllPass
    <2>6. LifecycleUpdate \in {"rejected", "boundary_candidate"} => RecordVerdict = "fail"
      BY <2>1, <2>4 DEF LifecycleUpdate, RecordVerdict, AllPass
    <2> QED  BY <2>1, <2>2, <2>3, <2>5, <2>6 DEF Answers, Answer
  <1> QED  BY <1>1, PipelineCorrect, PTL

(***************************************************************************)
(* The specs a client can hold                                             *)
(***************************************************************************)

\* A bound is no number or one; a range bounds something; a spec has every field, and none
\* of its ranges is empty, whatever the client has done to them.
Bound == {b \in SUBSET Int : \A v, w \in b : v = w}
MetricRange == [min : Bound, max : Bound, target : Bound] \ {NoRange}
OpenFields == {"circuit_family", "process_node", "load_cap_f", "temperature_range"}
Ranges == UNION {[D -> MetricRange] : D \in SUBSET ConstraintMetrics}
DesignSpec ==
    [family : DOMAIN DesignVariables, node : BOOLEAN, load : BOOLEAN,
     supply : BOOLEAN, envSupply : BOOLEAN, temps : Nat, corners : Nat,
     maximize : SUBSET ObjectiveMetrics, minimize : SUBSET ObjectiveMetrics,
     constraints : Ranges, plan : SUBSET {"op", "ac", "tran", "noise"},
     variables : SUBSET UNION {DesignVariables[f] : f \in DOMAIN DesignVariables},
     missing : SUBSET OpenFields, notes : SUBSET {"ota", "bandgap"}, confidence : Int]

LEMMA RangesHold ==
  ASSUME NEW c
  PROVE  c \in Ranges <=> /\ c = [m \in DOMAIN c |-> c[m]]
                          /\ DOMAIN c \subseteq ConstraintMetrics
                          /\ \A m \in DOMAIN c : c[m] \in MetricRange
  <1>1. ASSUME c \in Ranges
        PROVE  /\ c = [m \in DOMAIN c |-> c[m]] /\ DOMAIN c \subseteq ConstraintMetrics
               /\ \A m \in DOMAIN c : c[m] \in MetricRange
    <2>1. PICK D \in SUBSET ConstraintMetrics : c \in [D -> MetricRange]
      BY <1>1 DEF Ranges
    <2> QED  BY <2>1
  <1>2. ASSUME c = [m \in DOMAIN c |-> c[m]], DOMAIN c \subseteq ConstraintMetrics,
               \A m \in DOMAIN c : c[m] \in MetricRange
        PROVE  c \in Ranges
    <2>1. c \in [DOMAIN c -> MetricRange]
      BY <1>2
    <2> QED  BY <1>2, <2>1 DEF Ranges
  <1> QED  BY <1>1, <1>2

(***************************************************************************)
(* The tables of the two layers                                            *)
(***************************************************************************)

LEMMA FamiliesKnown ==
  /\ KnownFamilies = {"two_stage_ota", "folded_cascode_ota", "telescopic_ota", "comparator",
                      "ldo", "bandgap"}
  /\ DOMAIN DesignVariables = KnownFamilies \cup {"unknown"}
  /\ DOMAIN VariableLibrary = KnownFamilies
  BY DEF KnownFamilies, DesignVariables, VariableLibrary

LEMMA TablesAgree ==
  ASSUME NEW f \in KnownFamilies
  PROVE  /\ VariableLibrary[f] = DesignVariables[f]
         /\ "ibias" \in VariableLibrary[f]
         /\ Structural \notin VariableLibrary[f]
  BY FamiliesKnown DEF VariableLibrary, DesignVariables, Structural

\* What the instances of a fixed topology tune are the variables of its family.
LEMMA TopologyTunes ==
  ASSUME NEW f \in KnownFamilies
  PROVE  UNION {TopologyLibrary[f][i] : i \in DOMAIN TopologyLibrary[f]} = VariableLibrary[f]
  <1>1. CASE f = "two_stage_ota"
    BY <1>1 DEF TopologyLibrary, VariableLibrary
  <1>2. CASE f = "folded_cascode_ota"
    BY <1>2 DEF TopologyLibrary, VariableLibrary
  <1>3. CASE f = "telescopic_ota"
    BY <1>3 DEF TopologyLibrary, VariableLibrary
  <1>4. CASE f = "comparator"
    BY <1>4 DEF TopologyLibrary, VariableLibrary
  <1>5. CASE f = "ldo"
    BY <1>5 DEF TopologyLibrary, VariableLibrary
  <1>6. CASE f = "bandgap"
    BY <1>6 DEF TopologyLibrary, VariableLibrary
  <1> QED  BY <1>1, <1>2, <1>3, <1>4, <1>5, <1>6, FamiliesKnown

LEMMA CandidatesKnown ==
  ASSUME NEW s \in DesignSpec
  PROVE  CandidateFamilies(s) # {} /\ CandidateFamilies(s) \subseteq KnownFamilies
  <1>1. s.family \in KnownFamilies \cup {"unknown"}
    BY FamiliesKnown DEF DesignSpec
  <1> QED  BY <1>1, FamiliesKnown DEF CandidateFamilies, AmplifierFamilies

(***************************************************************************)
(* Tasks that were compiled                                                *)
(***************************************************************************)

\* A task is the one that was compiled from a spec the schema accepts, if it was accepted.
CompiledFrom(r, s, hint) ==
    /\ s \in DesignSpec /\ SchemaAccepts(s) /\ hint \in Hints
    /\ r = CompileDesignTask(s, hint)
Compiled(r) == \E s, hint : CompiledFrom(r, s, hint)

LEMMA ReadyHolds ==
  ASSUME NEW t, NEW s
  PROVE  ValidateDesignTask(t, s).ready
           = (TaskErrors(t, s) = {} /\ t.unresolved \cap CoreUnresolved = {})
  <1> DEFINE b == TaskErrors(t, s) = {} /\ t.unresolved \cap CoreUnresolved = {}
  <1>1. ValidateDesignTask(t, s) = [errors |-> TaskErrors(t, s), unresolved |-> t.unresolved,
                                    ready |-> b]
    BY DEF ValidateDesignTask
  <1> HIDE DEF b
  <1>2. ValidateDesignTask(t, s).ready = b
    BY <1>1
  <1> QED  BY <1>2 DEF b

LEMMA CompiledParts ==
  ASSUME NEW r, NEW s, NEW hint, CompiledFrom(r, s, hint),
         r.status \in {"compiled", "compiled_with_warnings"}
  PROVE  /\ r.task = DraftTask(s, hint) /\ r.validation = ValidateDesignTask(r.task, s)
         /\ TaskErrors(r.task, s) = {}
  <1> DEFINE t == DraftTask(s, hint)
             v == ValidateDesignTask(t, s)
  <1>1. r.task = t /\ r.validation = v /\ (v.errors # {} => r.status = "invalid")
    BY DEF CompiledFrom, CompileDesignTask
  <1>2. v.errors = TaskErrors(t, s)
    BY DEF ValidateDesignTask
  <1> HIDE DEF t, v
  <1>3. TaskErrors(t, s) = {}
    BY <1>1, <1>2
  <1> QED  BY <1>1, <1>3 DEF t, v

LEMMA DraftParts ==
  ASSUME NEW s, NEW hint
  PROVE  LET t == DraftTask(s, hint)
             mode == TopologyMode(s, TaskType(s, hint))
         IN  /\ t.source = s /\ t.type = TaskType(s, hint) /\ t.family = s.family
             /\ t.mode = mode /\ t.tuned = TunedByTopology(s, mode)
             /\ t.space = DesignSpace(s, mode)
             /\ t.maximize = s.maximize /\ t.minimize = s.minimize
             /\ t.reporting = SpecMetrics(s) /\ t.constraints = CompileConstraints(s)
             /\ t.plan = EvaluationPlan(s)
             /\ \E hint2 : t.graph = TaskGraph(hint2)
             /\ t.unresolved = Unresolved(s)
  BY DEF DraftTask

\* The errors of a task, of which an accepted one has none.
LEMMA NoErrors ==
  ASSUME NEW t, NEW s, TaskErrors(t, s) = {}
  PROVE  /\ (t.mode = "fixed") # (Structural \in t.space.variables)
         /\ \A m \in DOMAIN t.constraints :
              <<Direction(t, m), t.constraints[m].relation>>
                \notin {<<"minimize", ">=">>, <<"maximize", "<=">>}
         /\ ~(s.family = "unknown" /\ t.type = "sizing")
  <1>1. \A c \in BOOLEAN : \A e : OnlyIf(c, e) = {} => ~c
    BY DEF OnlyIf
  <1>2. OnlyIf((t.mode = "fixed") = (Structural \in t.space.variables),
               <<"topology_mode_inconsistency", "variables">>) = {}
    BY DEF TaskErrors
  <1>3. OnlyIf(s.family = "unknown" /\ t.type = "sizing",
               <<"semantic_consistency_error", "task_type">>) = {}
    BY DEF TaskErrors
  <1>4. ASSUME NEW m \in DOMAIN t.constraints,
               <<Direction(t, m), t.constraints[m].relation>>
                  \in {<<"minimize", ">=">>, <<"maximize", "<=">>}
        PROVE  <<"constraint_direction_error", m>> \in TaskErrors(t, s)
    BY <1>4 DEF TaskErrors
  <1> QED  BY <1>1, <1>2, <1>3, <1>4

LEMMA ReadyKnown ==
  ASSUME NEW r, NEW s, NEW hint, CompiledFrom(r, s, hint),
         r.status \in {"compiled", "compiled_with_warnings"}, r.validation.ready
  PROVE  /\ s.family # "unknown" /\ s.supply
         /\ Valid(s) => s.node /\ (s.load \/ s.family \notin NeedsLoad)
  <1>1. r.task.unresolved = Unresolved(s)
    BY CompiledParts, DraftParts
  <1>2. r.task.unresolved \cap CoreUnresolved = {}
    <2>1. ValidateDesignTask(r.task, s).ready
      BY CompiledParts
    <2> QED  BY <2>1, ReadyHolds
  <1>3. /\ ~s.supply => "supply_voltage_v" \in Unresolved(s)
        /\ s.family = "unknown" => "circuit_family" \in Unresolved(s)
        /\ s.missing \subseteq Unresolved(s)
    BY DEF Unresolved, OnlyIf
  <1>4. Valid(s) => MissingCore(s.family, s.node, s.load) \subseteq s.missing
    BY DEF Valid, Issues, OnlyIf
  <1>5. /\ ~s.node => "process_node" \in MissingCore(s.family, s.node, s.load)
        /\ ~s.load /\ s.family \in NeedsLoad =>
             "load_cap_f" \in MissingCore(s.family, s.node, s.load)
    BY DEF MissingCore, OnlyIf
  <1>6. s.supply \in BOOLEAN /\ s.node \in BOOLEAN /\ s.load \in BOOLEAN
    BY DEF CompiledFrom, DesignSpec
  <1> HIDE DEF Valid
  <1> QED  BY <1>1, <1>2, <1>3, <1>4, <1>5, <1>6 DEF CoreUnresolved

\* Every metric is extracted from a planned analysis.
LEMMA MetricsExtracted ==
  ASSUME NEW s, NEW m \in SpecMetrics(s)
  PROVE  EvaluationPlan(s).extractors[m] \in EvaluationPlan(s).analyses
  BY DEF EvaluationPlan, RequestedAnalyses

LEMMA BoundsImposed ==
  ASSUME NEW r, NEW s, NEW hint, CompiledFrom(r, s, hint),
         r.status \in {"compiled", "compiled_with_warnings"}, NEW m \in DOMAIN s.constraints
  PROVE  LET range == s.constraints[m]
             t == r.task
         IN  /\ range.min # {} => t.constraints[m].lower = range.min
             /\ range.max # {} => t.constraints[m].upper = range.max
             /\ range.min \cup range.max = {} =>
                  t.constraints[m].lower = range.target /\ t.constraints[m].upper = range.target
             /\ m \in t.minimize => range.max # {} \/ range.min = {}
             /\ m \in t.maximize => range.min # {} \/ range.max = {}
  <1> DEFINE range == s.constraints[m]
             t == r.task
             n == NormalizeMetricRange(range)
  <1>1. t = DraftTask(s, hint) /\ TaskErrors(t, s) = {}
    BY CompiledParts
  <1>2. t.constraints = CompileConstraints(s) /\ t.minimize = s.minimize /\ t.maximize = s.maximize
    BY <1>1, DraftParts
  <1>3. DOMAIN t.constraints = DOMAIN s.constraints
        /\ t.constraints[m].relation = n.relation
        /\ t.constraints[m].lower = n.lower /\ t.constraints[m].upper = n.upper
    BY <1>2 DEF CompileConstraints
  <1>6. m \notin s.minimize \/ m \notin s.maximize
    BY DEF CompiledFrom, SchemaAccepts, Overlap
  <1>7. <<Direction(t, m), t.constraints[m].relation>>
          \notin {<<"minimize", ">=">>, <<"maximize", "<=">>}
    <2> HIDE DEF t
    <2> QED  BY <1>1, <1>3, NoErrors
  <1>8. Direction(t, m) = IF m \in s.minimize THEN "minimize"
                          ELSE IF m \in s.maximize THEN "maximize" ELSE "none"
    BY <1>2 DEF Direction
  <1>9. /\ range.min # {} \/ range.max # {} => n.lower = range.min /\ n.upper = range.max
        /\ range.min # {} /\ range.max = {} => n.relation = ">="
        /\ range.max # {} /\ range.min = {} => n.relation = "<="
        /\ range.min \cup range.max = {} => n.lower = range.target /\ n.upper = range.target
    BY DEF NormalizeMetricRange
  <1> HIDE DEF t, range, n
  <1> QED  BY <1>2, <1>3, <1>6, <1>7, <1>8, <1>9 DEF t, range, n

\* The variables of a family are the ones that are active for it in a search.
LEMMA ActiveHolds ==
  ASSUME NEW families \in SUBSET KnownFamilies, NEW f \in families
  PROVE  LET variables == {Structural} \cup UNION {VariableLibrary[g] : g \in families}
             conditional == ConditionalVariables(families)
         IN  {v \in variables \ {Structural} :
                v \in DOMAIN conditional => f \in conditional[v]} = DesignVariables[f]
  <1> DEFINE merged == UNION {VariableLibrary[g] : g \in families}
             having(v) == {g \in families : v \in VariableLibrary[g]}
             conditional == ConditionalVariables(families)
  <1>1. \A g \in families : VariableLibrary[g] = DesignVariables[g]
                            /\ Structural \notin VariableLibrary[g]
    BY TablesAgree
  <1>2. /\ DOMAIN conditional = {w \in merged : having(w) # families}
        /\ \A v \in DOMAIN conditional : conditional[v] = having(v)
    BY DEF ConditionalVariables
  <1> HIDE DEF conditional
  <1>3. \A v \in merged : (v \in DOMAIN conditional => f \in conditional[v])
                          <=> v \in VariableLibrary[f]
    <2> SUFFICES ASSUME NEW v \in merged
                 PROVE  (v \in DOMAIN conditional => f \in conditional[v])
                        <=> v \in VariableLibrary[f]
      OBVIOUS
    <2>1. f \in having(v) <=> v \in VariableLibrary[f]
      OBVIOUS
    <2>2. having(v) = families => f \in having(v)
      OBVIOUS
    <2>3. v \in DOMAIN conditional <=> having(v) # families
      BY <1>2
    <2> HIDE DEF having
    <2> QED  BY <1>2, <2>1, <2>2, <2>3
  <1>4. Structural \notin merged /\ VariableLibrary[f] \subseteq merged
    BY <1>1
  <1> HIDE DEF merged
  <1>5. {v \in ({Structural} \cup merged) \ {Structural} :
           v \in DOMAIN conditional => f \in conditional[v]} = VariableLibrary[f]
    BY <1>3, <1>4
  <1> QED  BY <1>1, <1>5 DEF merged, conditional

LEMMA StructureHolds ==
  ASSUME NEW r, NEW s, NEW hint, CompiledFrom(r, s, hint),
         r.status \in {"compiled", "compiled_with_warnings"}
  PROVE  LET t == r.task
             active(f) == {v \in t.space.variables \ {Structural} :
                             v \in DOMAIN t.space.conditional => f \in t.space.conditional[v]}
         IN  IF t.mode = "fixed"
             THEN t.space.variables = DesignVariables[t.family] /\ t.tuned = t.space.variables
             ELSE /\ t.space.choices # {} /\ t.tuned \subseteq t.space.variables
                  /\ \A f \in t.space.choices : active(f) = DesignVariables[f]
  <1> DEFINE t == r.task
             mode == TopologyMode(s, TaskType(s, hint))
             families == CandidateFamilies(s)
             space == DesignSpace(s, mode)
  <1>1. /\ t.mode = mode /\ t.family = s.family /\ t.tuned = TunedByTopology(s, mode)
        /\ t.space = space
    BY CompiledParts, DraftParts
  <1>2. s \in DesignSpec
    BY DEF CompiledFrom
  <1>3. mode = "fixed" => s.family \in KnownFamilies
    BY <1>2, FamiliesKnown DEF TopologyMode, DesignSpec
  <1>4. families # {} /\ families \subseteq KnownFamilies
    BY <1>2, CandidatesKnown
  <1> HIDE DEF t, mode, families
  <1>5. CASE mode = "fixed"
    <2>1. space.variables = VariableLibrary[s.family]
      BY <1>5 DEF DesignSpace
    <2>2. t.tuned = VariableLibrary[s.family]
      BY <1>1, <1>3, <1>5, TopologyTunes DEF TunedByTopology
    <2>3. VariableLibrary[s.family] = DesignVariables[s.family]
      BY <1>3, <1>5, TablesAgree
    <2> HIDE DEF space
    <2> QED  BY <1>1, <1>5, <2>1, <2>2, <2>3 DEF t
  <1>6. CASE mode # "fixed"
    <2>1. /\ space.variables = {Structural} \cup UNION {VariableLibrary[g] : g \in families}
          /\ space.choices = families /\ space.conditional = ConditionalVariables(families)
      BY <1>6 DEF DesignSpace, families
    <2>2. t.tuned = {Structural, "ibias"}
      BY <1>1, <1>6 DEF TunedByTopology
    <2>3. "ibias" \in UNION {VariableLibrary[g] : g \in families}
      BY <1>4, TablesAgree
    <2> HIDE DEF space
    <2>4. \A f \in families : {v \in space.variables \ {Structural} :
             v \in DOMAIN space.conditional => f \in space.conditional[v]} = DesignVariables[f]
      BY <1>4, <2>1, ActiveHolds
    <2> QED  BY <1>1, <1>4, <1>6, <2>1, <2>2, <2>3, <2>4 DEF t
  <1> QED  BY <1>5, <1>6

\* A review repeats the first verdict, but for a family that got lost.
LEMMA ReviewHolds ==
  ASSUME NEW r, NEW s, NEW hint, CompiledFrom(r, s, hint),
         r.status \in {"compiled", "compiled_with_warnings"}, NEW now
  PROVE  ValidateDesignTask(r.task, now).ready
           = (r.validation.ready /\ ~(r.task.type = "sizing" /\ now.family = "unknown"))
  <1> DEFINE t == r.task
             lost == now.family = "unknown" /\ t.type = "sizing"
             e == <<"semantic_consistency_error", "task_type">>
             open == t.unresolved \cap CoreUnresolved = {}
  <1>1. TaskErrors(t, s) = {} /\ r.validation = ValidateDesignTask(t, s)
    BY CompiledParts
  <1>2. TaskErrors(t, now) = {} <=> ~lost
    <2> DEFINE rest == TaskErrors(t, s) \ {e}
    <2>1. TaskErrors(t, now) = TaskErrors(t, s) \cup OnlyIf(lost, e)
      <3>1. TaskErrors(t, s) = TaskErrors(t, s) \cup OnlyIf(s.family = "unknown" /\ t.type = "sizing", e)
        BY DEF TaskErrors
      <3>2. OnlyIf(s.family = "unknown" /\ t.type = "sizing", e) = {}
        BY <1>1, <3>1
      <3> QED  BY <3>2 DEF TaskErrors
    <2> QED  BY <1>1, <2>1 DEF OnlyIf
  <1>3. ValidateDesignTask(t, now).ready = (TaskErrors(t, now) = {} /\ open)
    BY ReadyHolds
  <1>4. ValidateDesignTask(t, s).ready = (TaskErrors(t, s) = {} /\ open)
    BY ReadyHolds
  <1>5. r.validation.ready = open
    <2>1. (TaskErrors(t, s) = {} /\ open) = open
      BY <1>1
    <2> QED  BY <1>1, <1>4, <2>1
  <1> HIDE DEF t, open
  <1>6. ValidateDesignTask(t, now).ready = (open /\ ~lost)
    BY <1>2, <1>3
  <1> QED  BY <1>5, <1>6 DEF t

\* Some number of a set is the least; what passes from each number to the next holds of
\* every number.
LEMMA Least ==
  ASSUME NEW S \in SUBSET Nat, S # {}
  PROVE  \E n \in S : \A m \in S : n <= m
  <1> DEFINE R == {ss \in Nat \X Nat : ss[1] < ss[2]}
  <1>1. IsWellFoundedOn(R, Nat)
    BY NatLessThanWellFounded DEF OpToRel
  <1>2. \E x \in S : \A y \in S : ~ (<<y, x>> \in R)
    <2> HIDE DEF R
    <2> QED  BY <1>1, WFMin
  <1>3. PICK x \in S : \A y \in S : ~ (<<y, x>> \in R)
    BY <1>2
  <1>4. ASSUME NEW y \in S PROVE x <= y
    <2>1. <<y, x>> \in Nat \X Nat /\ ~(<<y, x>> \in R)
      BY <1>3
    <2> QED  BY <2>1
  <1> QED  BY <1>4

LEMMA Induct ==
  ASSUME NEW S, 0 \in S, \A n \in Nat : n \in S => n + 1 \in S
  PROVE  \A n \in Nat : n \in S
  <1> SUFFICES ASSUME NEW k \in Nat, k \notin S PROVE FALSE
    OBVIOUS
  <1> DEFINE B == {n \in Nat : n \notin S}
  <1>1. B \in SUBSET Nat /\ B # {}
    OBVIOUS
  <1>2. PICK n \in B : \A m \in B : n <= m
    <2> HIDE DEF B
    <2> QED  BY <1>1, Least
  <1>3. n \in Nat /\ n \notin S /\ n # 0
    BY <1>2
  <1>4. n - 1 \in Nat /\ n - 1 \notin B
    BY <1>2, <1>3
  <1>5. (n - 1) + 1 \in S
    BY <1>4
  <1> QED  BY <1>3, <1>5

(***************************************************************************)
(* The task graph                                                          *)
(***************************************************************************)

\* What reaches the end of a graph in at most n steps, for every n up to a bound.
Nearer(edges, near) == near \cup {e[1] : e \in {d \in edges : d[2] \in near}}
EndsFrom(ends, edges, n) ==
    ends = [k \in 0 .. n |-> IF k = 0 THEN {"terminate"} ELSE Nearer(edges, ends[k - 1])]

LEMMA EndsExist ==
  ASSUME NEW edges, NEW n \in Nat
  PROVE  \E ends : EndsFrom(ends, edges, n)
  <1> DEFINE S == {m \in Nat : \E ends : EndsFrom(ends, edges, m)}
  <1>1. 0 \in S
    <2>1. EndsFrom([k \in 0 .. 0 |-> {"terminate"}], edges, 0)
      BY DEF EndsFrom
    <2> QED  BY <2>1
  <1>2. ASSUME NEW m \in Nat, m \in S PROVE m + 1 \in S
    <2>1. PICK ends : EndsFrom(ends, edges, m)
      BY <1>2
    <2> DEFINE last == Nearer(edges, ends[m])
               more == [k \in 0 .. m + 1 |-> IF k = m + 1 THEN last ELSE ends[k]]
    <2>2. ASSUME NEW k \in 0 .. m + 1
          PROVE  more[k] = (IF k = 0 THEN {"terminate"} ELSE Nearer(edges, more[k - 1]))
      <3>1. CASE k = m + 1
        <4>1. more[k] = last /\ more[k - 1] = ends[m] /\ k # 0
          BY <3>1
        <4> HIDE DEF more
        <4> QED  BY <3>1, <4>1
      <3>2. CASE k # m + 1
        <4>1. k \in 0 .. m /\ more[k] = ends[k] /\ (k # 0 => more[k - 1] = ends[k - 1])
          BY <3>2
        <4>2. ends[k] = (IF k = 0 THEN {"terminate"} ELSE Nearer(edges, ends[k - 1]))
          BY <2>1, <4>1 DEF EndsFrom
        <4> HIDE DEF more
        <4> QED  BY <4>1, <4>2
      <3> QED  BY <3>1, <3>2
    <2>3. more = [k \in 0 .. m + 1 |-> IF k = 0 THEN {"terminate"} ELSE Nearer(edges, more[k - 1])]
      <3>1. more = [k \in 0 .. m + 1 |-> more[k]]
        OBVIOUS
      <3> HIDE DEF more
      <3> QED  BY <2>2, <3>1
    <2> HIDE DEF more
    <2> QED  BY <2>3 DEF EndsFrom
  <1>3. \A m \in Nat : m \in S
    <2> HIDE DEF S
    <2> QED  BY <1>1, <1>2, Induct
  <1> QED  BY <1>3

\* The edges of a task graph: a walk through it first, then the others.
Edges == <<<<"initialize_task", "propose_candidate">>, <<"propose_candidate", "precheck_candidate">>,
           <<"precheck_candidate", "screen_with_world_model">>,
           <<"screen_with_world_model", "run_evaluation_plan">>,
           <<"run_evaluation_plan", "extract_metrics">>, <<"extract_metrics", "check_constraints">>,
           <<"check_constraints", "terminate">>, <<"check_constraints", "update_search_state">>,
           <<"update_search_state", "propose_candidate">>, <<"update_search_state", "terminate">>>>

LEMMA EdgesCounted ==
  ASSUME NEW hint
  PROVE  /\ TaskGraph(hint).edges = {Edges[k] : k \in 1 .. 10}
         /\ Cardinality(TaskGraph(hint).edges) = 10
  <1> DEFINE E == {Edges[k] : k \in 1 .. 10}
  <1>1. E = {Edges[1], Edges[2], Edges[3], Edges[4], Edges[5], Edges[6], Edges[7], Edges[8],
             Edges[9], Edges[10]}
    OBVIOUS
  <1>2. TaskGraph(hint).edges = E
    <2> HIDE DEF E
    <2> QED  BY <1>1 DEF TaskGraph, Edges
  <1>3. Edges \in [1 .. 10 -> E]
    <2>1. Edges = [k \in 1 .. 10 |-> Edges[k]]
      BY DEF Edges
    <2> QED  BY <2>1
  <1>4. \A i, j \in 1 .. 10 : Edges[i] = Edges[j] => i = j
    BY DEF Edges
  <1>5. Edges \in Bijection(1 .. 10, E)
    <2>1. \A e \in E : \E k \in 1 .. 10 : Edges[k] = e
      OBVIOUS
    <2> HIDE DEF E
    <2> QED  BY <1>3, <1>4, <2>1 DEF Bijection, Injection, IsInjective, Surjection
  <1>6. IsFiniteSet(1 .. 10) /\ Cardinality(1 .. 10) = 10
    <2>1. \A n \in Nat : IsFiniteSet(1 .. n) /\ Cardinality(1 .. n) = n
      <3> TAKE n \in Nat
      <3>1. n - 1 + 1 = n /\ (1 > n => n = 0) /\ 1 \in Int /\ n \in Int
        OBVIOUS
      <3> QED  BY <3>1, FS_Interval
    <2>2. 10 \in Nat
      OBVIOUS
    <2> QED  BY <2>1, <2>2, Zenon
  <1> HIDE DEF E
  <1>7. Cardinality(E) = 10
    BY <1>5, <1>6, FS_Bijection DEF ExistsBijection
  <1> QED  BY <1>2, <1>7 DEF E

LEMMA EndsGrow ==
  ASSUME NEW edges, NEW ends, EndsFrom(ends, edges, 10)
  PROVE  /\ ends[0] = {"terminate"}
         /\ \A k \in 0 .. 9 : /\ ends[k] \subseteq ends[k + 1]
                              /\ \A e \in edges : e[2] \in ends[k] => e[1] \in ends[k + 1]
  <1>1. ends[0] = {"terminate"}
    BY DEF EndsFrom
  <1>2. ASSUME NEW k \in 0 .. 9 PROVE ends[k + 1] = Nearer(edges, ends[k])
    <2>1. k + 1 \in 0 .. 10 /\ k + 1 # 0 /\ (k + 1) - 1 = k
      OBVIOUS
    <2> QED  BY <2>1 DEF EndsFrom
  <1> QED  BY <1>1, <1>2 DEF Nearer

LEMMA GraphHolds ==
  ASSUME NEW hint, NEW g, g = TaskGraph(hint)
  PROVE  LET ends[n \in 0 .. Cardinality(g.edges)] ==
                IF n = 0 THEN {"terminate"}
                ELSE LET nearer == ends[n - 1]
                     IN  nearer \cup {e[1] : e \in {d \in g.edges : d[2] \in nearer}}
        IN  /\ {r[2] : r \in g.routes} \cup {"initialize_task"} \subseteq ends[Cardinality(g.edges)]
            /\ (g.screen = "bypass_world_model_screen") =
                 ("world_model_confidence_low" \notin {r[1] : r \in g.routes})
  <1> DEFINE E == g.edges
             ends == CHOOSE f : EndsFrom(f, E, 10)
  <1>1. E = {Edges[k] : k \in 1 .. 10} /\ Cardinality(E) = 10
    BY EdgesCounted
  <1>2. EndsFrom(ends, E, 10)
    <2> HIDE DEF E
    <2>1. 10 \in Nat
      OBVIOUS
    <2>2. \E f : EndsFrom(f, E, 10)
      BY <2>1, EndsExist
    <2> QED  BY <2>2
  <1> HIDE DEF ends
  <1>3. \A k \in 0 .. 9 : /\ ends[k] \subseteq ends[k + 1]
                          /\ \A e \in E : e[2] \in ends[k] => e[1] \in ends[k + 1]
    BY <1>2, EndsGrow
  <1>4. \A k \in 1 .. 10 : Edges[k] \in E
    BY <1>1
  <1>5. ends[0] = {"terminate"}
    BY <1>2, EndsGrow
  <1> HIDE DEF E
  <1>6. "check_constraints" \in ends[1] /\ "terminate" \in ends[1]
    BY <1>3, <1>4, <1>5 DEF Edges
  <1>7. "extract_metrics" \in ends[2] /\ "terminate" \in ends[2]
    BY <1>3, <1>4, <1>6 DEF Edges
  <1>8. "run_evaluation_plan" \in ends[3] /\ "terminate" \in ends[3]
    BY <1>3, <1>4, <1>7 DEF Edges
  <1>9. "screen_with_world_model" \in ends[4] /\ {"run_evaluation_plan", "terminate"} \subseteq ends[4]
    BY <1>3, <1>4, <1>8 DEF Edges
  <1>10. "precheck_candidate" \in ends[5] /\ {"run_evaluation_plan", "terminate"} \subseteq ends[5]
    BY <1>3, <1>4, <1>9 DEF Edges
  <1>11. {"propose_candidate", "run_evaluation_plan", "terminate"} \subseteq ends[6]
    BY <1>3, <1>4, <1>10 DEF Edges
  <1> DEFINE All == {"initialize_task", "propose_candidate", "run_evaluation_plan", "terminate"}
  <1>12. All \subseteq ends[7]
    BY <1>3, <1>4, <1>11 DEF Edges
  <1>13. All \subseteq ends[10]
    <2> HIDE DEF All
    <2>1. ends[7] \subseteq ends[8] /\ ends[8] \subseteq ends[9] /\ ends[9] \subseteq ends[10]
      BY <1>3
    <2> QED  BY <1>12, <2>1
  <1>14. {r[2] : r \in g.routes} \subseteq All
    BY DEF TaskGraph, OnlyIf
  <1>15. (g.screen = "bypass_world_model_screen") =
           ("world_model_confidence_low" \notin {r[1] : r \in g.routes})
    <2>1. CASE hint.surrogateFriendly
      BY <2>1 DEF TaskGraph, OnlyIf
    <2>2. CASE ~hint.surrogateFriendly
      BY <2>2 DEF TaskGraph, OnlyIf
    <2> QED  BY <2>1, <2>2
  <1> DEFINE reach[n \in 0 .. Cardinality(E)] ==
                IF n = 0 THEN {"terminate"}
                ELSE LET nearer == reach[n - 1]
                     IN  nearer \cup {e[1] : e \in {d \in E : d[2] \in nearer}}
  <1>16. reach = ends
    BY <1>1 DEF ends, EndsFrom, Nearer
  <1> HIDE DEF All, reach, ends
  <1>17. {r[2] : r \in g.routes} \cup {"initialize_task"} \subseteq reach[Cardinality(E)]
    <2>1. "initialize_task" \in All
      BY DEF All
    <2> QED  BY <1>1, <1>13, <1>14, <1>16, <2>1
  <1> QED  BY <1>15, <1>17 DEF reach, E

(***************************************************************************)
(* What the parser makes of a text                                         *)
(***************************************************************************)

\* Of a bound and a number the stronger one stays.
LEMMA Stronger ==
  ASSUME NEW b \in Bound, NEW v \in Int
  PROVE  /\ Max(b \cup {v}) \in b \cup {v} /\ Max(b \cup {v}) >= v
         /\ \A w \in b : Max(b \cup {v}) >= w
         /\ Min(b \cup {v}) \in b \cup {v} /\ Min(b \cup {v}) <= v
         /\ \A w \in b : Min(b \cup {v}) <= w
  <1>1. b \subseteq Int /\ \A x, y \in b : x = y
    BY DEF Bound
  <1> DEFINE S == b \cup {v}
  <1>2. \E x \in S : \A y \in S : x >= y
    <2>1. CASE \A y \in b : v >= y
      BY <2>1
    <2>2. CASE \E y \in b : y > v
      BY <1>1, <2>2
    <2> QED  BY <1>1, <2>1, <2>2
  <1>3. \E x \in S : \A y \in S : x <= y
    <2>1. CASE \A y \in b : v <= y
      BY <2>1
    <2>2. CASE \E y \in b : y < v
      BY <1>1, <2>2
    <2> QED  BY <1>1, <2>1, <2>2
  <1>4. v \in S /\ b \subseteq S
    OBVIOUS
  <1> HIDE DEF S
  <1>5. Max(S) \in S /\ \A y \in S : Max(S) >= y
    BY <1>2 DEF Max
  <1>6. Min(S) \in S /\ \A y \in S : Min(S) <= y
    BY <1>3 DEF Min
  <1> QED  BY <1>4, <1>5, <1>6 DEF S

Statement == ConstraintMetrics \X {"min", "max", "target"} \X Int

\* An update keeps the ranges: it touches one metric, one end of its range, and only to
\* make it stronger.
Updated(c, m, comparator, v, d) ==
    /\ d \in Ranges /\ DOMAIN d = DOMAIN c \cup {m}
    /\ \A k \in DOMAIN c \ {m} : d[k] = c[k]
    /\ comparator = "min" => \E low \in d[m].min : low >= v
    /\ comparator = "max" => \E high \in d[m].max : high <= v
    /\ \A low \in d[m].min : (comparator = "min" /\ low = v) \/ (m \in DOMAIN c /\ low \in c[m].min)
    /\ \A high \in d[m].max : (comparator = "max" /\ high = v) \/ (m \in DOMAIN c /\ high \in c[m].max)
    /\ comparator = "target" => d[m].target = {v}
    /\ comparator # "target" => \A w \in d[m].target : m \in DOMAIN c /\ w \in c[m].target
    /\ comparator # "target" /\ m \in DOMAIN c => d[m].target = c[m].target
    /\ m \in DOMAIN c => /\ \A w \in c[m].min : \E low \in d[m].min : low >= w
                         /\ \A w \in c[m].max : \E high \in d[m].max : high <= w

LEMMA UpdateHolds ==
  ASSUME NEW c \in Ranges, NEW m \in ConstraintMetrics, NEW comparator \in {"min", "max", "target"},
         NEW v \in Int
  PROVE  Updated(c, m, comparator, v, UpdateConstraint(c, m, comparator, v))
  <1> DEFINE old == IF m \in DOMAIN c THEN c[m] ELSE NoRange
             more == {Max(old.min \cup {v})}
             less == {Min(old.max \cup {v})}
             new == CASE comparator = "min" -> [old EXCEPT !.min = more]
                      [] comparator = "max" -> [old EXCEPT !.max = less]
                      [] OTHER -> [old EXCEPT !.target = {v}]
             d == UpdateConstraint(c, m, comparator, v)
  <1>1. /\ c = [k \in DOMAIN c |-> c[k]] /\ DOMAIN c \subseteq ConstraintMetrics
        /\ \A k \in DOMAIN c : c[k] \in MetricRange
    BY RangesHold
  <1>2. old \in [min : Bound, max : Bound, target : Bound]
    <2>1. {} \in Bound
      BY DEF Bound
    <2> QED  BY <1>1, <2>1 DEF MetricRange, NoRange
  <1>3. m \notin DOMAIN c => old = NoRange
    OBVIOUS
  <1>4. m \in DOMAIN c => old = c[m]
    OBVIOUS
  <1>5. d = WithRange(c, m, new)
    BY DEF UpdateConstraint
  <1> HIDE DEF old, d
  <1>6. old.min \in Bound /\ old.max \in Bound /\ old.target \in Bound
        /\ old = [min |-> old.min, max |-> old.max, target |-> old.target]
    BY <1>2
  <1>7. /\ more \in Bound /\ more # {} /\ \A x \in more : x >= v /\ (x = v \/ x \in old.min)
        /\ \A x \in more, w \in old.min : x >= w
    <2> DEFINE x == Max(old.min \cup {v})
    <2>1. x \in old.min \cup {v} /\ x >= v /\ \A w \in old.min : x >= w
      BY <1>6, Stronger
    <2>2. old.min \subseteq Int
      BY <1>6 DEF Bound
    <2> HIDE DEF x
    <2>3. x \in Int
      BY <2>1, <2>2
    <2>4. {x} \in Bound
      BY <2>3 DEF Bound
    <2> QED  BY <2>1, <2>4 DEF x
  <1>8. /\ less \in Bound /\ less # {} /\ \A x \in less : x <= v /\ (x = v \/ x \in old.max)
        /\ \A x \in less, w \in old.max : x <= w
    <2> DEFINE x == Min(old.max \cup {v})
    <2>1. x \in old.max \cup {v} /\ x <= v /\ \A w \in old.max : x <= w
      BY <1>6, Stronger
    <2>2. old.max \subseteq Int
      BY <1>6 DEF Bound
    <2> HIDE DEF x
    <2>3. x \in Int
      BY <2>1, <2>2
    <2>4. {x} \in Bound
      BY <2>3 DEF Bound
    <2> QED  BY <2>1, <2>4 DEF x
  <1>9. {v} \in Bound
    BY DEF Bound
  <1> HIDE DEF more, less
  <1>10. /\ comparator = "min" => new = [min |-> more, max |-> old.max, target |-> old.target]
         /\ comparator = "max" => new = [min |-> old.min, max |-> less, target |-> old.target]
         /\ comparator = "target" => new = [min |-> old.min, max |-> old.max, target |-> {v}]
    BY <1>6
  <1> HIDE DEF new
  <1>11. new \in MetricRange
    BY <1>6, <1>7, <1>8, <1>9, <1>10 DEF MetricRange, NoRange
  <1>12. /\ DOMAIN d = DOMAIN c \cup {m} /\ d = [k \in DOMAIN d |-> d[k]] /\ d[m] = new
         /\ \A k \in DOMAIN c \ {m} : d[k] = c[k]
    BY <1>5 DEF WithRange
  <1>13. d \in Ranges
    BY <1>1, <1>11, <1>12, RangesHold
  <1>14. m \notin DOMAIN c => old.min = {} /\ old.max = {} /\ old.target = {}
    BY <1>3 DEF NoRange
  <1>15. /\ comparator = "min" => \E low \in new.min : low >= v
         /\ comparator = "max" => \E high \in new.max : high <= v
    BY <1>7, <1>8, <1>10
  <1>16. /\ \A low \in new.min : (comparator = "min" /\ low = v) \/ low \in old.min
         /\ \A high \in new.max : (comparator = "max" /\ high = v) \/ high \in old.max
         /\ comparator = "target" => new.target = {v}
         /\ comparator # "target" => new.target = old.target
    BY <1>7, <1>8, <1>10
  <1>17. /\ \A w \in old.min : \E low \in new.min : low >= w
         /\ \A w \in old.max : \E high \in new.max : high <= w
    <2>1. \A w \in old.min \cup old.max : w >= w /\ w <= w
      BY <1>6 DEF Bound
    <2> QED  BY <1>7, <1>8, <1>10, <2>1
  <1>18. Updated(c, m, comparator, v, d)
    BY <1>4, <1>12, <1>13, <1>14, <1>15, <1>16, <1>17 DEF Updated
  <1> QED  BY <1>18 DEF d

\* The recursion of ParsedConstraints: what the first k statements make of no constraints.
ParseStep(text, c, k) ==
    LET s == text.statements[k]
    IN  IF IsParserError(s) THEN c ELSE UpdateConstraint(c, s[1], s[2], s[3])
ParsedFrom(p, text, n) ==
    p = [k \in 0 .. n |-> IF k = 0 THEN [m \in {} |-> NoRange] ELSE ParseStep(text, p[k - 1], k)]

LEMMA ParseExists ==
  ASSUME NEW text, NEW n \in Nat
  PROVE  \E p : ParsedFrom(p, text, n)
  <1> DEFINE First == [m \in {} |-> NoRange]
             S == {m \in Nat : \E p : ParsedFrom(p, text, m)}
  <1>1. 0 \in S
    <2>1. ParsedFrom([k \in 0 .. 0 |-> First], text, 0)
      BY DEF ParsedFrom
    <2> QED  BY <2>1
  <1>2. ASSUME NEW m \in Nat, m \in S PROVE m + 1 \in S
    <2>1. PICK p : ParsedFrom(p, text, m)
      BY <1>2
    <2> DEFINE last == ParseStep(text, p[m], m + 1)
               more == [k \in 0 .. m + 1 |-> IF k = m + 1 THEN last ELSE p[k]]
    <2>2. ASSUME NEW k \in 0 .. m + 1
          PROVE  more[k] = (IF k = 0 THEN First ELSE ParseStep(text, more[k - 1], k))
      <3>1. CASE k = m + 1
        <4>1. more[k] = last /\ more[k - 1] = p[m] /\ k # 0
          BY <3>1
        <4> HIDE DEF more
        <4> QED  BY <3>1, <4>1
      <3>2. CASE k # m + 1
        <4>1. k \in 0 .. m /\ more[k] = p[k] /\ (k # 0 => more[k - 1] = p[k - 1])
          BY <3>2
        <4>2. p[k] = (IF k = 0 THEN First ELSE ParseStep(text, p[k - 1], k))
          BY <2>1, <4>1 DEF ParsedFrom
        <4> HIDE DEF more
        <4> QED  BY <4>1, <4>2
      <3> QED  BY <3>1, <3>2
    <2>3. more = [k \in 0 .. m + 1 |-> IF k = 0 THEN First ELSE ParseStep(text, more[k - 1], k)]
      <3>1. more = [k \in 0 .. m + 1 |-> more[k]]
        OBVIOUS
      <3> HIDE DEF more
      <3> QED  BY <2>2, <3>1
    <2> HIDE DEF more
    <2> QED  BY <2>3 DEF ParsedFrom
  <1>3. \A m \in Nat : m \in S
    <2> HIDE DEF S
    <2> QED  BY <1>1, <1>2, Induct
  <1> QED  BY <1>3

\* The first n statements of a text are honoured by constraints that come from nothing else.
Said(text, i, m, comparator, v) ==
    /\ ~IsParserError(text.statements[i])
    /\ text.statements[i][1] = m /\ text.statements[i][2] = comparator
    /\ text.statements[i][3] = v
TakenBack(text, i, m, n) == \E j \in 1 .. n, w \in Int : j > i /\ Said(text, j, m, "target", w)
Honoured(text, c, n) ==
    /\ c \in Ranges
    /\ \A i \in 1 .. n : \A m, v :
         /\ Said(text, i, m, "min", v) => m \in DOMAIN c /\ \E low \in c[m].min : low >= v
         /\ Said(text, i, m, "max", v) => m \in DOMAIN c /\ \E high \in c[m].max : high <= v
         /\ Said(text, i, m, "target", v) =>
              m \in DOMAIN c /\ (c[m].target = {v} \/ TakenBack(text, i, m, n))
    /\ \A m \in DOMAIN c :
         /\ \A low \in c[m].min : \E i \in 1 .. n : Said(text, i, m, "min", low)
         /\ \A high \in c[m].max : \E i \in 1 .. n : Said(text, i, m, "max", high)
         /\ \A w \in c[m].target :
              /\ \E i \in 1 .. n : Said(text, i, m, "target", w)
              /\ m \in VoltageMetrics \/ w >= 0

LEMMA ParseStepHonours ==
  ASSUME NEW text, NEW n \in Nat, NEW c, Honoured(text, c, n),
         \A i \in 1 .. n + 1 : text.statements[i] \in Statement
  PROVE  Honoured(text, ParseStep(text, c, n + 1), n + 1)
  <1> DEFINE s == text.statements[n + 1]
             d == ParseStep(text, c, n + 1)
             m == s[1]
             comparator == s[2]
             v == s[3]
  <1>1. m \in ConstraintMetrics /\ comparator \in {"min", "max", "target"} /\ v \in Int
    <2>1. s \in Statement
      OBVIOUS
    <2> QED  BY <2>1 DEF Statement
  <1>2. \A i \in 1 .. n + 1 : i \in 1 .. n \/ i = n + 1
    OBVIOUS
  <1>3. c \in Ranges /\ \A k \in DOMAIN c : c[k].min \subseteq Int /\ c[k].max \subseteq Int
    BY RangesHold DEF Honoured, MetricRange, Bound
  <1>4. CASE IsParserError(s)
    <2>1. d = c
      BY <1>4 DEF ParseStep
    <2>2. \A k, cmp, w : ~Said(text, n + 1, k, cmp, w)
      BY <1>4 DEF Said
    <2>3. \A i \in 1 .. n : i \in 1 .. n + 1
      OBVIOUS
    <2>4. \A i, k : TakenBack(text, i, k, n) => TakenBack(text, i, k, n + 1)
      BY <2>3 DEF TakenBack
    <2> HIDE DEF d
    <2> QED  BY <1>2, <2>1, <2>2, <2>3, <2>4 DEF Honoured, d
  <1>5. CASE ~IsParserError(s)
    <2>1. Updated(c, m, comparator, v, d)
      <3>1. d = UpdateConstraint(c, m, comparator, v)
        BY <1>5 DEF ParseStep
      <3> HIDE DEF d, m, comparator, v
      <3> QED  BY <1>1, <1>3, <3>1, UpdateHolds
    <2>2. \A k, cmp, w : Said(text, n + 1, k, cmp, w) <=> k = m /\ cmp = comparator /\ w = v
      BY <1>5 DEF Said
    <2>3. m \in VoltageMetrics \/ v >= 0
      BY <1>1, <1>5 DEF IsParserError
    <2> HIDE DEF d, m, comparator, v
    <2>4. d \in Ranges /\ \A k \in DOMAIN d : d[k].min \subseteq Int /\ d[k].max \subseteq Int
      <3>1. d \in Ranges
        BY <2>1 DEF Updated
      <3> QED  BY <3>1, RangesHold DEF MetricRange, Bound
    <2>5. m \in DOMAIN d /\ DOMAIN c \subseteq DOMAIN d
      BY <2>1 DEF Updated
    <2>6. ASSUME NEW i \in 1 .. n + 1, NEW k, NEW w
          PROVE  /\ Said(text, i, k, "min", w) => k \in DOMAIN d /\ \E low \in d[k].min : low >= w
                 /\ Said(text, i, k, "max", w) => k \in DOMAIN d /\ \E high \in d[k].max : high <= w
                 /\ Said(text, i, k, "target", w) =>
                      k \in DOMAIN d /\ (d[k].target = {w} \/ TakenBack(text, i, k, n + 1))
      <3>1. CASE i = n + 1
        BY <2>1, <2>2, <2>5, <3>1 DEF Updated
      <3>2. CASE i \in 1 .. n
        <4>0. text.statements[i][3] \in Int
          <5>1. text.statements[i] \in Statement
            BY <3>2
          <5> QED  BY <5>1 DEF Statement
        <4>1. ASSUME Said(text, i, k, "min", w)
              PROVE  k \in DOMAIN d /\ \E low \in d[k].min : low >= w
          <5>0. w \in Int
            BY <4>0, <4>1 DEF Said
          <5>1. w \in Int /\ k \in DOMAIN c /\ \E low \in c[k].min : low >= w
            BY <3>2, <4>1, <5>0 DEF Honoured
          <5>2. PICK low \in c[k].min : low >= w
            BY <5>1
          <5>3. PICK more \in d[k].min : more >= low
            <6>1. low >= low
              BY <1>3, <5>1, <5>2
            <6> QED  BY <2>1, <5>1, <5>2, <6>1 DEF Updated
          <5>4. low \in Int /\ more \in Int
            BY <1>3, <2>4, <2>5, <5>1, <5>2, <5>3
          <5>5. more >= w
            BY <5>1, <5>2, <5>3, <5>4
          <5> QED  BY <2>5, <5>1, <5>3, <5>5
        <4>2. ASSUME Said(text, i, k, "max", w)
              PROVE  k \in DOMAIN d /\ \E high \in d[k].max : high <= w
          <5>0. w \in Int
            BY <4>0, <4>2 DEF Said
          <5>1. w \in Int /\ k \in DOMAIN c /\ \E high \in c[k].max : high <= w
            BY <3>2, <4>2, <5>0 DEF Honoured
          <5>2. PICK high \in c[k].max : high <= w
            BY <5>1
          <5>3. PICK less \in d[k].max : less <= high
            <6>1. high <= high
              BY <1>3, <5>1, <5>2
            <6> QED  BY <2>1, <5>1, <5>2, <6>1 DEF Updated
          <5>4. high \in Int /\ less \in Int
            BY <1>3, <2>4, <2>5, <5>1, <5>2, <5>3
          <5>5. less <= w
            BY <5>1, <5>2, <5>3, <5>4
          <5> QED  BY <2>5, <5>1, <5>3, <5>5
        <4>3. ASSUME Said(text, i, k, "target", w)
              PROVE  k \in DOMAIN d /\ (d[k].target = {w} \/ TakenBack(text, i, k, n + 1))
          <5>1. k \in DOMAIN c /\ (c[k].target = {w} \/ TakenBack(text, i, k, n))
            BY <3>2, <4>3 DEF Honoured
          <5>2. CASE TakenBack(text, i, k, n)
            <6>1. TakenBack(text, i, k, n + 1)
              BY <5>2 DEF TakenBack
            <6> QED  BY <2>5, <5>1, <6>1
          <5>3. CASE k = m /\ comparator = "target"
            <6>1. Said(text, n + 1, k, "target", v) /\ n + 1 > i /\ n + 1 \in 1 .. n + 1
              BY <2>2, <3>2, <5>3
            <6>2. TakenBack(text, i, k, n + 1)
              BY <1>1, <6>1 DEF TakenBack, v
            <6> QED  BY <2>5, <5>1, <6>2
          <5>4. CASE c[k].target = {w} /\ ~(k = m /\ comparator = "target")
            <6>1. d[k].target = c[k].target
              BY <2>1, <5>1, <5>4 DEF Updated
            <6> QED  BY <2>5, <5>1, <5>4, <6>1
          <5> QED  BY <5>1, <5>2, <5>3, <5>4
        <4> QED  BY <4>1, <4>2, <4>3
      <3> QED  BY <1>2, <3>1, <3>2
    <2>7. ASSUME NEW k \in DOMAIN d
          PROVE  /\ \A low \in d[k].min : \E i \in 1 .. n + 1 : Said(text, i, k, "min", low)
                 /\ \A high \in d[k].max : \E i \in 1 .. n + 1 : Said(text, i, k, "max", high)
                 /\ \A w \in d[k].target :
                      /\ \E i \in 1 .. n + 1 : Said(text, i, k, "target", w)
                      /\ k \in VoltageMetrics \/ w >= 0
      <3>0. n + 1 \in 1 .. n + 1 /\ \A i \in 1 .. n : i \in 1 .. n + 1
        OBVIOUS
      <3>1. k \in DOMAIN c =>
              /\ \A low \in c[k].min : \E i \in 1 .. n + 1 : Said(text, i, k, "min", low)
              /\ \A high \in c[k].max : \E i \in 1 .. n + 1 : Said(text, i, k, "max", high)
              /\ \A w \in c[k].target :
                   /\ \E i \in 1 .. n + 1 : Said(text, i, k, "target", w)
                   /\ k \in VoltageMetrics \/ w >= 0
        BY <3>0 DEF Honoured
      <3>2. CASE k = m
        BY <2>1, <2>2, <2>3, <3>0, <3>1, <3>2 DEF Updated
      <3>3. CASE k # m
        BY <2>1, <3>1, <3>3 DEF Updated
      <3> QED  BY <3>2, <3>3
    <2> QED  BY <2>4, <2>6, <2>7 DEF Honoured, d
  <1> QED  BY <1>4, <1>5

\* A text of the constants, field by field.
LEMMA TextTyped ==
  ASSUME NEW text \in Texts
  PROVE  /\ IsFiniteSet(text.words) /\ text.hints \subseteq DOMAIN HintDirection
         /\ text.node \in BOOLEAN /\ text.supply \in BOOLEAN /\ text.load \in BOOLEAN
         /\ text.across \in BOOLEAN /\ text.temps \in Nat /\ text.corners \in Nat
         /\ text.statements \in Seq(Statement)
  BY TextAssumption DEF Statement

\* The parser honours all statements of a text, in whichever order they come.
LEMMA ParsedHonoured ==
  ASSUME NEW text \in Texts
  PROVE  Honoured(text, ParsedConstraints(text), Len(text.statements))
  <1> DEFINE n == Len(text.statements)
             p == CHOOSE f : ParsedFrom(f, text, n)
  <1>1. n \in Nat /\ \A i \in 1 .. n : text.statements[i] \in Statement
    BY TextTyped
  <1>2. ParsedFrom(p, text, n)
    <2> HIDE DEF n
    <2>1. \E f : ParsedFrom(f, text, n)
      BY <1>1, ParseExists
    <2> QED  BY <2>1
  <1>3. ParsedConstraints(text) = p[n]
    BY DEF ParsedConstraints, ParsedFrom, ParseStep
  <1> HIDE DEF p, n
  <1>4. Honoured(text, p[0], 0)
    <2>1. p[0] = [m \in {} |-> NoRange]
      BY <1>1, <1>2 DEF ParsedFrom
    <2>2. p[0] \in Ranges
      BY <2>1, RangesHold
    <2> QED  BY <2>1, <2>2 DEF Honoured
  <1>5. ASSUME NEW k \in Nat, k + 1 <= n, Honoured(text, p[k], k)
        PROVE  Honoured(text, p[k + 1], k + 1)
    <2>1. k + 1 \in 0 .. n /\ k + 1 # 0 /\ (k + 1) - 1 = k
      BY <1>1, <1>5
    <2>2. p[k + 1] = ParseStep(text, p[k], k + 1)
      BY <1>2, <2>1 DEF ParsedFrom
    <2>3. \A i \in 1 .. k + 1 : text.statements[i] \in Statement
      BY <1>1, <1>5
    <2> QED  BY <1>5, <2>2, <2>3, ParseStepHonours
  <1> DEFINE S == {k \in Nat : k <= n => Honoured(text, p[k], k)}
  <1>6. 0 \in S
    BY <1>4
  <1>7. ASSUME NEW k \in Nat, k \in S PROVE k + 1 \in S
    <2> SUFFICES ASSUME k + 1 <= n PROVE Honoured(text, p[k + 1], k + 1)
      OBVIOUS
    <2>1. k <= n
      BY <1>1
    <2> QED  BY <1>5, <1>7, <2>1
  <1>8. \A k \in Nat : k \in S
    <2> HIDE DEF S
    <2> QED  BY <1>6, <1>7, Induct
  <1>9. Honoured(text, p[n], n)
    BY <1>1, <1>8
  <1> QED  BY <1>3, <1>9 DEF n

\* The first family found in a text is one of the table.
LEMMA ParsedFamilyKnown ==
  ASSUME NEW text
  PROVE  ParsedFamily(text) \in DOMAIN DesignVariables
  <1> DEFINE found == {i \in DOMAIN FamilyOrder : FamilyOrder[i] \in text.families}
  <1>1. DOMAIN FamilyOrder = 1 .. 6 /\ \A i \in 1 .. 6 : FamilyOrder[i] \in KnownFamilies
    BY FamiliesKnown DEF FamilyOrder
  <1>2. ParsedFamily(text) = IF found = {} THEN "unknown" ELSE FamilyOrder[Min(found)]
    BY DEF ParsedFamily
  <1>3. found \in SUBSET Nat /\ found \subseteq 1 .. 6
    BY <1>1
  <1> HIDE DEF found
  <1>4. found # {} => Min(found) \in found
    BY <1>3, Least DEF Min
  <1> QED  BY <1>1, <1>2, <1>3, <1>4, FamiliesKnown

\* What is missing, and what is ambiguous, can be counted.
LEMMA OnlyIfFinite ==
  ASSUME NEW b \in BOOLEAN, NEW x
  PROVE  IsFiniteSet(OnlyIf(b, x)) /\ OnlyIf(b, x) \subseteq {x}
  BY FS_EmptySet, FS_Singleton DEF OnlyIf

LEMMA MissingFinite ==
  ASSUME NEW family, NEW node \in BOOLEAN, NEW load \in BOOLEAN
  PROVE  /\ IsFiniteSet(MissingCore(family, node, load))
         /\ MissingCore(family, node, load) \subseteq OpenFields
  <1>1. /\ IsFiniteSet(OnlyIf(family = "unknown", "circuit_family"))
        /\ IsFiniteSet(OnlyIf(~node, "process_node"))
        /\ IsFiniteSet(OnlyIf(~load /\ family \in NeedsLoad, "load_cap_f"))
    BY OnlyIfFinite
  <1>2. IsFiniteSet(MissingCore(family, node, load))
    <2> DEFINE a == OnlyIf(family = "unknown", "circuit_family")
               b == OnlyIf(~node, "process_node")
               c == OnlyIf(~load /\ family \in NeedsLoad, "load_cap_f")
    <2>1. MissingCore(family, node, load) = (a \cup b) \cup c
      BY DEF MissingCore
    <2> HIDE DEF a, b, c
    <2>2. IsFiniteSet(a \cup b)
      BY <1>1, FS_Union DEF a, b
    <2>3. IsFiniteSet((a \cup b) \cup c)
      BY <1>1, <2>2, FS_Union DEF c
    <2> QED  BY <2>1, <2>3
  <1>3. MissingCore(family, node, load) \subseteq OpenFields
    <2>1. /\ OnlyIf(family = "unknown", "circuit_family") \subseteq OpenFields
          /\ OnlyIf(~node, "process_node") \subseteq OpenFields
          /\ OnlyIf(~load /\ family \in NeedsLoad, "load_cap_f") \subseteq OpenFields
      BY DEF OnlyIf, OpenFields
    <2> QED  BY <2>1 DEF MissingCore
  <1> QED  BY <1>2, <1>3

LEMMA InferredFinite ==
  ASSUME NEW text \in Texts
  PROVE  /\ IsFiniteSet(InferredMissing(text)) /\ InferredMissing(text) \subseteq OpenFields
         /\ MissingCore(ParsedFamily(text), text.node, text.load) \subseteq InferredMissing(text)
         /\ IsFiniteSet(Ambiguities(text))
  <1> DEFINE core == MissingCore(ParsedFamily(text), text.node, text.load)
             range == OnlyIf(text.across /\ text.temps = 0, "temperature_range")
  <1>1. IsFiniteSet(core) /\ core \subseteq OpenFields
    BY TextTyped, MissingFinite
  <1>2. IsFiniteSet(range) /\ range \subseteq OpenFields
    <2>1. IsFiniteSet(range)
      BY OnlyIfFinite
    <2>2. range \subseteq OpenFields
      BY DEF OnlyIf, OpenFields
    <2> QED  BY <2>1, <2>2
  <1>3. InferredMissing(text) = core \cup range
    BY DEF InferredMissing
  <1> HIDE DEF core, range
  <1>4. IsFiniteSet(core \cup range)
    BY <1>1, <1>2, FS_Union
  <1>5. IsFiniteSet(Ambiguities(text))
    BY TextTyped, FS_EmptySet, FS_Singleton DEF Ambiguities
  <1> QED  BY <1>1, <1>2, <1>3, <1>4, <1>5 DEF core

\* Confidence is a percentage whatever there is to complain about.
LEMMA OfTwo ==
  ASSUME NEW a \in Int, NEW b \in Int
  PROVE  /\ Max({a, b}) = (IF a >= b THEN a ELSE b)
         /\ Min({a, b}) = (IF a <= b THEN a ELSE b)
  <1>1. Max({a, b}) \in {a, b} /\ Max({a, b}) >= a /\ Max({a, b}) >= b
    <2>1. \E x \in {a, b} : \A y \in {a, b} : x >= y
      <3>1. a >= a /\ b >= b /\ (a >= b \/ b >= a)
        OBVIOUS
      <3> QED  BY <3>1
    <2> QED  BY <2>1 DEF Max
  <1>2. Min({a, b}) \in {a, b} /\ Min({a, b}) <= a /\ Min({a, b}) <= b
    <2>1. \E x \in {a, b} : \A y \in {a, b} : x <= y
      <3>1. a <= a /\ b <= b /\ (a <= b \/ b <= a)
        OBVIOUS
      <3> QED  BY <3>1
    <2> QED  BY <2>1 DEF Min
  <1> QED  BY <1>1, <1>2

LEMMA ConfidenceTyped ==
  ASSUME NEW text \in Texts, NEW issues \in Nat
  PROVE  CompileConfidence(text, issues) \in 0 .. 100
  <1> DEFINE missing == Cardinality(InferredMissing(text))
             open == Cardinality(Ambiguities(text))
             e == 95 - 8 * missing - 12 * open - 20 * issues
  <1>1. missing \in Nat /\ open \in Nat
    BY InferredFinite, FS_CardinalityType
  <1>2. CompileConfidence(text, issues) = Max({0, e})
    BY DEF CompileConfidence
  <1> HIDE DEF missing, open
  <1>3. e \in Int /\ e <= 100
    BY <1>1
  <1> HIDE DEF e
  <1>4. Max({0, e}) = IF 0 >= e THEN 0 ELSE e
    BY <1>3, OfTwo
  <1> QED  BY <1>2, <1>3, <1>4

(***************************************************************************)
(* The spec that is built from a text                                      *)
(***************************************************************************)

\* Every hint is a wish in one direction.
LEMMA HintsSplit ==
  ASSUME NEW text \in Texts
  PROVE  /\ Hinted(text, "maximize") \cup Hinted(text, "minimize") = text.hints
         /\ Hinted(text, "maximize") \cap Hinted(text, "minimize") = {}
         /\ text.hints \subseteq ObjectiveMetrics
  <1>1. text.hints \subseteq {"gbw_hz", "power_w", "dc_gain_db", "noise_nv_per_sqrt_hz", "phase_margin_deg"}
    BY TextTyped DEF HintDirection
  <1>2. \A m \in text.hints : HintDirection[m] \in {"maximize", "minimize"}
    BY <1>1 DEF HintDirection
  <1>3. text.hints \subseteq ObjectiveMetrics
    BY <1>1 DEF ObjectiveMetrics
  <1> QED  BY <1>2, <1>3 DEF Hinted

LEMMA BuiltParts ==
  ASSUME NEW text
  PROVE  LET b == BuildDesignSpec(text)
             c == ParsedConstraints(text)
         IN  /\ b.constraints = c /\ b.family = ParsedFamily(text)
             /\ b.node = text.node /\ b.load = text.load
             /\ b.maximize = Hinted(text, "maximize") /\ b.minimize = Hinted(text, "minimize")
             /\ b.plan = PlanTestbenches(DOMAIN c \cup text.hints)
             /\ b.variables = DesignVariables[b.family]
             /\ b.missing = InferredMissing(text) /\ b.confidence = CompileConfidence(text, 0)
  BY DEF BuildDesignSpec

LEMMA PlanTyped ==
  ASSUME NEW metrics
  PROVE  PlanTestbenches(metrics) \subseteq {"op", "ac", "tran", "noise"}
  BY DEF PlanTestbenches, OnlyIf

LEMMA BuiltTyped ==
  ASSUME NEW text \in Texts
  PROVE  BuildDesignSpec(text) \in DesignSpec
  <1>1. ParsedConstraints(text) \in Ranges
    BY ParsedHonoured DEF Honoured
  <1>2. ParsedFamily(text) \in DOMAIN DesignVariables
    BY ParsedFamilyKnown
  <1>3. InferredMissing(text) \in SUBSET OpenFields
    BY InferredFinite
  <1>4. CompileConfidence(text, 0) \in Int
    BY ConfidenceTyped
  <1>5. Ambiguities(text) \cap {"ota"} \in SUBSET {"ota", "bandgap"}
    OBVIOUS
  <1>6. Hinted(text, "maximize") \in SUBSET ObjectiveMetrics
        /\ Hinted(text, "minimize") \in SUBSET ObjectiveMetrics
    BY HintsSplit
  <1>7. \A metrics : PlanTestbenches(metrics) \in SUBSET {"op", "ac", "tran", "noise"}
    BY PlanTyped
  <1>8. DesignVariables[ParsedFamily(text)]
          \in SUBSET UNION {DesignVariables[f] : f \in DOMAIN DesignVariables}
    BY <1>2
  <1> QED  BY TextTyped, <1>1, <1>2, <1>3, <1>4, <1>5, <1>6, <1>7, <1>8 DEF BuildDesignSpec, DesignSpec

\* What was said is what is stated in the text.
LEMMA SaidStated ==
  ASSUME NEW text \in Texts, NEW i, NEW m, NEW comparator, NEW v
  PROVE  /\ Said(text, i, m, comparator, v) /\ i \in 1 .. Len(text.statements) =>
              /\ i \in Stated(text, comparator)
              /\ text.statements[i][1] = m /\ text.statements[i][3] = v
         /\ i \in Stated(text, comparator) =>
              /\ i \in 1 .. Len(text.statements)
              /\ Said(text, i, text.statements[i][1], comparator, text.statements[i][3])
              /\ text.statements[i] \in Statement
  <1>1. DOMAIN text.statements = 1 .. Len(text.statements)
        /\ \A k \in 1 .. Len(text.statements) : text.statements[k] \in Statement
    BY TextTyped
  <1> QED  BY <1>1 DEF Said, Stated

\* A range contradicts itself exactly when two statements of the text do.
LEMMA BuiltContradicts ==
  ASSUME NEW text \in Texts
  PROVE  (\E m \in DOMAIN ParsedConstraints(text) : Contradictory(ParsedConstraints(text)[m]))
           <=> Contradicts(text)
  <1> DEFINE c == ParsedConstraints(text)
             n == Len(text.statements)
  <1>1. Honoured(text, c, n)
    BY ParsedHonoured
  <1> HIDE DEF c, n
  <1>2. ASSUME NEW m \in DOMAIN c, Contradictory(c[m])
        PROVE  Contradicts(text)
    <2>1. PICK low \in c[m].min, high \in c[m].max : low > high
      BY <1>2 DEF Contradictory
    <2>2. PICK i \in 1 .. n : Said(text, i, m, "min", low)
      BY <1>1, <2>1 DEF Honoured
    <2>3. PICK j \in 1 .. n : Said(text, j, m, "max", high)
      BY <1>1, <2>1 DEF Honoured
    <2>4. i \in Stated(text, "min") /\ text.statements[i][1] = m /\ text.statements[i][3] = low
      BY <2>2, SaidStated DEF n
    <2>5. j \in Stated(text, "max") /\ text.statements[j][1] = m /\ text.statements[j][3] = high
      BY <2>3, SaidStated DEF n
    <2> QED  BY <2>1, <2>4, <2>5 DEF Contradicts
  <1>3. ASSUME Contradicts(text)
        PROVE  \E m \in DOMAIN c : Contradictory(c[m])
    <2>1. PICK i \in Stated(text, "min"), j \in Stated(text, "max") :
            /\ text.statements[i][1] = text.statements[j][1]
            /\ text.statements[i][3] > text.statements[j][3]
      BY <1>3 DEF Contradicts
    <2> DEFINE m == text.statements[i][1]
               v == text.statements[i][3]
               w == text.statements[j][3]
    <2>2. /\ i \in 1 .. n /\ Said(text, i, m, "min", v) /\ v \in Int
          /\ j \in 1 .. n /\ Said(text, j, m, "max", w) /\ w \in Int
      BY <2>1, SaidStated DEF Statement, n
    <2>3. v > w
      BY <2>1
    <2> HIDE DEF m, v, w
    <2>4. m \in DOMAIN c /\ \E low \in c[m].min : low >= v
      BY <1>1, <2>2 DEF Honoured
    <2>5. \E high \in c[m].max : high <= w
      BY <1>1, <2>2 DEF Honoured
    <2>6. PICK low \in c[m].min, high \in c[m].max : low >= v /\ high <= w
      BY <2>4, <2>5
    <2>7. low \in Int /\ high \in Int
      <3>1. c \in Ranges
        BY <1>1 DEF Honoured
      <3>2. c[m] \in MetricRange
        BY <2>4, <3>1, RangesHold
      <3> QED  BY <2>6, <3>2 DEF MetricRange, Bound
    <2>8. low > high
      BY <2>2, <2>3, <2>6, <2>7
    <2> QED  BY <2>4, <2>6, <2>8 DEF Contradictory
  <1> QED  BY <1>2, <1>3 DEF c

\* The schema refuses what a text makes it build exactly when two bounds of it contradict.
LEMMA BuiltAccepted ==
  ASSUME NEW text \in Texts
  PROVE  SchemaAccepts(BuildDesignSpec(text)) <=> ~Contradicts(text)
  <1> DEFINE b == BuildDesignSpec(text)
             c == ParsedConstraints(text)
  <1>1. /\ b.constraints = c /\ b.maximize = Hinted(text, "maximize")
        /\ b.minimize = Hinted(text, "minimize") /\ b.confidence = CompileConfidence(text, 0)
    BY BuiltParts
  <1>2. DOMAIN c \subseteq ConstraintMetrics /\ \A m \in DOMAIN c : c[m] # NoRange
    <2>1. c \in Ranges
      BY ParsedHonoured DEF Honoured
    <2> QED  BY <2>1, RangesHold DEF MetricRange
  <1>3. b.maximize \cup b.minimize \subseteq ObjectiveMetrics /\ b.maximize \cap b.minimize = {}
    BY <1>1, HintsSplit
  <1>4. b.confidence \in 0 .. 100
    BY <1>1, ConfidenceTyped
  <1>5. (\E m \in DOMAIN c : Contradictory(c[m])) <=> Contradicts(text)
    BY BuiltContradicts
  <1> HIDE DEF b, c
  <1>6. SchemaAccepts(b) <=> ~\E m \in DOMAIN c : Contradictory(c[m])
    BY <1>1, <1>2, <1>3, <1>4 DEF SchemaAccepts, Overlap
  <1> QED  BY <1>5, <1>6 DEF b

\* What no issue is made of.
LEMMA NoIssues ==
  ASSUME NEW s
  PROVE  Valid(s) <=>
           /\ Overlap(s) = {}
           /\ \A m \in DOMAIN s.constraints : ~Contradictory(s.constraints[m])
           /\ \A m \in DOMAIN s.constraints \ VoltageMetrics : ~IsNegative(s.constraints[m])
           /\ s.plan = PlanTestbenches(SpecMetrics(s))
           /\ s.variables = DesignVariables[s.family]
           /\ MissingCore(s.family, s.node, s.load) \subseteq s.missing
           /\ s.confidence \in 0 .. 100
  <1> DEFINE b == {<<"objective_overlap", m>> : m \in Overlap(s)}
             d == {<<"constraint_range_conflict", m>> :
                     m \in {k \in DOMAIN s.constraints : Contradictory(s.constraints[k])}}
             e == {<<"negative_constraint_value", m>> :
                     m \in {k \in DOMAIN s.constraints \ VoltageMetrics : IsNegative(s.constraints[k])}}
             f == OnlyIf(s.plan # PlanTestbenches(SpecMetrics(s)), <<"testbench_plan_mismatch", "">>)
             g == OnlyIf(s.variables # DesignVariables[s.family], <<"design_variables_mismatch", "">>)
             h == OnlyIf(~(MissingCore(s.family, s.node, s.load) \subseteq s.missing),
                         <<"missing_information_incomplete", "">>)
             i == OnlyIf(s.confidence \notin 0 .. 100, <<"invalid_compile_confidence", "">>)
  <1>1. Valid(s) <=> b \cup d \cup e \cup f \cup g \cup h \cup i = {}
    BY DEF Valid, Issues
  <1>2. b = {} <=> Overlap(s) = {}
    OBVIOUS
  <1>3. d = {} <=> \A m \in DOMAIN s.constraints : ~Contradictory(s.constraints[m])
    OBVIOUS
  <1>4. e = {} <=> \A m \in DOMAIN s.constraints \ VoltageMetrics : ~IsNegative(s.constraints[m])
    OBVIOUS
  <1>5. /\ f = {} <=> s.plan = PlanTestbenches(SpecMetrics(s))
        /\ g = {} <=> s.variables = DesignVariables[s.family]
        /\ h = {} <=> MissingCore(s.family, s.node, s.load) \subseteq s.missing
        /\ i = {} <=> s.confidence \in 0 .. 100
    BY DEF OnlyIf
  <1> HIDE DEF b, d, e, f, g, h, i
  <1>6. Valid(s) <=> b = {} /\ d = {} /\ e = {} /\ f = {} /\ g = {} /\ h = {} /\ i = {}
    BY <1>1
  <1> QED  BY <1>2, <1>3, <1>4, <1>5, <1>6

\* What the schema accepts of it needs no repair.
LEMMA BuiltValid ==
  ASSUME NEW text \in Texts, ~Contradicts(text)
  PROVE  Valid(BuildDesignSpec(text))
  <1> DEFINE b == BuildDesignSpec(text)
             c == ParsedConstraints(text)
             n == Len(text.statements)
  <1>1. Honoured(text, c, n)
    BY ParsedHonoured
  <1>2. /\ b.constraints = c /\ b.family = ParsedFamily(text)
        /\ b.node = text.node /\ b.load = text.load
        /\ b.maximize = Hinted(text, "maximize") /\ b.minimize = Hinted(text, "minimize")
        /\ b.plan = PlanTestbenches(DOMAIN c \cup text.hints)
        /\ b.variables = DesignVariables[b.family]
        /\ b.missing = InferredMissing(text) /\ b.confidence = CompileConfidence(text, 0)
    BY BuiltParts
  <1>3. \A m \in DOMAIN c : ~Contradictory(c[m])
    BY BuiltContradicts
  <1> HIDE DEF b, c
  <1>4. ASSUME NEW m \in DOMAIN c \ VoltageMetrics, IsNegative(c[m])
        PROVE  FALSE
    <2>1. PICK v \in c[m].min \cup c[m].max \cup c[m].target : v < 0
      BY <1>4 DEF IsNegative
    <2>2. CASE v \in c[m].target
      <3>1. v >= 0
        BY <1>1, <2>2 DEF Honoured
      <3>2. c \in Ranges
        BY <1>1 DEF Honoured
      <3>3. v \in Int
        BY <2>2, <3>2, RangesHold DEF MetricRange, Bound
      <3> QED  BY <2>1, <3>1, <3>3
    <2>3. CASE v \in c[m].min
      <3>1. PICK i \in 1 .. n : Said(text, i, m, "min", v)
        BY <1>1, <2>3 DEF Honoured
      <3> QED  BY <2>1, <3>1 DEF Said, IsParserError
    <2>4. CASE v \in c[m].max
      <3>1. PICK i \in 1 .. n : Said(text, i, m, "max", v)
        BY <1>1, <2>4 DEF Honoured
      <3> QED  BY <2>1, <3>1 DEF Said, IsParserError
    <2> QED  BY <2>2, <2>3, <2>4
  <1>5. Overlap(b) = {} /\ SpecMetrics(b) = DOMAIN c \cup text.hints
    BY <1>2, HintsSplit DEF Overlap, SpecMetrics
  <1>6. b.confidence \in 0 .. 100
    BY <1>2, ConfidenceTyped
  <1>7. MissingCore(b.family, b.node, b.load) \subseteq b.missing
    BY <1>2, InferredFinite
  <1>8. Valid(b)
    BY <1>2, <1>3, <1>4, <1>5, <1>6, <1>7, NoIssues
  <1> QED  BY <1>8 DEF b

(***************************************************************************)
(* What a round of repair mends                                            *)
(***************************************************************************)

\* Swapping the ends of a range mends a contradiction and no sign.
LEMMA Swap ==
  ASSUME NEW r \in MetricRange
  PROVE  /\ Swapped(r) \in MetricRange /\ ~Contradictory(Swapped(r))
         /\ IsNegative(Swapped(r)) <=> IsNegative(r)
  <1>1. /\ r = [min |-> r.min, max |-> r.max, target |-> r.target] /\ r # NoRange
        /\ r.min \in Bound /\ r.max \in Bound /\ r.target \in Bound
    BY DEF MetricRange
  <1>2. CASE ~Contradictory(r)
    BY <1>2 DEF Swapped
  <1>3. CASE Contradictory(r)
    <2>1. PICK low \in r.min, high \in r.max : low > high
      BY <1>3 DEF Contradictory
    <2>2. low \in Int /\ high \in Int /\ \A v \in r.min : v = low
      BY <1>1, <2>1 DEF Bound
    <2>3. \A v \in r.max : v = high
      BY <1>1, <2>1 DEF Bound
    <2> DEFINE q == Swapped(r)
    <2>4. q = [min |-> r.max, max |-> r.min, target |-> r.target]
      BY <1>1, <1>3 DEF Swapped
    <2> HIDE DEF q
    <2>5. q.min = r.max /\ q.max = r.min /\ q.target = r.target
      BY <2>4
    <2>6. q # NoRange
      BY <2>1, <2>5 DEF NoRange
    <2>7. q \in MetricRange
      BY <1>1, <2>4, <2>6 DEF MetricRange
    <2>8. ~Contradictory(q)
      BY <2>1, <2>2, <2>3, <2>5 DEF Contradictory
    <2>9. q.min \cup q.max \cup q.target = r.min \cup r.max \cup r.target
      BY <2>5
    <2>10. IsNegative(q) <=> IsNegative(r)
      BY <2>9 DEF IsNegative
    <2> QED  BY <2>7, <2>8, <2>10 DEF q
  <1> QED  BY <1>2, <1>3

\* The spec with its ranges and its confidence mended.
Mended(s) == [s EXCEPT !.constraints = [m \in DOMAIN @ |-> Swapped(@[m])],
                       !.confidence = Min({100, Max({0, @})})]

LEMMA MendedHolds ==
  ASSUME NEW s \in DesignSpec
  PROVE  LET p == Mended(s)
         IN  /\ p \in DesignSpec
             /\ p.constraints = [m \in DOMAIN s.constraints |-> Swapped(s.constraints[m])]
             /\ p.confidence \in 0 .. 100
             /\ p.family = s.family /\ p.node = s.node /\ p.load = s.load
             /\ p.maximize = s.maximize /\ p.minimize = s.minimize /\ p.missing = s.missing
  <1> DEFINE d == [m \in DOMAIN s.constraints |-> Swapped(s.constraints[m])]
             x == Min({100, Max({0, s.confidence})})
             p == Mended(s)
  <1>1. s.constraints \in Ranges /\ s.confidence \in Int
    BY DEF DesignSpec
  <1>2. d \in Ranges
    <2>1. DOMAIN s.constraints \subseteq ConstraintMetrics
          /\ \A m \in DOMAIN s.constraints : s.constraints[m] \in MetricRange
      BY <1>1, RangesHold
    <2>2. \A m \in DOMAIN s.constraints : Swapped(s.constraints[m]) \in MetricRange
      BY <2>1, Swap
    <2> QED  BY <2>1, <2>2, RangesHold
  <1>3. x \in 0 .. 100
    <2> DEFINE c == s.confidence
               y == Max({0, c})
    <2>1. y = IF 0 >= c THEN 0 ELSE c
      BY <1>1, OfTwo
    <2> HIDE DEF y
    <2>2. y \in Int /\ y >= 0
      BY <1>1, <2>1
    <2>3. Min({100, y}) = IF 100 <= y THEN 100 ELSE y
      BY <2>2, OfTwo
    <2>4. x = Min({100, y})
      BY DEF y
    <2> HIDE DEF x
    <2> QED  BY <2>2, <2>3, <2>4
  <1>4. p = [s EXCEPT !.constraints = d, !.confidence = x]
    BY DEF Mended
  <1> HIDE DEF d, x, p
  <1>5. p \in DesignSpec
    <2>1. x \in Int
      BY <1>3
    <2>2. [s EXCEPT !.constraints = d] \in DesignSpec
      BY <1>2 DEF DesignSpec
    <2>3. p = [[s EXCEPT !.constraints = d] EXCEPT !.confidence = x]
      BY <1>4
    <2> QED  BY <2>1, <2>2, <2>3 DEF DesignSpec
  <1>6. /\ p.constraints = d /\ p.confidence = x
        /\ p.family = s.family /\ p.node = s.node /\ p.load = s.load
        /\ p.maximize = s.maximize /\ p.minimize = s.minimize /\ p.missing = s.missing
    BY <1>4 DEF DesignSpec
  <1> QED  BY <1>3, <1>5, <1>6 DEF d, p

LEMMA MendedAccepted ==
  ASSUME NEW s \in DesignSpec
  PROVE  SchemaAccepts(Mended(s)) <=> Overlap(s) = {}
  <1> DEFINE p == Mended(s)
             c == s.constraints
  <1>1. /\ p \in DesignSpec /\ p.constraints = [m \in DOMAIN c |-> Swapped(c[m])]
        /\ p.confidence \in 0 .. 100 /\ p.maximize = s.maximize /\ p.minimize = s.minimize
    BY MendedHolds
  <1>2. DOMAIN c \subseteq ConstraintMetrics /\ \A m \in DOMAIN c : c[m] \in MetricRange
    BY RangesHold DEF DesignSpec
  <1>3. \A m \in DOMAIN c : Swapped(c[m]) # NoRange /\ ~Contradictory(Swapped(c[m]))
    BY <1>2, Swap DEF MetricRange
  <1>4. s.maximize \subseteq ObjectiveMetrics /\ s.minimize \subseteq ObjectiveMetrics
    BY DEF DesignSpec
  <1> HIDE DEF p, c
  <1>5. DOMAIN p.constraints = DOMAIN c
        /\ \A m \in DOMAIN p.constraints : p.constraints[m] # NoRange /\ ~Contradictory(p.constraints[m])
    BY <1>1, <1>3
  <1>6. SchemaAccepts(p) <=> Overlap(s) = {}
    BY <1>1, <1>2, <1>4, <1>5 DEF SchemaAccepts, Overlap
  <1> QED  BY <1>6 DEF p

\* A spec is neither of the answers that stand for none.
LEMMA SpecTold ==
  ASSUME NEW s \in DesignSpec
  PROVE  s # Raised /\ s # Nothing
  <1>1. "family" \in DOMAIN s
    BY DEF DesignSpec
  <1>2. "family" \notin DOMAIN Raised /\ "family" \notin DOMAIN Nothing
    BY DEF Raised, Nothing
  <1> QED  BY <1>1, <1>2

\* A round raises on an overlap of the objectives; otherwise only a negative bound is left.
LEMMA RepairRaises ==
  ASSUME NEW s \in DesignSpec, Overlap(s) # {}
  PROVE  RepairDesignSpec(s) = Raised
  <1>1. ~SchemaAccepts(Mended(s))
    BY MendedAccepted
  <1> QED  BY <1>1 DEF RepairDesignSpec, Mended

Negative(s) == \E m \in DOMAIN s.constraints \ VoltageMetrics : IsNegative(s.constraints[m])

LEMMA RepairMends ==
  ASSUME NEW s \in DesignSpec, Overlap(s) = {}
  PROVE  LET r == RepairDesignSpec(s)
         IN  /\ r \in DesignSpec /\ Overlap(r) = {}
             /\ Negative(r) <=> Negative(s)
             /\ Valid(r) <=> ~Negative(s)
  <1> DEFINE p == Mended(s)
             mended == [p EXCEPT !.envSupply = s.supply \/ @, !.supply = s.envSupply \/ @,
                                 !.maximize = @ \ s.minimize]
             plan == PlanTestbenches(SpecMetrics(mended))
             missing == s.missing \cup MissingCore(s.family, s.node, s.load)
             r == RepairDesignSpec(s)
             c == s.constraints
  <1>1. /\ p \in DesignSpec /\ p.constraints = [m \in DOMAIN c |-> Swapped(c[m])]
        /\ p.confidence \in 0 .. 100
        /\ p.family = s.family /\ p.node = s.node /\ p.load = s.load
        /\ p.maximize = s.maximize /\ p.minimize = s.minimize /\ p.missing = s.missing
    BY MendedHolds
  <1>2. SchemaAccepts(p)
    BY MendedAccepted
  <1>3. p.missing \cup MissingCore(s.family, s.node, s.load) = missing
    BY <1>1
  <1>4. r = [mended EXCEPT !.plan = PlanTestbenches(SpecMetrics(mended)),
                           !.variables = DesignVariables[s.family],
                           !.missing = @ \cup MissingCore(s.family, s.node, s.load)]
    BY <1>2 DEF RepairDesignSpec, Mended
  <1> HIDE DEF p, r, missing
  <1>5. /\ mended.family = s.family /\ mended.node = s.node /\ mended.load = s.load
        /\ mended.maximize = s.maximize \ s.minimize /\ mended.minimize = s.minimize
        /\ mended.constraints = p.constraints /\ mended.missing = p.missing
        /\ mended.confidence = p.confidence
    BY <1>1 DEF DesignSpec
  <1>6. mended \in DesignSpec
    <2> DEFINE a == s.supply \/ p.envSupply
               b == s.envSupply \/ p.supply
               m == p.maximize \ s.minimize
    <2>1. a \in BOOLEAN /\ b \in BOOLEAN
      OBVIOUS
    <2>2. m \in SUBSET ObjectiveMetrics
      BY <1>1 DEF DesignSpec
    <2>3. mended = [p EXCEPT !.envSupply = a, !.supply = b, !.maximize = m]
      OBVIOUS
    <2> HIDE DEF a, b, m, mended
    <2> QED  BY <1>1, <2>1, <2>2, <2>3 DEF DesignSpec
  <1> HIDE DEF mended
  <1>7. r = [mended EXCEPT !.plan = plan, !.variables = DesignVariables[s.family], !.missing = missing]
    BY <1>3, <1>4, <1>5
  <1>8. plan \in SUBSET {"op", "ac", "tran", "noise"}
    BY PlanTyped
  <1>9. s.family \in DOMAIN DesignVariables
    BY DEF DesignSpec
  <1>10. DesignVariables[s.family] \in SUBSET UNION {DesignVariables[f] : f \in DOMAIN DesignVariables}
    BY <1>9
  <1>11. missing \in SUBSET OpenFields
    <2>1. s.missing \subseteq OpenFields /\ s.node \in BOOLEAN /\ s.load \in BOOLEAN
      BY DEF DesignSpec
    <2> QED  BY <2>1, MissingFinite DEF missing
  <1> DEFINE variables == DesignVariables[s.family]
  <1> HIDE DEF plan, variables
  <1>12. r \in DesignSpec
    <2>1. r = [mended EXCEPT !.plan = plan, !.variables = variables, !.missing = missing]
      BY <1>7 DEF variables
    <2>2. variables \in SUBSET UNION {DesignVariables[f] : f \in DOMAIN DesignVariables}
      BY <1>10 DEF variables
    <2> QED  BY <1>6, <1>8, <1>11, <2>1, <2>2 DEF DesignSpec
  <1>13. /\ r.plan = plan /\ r.variables = DesignVariables[s.family] /\ r.missing = missing
         /\ r.family = s.family /\ r.node = s.node /\ r.load = s.load
         /\ r.maximize = s.maximize \ s.minimize /\ r.minimize = s.minimize
         /\ r.constraints = p.constraints /\ r.confidence = p.confidence
    BY <1>5, <1>6, <1>7 DEF DesignSpec
  <1>14. Overlap(r) = {} /\ SpecMetrics(r) = SpecMetrics(mended)
    BY <1>5, <1>13 DEF Overlap, SpecMetrics
  <1>15. \A m \in DOMAIN c : /\ ~Contradictory(Swapped(c[m]))
                             /\ IsNegative(Swapped(c[m])) <=> IsNegative(c[m])
    <2>1. \A m \in DOMAIN c : c[m] \in MetricRange
      BY RangesHold DEF DesignSpec
    <2> QED  BY <2>1, Swap
  <1> HIDE DEF c
  <1>16. /\ DOMAIN r.constraints = DOMAIN c
         /\ \A m \in DOMAIN c : r.constraints[m] = Swapped(c[m])
    BY <1>1, <1>13
  <1>17. \A m \in DOMAIN r.constraints : ~Contradictory(r.constraints[m])
    BY <1>15, <1>16
  <1>18. Negative(r) <=> Negative(s)
    BY <1>15, <1>16 DEF Negative, c
  <1>19. MissingCore(r.family, r.node, r.load) \subseteq r.missing
    BY <1>13 DEF missing
  <1>20. r.plan = PlanTestbenches(SpecMetrics(r))
    BY <1>13, <1>14 DEF plan
  <1>21. Valid(r) <=> ~Negative(r)
    BY <1>1, <1>13, <1>14, <1>17, <1>19, <1>20, NoIssues DEF Negative
  <1> QED  BY <1>12, <1>14, <1>18, <1>21 DEF r

(***************************************************************************)
(* The repair loop                                                         *)
(***************************************************************************)

\* The recursion of RunRepairLoop.
Round(last, n) ==
    IF last.spec = Raised \/ last.attempts < n - 1 THEN last
    ELSE IF Valid(last.spec) THEN last
    ELSE [spec |-> RepairDesignSpec(last.spec), attempts |-> n]
Rounded(a, s, n) ==
    a = [k \in 0 .. n |-> IF k = 0 THEN [spec |-> s, attempts |-> 0] ELSE Round(a[k - 1], k)]

LEMMA RoundsExist ==
  ASSUME NEW s, NEW n \in Nat
  PROVE  \E a : Rounded(a, s, n)
  <1> DEFINE First == [spec |-> s, attempts |-> 0]
             S == {m \in Nat : \E a : Rounded(a, s, m)}
  <1>1. 0 \in S
    <2>1. Rounded([k \in 0 .. 0 |-> First], s, 0)
      BY DEF Rounded
    <2> QED  BY <2>1
  <1>2. ASSUME NEW m \in Nat, m \in S PROVE m + 1 \in S
    <2>1. PICK a : Rounded(a, s, m)
      BY <1>2
    <2> DEFINE last == Round(a[m], m + 1)
               more == [k \in 0 .. m + 1 |-> IF k = m + 1 THEN last ELSE a[k]]
    <2>2. ASSUME NEW k \in 0 .. m + 1
          PROVE  more[k] = (IF k = 0 THEN First ELSE Round(more[k - 1], k))
      <3>1. CASE k = m + 1
        <4>1. more[k] = last /\ more[k - 1] = a[m] /\ k # 0
          BY <3>1
        <4> HIDE DEF more
        <4> QED  BY <3>1, <4>1
      <3>2. CASE k # m + 1
        <4>1. k \in 0 .. m /\ more[k] = a[k] /\ (k # 0 => more[k - 1] = a[k - 1])
          BY <3>2
        <4>2. a[k] = (IF k = 0 THEN First ELSE Round(a[k - 1], k))
          BY <2>1, <4>1 DEF Rounded
        <4> HIDE DEF more
        <4> QED  BY <4>1, <4>2
      <3> QED  BY <3>1, <3>2
    <2>3. more = [k \in 0 .. m + 1 |-> IF k = 0 THEN First ELSE Round(more[k - 1], k)]
      <3>1. more = [k \in 0 .. m + 1 |-> more[k]]
        OBVIOUS
      <3> HIDE DEF more
      <3> QED  BY <2>2, <3>1
    <2> HIDE DEF more
    <2> QED  BY <2>3 DEF Rounded
  <1>3. \A m \in Nat : m \in S
    <2> HIDE DEF S
    <2> QED  BY <1>1, <1>2, Induct
  <1> QED  BY <1>3

\* Where the loop can be after n rounds: it was not needed; it raised, or mended all, in its
\* first round; or it meets a negative bound in every one.
Unneeded(a, s, n) == a.spec = s /\ a.attempts = 0 /\ (n = 0 \/ Valid(s))
Refused(a, s) == a.spec = Raised /\ a.attempts = 1 /\ Overlap(s) # {}
Healed(a, s) == a.spec \in DesignSpec /\ a.attempts = 1 /\ Valid(a.spec)
Stuck(a, s, n) == /\ a.spec \in DesignSpec /\ a.attempts = n /\ Overlap(a.spec) = {}
                  /\ Negative(a.spec) /\ Negative(s)
Looped(a, s, n) ==
    \/ Unneeded(a, s, n)
    \/ n >= 1 /\ (Refused(a, s) \/ Healed(a, s) \/ Stuck(a, s, n))

LEMMA NegativeInvalid ==
  ASSUME NEW s, Negative(s)
  PROVE  ~Valid(s)
  BY NoIssues DEF Negative

LEMMA RoundHolds ==
  ASSUME NEW s \in DesignSpec, NEW n \in Nat, NEW a, Looped(a, s, n)
  PROVE  Looped(Round(a, n + 1), s, n + 1)
  <1> DEFINE b == Round(a, n + 1)
             r == RepairDesignSpec(a.spec)
  <1>0. n + 1 >= 1 /\ (n + 1) - 1 = n /\ n + 1 # 0 /\ ~(n < n)
    OBVIOUS
  <1>1. \/ b = a /\ (a.spec = Raised \/ a.attempts < n \/ Valid(a.spec))
        \/ /\ b = [spec |-> r, attempts |-> n + 1]
           /\ a.spec # Raised /\ ~(a.attempts < n) /\ ~Valid(a.spec)
    BY <1>0 DEF Round
  <1> HIDE DEF b, r
  <1>2. b = [spec |-> r, attempts |-> n + 1] => b.spec = r /\ b.attempts = n + 1
    OBVIOUS
  <1>3. ASSUME Unneeded(a, s, n) PROVE Looped(b, s, n + 1)
    <2>1. s # Raised
      BY SpecTold
    <2>2. CASE b = a
      <3>1. Valid(s)
        BY <1>1, <1>2, <1>3, <2>1, <2>2 DEF Unneeded
      <3> QED  BY <1>3, <2>2, <3>1 DEF Unneeded, Looped
    <2>3. CASE b # a
      <3>1. n = 0 /\ ~Valid(s) /\ r = RepairDesignSpec(s) /\ b.spec = r /\ b.attempts = 1
        BY <1>1, <1>2, <1>3, <2>3 DEF Unneeded, r
      <3>2. CASE Overlap(s) # {}
        <4>1. Refused(b, s)
          BY <3>1, <3>2, RepairRaises DEF Refused
        <4> QED  BY <1>0, <4>1 DEF Looped
      <3>3. CASE Overlap(s) = {}
        <4>1. /\ r \in DesignSpec /\ Overlap(r) = {}
              /\ Negative(r) <=> Negative(s)
              /\ Valid(r) <=> ~Negative(s)
          BY <3>1, <3>3, RepairMends
        <4>2. Healed(b, s) \/ Stuck(b, s, n + 1)
          BY <3>1, <4>1 DEF Healed, Stuck
        <4> QED  BY <1>0, <4>2 DEF Looped
      <3> QED  BY <3>2, <3>3
    <2> QED  BY <2>2, <2>3
  <1>4. ASSUME Refused(a, s) PROVE Looped(b, s, n + 1)
    <2>1. b = a
      BY <1>1, <1>4 DEF Refused
    <2> QED  BY <1>0, <1>4, <2>1 DEF Looped
  <1>5. ASSUME Healed(a, s) PROVE Looped(b, s, n + 1)
    <2>1. b = a
      BY <1>1, <1>5 DEF Healed
    <2> QED  BY <1>0, <1>5, <2>1 DEF Looped
  <1>6. ASSUME n >= 1 /\ Stuck(a, s, n) PROVE Looped(b, s, n + 1)
    <2>1. a.spec \in DesignSpec /\ Overlap(a.spec) = {} /\ Negative(a.spec) /\ a.attempts = n
      BY <1>6 DEF Stuck
    <2>2. a.spec # Raised /\ ~Valid(a.spec)
      BY <2>1, SpecTold, NegativeInvalid
    <2>3. b.spec = r /\ b.attempts = n + 1
      BY <1>0, <1>1, <1>2, <2>1, <2>2
    <2>4. r \in DesignSpec /\ Overlap(r) = {} /\ (Negative(r) <=> Negative(a.spec))
      BY <2>1, RepairMends DEF r
    <2>5. Stuck(b, s, n + 1)
      BY <1>6, <2>1, <2>3, <2>4 DEF Stuck
    <2> QED  BY <1>0, <2>5 DEF Looped
  <1>7. Looped(b, s, n + 1)
    BY <1>3, <1>4, <1>5, <1>6 DEF Looped
  <1> QED  BY <1>7 DEF b

LEMMA LoopHolds ==
  ASSUME NEW s \in DesignSpec, NEW rounds \in Nat
  PROVE  Looped(RunRepairLoop(s, rounds), s, rounds)
  <1> DEFINE a == CHOOSE f : Rounded(f, s, rounds)
  <1>1. Rounded(a, s, rounds)
    BY RoundsExist
  <1>2. RunRepairLoop(s, rounds) = a[rounds]
    BY DEF RunRepairLoop, Rounded, Round
  <1> HIDE DEF a
  <1>3. Looped(a[0], s, 0)
    <2>1. a[0] = [spec |-> s, attempts |-> 0]
      BY <1>1 DEF Rounded
    <2>2. a[0].spec = s /\ a[0].attempts = 0
      BY <2>1
    <2> QED  BY <2>2 DEF Looped, Unneeded
  <1>4. ASSUME NEW k \in Nat, k + 1 <= rounds, Looped(a[k], s, k)
        PROVE  Looped(a[k + 1], s, k + 1)
    <2>1. k + 1 \in 0 .. rounds /\ k + 1 # 0 /\ (k + 1) - 1 = k
      BY <1>4
    <2>2. a[k + 1] = Round(a[k], k + 1)
      BY <1>1, <2>1 DEF Rounded
    <2> QED  BY <1>4, <2>2, RoundHolds
  <1> DEFINE S == {k \in Nat : k <= rounds => Looped(a[k], s, k)}
  <1>5. 0 \in S
    BY <1>3
  <1>6. ASSUME NEW k \in Nat, k \in S PROVE k + 1 \in S
    <2> SUFFICES ASSUME k + 1 <= rounds PROVE Looped(a[k + 1], s, k + 1)
      OBVIOUS
    <2>1. k <= rounds
      OBVIOUS
    <2> QED  BY <1>4, <1>6, <2>1
  <1>7. \A k \in Nat : k \in S
    <2> HIDE DEF S
    <2> QED  BY <1>5, <1>6, Induct
  <1>8. Looped(a[rounds], s, rounds)
    BY <1>7
  <1> QED  BY <1>2, <1>8

\* A spec that validates goes through the loop as it is.
LEMMA LoopIdle ==
  ASSUME NEW s \in DesignSpec, NEW rounds \in Nat, Valid(s)
  PROVE  RunRepairLoop(s, rounds).spec = s /\ RunRepairLoop(s, rounds).attempts = 0
  <1> DEFINE a == CHOOSE f : Rounded(f, s, rounds)
             First == [spec |-> s, attempts |-> 0]
  <1>1. Rounded(a, s, rounds)
    BY RoundsExist
  <1>2. RunRepairLoop(s, rounds) = a[rounds]
    BY DEF RunRepairLoop, Rounded, Round
  <1> HIDE DEF a
  <1>3. First.spec = s /\ First.attempts = 0
    OBVIOUS
  <1> DEFINE S == {k \in Nat : k <= rounds => a[k] = First}
  <1>4. 0 \in S
    BY <1>1 DEF Rounded
  <1> HIDE DEF First
  <1>5. ASSUME NEW k \in Nat, k \in S PROVE k + 1 \in S
    <2> SUFFICES ASSUME k + 1 <= rounds PROVE a[k + 1] = First
      OBVIOUS
    <2>1. k <= rounds /\ k + 1 \in 0 .. rounds /\ k + 1 # 0 /\ (k + 1) - 1 = k
      OBVIOUS
    <2>2. a[k + 1] = Round(a[k], k + 1)
      BY <1>1, <2>1 DEF Rounded
    <2>3. a[k] = First
      BY <1>5, <2>1
    <2>4. Round(First, k + 1) = First
      BY <1>3 DEF Round
    <2> QED  BY <2>2, <2>3, <2>4
  <1>6. \A k \in Nat : k \in S
    <2> HIDE DEF S
    <2> QED  BY <1>4, <1>5, Induct
  <1>7. a[rounds] = First
    BY <1>6
  <1> QED  BY <1>2, <1>3, <1>7

(***************************************************************************)
(* What a text is answered                                                 *)
(***************************************************************************)

\* A spec that is handed out is the one that was built, and it was built from the text.
Handed(r, text) ==
    /\ ParserErrors(text) = {}
    /\ r.spec = BuildDesignSpec(text) /\ Valid(r.spec) /\ r.attempts = 0
    /\ r.mode = "interactive" => r.spec.missing = {} /\ Ambiguities(text) = {}
Answered(r, text) ==
    /\ r.text = text
    /\ r.status \in {"compiled", "clarification_required", "invalid", "raised"}
    /\ r.status = "raised" <=> Contradicts(text)
    /\ r.status = "compiled" => Handed(r, text)

LEMMA AnswerHolds ==
  ASSUME NEW text \in Texts, NEW mode \in Modes, NEW rounds \in Rounds
  PROVE  Answered(CompiledAnswer(text, mode, rounds), text)
  <1> DEFINE built == BuildDesignSpec(text)
             loop == RunRepairLoop(built, rounds)
             errors == ParserErrors(text)
             open == loop.spec.missing # {} \/ Ambiguities(text) # {}
             issues == Cardinality(errors) + Cardinality(Issues(loop.spec))
             outcome == IF errors # {} THEN "invalid"
                       ELSE IF mode = "interactive" /\ open THEN "clarification_required"
                       ELSE IF Valid(loop.spec) THEN "compiled"
                       ELSE "invalid"
             given == [loop.spec EXCEPT !.confidence = CompileConfidence(text, issues)]
             r == CompiledAnswer(text, mode, rounds)
  <1>1. SchemaAccepts(built) <=> ~Contradicts(text)
    BY BuiltAccepted
  <1>2. r = IF ~SchemaAccepts(built) THEN [status |-> "raised", text |-> text, mode |-> mode]
            ELSE [status |-> outcome, text |-> text, mode |-> mode, attempts |-> loop.attempts,
                  spec |-> given]
    BY DEF CompiledAnswer
  <1>3. outcome \in {"compiled", "clarification_required", "invalid"}
    OBVIOUS
  <1>4. ~Contradicts(text) => loop.spec = built /\ loop.attempts = 0 /\ Valid(built)
    <2>1. built \in DesignSpec /\ rounds \in Nat
      BY BuiltTyped, RoundsAssumption
    <2>2. ~Contradicts(text) => Valid(built)
      BY BuiltValid
    <2> HIDE DEF built
    <2> QED  BY <2>1, <2>2, LoopIdle
  <1>5. ASSUME ~Contradicts(text), outcome = "compiled"
        PROVE  /\ errors = {} /\ given = built
               /\ mode = "interactive" => built.missing = {} /\ Ambiguities(text) = {}
    <2>1. loop.spec = built
      BY <1>4, <1>5
    <2>2. errors = {} /\ ~(mode = "interactive" /\ open)
      BY <1>5
    <2>3. Issues(loop.spec) = {}
      BY <1>4, <1>5, <2>1 DEF Valid
    <2>4. issues = 0
      BY <2>2, <2>3, FS_EmptySet
    <2>5. built.confidence = CompileConfidence(text, 0)
      BY BuiltParts
    <2>6. built \in DesignSpec
      BY BuiltTyped
    <2> HIDE DEF built, loop, errors, issues
    <2>7. given = [built EXCEPT !.confidence = built.confidence]
      BY <2>1, <2>4, <2>5
    <2>8. given = built
      BY <2>6, <2>7 DEF DesignSpec
    <2> QED  BY <2>1, <2>2, <2>8
  <1> HIDE DEF built, loop, errors, issues, given, r
  <1>6. CASE Contradicts(text)
    <2>1. r.status = "raised" /\ r.text = text
      BY <1>1, <1>2, <1>6
    <2> QED  BY <1>6, <2>1 DEF Answered, r
  <1>7. CASE ~Contradicts(text)
    <2> HIDE DEF outcome
    <2>1. r.status = outcome /\ r.text = text /\ r.mode = mode /\ r.attempts = loop.attempts
          /\ r.spec = given
      BY <1>1, <1>2, <1>7
    <2>2. r.status = "compiled" => Handed(r, text)
      BY <1>4, <1>5, <1>7, <2>1 DEF Handed, built, errors
    <2>3. Answered(r, text)
      BY <1>3, <1>7, <2>1, <2>2 DEF Answered
    <2> QED  BY <2>3 DEF r
  <1> QED  BY <1>6, <1>7

LEMMA AnswerHonours ==
  ASSUME NEW text \in Texts, NEW r, Handed(r, text)
  PROVE  SaysTheSame(r.spec.constraints, text)
  <1> DEFINE c == ParsedConstraints(text)
             n == Len(text.statements)
             metric(i) == text.statements[i][1]
             value(i) == text.statements[i][3]
  <1>1. r.spec.constraints = c
    BY BuiltParts DEF Handed
  <1>2. Honoured(text, c, n)
    BY ParsedHonoured
  <1> HIDE DEF c, n
  <1>3. ASSUME NEW i \in Stated(text, "min")
        PROVE  \E low \in c[metric(i)].min : low >= value(i)
    <2>1. i \in 1 .. n /\ Said(text, i, metric(i), "min", value(i))
      BY SaidStated DEF n
    <2> QED  BY <1>2, <2>1 DEF Honoured
  <1>4. ASSUME NEW i \in Stated(text, "max")
        PROVE  \E high \in c[metric(i)].max : high <= value(i)
    <2>1. i \in 1 .. n /\ Said(text, i, metric(i), "max", value(i))
      BY SaidStated DEF n
    <2> QED  BY <1>2, <2>1 DEF Honoured
  <1>5. ASSUME NEW i \in Stated(text, "target")
        PROVE  Superseded(text, i) \/ c[metric(i)].target = {value(i)}
    <2>1. i \in 1 .. n /\ Said(text, i, metric(i), "target", value(i))
      BY SaidStated DEF n
    <2>2. c[metric(i)].target = {value(i)} \/ TakenBack(text, i, metric(i), n)
      BY <1>2, <2>1 DEF Honoured
    <2>3. ASSUME TakenBack(text, i, metric(i), n) PROVE Superseded(text, i)
      <3>1. PICK j \in 1 .. n, w \in Int : j > i /\ Said(text, j, metric(i), "target", w)
        BY <2>3 DEF TakenBack
      <3>2. j \in Stated(text, "target") /\ metric(j) = metric(i)
        BY <3>1, SaidStated DEF n
      <3> QED  BY <3>1, <3>2 DEF Superseded
    <2> QED  BY <2>2, <2>3
  <1>6. ASSUME NEW m \in DOMAIN c
        PROVE  /\ \A v \in c[m].min :
                    \E i \in Stated(text, "min") : metric(i) = m /\ value(i) = v
               /\ \A v \in c[m].max :
                    \E i \in Stated(text, "max") : metric(i) = m /\ value(i) = v
               /\ \A v \in c[m].target :
                    \E i \in Stated(text, "target") : metric(i) = m /\ value(i) = v
    <2>1. /\ \A v \in c[m].min : \E i \in 1 .. n : Said(text, i, m, "min", v)
          /\ \A v \in c[m].max : \E i \in 1 .. n : Said(text, i, m, "max", v)
          /\ \A v \in c[m].target : \E i \in 1 .. n : Said(text, i, m, "target", v)
      BY <1>2 DEF Honoured
    <2>2. ASSUME NEW i \in 1 .. n, NEW comparator, NEW v, Said(text, i, m, comparator, v)
          PROVE  i \in Stated(text, comparator) /\ metric(i) = m /\ value(i) = v
      BY <2>2, SaidStated DEF n
    <2> HIDE DEF metric, value
    <2> QED  BY <2>1, <2>2
  <1> HIDE DEF metric, value
  <1>7. SaysTheSame(c, text)
    BY <1>3, <1>4, <1>5, <1>6 DEF SaysTheSame, metric, value
  <1> QED  BY <1>1, <1>7

(***************************************************************************)
(* What a client changes leaves it a spec                                  *)
(***************************************************************************)

LEMMA EditsTyped ==
  ASSUME NEW s \in DesignSpec, NEW t \in Edits(s)
  PROVE  t \in DesignSpec
  <1> DEFINE crossed == [NoRange EXCEPT !.min = {2}, !.max = {1}]
             negative == [NoRange EXCEPT !.max = {-1}]
             wrong == WithRange(s.constraints, "gbw_hz", crossed)
             power == [power_w |-> negative]
  <1>1. crossed \in MetricRange /\ negative \in MetricRange
    <2>1. {} \in Bound /\ {1} \in Bound /\ {2} \in Bound /\ {-1} \in Bound
      BY DEF Bound
    <2>2. crossed = [min |-> {2}, max |-> {1}, target |-> {}]
          /\ negative = [min |-> {}, max |-> {-1}, target |-> {}]
      <3>1. [NoRange EXCEPT !.min = {2}] = [min |-> {2}, max |-> {}, target |-> {}]
        BY DEF NoRange
      <3>2. crossed = [[min |-> {2}, max |-> {}, target |-> {}] EXCEPT !.max = {1}]
        BY <3>1
      <3>3. negative = [[min |-> {}, max |-> {}, target |-> {}] EXCEPT !.max = {-1}]
        BY DEF NoRange
      <3> HIDE DEF crossed, negative
      <3> QED  BY <3>2, <3>3
    <2> HIDE DEF crossed, negative
    <2>3. crossed # NoRange /\ negative # NoRange
      BY <2>2 DEF NoRange
    <2> QED  BY <2>1, <2>2, <2>3 DEF MetricRange
  <1>2. "gbw_hz" \in ConstraintMetrics /\ "power_w" \in ConstraintMetrics
    BY DEF ConstraintMetrics, ObjectiveMetrics
  <1> HIDE DEF crossed, negative
  <1>3. wrong \in Ranges
    <2>1. DOMAIN s.constraints \subseteq ConstraintMetrics
          /\ \A m \in DOMAIN s.constraints : s.constraints[m] \in MetricRange
      BY RangesHold DEF DesignSpec
    <2>2. DOMAIN wrong = DOMAIN s.constraints \cup {"gbw_hz"}
          /\ wrong = [m \in DOMAIN wrong |-> wrong[m]]
          /\ \A m \in DOMAIN wrong : wrong[m] = IF m = "gbw_hz" THEN crossed ELSE s.constraints[m]
      BY DEF WithRange
    <2> HIDE DEF wrong
    <2>3. \A m \in DOMAIN wrong : wrong[m] \in MetricRange
      BY <1>1, <2>1, <2>2
    <2>4. DOMAIN wrong \subseteq ConstraintMetrics
      BY <1>2, <2>1, <2>2
    <2> QED  BY <2>2, <2>3, <2>4, RangesHold
  <1>4. power \in Ranges
    <2>1. DOMAIN power = {"power_w"} /\ power = [m \in DOMAIN power |-> power[m]]
          /\ power["power_w"] = negative
      OBVIOUS
    <2> HIDE DEF power
    <2>2. \A m \in DOMAIN power : power[m] \in MetricRange
      BY <1>1, <2>1
    <2>3. DOMAIN power \subseteq ConstraintMetrics
      BY <1>2, <2>1
    <2> QED  BY <2>1, <2>2, <2>3, RangesHold
  <1> HIDE DEF wrong, power
  <1>5. \/ t = [s EXCEPT !.node = TRUE, !.load = TRUE, !.missing = {}]
        \/ t = [s EXCEPT !.envSupply = TRUE]
        \/ t = [s EXCEPT !.family = "ldo"]
        \/ t = [s EXCEPT !.notes = {"bandgap"}, !.missing = {}]
        \/ t = [s EXCEPT !.minimize = {"gbw_hz"}]
        \/ t = [s EXCEPT !.plan = {}, !.variables = {}, !.confidence = 140, !.constraints = wrong]
        \/ t = [s EXCEPT !.constraints = power]
    BY DEF Edits, wrong, power, crossed, negative
  <1>6. [s EXCEPT !.node = TRUE, !.load = TRUE, !.missing = {}] \in DesignSpec
    BY DEF DesignSpec
  <1>7. [s EXCEPT !.envSupply = TRUE] \in DesignSpec
    BY DEF DesignSpec
  <1>8. [s EXCEPT !.family = "ldo"] \in DesignSpec
    <2>1. "ldo" \in DOMAIN DesignVariables
      BY FamiliesKnown
    <2> QED  BY <2>1 DEF DesignSpec
  <1>9. [s EXCEPT !.notes = {"bandgap"}, !.missing = {}] \in DesignSpec
    BY DEF DesignSpec
  <1>10. [s EXCEPT !.minimize = {"gbw_hz"}] \in DesignSpec
    <2>1. {"gbw_hz"} \in SUBSET ObjectiveMetrics
      BY DEF ObjectiveMetrics
    <2> QED  BY <2>1 DEF DesignSpec
  <1>11. [s EXCEPT !.plan = {}, !.variables = {}, !.confidence = 140, !.constraints = wrong]
            \in DesignSpec
    <2> DEFINE u == [s EXCEPT !.plan = {}, !.variables = {}]
               v == [u EXCEPT !.confidence = 140]
    <2>1. [s EXCEPT !.plan = {}, !.variables = {}, !.confidence = 140, !.constraints = wrong]
            = [v EXCEPT !.constraints = wrong]
      OBVIOUS
    <2>2. u \in DesignSpec
      BY DEF DesignSpec
    <2> HIDE DEF u
    <2>3. v \in DesignSpec
      BY <2>2 DEF DesignSpec
    <2> HIDE DEF v
    <2>4. [v EXCEPT !.constraints = wrong] \in DesignSpec
      BY <1>3, <2>3 DEF DesignSpec
    <2> QED  BY <2>1, <2>4
  <1>12. [s EXCEPT !.constraints = power] \in DesignSpec
    BY <1>4 DEF DesignSpec
  <1> QED  BY <1>5, <1>6, <1>7, <1>8, <1>9, <1>10, <1>11, <1>12

\* What the loop reports of a spec.
LEMMA LoopSettles ==
  ASSUME NEW s \in DesignSpec, NEW rounds \in Nat, NEW r,
         r.status = IF RunRepairLoop(s, rounds).spec = Raised THEN "refused" ELSE "repaired",
         r.attempts = RunRepairLoop(s, rounds).attempts, r.rounds = rounds, r.from = s,
         r.valid = (RunRepairLoop(s, rounds).spec # Raised /\ Valid(RunRepairLoop(s, rounds).spec))
  PROVE  /\ r.valid => r.attempts <= 1
         /\ r.status = "repaired" /\ ~r.valid =>
              r.attempts = r.rounds /\ (r.rounds = 0 \/ Negative(s))
         /\ r.status = "refused" => r.attempts = 1 /\ Overlap(s) # {}
         /\ r.status = "repaired" => RunRepairLoop(s, rounds).spec \in DesignSpec
  <1> DEFINE a == RunRepairLoop(s, rounds)
  <1>1. Looped(a, s, rounds)
    BY LoopHolds
  <1> HIDE DEF a
  <1>2. /\ r.status = IF a.spec = Raised THEN "refused" ELSE "repaired"
        /\ r.attempts = a.attempts /\ r.rounds = rounds
        /\ r.valid <=> a.spec # Raised /\ Valid(a.spec)
    BY DEF a
  <1>3. \A t \in DesignSpec : t # Raised
    BY SpecTold
  <1>4. CASE Unneeded(a, s, rounds)
    <2>1. a.spec = s /\ a.attempts = 0 /\ (rounds = 0 \/ Valid(s)) /\ s # Raised
      BY <1>3, <1>4 DEF Unneeded
    <2>2. r.status = "repaired" /\ r.attempts = 0 /\ (r.valid <=> Valid(s))
      BY <1>2, <2>1
    <2> QED  BY <1>2, <2>1, <2>2 DEF a
  <1>5. CASE Refused(a, s)
    <2>1. r.status = "refused" /\ r.attempts = 1 /\ ~r.valid /\ Overlap(s) # {}
      BY <1>2, <1>5 DEF Refused
    <2> QED  BY <2>1
  <1>6. CASE Healed(a, s)
    <2>1. a.spec \in DesignSpec /\ a.attempts = 1 /\ Valid(a.spec) /\ a.spec # Raised
      BY <1>3, <1>6 DEF Healed
    <2>2. r.status = "repaired" /\ r.attempts = 1 /\ r.valid
      BY <1>2, <2>1
    <2> QED  BY <2>1, <2>2 DEF a
  <1>7. CASE Stuck(a, s, rounds)
    <2>1. a.spec \in DesignSpec /\ a.attempts = rounds /\ a.spec # Raised
          /\ Negative(s) /\ ~Valid(a.spec)
      BY <1>3, <1>7, NegativeInvalid DEF Stuck
    <2>2. r.status = "repaired" /\ r.attempts = rounds /\ ~r.valid
      BY <1>2, <2>1
    <2> QED  BY <1>2, <2>1, <2>2 DEF a
  <1> QED  BY <1>1, <1>4, <1>5, <1>6, <1>7 DEF Looped

(***************************************************************************)
(* The services keep their words                                           *)
(***************************************************************************)

\* Besides what SpecsSound says: the client holds a spec, the task was compiled from one, and
\* a review is of this very task.
ServicesInv ==
    /\ spec = Nothing \/ spec \in DesignSpec
    /\ task = Nothing \/ Compiled(task)
    /\ response.status = "reviewed" =>
         Accepted /\ response.validation = ValidateDesignTask(task.task, response.against)
    /\ SpecsSound

LEMMA ServicesInit ==
  ASSUME TaskInit
  PROVE  ServicesInv
  <1>1. response.status = "nothing"
    BY DEF TaskInit, Nothing
  <1> QED  BY <1>1 DEF TaskInit, ServicesInv, SpecsSound, TextsHonoured, RepairSettles

LEMMA CompileSpecHolds ==
  ASSUME ServicesInv, NEW text \in Texts, NEW mode \in Modes, NEW rounds \in Rounds,
         CompileSpec(text, mode, rounds)
  PROVE  ServicesInv'
  <1>1. Answered(response', text)
    BY AnswerHolds DEF CompileSpec
  <1>2. response'.status \in {"compiled", "clarification_required", "invalid", "raised"}
        /\ response'.text = text
    BY <1>1 DEF Answered
  <1>3. spec' = Nothing \/ spec' \in DesignSpec
    <2>1. response'.status = "compiled" => response'.spec \in DesignSpec
      BY <1>1, BuiltTyped DEF Answered, Handed
    <2> QED  BY <2>1 DEF CompileSpec
  <1>4. ASSUME response'.status = "compiled"
        PROVE  /\ ParserErrors(text) = {}
               /\ Valid(response'.spec) /\ response'.attempts = 0
               /\ SaysTheSame(response'.spec.constraints, text)
               /\ response'.mode = "interactive" =>
                    response'.spec.missing = {} /\ Ambiguities(text) = {}
    <2>1. Handed(response', text)
      BY <1>1, <1>4 DEF Answered
    <2>2. ParserErrors(text) = {} /\ Valid(response'.spec) /\ response'.attempts = 0
          /\ (response'.mode = "interactive" =>
                response'.spec.missing = {} /\ Ambiguities(text) = {})
      BY <2>1 DEF Handed
    <2>3. SaysTheSame(response'.spec.constraints, text)
      BY <2>1, AnswerHonours
    <2> QED  BY <2>2, <2>3
  <1>5. TextsHonoured'
    <2>1. (response'.status = "raised") <=> Contradicts(text)
      BY <1>1 DEF Answered
    <2> HIDE DEF Contradicts, ParserErrors, Valid, Stated, Ambiguities, SaysTheSame
    <2> QED  BY <1>2, <1>4, <2>1 DEF TextsHonoured
  <1>6. RepairSettles'
    BY <1>2 DEF RepairSettles
  <1> QED  BY <1>2, <1>3, <1>5, <1>6 DEF ServicesInv, SpecsSound, CompileSpec

LEMMA EditHolds ==
  ASSUME ServicesInv, Edit
  PROVE  ServicesInv'
  <1>1. response'.status = "nothing"
    BY DEF Edit, Nothing
  <1>2. spec' \in DesignSpec
    BY EditsTyped DEF Edit, ServicesInv
  <1> QED  BY <1>1, <1>2 DEF Edit, ServicesInv, SpecsSound, TextsHonoured, RepairSettles

LEMMA RepairSpecHolds ==
  ASSUME ServicesInv, NEW rounds \in Rounds, RepairSpec(rounds)
  PROVE  ServicesInv'
  <1> DEFINE loop == RunRepairLoop(spec, rounds)
             b == loop.spec # Raised /\ Valid(loop.spec)
             outcome == IF loop.spec = Raised THEN "refused" ELSE "repaired"
  <1>1. spec \in DesignSpec /\ rounds \in Nat /\ task' = task
    BY RoundsAssumption DEF RepairSpec, ServicesInv
  <1>2. /\ spec' = IF loop.spec = Raised THEN spec ELSE loop.spec
        /\ response' = [status |-> outcome, attempts |-> loop.attempts, rounds |-> rounds,
                        from |-> spec, valid |-> b]
    BY DEF RepairSpec
  <1>3. outcome \in {"refused", "repaired"}
    OBVIOUS
  <1> HIDE DEF b, outcome, loop
  <1>4. /\ response'.status = outcome /\ response'.attempts = loop.attempts
        /\ response'.rounds = rounds /\ response'.from = spec /\ response'.valid = b
    BY <1>2
  <1>5. /\ response'.valid => response'.attempts <= 1
        /\ response'.status = "repaired" /\ ~response'.valid =>
             response'.attempts = response'.rounds /\ (response'.rounds = 0 \/ Negative(spec))
        /\ response'.status = "refused" => response'.attempts = 1 /\ Overlap(spec) # {}
        /\ response'.status = "repaired" => loop.spec \in DesignSpec
    BY <1>1, <1>4, LoopSettles DEF b, outcome, loop
  <1>6. RepairSettles'
    BY <1>4, <1>5 DEF RepairSettles, Negative
  <1>7. TextsHonoured'
    BY <1>3, <1>4 DEF TextsHonoured
  <1>8. spec' \in DesignSpec
    BY <1>1, <1>2, <1>4, <1>5 DEF outcome
  <1> QED  BY <1>1, <1>3, <1>4, <1>6, <1>7, <1>8 DEF ServicesInv, SpecsSound

LEMMA CompileTaskHolds ==
  ASSUME ServicesInv, NEW hint \in Hints, CompileTask(hint)
  PROVE  ServicesInv'
  <1>1. response'.status = "nothing"
    BY DEF CompileTask, Nothing
  <1>2. Compiled(task')
    <2>1. CompiledFrom(task', spec, hint)
      BY DEF CompiledFrom, CompileTask, ServicesInv
    <2> QED  BY <2>1 DEF Compiled
  <1>3. spec' = Nothing \/ spec' \in DesignSpec
    BY DEF CompileTask, ServicesInv
  <1> QED  BY <1>1, <1>2, <1>3 DEF ServicesInv, SpecsSound, TextsHonoured, RepairSettles

LEMMA ValidateTaskHolds ==
  ASSUME ServicesInv, ValidateTask
  PROVE  ServicesInv'
  <1>1. /\ response'.status = "reviewed" /\ response'.against = spec
        /\ response'.validation = ValidateDesignTask(task.task, spec)
        /\ spec' = spec /\ task' = task /\ Accepted
    BY DEF ValidateTask, Accepted
  <1> QED  BY <1>1 DEF ServicesInv, SpecsSound, TextsHonoured, RepairSettles, Accepted

LEMMA ServicesNext ==
  ASSUME ServicesInv, [TaskNext]_taskVars
  PROVE  ServicesInv'
  <1>1. CASE UNCHANGED taskVars
    BY <1>1 DEF taskVars, ServicesInv, SpecsSound, TextsHonoured, RepairSettles, Accepted
  <1>2. CASE TaskNext
    BY <1>2, CompileSpecHolds, EditHolds, RepairSpecHolds, CompileTaskHolds, ValidateTaskHolds
       DEF TaskNext
  <1> QED  BY <1>1, <1>2

LEMMA TasksHold ==
  ASSUME ServicesInv
  PROVE  TasksSound
  <1>1. ASSUME Accepted
        PROVE  \E s, hint : CompiledFrom(task, s, hint)
    <2>1. task # Nothing
      BY <1>1 DEF Accepted, Nothing
    <2> QED  BY <2>1 DEF ServicesInv, Compiled
  <1>2. ASSUME Accepted, NEW s, NEW hint, CompiledFrom(task, s, hint)
        PROVE  task.task = DraftTask(s, hint) /\ task.task.source = s
    <2>1. task.task = DraftTask(s, hint)
      BY <1>2, CompiledParts DEF Accepted
    <2> QED  BY <2>1, DraftParts
  <1>3. ReadyTasksKnown
    <2> SUFFICES ASSUME Accepted, task.validation.ready
                 PROVE  LET s == task.task.source
                        IN  /\ s.family # "unknown" /\ s.supply
                            /\ Valid(s) => s.node /\ (s.load \/ s.family \notin NeedsLoad)
      BY DEF ReadyTasksKnown
    <2>1. PICK s, hint : CompiledFrom(task, s, hint)
      BY <1>1
    <2>2. task.task.source = s
      BY <1>2, <2>1
    <2>3. /\ s.family # "unknown" /\ s.supply
          /\ Valid(s) => s.node /\ (s.load \/ s.family \notin NeedsLoad)
      BY <2>1, ReadyKnown DEF Accepted
    <2> QED  BY <2>2, <2>3
  <1>4. MetricsMeasured
    <2> SUFFICES ASSUME Accepted
                 PROVE  LET t == task.task IN
                        /\ \A m \in SpecMetrics(t.source) : t.plan.extractors[m] \in t.plan.analyses
                        /\ \A m \in DOMAIN t.source.constraints :
                             LET r == t.source.constraints[m] IN
                             /\ r.min # {} => t.constraints[m].lower = r.min
                             /\ r.max # {} => t.constraints[m].upper = r.max
                             /\ r.min \cup r.max = {} =>
                                  /\ t.constraints[m].lower = r.target
                                  /\ t.constraints[m].upper = r.target
                             /\ m \in t.minimize => r.max # {} \/ r.min = {}
                             /\ m \in t.maximize => r.min # {} \/ r.max = {}
      BY DEF MetricsMeasured
    <2>1. PICK s, hint : CompiledFrom(task, s, hint)
      BY <1>1
    <2>2. task.task.source = s /\ task.task.plan = EvaluationPlan(s)
      BY <1>2, <2>1, DraftParts
    <2>3. \A m \in SpecMetrics(s) : EvaluationPlan(s).extractors[m] \in EvaluationPlan(s).analyses
      BY MetricsExtracted
    <2>4. \A m \in DOMAIN s.constraints :
            /\ s.constraints[m].min # {} => task.task.constraints[m].lower = s.constraints[m].min
            /\ s.constraints[m].max # {} => task.task.constraints[m].upper = s.constraints[m].max
            /\ s.constraints[m].min \cup s.constraints[m].max = {} =>
                 /\ task.task.constraints[m].lower = s.constraints[m].target
                 /\ task.task.constraints[m].upper = s.constraints[m].target
            /\ m \in task.task.minimize => s.constraints[m].max # {} \/ s.constraints[m].min = {}
            /\ m \in task.task.maximize => s.constraints[m].min # {} \/ s.constraints[m].max = {}
      BY <2>1, BoundsImposed DEF Accepted
    <2> QED  BY <2>2, <2>3, <2>4
  <1>5. StructureAgrees
    <2>1. CASE ~Accepted
      BY <2>1 DEF StructureAgrees
    <2>2. CASE Accepted
      <3>1. PICK s, hint : CompiledFrom(task, s, hint)
        BY <1>1, <2>2
      <3> QED  BY <2>2, <3>1, StructureHolds DEF StructureAgrees, Accepted
    <2> QED  BY <2>1, <2>2
  <1>6. GraphCloses
    <2>1. CASE ~Accepted
      BY <2>1 DEF GraphCloses
    <2>2. CASE Accepted
      <3>1. PICK s, hint : CompiledFrom(task, s, hint)
        BY <1>1, <2>2
      <3>2. PICK solver : task.task.graph = TaskGraph(solver)
        BY <1>2, <2>2, <3>1, DraftParts
      <3> QED  BY <3>2, GraphHolds DEF GraphCloses
    <2> QED  BY <2>1, <2>2
  <1>7. ReviewsRepeat
    <2> SUFFICES ASSUME response.status = "reviewed"
                 PROVE  response.validation.ready =
                          (task.validation.ready
                           /\ ~(task.task.type = "sizing" /\ response.against.family = "unknown"))
      BY DEF ReviewsRepeat
    <2>1. Accepted /\ response.validation = ValidateDesignTask(task.task, response.against)
      BY DEF ServicesInv
    <2>2. PICK s, hint : CompiledFrom(task, s, hint)
      BY <1>1, <2>1
    <2> QED  BY <2>1, <2>2, ReviewHolds DEF Accepted
  <1> QED  BY <1>3, <1>4, <1>5, <1>6, <1>7 DEF TasksSound

\* SpecsSound holds of every request: a text raises exactly when two of its bounds contradict
\* each other, a spec that is handed out has every bound of it or a stronger one, the last of
\* its targets and nothing it did not state, and a round of repair mends all that rounds can
\* mend.
THEOREM SpecsCorrect == TaskSpec => []SpecsSound
  <1>1. ServicesInv => SpecsSound
    BY DEF ServicesInv
  <1> QED  BY <1>1, ServicesInit, ServicesNext, PTL DEF TaskSpec

\* TasksSound holds of every task, whatever the client did to its spec before or after: what is
\* ready is known, what is wanted is measured and imposed, the two layers agree on what is
\* designed, the search can always end, and a review repeats what the compiler said.
THEOREM TasksCorrect == TaskSpec => []TasksSound
  <1> QED  BY TasksHold, ServicesInit, ServicesNext, PTL DEF TaskSpec
=============================================================================
