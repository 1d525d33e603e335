------------------------- MODULE TaskFormalization -------------------------
(***************************************************************************)
(* The formalization layer (libs/tasking) behind the interaction layer:    *)
(* a client sends texts, gets a DesignSpec or a question, edits the spec,  *)
(* has it validated or repaired, and has it compiled into a DesignTask.    *)
(* Every service is a function of its request; what is between them is in  *)
(* the client's hands.                                                     *)
(***************************************************************************)
EXTENDS SpecCompilation

CONSTANTS Texts,    \* the requests that are sent (see SpecCompilation)
          Rounds,   \* the repair rounds a request may allow
          MaxEdits  \* bound: how often the client changes the spec of one text

\* What the patterns of the parser can find in a text.
ASSUME TextAssumption ==
    \A text \in Texts :
        /\ IsFiniteSet(text.words) /\ text.hints \subseteq DOMAIN HintDirection
        /\ {text.node, text.supply, text.load, text.across} \subseteq BOOLEAN
        /\ {text.temps, text.corners} \subseteq Nat
        /\ text.statements \in Seq(ConstraintMetrics \X {"min", "max", "target"} \X Int)
ASSUME RoundsAssumption == Rounds \subseteq Nat
ASSUME MaxEditsAssumption == MaxEdits \in Nat

Modes == {"strict", "interactive"}
Hints == {"none", "sizing", "topology_sizing", "calibration"}

VARIABLES spec,      \* the DesignSpec the client holds
          edits,     \* how often it has changed it
          task,      \* the last response of the task compiler for it
          response   \* the last response of any other service, while nothing was done since
taskVars == <<spec, edits, task, response>>

Nothing == [status |-> "nothing"]

(***************************************************************************)
(* Task type, topology and design space                                    *)
(***************************************************************************)

AmplifierMetrics ==
    {"dc_gain_db", "gbw_hz", "phase_margin_deg", "slew_rate_v_per_us",
     "input_referred_noise_nv_per_sqrt_hz", "output_swing_v", "input_common_mode_v"}
AmplifierFamilies == {"two_stage_ota", "folded_cascode_ota", "telescopic_ota", "comparator"}
KnownFamilies == DOMAIN DesignVariables \ {"unknown"}

\* _candidate_families; of the notes only the words it looks for are kept.
CandidateFamilies(s) ==
    IF s.family # "unknown" THEN {s.family}
    ELSE IF SpecMetrics(s) \cap AmplifierMetrics # {} \/ "ota" \in s.notes THEN AmplifierFamilies
    ELSE IF "ldo" \in s.notes THEN {"ldo"}
    ELSE IF "bandgap" \in s.notes THEN {"bandgap"}
    ELSE KnownFamilies

\* resolve_task_type.
TaskType(s, hint) ==
    IF hint # "none" THEN hint
    ELSE IF s.family = "unknown" THEN "topology_sizing" ELSE "sizing"

TopologyMode(s, type) ==
    IF s.family = "unknown"
    THEN IF type = "topology_sizing" THEN "search_space" ELSE "template_family"
    ELSE IF type = "topology_sizing" THEN "template_family" ELSE "fixed"

\* Mutant: only what the interaction layer misses, which asks for no supply.
MissingOnly(s) == s.missing

\* What resolve_task_type leaves open.
Unresolved(s) ==
    s.missing \cup OnlyIf(~s.supply, "supply_voltage_v")
              \cup OnlyIf(s.family = "unknown", "circuit_family")

\* The names in VARIABLE_LIBRARY, which repeats the table of the interaction layer.
VariableLibrary == [
    two_stage_ota      |-> {"w_in", "l_in", "w_tail", "l_tail", "ibias", "cc"},
    folded_cascode_ota |-> {"w_in", "l_in", "w_cas", "l_cas", "ibias", "cc"},
    telescopic_ota     |-> {"w_in", "l_in", "w_cas", "l_cas", "ibias", "vcm"},
    comparator         |-> {"w_in", "l_in", "w_latch", "l_latch", "ibias"},
    ldo                |-> {"w_pass", "l_pass", "w_err", "l_err", "ibias", "c_comp"},
    bandgap            |-> {"area_ratio", "r1", "r2", "w_core", "l_core", "ibias"}]

Structural == "topology_template_choice"

\* _merge_templates: a variable that some candidate lacks is active only for those that have it.
ConditionalVariables(families) ==
    LET having(v) == {f \in families : v \in VariableLibrary[f]}
        merged == UNION {VariableLibrary[f] : f \in families}
    IN  [v \in {w \in merged : having(w) # families} |-> having(v)]

\* build_design_space.
DesignSpace(s, mode) ==
    LET families == CandidateFamilies(s)
    IN  IF mode = "fixed"
        THEN [variables |-> VariableLibrary[s.family], choices |-> {}, conditional |-> [v \in {} |-> {}]]
        ELSE [variables |-> {Structural} \cup UNION {VariableLibrary[f] : f \in families},
              choices |-> families, conditional |-> ConditionalVariables(families)]

\* The tunable parameters of the instances in FIXED_TOPOLOGY_LIBRARY.
TopologyLibrary == [
    two_stage_ota      |-> [m_in_pair |-> {"w_in", "l_in"}, m_tail |-> {"w_tail", "l_tail", "ibias"},
                            m_second_stage |-> {"ibias"}, c_comp |-> {"cc"}],
    folded_cascode_ota |-> [m_in_pair |-> {"w_in", "l_in"}, m_folded_branch |-> {"w_cas", "l_cas"},
                            m_output_load |-> {"ibias"}, c_comp |-> {"cc"}],
    telescopic_ota     |-> [m_in_pair |-> {"w_in", "l_in"}, m_cascode |-> {"w_cas", "l_cas"},
                            m_bias |-> {"ibias", "vcm"}],
    comparator         |-> [m_in_pair |-> {"w_in", "l_in"}, m_latch |-> {"w_latch", "l_latch"},
                            m_tail |-> {"ibias"}],
    ldo                |-> [m_pass |-> {"w_pass", "l_pass"}, m_err_amp |-> {"w_err", "l_err", "ibias"},
                            c_comp |-> {"c_comp"}],
    bandgap            |-> [core_pair |-> {"area_ratio"}, r_ptat |-> {"r1"}, r_ctat |-> {"r2"},
                            bias_core |-> {"w_core", "l_core", "ibias"}]]

\* resolve_topology: what the instances of the topology may tune.
TunedByTopology(s, mode) ==
    IF mode = "fixed"
    THEN UNION {TopologyLibrary[s.family][i] : i \in DOMAIN TopologyLibrary[s.family]}
    ELSE {Structural, "ibias"}

(***************************************************************************)
(* Objective, constraints and evaluation plan                              *)
(***************************************************************************)

MetricStage == [
    dc_gain_db |-> "ac", gbw_hz |-> "ac", phase_margin_deg |-> "ac",
    slew_rate_v_per_us |-> "tran", output_swing_v |-> "tran", line_regulation_mv_per_v |-> "tran",
    noise_nv_per_sqrt_hz |-> "noise", input_referred_noise_nv_per_sqrt_hz |-> "noise"]
StageForMetric(m) == IF m \in DOMAIN MetricStage THEN MetricStage[m] ELSE "op"

\* compile_objective.
ObjectiveMode(s) ==
    LET terms == Cardinality(s.maximize) + Cardinality(s.minimize)
    IN  CASE terms = 0 -> "feasibility"
          [] terms = 1 -> IF DOMAIN s.constraints = {} THEN "single" ELSE "constrained_single"
          [] OTHER -> "multi_objective"

\* normalize_metric_range: a target counts only where there is no bound.
NormalizeMetricRange(r) ==
    IF r.min # {} \/ r.max # {}
    THEN [relation |-> IF r.max = {} THEN ">=" ELSE IF r.min = {} THEN "<=" ELSE "in_range",
          lower |-> r.min, upper |-> r.max]
    ELSE [relation |-> "==", lower |-> r.target, upper |-> r.target]

CompileConstraints(s) ==
    [m \in DOMAIN s.constraints |->
        LET range == NormalizeMetricRange(s.constraints[m])
        IN  [stage |-> StageForMetric(m), relation |-> range.relation,
             lower |-> range.lower, upper |-> range.upper]]

\* build_evaluation_plan: every metric brings its analysis, several conditions a sweep.
RequestedAnalyses(s) ==
    s.plan \cup {StageForMetric(m) : m \in SpecMetrics(s)}
           \cup OnlyIf(s.corners > 1 \/ s.temps > 1, "pvt_sweep")

BudgetClass(s) ==
    LET factor == Cardinality(RequestedAnalyses(s)) * Max({1, s.corners}) * Max({1, s.temps})
    IN  IF factor <= 3 THEN "cheap" ELSE IF factor <= 9 THEN "moderate" ELSE "expensive"

EvaluationPlan(s) == [
    analyses |-> RequestedAnalyses(s),
    extractors |-> [m \in SpecMetrics(s) |-> StageForMetric(m)],
    budget |-> BudgetClass(s),
    staged |-> BudgetClass(s) = "expensive" \/ "pvt_sweep" \in RequestedAnalyses(s),
    stops |-> {"op_failure"} \cup OnlyIf("tran" \in RequestedAnalyses(s), "phase_margin_violation_before_tran"),
    augmented |-> RequestedAnalyses(s) \ s.plan]

(***************************************************************************)
(* Difficulty, solver hint and task graph                                  *)
(***************************************************************************)

ExpectedFeasibility(s) ==
    CASE Unresolved(s) # {} -> "unknown"
      [] Unresolved(s) = {} /\ Cardinality(DOMAIN s.constraints) >= 4 -> "low"
      [] Unresolved(s) = {} /\ Cardinality(DOMAIN s.constraints) \in {2, 3} -> "medium"
      [] OTHER -> "high"

Discrete(space) == space.variables \cap {Structural, "area_ratio"}

\* _solver_hint.
SolverHint(s, type, space) ==
    LET cost == BudgetClass(s)
        first == ExpectedFeasibility(s) \in {"low", "unknown"}
        dimension == Cardinality(space.variables)
    IN  [family |-> IF type = "topology_sizing" \/ 5 * Cardinality(Discrete(space)) > dimension
                    THEN "hybrid"
                    ELSE IF cost = "expensive" /\ dimension <= 12 THEN "bayesopt" ELSE "cmaes",
         stage |-> IF first THEN "feasibility_first"
                   ELSE IF type = "topology_sizing" THEN "coarse_exploration"
                   ELSE "direct_local_refinement",
         feasibilityFirst |-> first,
         surrogateFriendly |-> cost # "cheap" /\ 2 * Cardinality(Discrete(space)) <= dimension]

\* build_task_graph.
TaskGraph(hint) == [
    screen |-> IF hint.surrogateFriendly THEN "screen_with_world_model" ELSE "bypass_world_model_screen",
    edges |-> {<<"initialize_task", "propose_candidate">>, <<"propose_candidate", "precheck_candidate">>,
               <<"precheck_candidate", "screen_with_world_model">>,
               <<"screen_with_world_model", "run_evaluation_plan">>,
               <<"run_evaluation_plan", "extract_metrics">>, <<"extract_metrics", "check_constraints">>,
               <<"check_constraints", "update_search_state">>, <<"check_constraints", "terminate">>,
               <<"update_search_state", "propose_candidate">>, <<"update_search_state", "terminate">>},
    routes |-> {<<"candidate_infeasible", "propose_candidate">>, <<"budget_exhausted", "terminate">>}
               \cup OnlyIf(hint.surrogateFriendly,
                           <<"world_model_confidence_low", "run_evaluation_plan">>),
    success |-> {"all_hard_constraints_satisfied"}
                \cup OnlyIf(hint.feasibilityFirst, "feasible_region_established")]

(***************************************************************************)
(* Validation and the response of the compiler                             *)
(***************************************************************************)

CoreUnresolved == {"circuit_family", "process_node", "supply_voltage_v", "load_cap_f"}

Direction(t, m) ==
    IF m \in t.minimize THEN "minimize" ELSE IF m \in t.maximize THEN "maximize" ELSE "none"

\* The errors of validate_design_task, by code and place.
TaskErrors(t, s) ==
    LET selects == Structural \in t.space.variables
        against(m) == <<Direction(t, m), t.constraints[m].relation>>
                        \in {<<"minimize", ">=">>, <<"maximize", "<=">>}
        uncovered(m, stage) == m \notin DOMAIN t.plan.extractors \/ stage \notin t.plan.analyses
    IN  OnlyIf(t.space.variables = {}, <<"missing_problem_core", "design_space">>)
        \cup OnlyIf(t.reporting = {}, <<"missing_problem_core", "objective">>)
        \cup OnlyIf(t.plan.analyses = {} \/ DOMAIN t.plan.extractors = {},
                    <<"missing_problem_core", "evaluation_plan">>)
        \cup OnlyIf(t.graph.edges = {}, <<"missing_problem_core", "task_graph">>)
        \cup OnlyIf((t.type = "sizing" /\ t.mode # "fixed")
                        \/ (t.type = "topology_sizing" /\ t.mode = "fixed"),
                    <<"topology_mode_inconsistency", "topology">>)
        \cup OnlyIf((t.mode = "fixed") = selects, <<"topology_mode_inconsistency", "variables">>)
        \cup {<<"evaluation_coverage_error", m>> :
                m \in {k \in t.reporting : uncovered(k, StageForMetric(k))}
                      \cup {k \in DOMAIN t.constraints : uncovered(k, t.constraints[k].stage)}}
        \cup {<<"constraint_direction_error", m>> : m \in {k \in DOMAIN t.constraints : against(k)}}
        \cup OnlyIf(s.family = "unknown" /\ t.type = "sizing",
                    <<"semantic_consistency_error", "task_type">>)

\* validate_design_task: what is unresolved is read from the task, never from the spec.
ValidateDesignTask(t, s) ==
    [errors |-> TaskErrors(t, s), unresolved |-> t.unresolved,
     ready |-> TaskErrors(t, s) = {} /\ t.unresolved \cap CoreUnresolved = {}]

\* The DesignTask before its validation.
DraftTask(s, hint) ==
    LET type == TaskType(s, hint)
        mode == TopologyMode(s, type)
        space == DesignSpace(s, mode)
        solver == SolverHint(s, type, space)
    IN  [source |-> s, type |-> type, family |-> s.family, mode |-> mode,
         tuned |-> TunedByTopology(s, mode), space |-> space,
         maximize |-> s.maximize, minimize |-> s.minimize, objective |-> ObjectiveMode(s),
         reporting |-> SpecMetrics(s), constraints |-> CompileConstraints(s),
         plan |-> EvaluationPlan(s), solver |-> solver, graph |-> TaskGraph(solver),
         unresolved |-> Unresolved(s)]

CompileDesignTask(s, hint) ==
    LET draft == DraftTask(s, hint)
        validation == ValidateDesignTask(draft, s)
    IN  [status |-> IF validation.errors # {} THEN "invalid"
                    ELSE IF validation.unresolved # {} THEN "compiled_with_warnings"
                    ELSE "compiled",
         task |-> draft, validation |-> validation]

(***************************************************************************)
(* The requests of a client                                                *)
(***************************************************************************)

TaskInit ==
    /\ spec = Nothing
    /\ edits = 0
    /\ task = Nothing
    /\ response = Nothing

\* POST /interaction/compile: a spec comes back only from a text that compiled.
CompileSpec(text, mode, rounds) ==
    /\ response' = CompiledAnswer(text, mode, rounds)
    /\ spec' = IF response'.status = "compiled" THEN response'.spec ELSE Nothing
    /\ edits' = 0
    /\ task' = Nothing

\* What a client may change: give what was missing, withdraw or add a wish, or, with
\* model_copy, which validates nothing, leave the spec in pieces as a test of the loop does.
Edits(s) ==
    {[s EXCEPT !.node = TRUE, !.load = TRUE, !.missing = {}],
     [s EXCEPT !.envSupply = TRUE],
     [s EXCEPT !.family = "ldo"],
     [s EXCEPT !.notes = {"bandgap"}, !.missing = {}],
     [s EXCEPT !.minimize = {"gbw_hz"}],
     [s EXCEPT !.plan = {}, !.variables = {}, !.confidence = 140,
               !.constraints = WithRange(@, "gbw_hz", [NoRange EXCEPT !.min = {2}, !.max = {1}])],
     [s EXCEPT !.constraints = [power_w |-> [NoRange EXCEPT !.max = {-1}]]]}

Edit ==
    /\ spec # Nothing
    /\ edits < MaxEdits
    /\ edits' = edits + 1
    /\ spec' \in Edits(spec)
    /\ response' = Nothing
    /\ UNCHANGED task

\* run_repair_loop on the client's spec; when the schema refuses it, the spec stays.
RepairSpec(rounds) ==
    /\ spec # Nothing
    /\ LET loop == RunRepairLoop(spec, rounds)
       IN  /\ spec' = IF loop.spec = Raised THEN spec ELSE loop.spec
           /\ response' = [status |-> IF loop.spec = Raised THEN "refused" ELSE "repaired",
                           attempts |-> loop.attempts, rounds |-> rounds, from |-> spec,
                           valid |-> loop.spec # Raised /\ Valid(loop.spec)]
    /\ UNCHANGED <<edits, task>>

\* POST /tasking/compile; the request is parsed into a DesignSpec first.
CompileTask(hint) ==
    /\ spec # Nothing
    /\ SchemaAccepts(spec)
    /\ task' = CompileDesignTask(spec, hint)
    /\ response' = Nothing
    /\ UNCHANGED <<spec, edits>>

\* POST /tasking/validate, for the last task that was handed out and the spec of now.
ValidateTask ==
    /\ task.status \in {"compiled", "compiled_with_warnings"}
    /\ SchemaAccepts(spec)
    /\ response' = [status |-> "reviewed", against |-> spec,
                    validation |-> ValidateDesignTask(task.task, spec)]
    /\ UNCHANGED <<spec, edits, task>>

TaskNext ==
    \/ \E text \in Texts, mode \in Modes, rounds \in Rounds : CompileSpec(text, mode, rounds)
    \/ Edit
    \/ \E rounds \in Rounds : RepairSpec(rounds)
    \/ \E hint \in Hints : CompileTask(hint)
    \/ ValidateTask

TaskSpec == TaskInit /\ [][TaskNext]_taskVars

(***************************************************************************)
(* Properties                                                              *)
(***************************************************************************)

\* What a text says of a bound or a target, by place.
Stated(text, comparator) ==
    {i \in DOMAIN text.statements : /\ ~IsParserError(text.statements[i])
                                    /\ text.statements[i][2] = comparator}
Contradicts(text) ==
    \E i \in Stated(text, "min"), j \in Stated(text, "max") :
        /\ text.statements[i][1] = text.statements[j][1]
        /\ text.statements[i][3] > text.statements[j][3]

\* A later statement of the text gives its metric another target.
Superseded(text, i) ==
    \E j \in Stated(text, "target") : j > i /\ text.statements[j][1] = text.statements[i][1]

\* The ranges say what the text says: a bound is met by one that is as strong, of several
\* targets the last one stands, and no number is there that was not stated.
SaysTheSame(constraints, text) ==
    LET metric(i) == text.statements[i][1]
        value(i) == text.statements[i][3]
    IN  /\ \A i \in Stated(text, "min") :
             \E low \in constraints[metric(i)].min : low >= value(i)
        /\ \A i \in Stated(text, "max") :
             \E high \in constraints[metric(i)].max : high <= value(i)
        /\ \A i \in Stated(text, "target") :
             Superseded(text, i) \/ constraints[metric(i)].target = {value(i)}
        /\ \A m \in DOMAIN constraints :
             /\ \A v \in constraints[m].min :
                  \E i \in Stated(text, "min") : metric(i) = m /\ value(i) = v
             /\ \A v \in constraints[m].max :
                  \E i \in Stated(text, "max") : metric(i) = m /\ value(i) = v
             /\ \A v \in constraints[m].target :
                  \E i \in Stated(text, "target") : metric(i) = m /\ value(i) = v

\* A text is answered as it was meant, but for targets that it takes back itself.  It
\* raises exactly when two of its bounds contradict each other; a spec that is handed out
\* validates without any repair, says of every metric what the text says, whichever order
\* its statements came in, and comes from an interactive request only when nothing is
\* open.  (compile_spec, _update_constraint, MetricRange.)
TextsHonoured ==
    response.status \in {"compiled", "clarification_required", "invalid", "raised"} =>
        LET text == response.text IN
        /\ response.status = "raised" <=> Contradicts(text)
        /\ response.status = "compiled" =>
            /\ ParserErrors(text) = {}
            /\ Valid(response.spec) /\ response.attempts = 0
            /\ SaysTheSame(response.spec.constraints, text)
            /\ response.mode = "interactive" =>
                 response.spec.missing = {} /\ Ambiguities(text) = {}

\* Repair settles at once.  One round mends all it can mend, so that a loop that ends before
\* its rounds are used up ends with a valid spec after at most one, and one that uses them
\* up was given none or meets a bound it does not touch, a negative one; it raises only on an
\* overlap of the objectives, which it means to mend itself.  (run_repair_loop.)
RepairSettles ==
    response.status \in {"repaired", "refused"} =>
        /\ response.valid => response.attempts <= 1
        /\ response.status = "repaired" /\ ~response.valid =>
             /\ response.attempts = response.rounds
             /\ \/ response.rounds = 0
                \/ \E m \in DOMAIN response.from.constraints \ VoltageMetrics :
                       IsNegative(response.from.constraints[m])
        /\ response.status = "refused" => response.attempts = 1 /\ Overlap(response.from) # {}

\* The interaction layer keeps its word: TextsHonoured and RepairSettles.
SpecsSound == TextsHonoured /\ RepairSettles

Accepted == task.status \in {"compiled", "compiled_with_warnings"}

\* A task that is called solver-ready is of a known family with a supply, and, when its spec
\* passes the validator, nothing that its family needs was left to a default: the compiler
\* itself trusts the spec's own list of what is missing.  (resolve_task_type,
\* validate_design_task.)
ReadyTasksKnown ==
    Accepted /\ task.validation.ready =>
        LET s == task.task.source IN
        /\ s.family # "unknown" /\ s.supply
        /\ Valid(s) => s.node /\ (s.load \/ s.family \notin NeedsLoad)

\* What an accepted task wants is measured and imposed: every metric of an objective or of a
\* constraint is extracted from an analysis that is planned, every bound of the spec is a
\* threshold, its target is one where there is no bound and is dropped beside one, and no
\* constraint bounds its metric only from the side the objective flees.
\* (build_evaluation_plan, compile_constraints, validate_design_task.)
MetricsMeasured ==
    Accepted =>
        LET t == task.task IN
        /\ \A m \in SpecMetrics(t.source) : t.plan.extractors[m] \in t.plan.analyses
        /\ \A m \in DOMAIN t.source.constraints :
             LET r == t.source.constraints[m] IN
             /\ r.min # {} => t.constraints[m].lower = r.min
             /\ r.max # {} => t.constraints[m].upper = r.max
             /\ r.min \cup r.max = {} =>
                  t.constraints[m].lower = r.target /\ t.constraints[m].upper = r.target
             /\ m \in t.minimize => r.max # {} \/ r.min = {}
             /\ m \in t.maximize => r.min # {} \/ r.max = {}

\* The tables of the two layers agree on what is designed.  A fixed topology exposes the
\* variables the spec of its family lists, which are those its instances tune; in a search,
\* every candidate family sees exactly its own variables active.  (build_design_space,
\* _merge_templates, resolve_topology.)
StructureAgrees ==
    Accepted =>
        LET t == task.task
            active(f) == {v \in t.space.variables \ {Structural} :
                            v \in DOMAIN t.space.conditional => f \in t.space.conditional[v]}
        IN  IF t.mode = "fixed"
            THEN t.space.variables = DesignVariables[t.family] /\ t.tuned = t.space.variables
            ELSE /\ t.space.choices # {} /\ t.tuned \subseteq t.space.variables
                 /\ \A f \in t.space.choices : active(f) = DesignVariables[f]

\* Wherever a failure sends the search, it can still end.  (build_task_graph.)
GraphCloses ==
    Accepted =>
        LET g == task.task.graph
            ends[n \in 0 .. Cardinality(g.edges)] ==
                IF n = 0 THEN {"terminate"}
                ELSE LET nearer == ends[n - 1]
                     IN  nearer \cup {e[1] : e \in {d \in g.edges : d[2] \in nearer}}
        IN  /\ {r[2] : r \in g.routes} \cup {"initialize_task"} \subseteq ends[Cardinality(g.edges)]
            /\ (g.screen = "bypass_world_model_screen") =
                 ("world_model_confidence_low" \notin {r[1] : r \in g.routes})

\* A review holds an old task to an edited spec, and sees only whether the family is known:
\* what the client has supplied since never makes the task ready.  (validate_design_task.)
ReviewsRepeat ==
    response.status = "reviewed" =>
        response.validation.ready =
            (task.validation.ready
             /\ ~(task.task.type = "sizing" /\ response.against.family = "unknown"))

\* The formalization layer: the five of the above.
TasksSound == ReadyTasksKnown /\ MetricsMeasured /\ StructureAgrees /\ GraphCloses /\ ReviewsRepeat
=============================================================================
