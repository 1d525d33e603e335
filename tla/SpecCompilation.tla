-------------------------- MODULE SpecCompilation --------------------------
(***************************************************************************)
(* The interaction layer: a request in natural language becomes a          *)
(* DesignSpec (libs/interaction), the schema that every DesignSpec has to  *)
(* pass (libs/schema/design_spec.py), its validator and its repair loop.   *)
(*                                                                         *)
(* A text is a record of what the patterns of the parser find in it: the   *)
(* concrete "families", the generic "words", whether a process "node", a   *)
(* "supply", a "load" capacitance and the phrase "across temperature" are  *)
(* there, how many "temps" and "corners", the "hints" of qualitative       *)
(* wording, and the "statements" <<metric, comparator, value>> in their    *)
(* order.  A bound is a set: empty, or the one number that was given.      *)
(***************************************************************************)
EXTENDS Integers, Sequences, FiniteSets, SequencesExt

\* The set of x alone, or of nothing.
OnlyIf(holds, x) == IF holds THEN {x} ELSE {}

\* The schema's tables.
ObjectiveMetrics ==
    {"dc_gain_db", "gbw_hz", "phase_margin_deg", "slew_rate_v_per_us", "power_w", "area_um2",
     "noise_nv_per_sqrt_hz", "temperature_coefficient_ppm_per_c", "line_regulation_mv_per_v"}
ConstraintMetrics ==
    (ObjectiveMetrics \ {"area_um2", "noise_nv_per_sqrt_hz"})
    \cup {"input_referred_noise_nv_per_sqrt_hz", "output_swing_v", "input_common_mode_v"}
VoltageMetrics == {"output_swing_v", "input_common_mode_v"}

DesignVariables == [
    two_stage_ota      |-> {"w_in", "l_in", "w_tail", "l_tail", "ibias", "cc"},
    folded_cascode_ota |-> {"w_in", "l_in", "w_cas", "l_cas", "ibias", "cc"},
    telescopic_ota     |-> {"w_in", "l_in", "w_cas", "l_cas", "ibias", "vcm"},
    comparator         |-> {"w_in", "l_in", "w_latch", "l_latch", "ibias"},
    ldo                |-> {"w_pass", "l_pass", "w_err", "l_err", "ibias", "c_comp"},
    bandgap            |-> {"area_ratio", "r1", "r2", "w_core", "l_core", "ibias"},
    unknown            |-> {}]

(***************************************************************************)
(* The parser                                                              *)
(***************************************************************************)

\* The order of _CIRCUIT_PATTERNS: the first family found in the text is the one.
FamilyOrder == <<"folded_cascode_ota", "telescopic_ota", "two_stage_ota",
                 "comparator", "ldo", "bandgap">>

ParsedFamily(text) ==
    LET found == {i \in DOMAIN FamilyOrder : FamilyOrder[i] \in text.families}
    IN  IF found = {} THEN "unknown" ELSE FamilyOrder[Min(found)]

\* A generic request is ambiguous; one that names nothing at all is not.
Ambiguities(text) ==
    IF ParsedFamily(text) # "unknown" THEN {}
    ELSE IF "ota" \in text.words THEN {"ota"} ELSE text.words

HintDirection == [gbw_hz |-> "maximize", power_w |-> "minimize", dc_gain_db |-> "maximize",
                  noise_nv_per_sqrt_hz |-> "minimize", phase_margin_deg |-> "maximize"]
Hinted(text, direction) == {m \in text.hints : HintDirection[m] = direction}

NoRange == [min |-> {}, max |-> {}, target |-> {}]

WithRange(constraints, metric, range) ==
    [m \in DOMAIN constraints \cup {metric} |-> IF m = metric THEN range ELSE constraints[m]]

\* Mutant: of two lower bounds the weaker one stays.
WeakerBound(constraints, metric, comparator, value) ==
    LET old == IF metric \in DOMAIN constraints THEN constraints[metric] ELSE NoRange
        new == CASE comparator = "min" -> [old EXCEPT !.min = {Min(@ \cup {value})}]
                 [] comparator = "max" -> [old EXCEPT !.max = {Min(@ \cup {value})}]
                 [] OTHER -> [old EXCEPT !.target = {value}]
    IN  WithRange(constraints, metric, new)

\* _update_constraint: of two bounds the stronger one stays, of two targets the last.
UpdateConstraint(constraints, metric, comparator, value) ==
    LET old == IF metric \in DOMAIN constraints THEN constraints[metric] ELSE NoRange
        new == CASE comparator = "min" -> [old EXCEPT !.min = {Max(@ \cup {value})}]
                 [] comparator = "max" -> [old EXCEPT !.max = {Min(@ \cup {value})}]
                 [] OTHER -> [old EXCEPT !.target = {value}]
    IN  WithRange(constraints, metric, new)

\* A negative number is an error of the parser, and dropped, unless it is a voltage.
IsParserError(s) == s[3] < 0 /\ s[1] \notin VoltageMetrics
ParserErrors(text) == {i \in DOMAIN text.statements : IsParserError(text.statements[i])}

ParsedConstraints(text) ==
    LET parsed[n \in 0 .. Len(text.statements)] ==
            IF n = 0 THEN [m \in {} |-> NoRange]
            ELSE LET s == text.statements[n]
                 IN  IF IsParserError(s) THEN parsed[n - 1]
                     ELSE UpdateConstraint(parsed[n - 1], s[1], s[2], s[3])
    IN  parsed[Len(text.statements)]

NeedsLoad == {"two_stage_ota", "folded_cascode_ota", "telescopic_ota", "comparator", "unknown"}

\* What _expected_missing_information and the others find missing in a family, a node and a load.
MissingCore(family, node, load) ==
    OnlyIf(family = "unknown", "circuit_family")
    \cup OnlyIf(~node, "process_node")
    \cup OnlyIf(~load /\ family \in NeedsLoad, "load_cap_f")

InferredMissing(text) ==
    MissingCore(ParsedFamily(text), text.node, text.load)
    \cup OnlyIf(text.across /\ text.temps = 0, "temperature_range")

\* _compute_compile_confidence, in hundredths.
CompileConfidence(text, issues) ==
    Max({0, 95 - 8 * Cardinality(InferredMissing(text))
               - 12 * Cardinality(Ambiguities(text)) - 20 * issues})

(***************************************************************************)
(* The DesignSpec                                                          *)
(***************************************************************************)

SpecMetrics(s) == DOMAIN s.constraints \cup s.maximize \cup s.minimize

\* plan_testbenches.
PlanTestbenches(metrics) ==
    {"op"}
    \cup OnlyIf(metrics \cap {"dc_gain_db", "gbw_hz", "phase_margin_deg"} # {}, "ac")
    \cup OnlyIf("slew_rate_v_per_us" \in metrics, "tran")
    \cup OnlyIf(metrics \cap {"input_referred_noise_nv_per_sqrt_hz", "noise_nv_per_sqrt_hz"} # {},
                "noise")

BuildDesignSpec(text) ==
    LET constraints == ParsedConstraints(text)
        family == ParsedFamily(text)
    IN  [family |-> family, node |-> text.node, load |-> text.load,
         supply |-> text.supply, envSupply |-> text.supply,
         temps |-> text.temps, corners |-> text.corners,
         maximize |-> Hinted(text, "maximize"), minimize |-> Hinted(text, "minimize"),
         constraints |-> constraints,
         plan |-> PlanTestbenches(DOMAIN constraints \cup text.hints),
         variables |-> DesignVariables[family],
         missing |-> InferredMissing(text),
         notes |-> Ambiguities(text) \cap {"ota"},
         confidence |-> CompileConfidence(text, 0)]

Contradictory(r) == \E low \in r.min, high \in r.max : low > high
Overlap(s) == s.maximize \cap s.minimize

\* The validators of DesignSpec and of its parts: what they refuse raises.
SchemaAccepts(s) ==
    /\ \A m \in DOMAIN s.constraints : s.constraints[m] # NoRange /\ ~Contradictory(s.constraints[m])
    /\ DOMAIN s.constraints \subseteq ConstraintMetrics
    /\ s.maximize \cup s.minimize \subseteq ObjectiveMetrics
    /\ Overlap(s) = {}
    /\ s.confidence \in 0 .. 100

IsNegative(r) == \E v \in r.min \cup r.max \cup r.target : v < 0

\* validate_design_spec: the issues, by code and place.
Issues(s) ==
    {<<"objective_overlap", m>> : m \in Overlap(s)}
    \cup {<<"constraint_range_conflict", m>> :
            m \in {k \in DOMAIN s.constraints : Contradictory(s.constraints[k])}}
    \cup {<<"negative_constraint_value", m>> :
            m \in {k \in DOMAIN s.constraints \ VoltageMetrics : IsNegative(s.constraints[k])}}
    \cup OnlyIf(s.plan # PlanTestbenches(SpecMetrics(s)), <<"testbench_plan_mismatch", "">>)
    \cup OnlyIf(s.variables # DesignVariables[s.family], <<"design_variables_mismatch", "">>)
    \cup OnlyIf(~(MissingCore(s.family, s.node, s.load) \subseteq s.missing),
                <<"missing_information_incomplete", "">>)
    \cup OnlyIf(s.confidence \notin 0 .. 100, <<"invalid_compile_confidence", "">>)
Valid(s) == Issues(s) = {}

(***************************************************************************)
(* The repair loop                                                         *)
(***************************************************************************)

Raised == [raised |-> TRUE]

Swapped(r) == IF Contradictory(r) THEN [r EXCEPT !.min = r.max, !.max = r.min] ELSE r

\* repair_design_spec.  The ranges and the confidence are mended before the schema looks at
\* the spec, an overlap of the objectives only after it, when it has raised already.
RepairDesignSpec(s) ==
    LET payload == [s EXCEPT !.constraints = [m \in DOMAIN @ |-> Swapped(@[m])],
                             !.confidence = Min({100, Max({0, @})})]
        mended == [payload EXCEPT !.envSupply = s.supply \/ @, !.supply = s.envSupply \/ @,
                                  !.maximize = @ \ s.minimize]
    IN  IF ~SchemaAccepts(payload) THEN Raised
        ELSE [mended EXCEPT !.plan = PlanTestbenches(SpecMetrics(mended)),
                            !.variables = DesignVariables[s.family],
                            !.missing = @ \cup MissingCore(s.family, s.node, s.load)]

\* run_repair_loop: until the spec validates, or the rounds are used up.
RunRepairLoop(s, rounds) ==
    LET after[n \in 0 .. rounds] ==
            IF n = 0 THEN [spec |-> s, attempts |-> 0]
            ELSE LET last == after[n - 1]
                 IN  IF last.spec = Raised \/ last.attempts < n - 1 THEN last
                     ELSE IF Valid(last.spec) THEN last
                     ELSE [spec |-> RepairDesignSpec(last.spec), attempts |-> n]
    IN  after[rounds]

(***************************************************************************)
(* compile_spec                                                            *)
(***************************************************************************)

\* The response; the spec is in it only when the status is "compiled".
CompiledAnswer(text, mode, rounds) ==
    LET built == BuildDesignSpec(text)
        loop == RunRepairLoop(built, rounds)
        issues == Cardinality(ParserErrors(text)) + Cardinality(Issues(loop.spec))
        status == IF ParserErrors(text) # {} THEN "invalid"
                  ELSE IF mode = "interactive"
                          /\ (loop.spec.missing # {} \/ Ambiguities(text) # {})
                  THEN "clarification_required"
                  ELSE IF Valid(loop.spec) THEN "compiled"
                  ELSE "invalid"
    IN  IF ~SchemaAccepts(built) THEN [status |-> "raised", text |-> text, mode |-> mode]
        ELSE [status |-> status, text |-> text, mode |-> mode, attempts |-> loop.attempts,
              spec |-> [loop.spec EXCEPT !.confidence = CompileConfidence(text, issues)]]
=============================================================================
