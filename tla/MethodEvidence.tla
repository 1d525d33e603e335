---------------------------- MODULE MethodEvidence ----------------------------
(***************************************************************************)
(* What is concluded from the runs of an experiment suite: the comparison  *)
(* of the methods at the end of libs/eval/experiment_runner.py, and the    *)
(* claims, tables and figures of the evidence bundles (paper_evidence.py,  *)
(* planner_evidence.py, memory_evidence.py, benchmark_reporting.py).       *)
(*                                                                         *)
(* A suite maps each mode that was run to the averages of its runs.  Rates *)
(* (hits, confidence, harm ...) are counted in quarters, other averages in *)
(* whole units.                                                            *)
(***************************************************************************)
EXTENDS Integers, FiniteSets, Sequences, SequencesExt, FiniteSetsExt, TLC

CONSTANTS
    Metrics,     \* metrics whose prediction gap is measured, at most three
    Gbw,         \* gbw_hz
    Preferred    \* core_gap_metrics of the slice

ASSUME EvidenceAssumption ==
    IsFiniteSet(Metrics) /\ Cardinality(Metrics) <= 3 /\ Preferred \subseteq Metrics

MethodMode == {"full_system", "top_k_baseline", "no_world_model", "no_calibration",
               "no_fidelity_escalation", "no_phase_updates",
               "no_calibration_replanning", "no_rollout_planning"}
Methodology == {"full_system", "no_world_model", "no_calibration", "no_fidelity_escalation"}
Budgeted == {"full_simulation_baseline", "no_world_model_baseline", "full_system"}
PlannerModes == <<"full_system", "top_k_baseline", "no_fidelity_escalation",
                  "no_phase_updates", "no_calibration_replanning", "no_rollout_planning">>

NoBundle == <<>>

\* Two collections of figures or of tables in one.
Joined(f, g) == [x \in DOMAIN f \cup DOMAIN g |-> IF x \in DOMAIN f THEN f[x] ELSE g[x]]

\* What the comparison keeps of the runs of one mode; a run that never
\* converged counts with all its steps.
IsProfile(p) ==
    /\ {p.calls, p.conv, p.efficiency, p.updates, p.focused, p.guidance, p.failures} \subseteq Nat
    /\ {p.hits, p.confidence, p.uncertainty, p.phase, p.replanned, p.guided} \subseteq 0..4
    /\ DOMAIN p.gap \subseteq Metrics /\ \A k \in DOMAIN p.gap : p.gap[k] \in Nat

(***************************************************************************)
(* The comparison of the methods                                           *)
(***************************************************************************)

ValueOr(f, k, d) == IF k \in DOMAIN f THEN f[k] ELSE d

\* A metric only one of the two sides has measured counts as zero on the other.
GapDelta(a, b) == [k \in DOMAIN a \cup DOMAIN b |-> ValueOr(b, k, 0) - ValueOr(a, k, 0)]

\* Mutant: the mode against the system.
DeltasOfMode(s) == [m \in (MethodMode \cap DOMAIN s) \ {"full_system"} |->
                [calls   |-> s[m].calls - s["full_system"].calls,
                 hits    |-> s[m].hits - s["full_system"].hits,
                 focused |-> s[m].focused - s["full_system"].focused,
                 updates |-> s[m].updates - s["full_system"].updates,
                 gap     |-> GapDelta(s["full_system"].gap, s[m].gap)]]

Deltas(s) == [m \in (MethodMode \cap DOMAIN s) \ {"full_system"} |->
                [calls   |-> s["full_system"].calls - s[m].calls,
                 hits    |-> s["full_system"].hits - s[m].hits,
                 focused |-> s["full_system"].focused - s[m].focused,
                 updates |-> s["full_system"].updates - s[m].updates,
                 gap     |-> GapDelta(s[m].gap, s["full_system"].gap)]]

\* Simulating no more, in the averages.
NoDearerThan(p, q) == p.calls <= q.calls


\* An ablation that was not run leaves the component "effective".
Conclusions(s) ==
    LET full == s["full_system"]
        Against(m, Better(_)) == m \in DOMAIN s => Better(s[m])
        NoDearer(p) == NoDearerThan(full, p)
        HitsAsOften(p) == full.hits >= p.hits
        NoSlower(p) == full.conv <= p.conv
    IN  [world_model   |-> Against("no_world_model", LAMBDA p : NoDearer(p) /\ HitsAsOften(p)),
         calibration   |-> Against("no_calibration", LAMBDA p :
                               /\ full.updates > 0
                               /\ Gbw \in DOMAIN p.gap =>
                                      ValueOr(full.gap, Gbw, 0) <= p.gap[Gbw]),
         fidelity      |-> Against("no_fidelity_escalation", LAMBDA p :
                               full.focused > 0 /\ NoDearer(p)),
         top_k         |-> Against("top_k_baseline", LAMBDA p : NoDearer(p) /\ HitsAsOften(p)),
         phase_updates |-> Against("no_phase_updates", LAMBDA p : HitsAsOften(p) /\ NoSlower(p)),
         replanning    |-> Against("no_calibration_replanning", LAMBDA p :
                               NoSlower(p) /\ NoDearer(p)),
         rollout       |-> Against("no_rollout_planning", LAMBDA p :
                               HitsAsOften(p) /\ NoSlower(p))]

HasComparison(s) == "full_system" \in DOMAIN s

(***************************************************************************)
(* World-model evidence                                                    *)
(***************************************************************************)

\* _relevant_gap_metrics
RelevantMetrics(s) ==
    LET measured == UNION {DOMAIN s[m].gap : m \in MethodMode \cap DOMAIN s}
        missed == {k \in measured : \E m \in MethodMode \cap DOMAIN s :
                      k \in DOMAIN s[m].gap /\ s[m].gap[k] > 0}
    IN  CASE Preferred \cap measured # {} -> Preferred \cap measured
          [] missed # {} -> missed
          [] OTHER -> measured

\* The sum of a function to Nat: the points under its graph.
Points(f) == UNION {{x} \X (1 .. f[x]) : x \in DOMAIN f}
Total(f) == Cardinality(Points(f))

\* _average_gap_over_metrics, in sixths: the mean over the metrics that were
\* measured, and zero when none was.
AverageGap(p, ms) ==
    LET known == ms \cap DOMAIN p.gap
    IN  IF known = {} THEN 0
        ELSE (6 * Total([k \in known |-> p.gap[k]])) \div Cardinality(known)

\* _mode_reliability_gap
ReliabilityGap(p) == IF p.confidence > p.hits THEN p.confidence - p.hits ELSE p.hits - p.confidence

\* The modes the bundle reads without asking whether they were run.
WorldEvidenceComplete(s, base) ==
    /\ HasComparison(s)
    /\ Methodology \subseteq DOMAIN s
    /\ Budgeted \subseteq DOMAIN base

FewerCalls(p, q) == p.calls < q.calls

WorldSummary(s, base) ==
    LET full == s["full_system"]
        cold == s["no_calibration"]
        blind == s["no_world_model"]
        gap(m) == AverageGap(s[m], RelevantMetrics(s))
    IN  [reduces_simulations |->
             FewerCalls(base["full_system"], base["no_world_model_baseline"]),
         preserves_hits |-> base["full_system"].hits >= base["no_world_model_baseline"].hits,
         calibration_reduces_gap |-> gap("full_system") < gap("no_calibration"),
         gap_beats_no_world_model |-> gap("full_system") < gap("no_world_model"),
         trust_guides |-> full.uncertainty # blind.uncertainty,
         reliability_improves |-> /\ ReliabilityGap(full) <= ReliabilityGap(blind)
                                  /\ ReliabilityGap(full) <= ReliabilityGap(cold),
         ranking_efficient |-> full.efficiency >= blind.efficiency,
         ranking_hits |-> full.hits >= blind.hits,
         calibration_converges |-> full.conv <= cold.conv,
         updates_observable |-> full.updates > 0 /\ cold.updates = 0]

BudgetRows(base) == [m \in Budgeted |-> [calls |-> base[m].calls, hits |-> base[m].hits,
                                         efficiency |-> base[m].efficiency]]

\* The modes each figure and each table of the bundle shows; the two that speak
\* of budgets take them from the baseline suite.
Calibrations == {"full_system", "no_calibration", "no_world_model"}
Rankings == {"full_system", "no_world_model", "no_fidelity_escalation"}
BudgetFigures == [prediction_gap_vs_step |-> Calibrations, simulation_calls |-> Budgeted,
                  feasible_hit_rate |-> Budgeted, trust_guided_selection |-> Rankings]
UtilityFigures == [reliability_alignment |-> Calibrations, metric_gap_profile |-> Calibrations,
                   ranking_efficiency |-> Rankings, calibration_utility |-> Calibrations]
MethodTables(s) == [method_comparison |-> MethodMode \cap DOMAIN s,
                    prediction_gap_by_step |-> Calibrations,
                    selection_behavior |-> Methodology, budget_comparison |-> Budgeted]
UtilityTables == [reliability_alignment |-> Calibrations, metric_gap_profile |-> Calibrations,
                  ranking_utility |-> Rankings, calibration_utility |-> Calibrations]

WorldBundle(s, base) ==
    IF ~WorldEvidenceComplete(s, base) THEN NoBundle
    ELSE [modes   |-> DOMAIN s \cup DOMAIN base,
          figures |-> Joined(BudgetFigures, UtilityFigures),
          tables  |-> Joined(MethodTables(s), UtilityTables),
          budget  |-> BudgetRows(base),
          methods |-> [m \in Methodology |-> [calls |-> s[m].calls, hits |-> s[m].hits,
                                              conv |-> s[m].conv]],
          summary |-> WorldSummary(s, base)]

(***************************************************************************)
(* Planner evidence                                                        *)
(***************************************************************************)

Present(s) == SelectSeq(PlannerModes, LAMBDA m : m \in DOMAIN s)

\* A bar per mode as long as the colours last: zip stops at the shorter list.
Bars(s, colours) == SubSeq(Present(s), 1, Min({Len(Present(s)), colours}))
Pair(s, m) == SelectSeq(<<"full_system", m>>, LAMBDA x : x \in DOMAIN s)

ModeFigures(s) ==
    [simulation_calls |-> Bars(s, 5), feasible_hit_rate |-> Bars(s, 5),
     focused_truth_ratio |-> Bars(s, 5), efficiency_score |-> Bars(s, 6),
     phase_change_rate |-> Bars(s, 5), rollout_guidance_rate |-> Bars(s, 5),
     calibration_replanning_rate |-> Bars(s, 6)]
PairFigures(s) ==
    [topk_efficiency |-> Pair(s, "top_k_baseline"),
     fidelity_tradeoff |-> Pair(s, "no_fidelity_escalation"),
     phase_convergence |-> Pair(s, "no_phase_updates"),
     calibration_utility |-> Pair(s, "no_calibration_replanning"),
     rollout_claim_audit |-> Pair(s, "no_rollout_planning")]
PlannerFigures(s) ==
    Joined(Joined(ModeFigures(s), PairFigures(s)),
           [failure_pressure |-> Bars(s, 6), efficiency_frontier |-> Bars(s, 6)])

\* The modes each table has a row for.
ModeTables(s) == [ablation_comparison |-> Present(s),
                  delta_vs_topk |-> SelectSeq(Present(s), LAMBDA m : m # "top_k_baseline"),
                  step_behavior |-> Present(s)]
PairTables(s) ==
    [topk_utility |-> Pair(s, "top_k_baseline"),
     fidelity_tradeoff |-> Pair(s, "no_fidelity_escalation"),
     phase_utility |-> Pair(s, "no_phase_updates"),
     calibration_utility |-> Pair(s, "no_calibration_replanning"),
     rollout_claim_audit |-> Pair(s, "no_rollout_planning")]
PlannerTables(s) ==
    Joined(Joined(ModeTables(s), PairTables(s)),
           [failure_mode_summary |-> Present(s), efficiency_synthesis |-> Present(s)])

RolloutStatus(observable, improves, preserves) ==
    CASE observable /\ improves /\ preserves -> "supported"
      [] observable -> "observable_only"
      [] OTHER -> "do_not_claim"

\* The claims are computed again from the averages, beside the conclusions of
\* the comparison that are taken over.
PlannerSummary(s) ==
    LET full == s["full_system"]
        Claim(m, Better(_)) == m \in DOMAIN s => Better(s[m])
        conclusions == Conclusions(s)
        observable == Claim("no_rollout_planning", LAMBDA p : full.guided > p.guided)
        improves == Claim("no_rollout_planning", LAMBDA p : full.conv <= p.conv)
        preserves == Claim("no_rollout_planning", LAMBDA p : full.hits >= p.hits)
    IN  [beats_top_k |-> conclusions.top_k,
         reduces_simulations |-> Claim("top_k_baseline", LAMBDA p : full.calls <= p.calls),
         preserves_hits |-> Claim("top_k_baseline", LAMBDA p : full.hits >= p.hits),
         improves_efficiency |->
             Claim("top_k_baseline", LAMBDA p : full.efficiency >= p.efficiency),
         reduces_failure_pressure |->
             Claim("top_k_baseline", LAMBDA p : full.failures <= p.failures),
         fidelity_effective |-> conclusions.fidelity,
         fidelity_reduces |->
             Claim("no_fidelity_escalation", LAMBDA p : full.calls <= p.calls),
         fidelity_preserves |->
             Claim("no_fidelity_escalation", LAMBDA p : full.hits >= p.hits),
         phase_effective |-> conclusions.phase_updates,
         phase_converges |-> Claim("no_phase_updates", LAMBDA p : full.conv <= p.conv),
         phase_observable |-> Claim("no_phase_updates", LAMBDA p : full.phase > p.phase),
         replanning_effective |-> conclusions.replanning,
         replanning_converges |->
             Claim("no_calibration_replanning", LAMBDA p : full.conv <= p.conv),
         replanning_observable |->
             Claim("no_calibration_replanning", LAMBDA p : full.replanned > p.replanned),
         rollout_effective |-> conclusions.rollout,
         rollout_observable |-> observable, rollout_converges |-> improves,
         rollout_preserves |-> preserves,
         rollout_status |-> RolloutStatus(observable, improves, preserves),
         rollout_real |-> /\ "no_rollout_planning" \in DOMAIN s
                          /\ observable
                          /\ full.guidance > 0,
         frontier_consistent |-> \A m \in ToSet(Present(s)) : full.efficiency >= s[m].efficiency]

PlannerBundle(s) ==
    IF ~HasComparison(s) THEN NoBundle
    ELSE [modes |-> Present(s), figures |-> PlannerFigures(s), tables |-> PlannerTables(s),
          summary |-> PlannerSummary(s)]

\* build_planner_paper_layout_bundle: every asset goes to exactly one part.
MainPlannerFigures == {"topk_efficiency", "fidelity_tradeoff", "phase_convergence",
                       "failure_pressure", "efficiency_frontier"}
MainPlannerTables == {"topk_utility", "failure_mode_summary", "efficiency_synthesis"}
PlannerLayout(b) == [figures |-> [main |-> MainPlannerFigures \cap DOMAIN b.figures,
                                  appendix |-> DOMAIN b.figures \ MainPlannerFigures],
                     tables  |-> [main |-> MainPlannerTables \cap DOMAIN b.tables,
                                  appendix |-> DOMAIN b.tables \ MainPlannerTables]]

(***************************************************************************)
(* The memory chapter.  A repeated study maps the modes of one task to     *)
(* their averages, a transfer the modes of one pair; a pair is of one      *)
(* family or of two.                                                       *)
(***************************************************************************)

\* The modes that the figures of the chapter compare.
DrawnModes == {"no_memory", "episodic_retrieval_only", "episodic_plus_reflection", "full_memory"}

IsChapter(c) ==
    /\ IsFiniteSet(DOMAIN c.repeated) /\ DOMAIN c.repeated # {}
    /\ \A t \in DOMAIN c.repeated :
          /\ DrawnModes \subseteq DOMAIN c.repeated[t]
          /\ \A m \in DOMAIN c.repeated[t] : c.repeated[t][m].calls \in Nat
    /\ IsFiniteSet(DOMAIN c.same) /\ IsFiniteSet(DOMAIN c.cross)
    /\ DOMAIN c.same \cap DOMAIN c.cross = {}
    /\ \A p \in DOMAIN c.cross : \A m \in {"governed_transfer", "no_governance", "forced_transfer"} :
          c.cross[p][m].harm \in 0..4

ReducesCalls(r) == r["full_memory"].calls < r["no_memory"].calls
ReducesFailures(r) == r["full_memory"].failures < r["no_memory"].failures
TransferBeneficial(t) == \/ t["governed_transfer"].calls < t["no_memory"].calls
                         \/ t["governed_transfer"].steps < t["no_memory"].steps
BlocksHarm(t) == t["governed_transfer"].harm < t["forced_transfer"].harm

\* The mean harm of a mode over the cross-family pairs, as a sum.
Harm(cross, m) == Total([p \in DOMAIN cross |-> cross[p][m].harm])

ChapterSummary(c) ==
    LET helps(t) == ReducesCalls(c.repeated[t]) \/ ReducesFailures(c.repeated[t])
    IN  [repeated_beneficial |-> \A t \in DOMAIN c.repeated \ {"bandgap_v1"} : helps(t),
         generalizes |-> \E t \in DOMAIN c.repeated \ {"ota2_v1"} : helps(t),
         same_family_beneficial |-> \A p \in DOMAIN c.same : TransferBeneficial(c.same[p]),
         governance_blocks |-> Harm(c.cross, "governed_transfer") < Harm(c.cross, "no_governance"),
         forced_exposes |-> Harm(c.cross, "forced_transfer") > Harm(c.cross, "governed_transfer"),
         gap_reduced |-> \A t \in DOMAIN c.repeated :
             c.repeated[t]["full_memory"].gap <= c.repeated[t]["no_memory"].gap]

RepeatedRows(c) == [t \in DOMAIN c.repeated |->
                      [m \in DOMAIN c.repeated[t] |->
                         [calls |-> c.repeated[t][m].calls, failures |-> c.repeated[t][m].failures]]]
TransferRow(t) == [governed_calls |-> t["governed_transfer"].calls,
                   no_governance_harm |-> t["no_governance"].harm,
                   forced_harm |-> t["forced_transfer"].harm,
                   blocks_harm |-> BlocksHarm(t), beneficial |-> TransferBeneficial(t)]
TransferRows(c) == [p \in DOMAIN c.same \cup DOMAIN c.cross |->
                      TransferRow(IF p \in DOMAIN c.same THEN c.same[p] ELSE c.cross[p])]

\* The values a bar chart draws: the first one of each series, whatever the
\* series holds.
Drawn(series) == [label \in DOMAIN series |-> IF series[label] = <<>> THEN <<0>>
                                              ELSE <<Head(series[label])>>]

\* The figures of the chapter.  The repeated ones have a series per mode with a
\* value per task, the transfer ones a series per pair and mode with one value.
PerTask(c, ms, Of(_)) ==
    LET tasks == SetToSeq(DOMAIN c.repeated)
    IN  [m \in ms |-> [i \in DOMAIN tasks |-> Of(c.repeated[tasks[i]][m])]]
RepeatedFigures(c) ==
    [calls    |-> PerTask(c, DrawnModes, LAMBDA r : r.calls),
     failures |-> PerTask(c, DrawnModes, LAMBDA r : r.failures),
     steps    |-> PerTask(c, DrawnModes, LAMBDA r : r.steps),
     gap      |-> PerTask(c, {"no_memory", "full_memory"}, LAMBDA r : r.gap)]
PerPair(pairs, ms, Of(_)) == [k \in (DOMAIN pairs) \X ms |-> <<Of(pairs[k[1]][k[2]])>>]
TransferFigures(c) ==
    [same  |-> PerPair(c.same, {"no_memory", "governed_transfer"}, LAMBDA t : t.calls),
     cross |-> PerPair(c.cross, {"governed_transfer", "no_governance", "forced_transfer"},
                       LAMBDA t : t.harm)]

\* The bundle of one repeated study has seven figures, that of a transfer three;
\* the layout of the chapter puts all of them in the appendix.
AblationFigures == {"real_simulation_calls", "step_to_first_feasible", "repeated_failures",
                    "prediction_gap", "feasible_hit_rate", "advice_consumption", "mode_summary"}
AblationTables == {"mode_comparison", "episode_breakdown"}
PairBundleFigures == {"simulation_calls", "step_to_first_feasible", "harmful_transfer_rate"}
PairBundleTables == {"transfer_comparison", "transfer_episode_breakdown"}
ChapterLayout(c) ==
    LET studies == DOMAIN c.repeated
        pairs == DOMAIN c.same \cup DOMAIN c.cross
    IN  [figures |-> (studies \X AblationFigures) \cup (pairs \X PairBundleFigures),
         tables  |-> (studies \X AblationTables) \cup (pairs \X PairBundleTables)]

\* The case studies: one per pair, the first of those that show most harm being the primary.
CaseScore(t) == 2 * (t["forced_transfer"].harm - t["governed_transfer"].harm)
                    + t["no_governance"].harm
PrimaryCase(cross) ==
    CHOOSE p \in DOMAIN cross : \A q \in DOMAIN cross : CaseScore(cross[q]) <= CaseScore(cross[p])
CaseStudies(c) == [p \in DOMAIN c.cross |-> p = PrimaryCase(c.cross)]

ChapterBundle(c) == [repeated |-> RepeatedRows(c), transfer |-> TransferRows(c),
                     summary |-> ChapterSummary(c), cases |-> CaseStudies(c)]

(***************************************************************************)
(* Benchmark reports: a contract is the part of a benchmark definition     *)
(* they speak about.                                                       *)
(***************************************************************************)

IsContract(d) ==
    /\ d.truth \in {"demonstrator_truth", "configured_truth"}
    /\ d.category \in {"amplifier", "regulator", "reference"}
    /\ {d.corners, d.temperatures} \subseteq Nat /\ d.loads \in 0..2

Expanded(d) == d.corners > 1 \/ d.temperatures > 1 \/ d.loads > 1

NominalProfile(d) ==
    CASE d.truth = "configured_truth" /\ Expanded(d) -> "configured_robustness_candidate"
      [] d.truth # "configured_truth" /\ Expanded(d) -> "robustness_style_contract"
      [] OTHER -> "single_point_nominal"

RobustnessClaim(d) ==
    CASE NominalProfile(d) = "configured_robustness_candidate" -> "configured_robustness_candidate"
      [] NominalProfile(d) = "robustness_style_contract" ->
             "robustness_style_not_physical_validity_strong"
      [] OTHER -> "nominal_only_contract"

FailureFocus(category) ==
    CASE category = "amplifier" -> {"stability", "drive_bandwidth", "measurement"}
      [] category = "regulator" -> {"drive_bandwidth", "robustness", "measurement"}
      [] OTHER -> {"robustness", "measurement", "operating_region"}

\* The rows of the five reports, one per benchmark (per family in the second).
RollupRows(ds) == [b \in DOMAIN ds |-> [family |-> ds[b].family, truth |-> ds[b].truth]]
FamilyRows(ds) ==
    [f \in {ds[b].family : b \in DOMAIN ds} |->
        LET items == {b \in DOMAIN ds : ds[b].family = f}
        IN  [tasks |-> Cardinality(items), truths |-> {ds[b].truth : b \in items}]]
FailureRows(ds) == [b \in DOMAIN ds |-> FailureFocus(ds[b].category)]
RobustnessRows(ds) == [b \in DOMAIN ds |-> RobustnessClaim(ds[b])]
FidelityRows(ds) == [b \in DOMAIN ds |-> NominalProfile(ds[b])]
ReportRows(ds) ==
    [rollup |-> RollupRows(ds), family |-> FamilyRows(ds), failure |-> FailureRows(ds),
     robustness |-> RobustnessRows(ds), fidelity |-> FidelityRows(ds)]
===============================================================================
