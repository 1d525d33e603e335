--------------------------- MODULE SubmissionPackage ---------------------------
(***************************************************************************)
(* libs/eval/submission_package.py: the scripts export evidence into an    *)
(* archive of files, and the final internal submission package is built    *)
(* from whatever the archive holds while it is read, one file after        *)
(* another.  A file that is missing is replaced by a fabricated fallback;  *)
(* one that was half written is not valid JSON and ends the build.         *)
(***************************************************************************)
EXTENDS MethodEvidence

CONSTANTS
    Benchmarks,  \* the frozen suite
    Primary,     \* the paper-primary benchmark, ota2_v1
    Reports,     \* the Stage E report bundles
    Measured,    \* what experiments may measure, by name
    Remeasured,  \* the one of them that is measured when they are run again
    Histories,   \* what was measured first, and the exporters that ran on it
    MaxBuilds,   \* bound: builds
    MaxEvents    \* bound: exports and interrupted exports

\* The programs that write into the archive, and the files they write.
Exporter == ({"world", "planner"} \X Benchmarks) \cup ({"report"} \X Reports)
            \cup {<<k, Primary>> : k \in {"planner_ci", "chapter", "memory_package", "docs",
                                          "closure"}}
File == {e \in Exporter : e[1] # "chapter" /\ e[1] # "memory_package"}
        \cup {<<"memory", Primary>>, <<"layout", Primary>>}

ASSUME PackageAssumption ==
    /\ Primary \in Benchmarks /\ IsFiniteSet(Benchmarks) /\ IsFiniteSet(Reports)
    /\ \A h \in Histories : h.measured \in DOMAIN Measured /\ h.ran \subseteq Exporter
    /\ Remeasured \in DOMAIN Measured
    /\ \A n \in DOMAIN Measured :
          /\ \A m \in DOMAIN Measured[n].suite : IsProfile(Measured[n].suite[m])
          /\ \A m \in DOMAIN Measured[n].base : IsProfile(Measured[n].base[m])
          /\ \A b \in DOMAIN Measured[n].contract : IsContract(Measured[n].contract[b])
          /\ IsChapter(Measured[n].chapter)
    /\ MaxBuilds \in Nat \ {0} /\ MaxEvents \in Nat

Absent == 0
Torn == -1

VARIABLES
    input,     \* the name of what was measured, by version
    inside,    \* the package is built under the papers root
    papers,    \* the papers root exists
    archive,   \* the version each file holds, Absent or Torn
    pc,        \* the step of the build that runs, 0 when none does
    frozen,    \* what each step of this build has read
    bundles,   \* the build that wrote each bundle last
    final,     \* the final package bundle
    builds,    \* builds begun
    events,    \* exports, for the bound
    quiet      \* nothing was exported since the build began

Evidence(v) == Measured[input[v]]

vars == <<input, inside, papers, archive, pc, frozen, bundles, final, builds, events, quiet>>

(***************************************************************************)
(* Who writes what, and who reads what                                     *)
(***************************************************************************)

Writes(e) ==
    CASE e[1] = "chapter" -> {<<"memory", Primary>>}
      [] e[1] = "memory_package" -> {<<"memory", Primary>>, <<"layout", Primary>>}
      [] OTHER -> {e}

\* The closure summary lies beside the papers root, everything else below it.
UnderPapers(e) == e[1] # "closure"

\* Where the package looks for the evidence of a benchmark.
WorldPath(b) == <<"world", b>>
PlannerPath(b) == IF b = Primary THEN <<"planner_ci", b>> ELSE <<"planner", b>>

\* The main figures and tables, with the files each one is taken from.
FigureSource ==
    [fig1_system_architecture |-> {}, fig2_ota_acceptance_trace |-> {<<"closure", Primary>>},
     fig3a_world_model_prediction_gap |-> {<<"world", Primary>>},
     fig3b_world_model_simulation_calls |-> {<<"world", Primary>>},
     fig4a_planner_topk_efficiency |-> {<<"planner_ci", Primary>>},
     fig4b_planner_failure_pressure |-> {<<"planner_ci", Primary>>},
     fig5a_memory_repeated_episode_calls |-> {<<"layout", Primary>>},
     fig5b_memory_same_family_transfer |-> {<<"layout", Primary>>},
     fig6_memory_cross_family_governance |-> {<<"layout", Primary>>}]
TableSource ==
    [tbl1_benchmark_summary |-> {}, tbl2_system_baseline_summary |-> {WorldPath(b) : b \in Benchmarks},
     tbl3_world_model_summary |-> {WorldPath(b) : b \in Benchmarks},
     tbl4_planner_summary |-> {PlannerPath(b) : b \in Benchmarks},
     tbl5_memory_repeated_summary |-> {<<"memory", Primary>>},
     tbl6_memory_transfer_summary |-> {<<"memory", Primary>>}]
AssetSource == Joined(FigureSource, TableSource)
MainFigureSources == UNION Range(FigureSource)

\* The assets each section of the manuscript requires, those without any left
\* out, and the ones each subsection of the experiments rests on.
Manuscript ==
    [sec3 |-> {"fig1_system_architecture"}, sec5 |-> {"tbl1_benchmark_summary"},
     sec6 |-> {"tbl2_system_baseline_summary", "tbl3_world_model_summary", "tbl4_planner_summary"},
     sec7 |-> (DOMAIN FigureSource \ {"fig1_system_architecture", "fig6_memory_cross_family_governance"})
              \cup {"tbl5_memory_repeated_summary", "tbl6_memory_transfer_summary"},
     sec8 |-> {"fig6_memory_cross_family_governance", "tbl6_memory_transfer_summary"}]
Subsections ==
    [ota_closed_loop |-> {"fig2_ota_acceptance_trace", "tbl2_system_baseline_summary"},
     multitask |-> {"tbl1_benchmark_summary", "tbl2_system_baseline_summary"},
     world_model |-> {"fig3a_world_model_prediction_gap", "fig3b_world_model_simulation_calls",
                      "tbl3_world_model_summary"},
     planner |-> {"fig4a_planner_topk_efficiency", "fig4b_planner_failure_pressure",
                  "tbl4_planner_summary"},
     memory |-> {"fig5a_memory_repeated_episode_calls", "fig5b_memory_same_family_transfer",
                 "fig6_memory_cross_family_governance", "tbl5_memory_repeated_summary",
                 "tbl6_memory_transfer_summary"}]

\* The steps of a build in their order.  Each reads files, some as JSON, and
\* some write a bundle when they are done.  The appendix freezes the figures
\* and tables once more, for itself.
S(pack, asset, bundle) == [pack |-> pack, asset |-> asset, bundle |-> bundle]
Tables == <<"baseline", "world", "planner", "repeated", "transfer">>
Freeze(pack, figures, tables) ==
    <<S(pack, "figures", figures)>>
    \o [i \in DOMAIN Tables |-> S(pack, Tables[i], IF i = Len(Tables) THEN tables ELSE "")]
FromSupport == <<S("appendix", "support", "appendix"), S("main", "protocol", "protocol"),
                 S("main", "limitations", "limitations"), S("main", "manuscript", "manuscript"),
                 S("main", "experiments", "experiments")>>

\* Mutant: the appendix does not freeze the tables again.
StepsOnce == <<S("main", "boundary", "physical")>> \o Freeze("main", "figures", "tables")
             \o <<S("appendix", "figures", "")>> \o FromSupport

Steps == <<S("main", "boundary", "physical")>>
         \o Freeze("main", "figures", "tables")
         \o Freeze("appendix", "", "")
         \o FromSupport
Bundle == {Steps[i].bundle : i \in DOMAIN Steps} \ {""}
Close == Len(Steps) + 1

Reads(asset) ==
    CASE asset = "figures" -> MainFigureSources
      [] asset \in {"baseline", "world"} -> {WorldPath(b) : b \in Benchmarks}
      [] asset = "planner" -> {PlannerPath(b) : b \in Benchmarks}
      [] asset \in {"repeated", "transfer"} -> {<<"memory", Primary>>}
      [] asset = "support" -> {f \in File : f[1] # "docs" /\ f[1] # "closure"}
      [] asset = "boundary" -> {}
      [] OTHER -> {<<"docs", Primary>>}

\* The files a step parses; the others are copied as they are.
Parses(asset) ==
    CASE asset = "figures" -> {<<"closure", Primary>>}
      [] asset \in ToSet(Tables) -> Reads(asset)
      [] OTHER -> {}

(***************************************************************************)
(* What a reading becomes in the package                                   *)
(***************************************************************************)

\* _fallback_world_model_payload: the rows and the claims of the fallback.
FallbackRows(b) ==
    LET row(full, blind, own, hits, efficiency) ==
            ("full_simulation_baseline" :> [calls |-> full, hits |-> hits, efficiency |-> 50])
            @@ ("no_world_model_baseline" :>
                    [calls |-> blind, hits |-> hits, efficiency |-> efficiency - 4])
            @@ ("full_system" :> [calls |-> own, hits |-> hits, efficiency |-> efficiency])
    IN  CASE b = "ota2_v1" -> row(12, 9, 8, 4, 82)
          [] b = "folded_cascode_v1" -> row(13, 10, 9, 4, 79)
          [] b = "ldo_v1" -> row(14, 10, 9, 3, 68)
          [] OTHER -> row(16, 13, 10, 2, 54)
FallbackReduces(b) == b = "bandgap_v1"

\* The budget rows and the claim the two system-facing tables show.
BudgetShown(b, v) == IF v = Absent THEN FallbackRows(b) ELSE BudgetRows(Evidence(v).base)
ReducesShown(b, v) ==
    IF v = Absent THEN FallbackReduces(b)
    ELSE WorldBundle(Evidence(v).suite, Evidence(v).base).summary.reduces_simulations

\* _build_submission_memory_repeated_table
BeneficialShown(v) == [t \in DOMAIN Evidence(v).chapter.repeated |->
                          LET rows == ChapterBundle(Evidence(v).chapter).repeated[t]
                          IN  rows["full_memory"].calls <= rows["no_memory"].calls]

\* How many figure files an export leaves where the appendix looks for them,
\* those the main figures were taken from left out.
FigureFiles(f) ==
    CASE f[1] = "world" -> IF f[2] = Primary THEN 6 ELSE 8
      [] f[1] = "planner" -> 14
      [] f[1] = "planner_ci" -> 12
      [] f[1] = "memory" -> 6
      [] f[1] = "layout" -> Cardinality(ChapterLayout(Evidence(1).chapter).figures)
      [] OTHER -> 0
Exported(reading) == {f \in DOMAIN reading : reading[f] # Absent}

\* Tables come twice, as CSV and as markdown; the chapter keeps its three.
TableFiles(f) ==
    CASE f[1] = "world" -> 16
      [] f[1] \in {"planner", "planner_ci"} -> 20
      [] f[1] = "memory" -> 6
      [] f[1] = "layout" -> 2 * Cardinality(ChapterLayout(Evidence(1).chapter).tables)
      [] f[1] = "report" -> 2
      [] OTHER -> 0
\* The two tables of the boundary bundle, which the appendix builds for itself.
BoundaryFiles == 4
AppendixPadded(reading) ==
    \/ Total([f \in Exported(reading) |-> FigureFiles(f)]) < 6
    \/ Total([f \in Exported(reading) |-> TableFiles(f)]) + BoundaryFiles < 12

\* _nominal_profile and _claim_tier of the boundary bundle, which are not the
\* functions of the reports.
BoundaryProfile(d) == IF Expanded(d) THEN "expanded_nominal_contract" ELSE "single_point_nominal"
ClaimTier(d) == IF d.truth = "configured_truth" THEN "configured_truth_candidate"
                ELSE "real_spice_demonstrator_truth"

Fabricated(reading) == {f \in DOMAIN reading : reading[f] = Absent}

(***************************************************************************)
(* The machine                                                             *)
(***************************************************************************)

NoReading == <<>>
Unread == [p \in {"main", "appendix"} |-> [a \in {Steps[i].asset : i \in DOMAIN Steps} |-> NoReading]]
NoFinal == [build |-> 0, ready |-> FALSE, external |-> FALSE, inside |-> FALSE, fabricated |-> FALSE]

\* The builders stop with a KeyError or a ValueError when the suite lacks a
\* mode they read.
Exports(e, i) ==
    CASE e[1] = "world" -> WorldBundle(i.suite, i.base) # NoBundle
      [] e[1] \in {"planner", "planner_ci"} -> PlannerBundle(i.suite) # NoBundle
      [] OTHER -> TRUE

PackageInit ==
    /\ inside \in BOOLEAN
    /\ \E h \in Histories :
          /\ input = <<h.measured, Remeasured>>
          /\ archive = [f \in File |-> IF \E e \in h.ran : f \in Writes(e) /\ Exports(e, Measured[h.measured])
                                      THEN 1 ELSE Absent]
          /\ papers = (\E e \in h.ran : UnderPapers(e))
    /\ pc = 0 /\ frozen = Unread
    /\ bundles = [b \in Bundle |-> 0] /\ final = NoFinal
    /\ builds = 0 /\ events = 0 /\ quiet = TRUE

\* An exporter runs to its end, on what is measured now.
Export(e) ==
    /\ events < MaxEvents /\ events' = events + 1
    /\ LET v == IF \E f \in Writes(e) : archive[f] # Absent THEN 2 ELSE 1
       IN  /\ Exports(e, Evidence(v))
           /\ archive' = [f \in File |-> IF f \in Writes(e) THEN v ELSE archive[f]]
    /\ papers' = (papers \/ UnderPapers(e)) /\ quiet' = FALSE
    /\ UNCHANGED <<input, inside, pc, frozen, bundles, final, builds>>

\* write_text truncates the file before it writes: an exporter that is killed
\* in between leaves one that cannot be parsed.
ExportDies(e, f) ==
    /\ events < MaxEvents /\ events' = events + 1
    /\ f \in Writes(e) /\ f[1] # "docs"
    /\ archive' = [archive EXCEPT ![f] = Torn]
    /\ papers' = (papers \/ UnderPapers(e)) /\ quiet' = FALSE
    /\ UNCHANGED <<input, inside, pc, frozen, bundles, final, builds>>

\* build_final_internal_submission_package_bundle creates its directories first.
Begin ==
    /\ pc = 0 /\ builds < MaxBuilds
    /\ pc' = 1 /\ builds' = builds + 1
    /\ papers' = (papers \/ inside)
    /\ frozen' = Unread /\ quiet' = TRUE
    /\ UNCHANGED <<input, inside, archive, bundles, final, events>>

Parsable(s) == \A f \in Parses(s.asset) : archive[f] # Torn

Reading(s) == [f \in Reads(s.asset) |-> archive[f]]

TakeStep ==
    /\ pc \in DOMAIN Steps /\ Parsable(Steps[pc])
    /\ frozen' = [frozen EXCEPT ![Steps[pc].pack][Steps[pc].asset] = Reading(Steps[pc])]
    /\ bundles' = IF Steps[pc].bundle = "" THEN bundles
                  ELSE [bundles EXCEPT ![Steps[pc].bundle] = builds]
    /\ pc' = pc + 1
    /\ UNCHANGED <<input, inside, papers, archive, final, builds, events, quiet>>

\* Mutant: a build that fails removes the bundles.
BuildCleansUp ==
    /\ pc \in DOMAIN Steps /\ ~Parsable(Steps[pc])
    /\ pc' = 0 /\ bundles' = [b \in Bundle |-> 0]
    /\ UNCHANGED <<input, inside, papers, archive, frozen, final, builds, events, quiet>>

\* Mutant: it waits until the file can be parsed.
BuildWaits ==
    /\ pc \in DOMAIN Steps /\ ~Parsable(Steps[pc])
    /\ UNCHANGED vars

\* json.loads raises: the build ends here, with the bundles it has written.
BuildDies ==
    /\ pc \in DOMAIN Steps /\ ~Parsable(Steps[pc])
    /\ pc' = 0
    /\ UNCHANGED <<input, inside, papers, archive, frozen, bundles, final, builds, events, quiet>>

\* build_stage_e_review_status: the report bundles are present, or there is no
\* archive of papers at all.
PapersMissing == ~papers

\* Mutant: one report is enough.
ReadyOnAnyReport == (\E r \in Reports : archive[<<"report", r>>] # Absent) \/ PapersMissing

ReadyForStageF == (\A r \in Reports : archive[<<"report", r>>] # Absent) \/ PapersMissing

\* Every main figure is entered as generated_ready, whatever it was made of.
Unresolved == {}

FabricatedFiles == UNION {Fabricated(frozen["main"][a]) : a \in {"figures"} \cup ToSet(Tables)}

SomethingFabricated ==
    \E i \in DOMAIN Steps : LET s == Steps[i] IN
        s.asset # "support" /\ Fabricated(frozen[s.pack][s.asset]) # {}

Finish ==
    /\ pc = Close
    /\ final' = [build |-> builds, ready |-> ReadyForStageF,
                 external |-> ReadyForStageF /\ Unresolved = {}, inside |-> inside,
                 fabricated |-> SomethingFabricated]
    /\ pc' = 0
    /\ UNCHANGED <<input, inside, papers, archive, frozen, bundles, builds, events, quiet>>

PackageNext ==
    \/ \E e \in Exporter : Export(e)
    \/ \E e \in Exporter : \E f \in Writes(e) : ExportDies(e, f)
    \/ Begin \/ TakeStep \/ BuildDies \/ Finish

PackageSpec == PackageInit /\ [][PackageNext]_vars /\ WF_vars(TakeStep \/ BuildDies \/ Finish)
(***************************************************************************)
(* Properties                                                              *)
(***************************************************************************)

PackageTypeOK ==
    /\ DOMAIN archive = File /\ \A f \in File : archive[f] \in {Absent, Torn, 1, 2}
    /\ pc \in 0..Close /\ builds \in 0..MaxBuilds /\ events \in 0..MaxEvents
    /\ DOMAIN bundles = Bundle /\ \A b \in Bundle : bundles[b] \in 0..builds
    /\ final.build \in 0..builds

\* The final bundle lists eight bundles by path: none of the files it lists is
\* older than the build that listed them, whichever builds ended early since.
BundlesNotOlder == final.build > 0 => \A b \in Bundle : bundles[b] >= final.build

\* The archive of files and builds is well formed, and the package refers to no bundle
\* that a later build left behind.
ArchiveSound == PackageTypeOK /\ BundlesNotOlder

\* The appendix freezes the main figures and tables a second time: when nothing
\* was exported during the build, both copies hold the same evidence.
AppendixAgrees ==
    pc = Close /\ quiet =>
        \A a \in {"figures"} \cup ToSet(Tables) : frozen["main"][a] = frozen["appendix"][a]

\* tbl2 prints simulation counts and tbl3 a verdict about them, each from its
\* own reading of the bundles: in a quiet build with the evidence exported, the
\* verdict is the one the counts support.
TablesAgree ==
    pc = Close /\ quiet =>
        \A b \in Benchmarks :
            LET read == frozen["main"]["baseline"][WorldPath(b)]
                rows == BudgetShown(b, read)
            IN  read # Absent =>
                    (ReducesShown(b, frozen["main"]["world"][WorldPath(b)])
                        <=> rows["full_system"].calls < rows["no_world_model_baseline"].calls)

\* The escape for clean checkouts: a package that is ready although a report is
\* missing was built outside the papers root, which did not exist.  Building
\* inside the root creates it, so there readiness means the reports are there.
ReadyMeansReports ==
    final.ready /\ final.inside => \A r \in Reports : archive[<<"report", r>>] # Absent

\* Every asset the manuscript and the experiments ask for is a frozen one, and a
\* subsection whose evidence was exported before a quiet build rests on nothing
\* fabricated; with all of it exported the appendix needs no padding.
NothingFabricated ==
    pc = Close /\ quiet =>
        /\ UNION (Range(Manuscript) \cup Range(Subsections)) = DOMAIN AssetSource
        /\ \A assets \in Range(Subsections) :
              LET sources == UNION {AssetSource[a] : a \in assets} IN
              (\A f \in sources : archive[f] # Absent) => sources \cap FabricatedFiles = {}
        /\ (\A f \in UNION Range(AssetSource) : archive[f] # Absent) =>
               ~AppendixPadded(frozen["appendix"]["support"])

\* A package that says it is ready has what it says it has.
ReadinessSound == ReadyMeansReports /\ NothingFabricated

\* The versions of the evidence a package that is about to close has read.
Shown == IF pc # Close THEN {}
         ELSE {v \in DOMAIN input : \E a \in DOMAIN frozen["main"] :
                   \E f \in DOMAIN frozen["main"][a] : frozen["main"][a][f] = v}

\* The planner's claims are computed twice, by the comparison of the methods
\* and by the evidence bundle: the two never disagree.
PlannerClaimsAgree ==
    \A v \in Shown : HasComparison(Evidence(v).suite) =>
        LET c == PlannerBundle(Evidence(v).suite).summary IN
        /\ c.beats_top_k <=> c.reduces_simulations /\ c.preserves_hits
        /\ c.fidelity_effective => c.fidelity_reduces
        /\ c.phase_effective => c.phase_converges
        /\ c.replanning_effective => c.replanning_converges
        /\ c.rollout_effective <=> c.rollout_converges /\ c.rollout_preserves

\* A claim about rollouts that is called real was measured against the ablation
\* without them, and is never the one that says not to claim anything.
RolloutClaimGrounded ==
    \A v \in Shown : HasComparison(Evidence(v).suite) =>
        LET s == Evidence(v).suite
            c == PlannerBundle(s).summary IN
        c.rollout_real =>
            /\ c.rollout_status # "do_not_claim"
            /\ s["no_rollout_planning"].guided < s["full_system"].guided
            /\ c.rollout_status = "supported" =>
                   s["no_rollout_planning"].conv >= s["full_system"].conv

\* The world model's claims follow from what the comparison reports of the same
\* runs: the gap is smaller on some metric, or it is averaged over a metric that was
\* not measured without calibration; observable updates show in the difference.
WorldClaimsMeasured ==
    \A v \in Shown : WorldBundle(Evidence(v).suite, Evidence(v).base) # NoBundle =>
        LET s == Evidence(v).suite
            c == WorldBundle(s, Evidence(v).base).summary IN
        /\ c.calibration_reduces_gap =>
               LET cold == s["no_calibration"].gap
                   full == s["full_system"].gap
               IN  \/ \E k \in RelevantMetrics(s) \cap DOMAIN cold : cold[k] > ValueOr(full, k, 0)
                   \/ (RelevantMetrics(s) \cap DOMAIN full) \ DOMAIN cold # {}
        /\ c.updates_observable => Deltas(s)["no_calibration"].updates > 0
        /\ c.ranking_hits <=> Deltas(s)["no_world_model"].hits >= 0
        /\ LET bundle == WorldBundle(s, Evidence(v).base)
            IN  \A shown \in Range(bundle.figures) \cup Range(bundle.tables) : shown \subseteq bundle.modes

\* The chapter's claims are backed by a row of the tables the package prints.
ChapterClaimsBacked ==
    \A v \in Shown :
        LET c == Evidence(v).chapter
            b == ChapterBundle(c) IN
        /\ b.summary.forced_exposes => \E p \in DOMAIN c.cross : b.transfer[p].blocks_harm
        /\ b.summary.same_family_beneficial => \A p \in DOMAIN c.same : b.transfer[p].beneficial
        /\ \A t \in DOMAIN c.repeated : ReducesCalls(c.repeated[t]) => BeneficialShown(v)[t]
        /\ (\E p \in DOMAIN c.cross : CaseScore(c.cross[p]) > 0) =>
               \E p \in DOMAIN b.cases : b.cases[p] /\ CaseScore(c.cross[p]) > 0

\* The physical-validity boundary and the benchmark reports word the conditions
\* of a benchmark with functions of their own: they never contradict each other.
BoundaryAgreesWithReports ==
    \A v \in Shown : \A b \in DOMAIN Evidence(v).contract :
        LET d == Evidence(v).contract[b]
            rows == ReportRows(Evidence(v).contract) IN
        /\ BoundaryProfile(d) = "single_point_nominal" <=>
               rows.robustness[b] = "nominal_only_contract"
        /\ rows.family[d.family].truths = {"demonstrator_truth"} =>
               rows.robustness[b] # "configured_robustness_candidate"
        /\ rows.fidelity[b] = "configured_robustness_candidate" =>
               ClaimTier(d) = "configured_truth_candidate"

\* The paper finds the figures and tables it puts in its main part in every planner
\* bundle; a bar of the chapter is a row of its tables, although a chart draws only the
\* first value of each series, and the transfer figures draw all they hold.
FiguresBacked ==
    \A v \in Shown :
        LET s == Evidence(v).suite
            c == Evidence(v).chapter
            bars == Drawn(RepeatedFigures(c).calls)
            transfers == TransferFigures(c) IN
        /\ HasComparison(s) =>
              /\ PlannerLayout(PlannerBundle(s)).figures.main = MainPlannerFigures
              /\ PlannerLayout(PlannerBundle(s)).tables.main = MainPlannerTables
        /\ \A m \in DOMAIN bars :
              \E t \in DOMAIN c.repeated : bars[m] = <<c.repeated[t][m].calls>>
        /\ Drawn(transfers.same) = transfers.same /\ Drawn(transfers.cross) = transfers.cross

\* What is printed twice, or computed twice from the same evidence, is the same.
CopiesAgree == AppendixAgrees /\ TablesAgree /\ BoundaryAgreesWithReports

\* Every claim of the package follows from the runs it was computed from.
ClaimsMeasured ==
    /\ PlannerClaimsAgree
    /\ RolloutClaimGrounded
    /\ WorldClaimsMeasured
    /\ ChapterClaimsBacked
    /\ FiguresBacked

\* A build ends: it closes, or it stops at a file it cannot parse.
BuildsEnd == pc # 0 ~> pc = 0
=============================================================================
