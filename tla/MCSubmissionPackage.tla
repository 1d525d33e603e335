-------------------------- MODULE MCSubmissionPackage --------------------------
EXTENDS SubmissionPackage


MCGbw == "gbw_hz"
MCMetrics == {"gbw_hz", "power_w"}
MCBenchmarks == {"ota2_v1", "bandgap_v1"}
MCReports == {"rollup", "robustness"}

Usual == [calls |-> 4, hits |-> 3, conv |-> 2, efficiency |-> 3, updates |-> 0, focused |-> 1,
          gap |-> ("gbw_hz" :> 2) @@ ("power_w" :> 1), confidence |-> 3, uncertainty |-> 1,
          phase |-> 1, replanned |-> 1, guided |-> 1, guidance |-> 1, failures |-> 1]
Better == [Usual EXCEPT !.calls = 3, !.hits = 4, !.conv = 1, !.updates = 1, !.guided = 2,
                        !.gap = ("gbw_hz" :> 1) @@ ("power_w" :> 1)]
Worse == [Usual EXCEPT !.calls = 5, !.hits = 2, !.conv = 3, !.efficiency = 1, !.guided = 0,
                       !.phase = 0, !.replanned = 0, !.failures = 2, !.uncertainty = 2]
Mixed == [Usual EXCEPT !.calls = 5, !.conv = 1, !.guided = 0, !.confidence = 1,
                       !.gap = "power_w" :> 3]
Partial == [Usual EXCEPT !.gap = "gbw_hz" :> 2]
Unmeasured == [Usual EXCEPT !.gap = <<>>, !.hits = 0, !.conv = 3]

Suite == [m \in MethodMode |-> Usual]
Base(p) == ("full_simulation_baseline" :> Worse) @@ ("no_world_model_baseline" :> Usual)
           @@ ("full_system" :> p)

Repeated(full, failures) ==
    LET row(calls, failed) == [calls |-> calls, failures |-> failed, steps |-> 2, gap |-> 1]
    IN  ("no_memory" :> row(3, 1)) @@ ("full_memory" :> row(full, failures))
        @@ [m \in {"episodic_retrieval_only", "episodic_plus_reflection"} |-> row(4, 0)]
Transfer(governed, harm, forced) ==
    ("no_memory" :> [calls |-> 3, steps |-> 2, harm |-> 0])
    @@ ("governed_transfer" :> [calls |-> governed, steps |-> 2, harm |-> harm])
    @@ ("no_governance" :> [calls |-> 3, steps |-> 2, harm |-> 1])
    @@ ("forced_transfer" :> [calls |-> 3, steps |-> 2, harm |-> forced])
Chapter(full, governed, harm, forced) ==
    [repeated |-> ("ota2_v1" :> Repeated(full, 1)) @@ ("bandgap_v1" :> Repeated(3, 0)),
     same |-> "ota2_to_folded" :> Transfer(governed, 0, 1),
     cross |-> ("ota2_to_ldo" :> Transfer(3, harm, 1)) @@ ("ota2_to_bandgap" :> Transfer(3, 0, forced))]
Definition(t, c, k) == [truth |-> t, family |-> "two_stage_ota", category |-> "amplifier",
                        corners |-> c, temperatures |-> 1, loads |-> k]
UsualContract == ("ota2_v1" :> Definition("demonstrator_truth", 1, 1))
                 @@ ("bandgap_v1" :> Definition("demonstrator_truth", 1, 0))
UsualChapter == Chapter(2, 2, 0, 2)
Input(s, b, c, d) == [suite |-> s, base |-> b, chapter |-> c, contract |-> d]
\* What is measured, named by what it differs in from the usual measurements.
Profiles == ("better" :> Better) @@ ("worse" :> Worse) @@ ("mixed" :> Mixed)
            @@ ("partial" :> Partial) @@ ("unmeasured" :> Unmeasured)
Usually == Input(Suite, Base(Better), UsualChapter, UsualContract)
First == <<"usual">>
MCRemeasured == <<"again">>
MCNames ==
    {First, MCRemeasured}
    \cup ({"mode"} \X MethodMode \X DOMAIN Profiles) \cup ({"without"} \X MethodMode)
    \cup ({"chapter"} \X {2, 3} \X {2, 3} \X {0, 1} \X {0, 2})
    \cup ({"contract"} \X {"demonstrator_truth", "configured_truth"} \X {1, 2} \X {1, 2})
Named(n) ==
    CASE n = First -> Usually
      [] n = MCRemeasured -> Input([Suite EXCEPT !["full_system"] = Worse], Base(Usual),
                                   Chapter(3, 3, 1, 0), UsualContract)
      [] n[1] = "mode" -> [Usually EXCEPT !.suite[n[2]] = Profiles[n[3]],
                                          !.base["full_system"] = Profiles[n[3]]]
      [] n[1] = "without" -> [Usually EXCEPT !.suite = [m \in MethodMode \ {n[2]} |-> Usual]]
      [] n[1] = "chapter" -> [Usually EXCEPT !.chapter = Chapter(n[2], n[3], n[4], n[5])]
      [] n[1] = "contract" -> [Usually EXCEPT !.contract["ota2_v1"] = Definition(n[2], n[3], n[4])]
MCMeasured == [n \in MCNames |-> Named(n)]

Scripts == Exporter \ {<<"planner_ci", Primary>>, <<"chapter", Primary>>}
Everything == Exporter \ {<<"chapter", Primary>>}
MCHistories == {[measured |-> n, ran |-> Everything] : n \in MCNames}
               \cup {[measured |-> First, ran |-> r] :
                        r \in {{}, Scripts, {<<"report", "rollup">>}}
                              \cup {Everything \ {e} : e \in Exporter}}
=============================================================================
