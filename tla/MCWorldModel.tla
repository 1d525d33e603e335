---------------------------- MODULE MCWorldModel ----------------------------
(* A task whose template is chosen by a variable, one free and one frozen     *)
(* numeric variable, and truths that agree or differ about two metrics.       *)
EXTENDS WorldModel

MCFamilies == <<"fc_ota", "two_ota">>
MCTemplates == <<"two_ota", "fc_ota">>
MCNormalized == [n \in Int |-> 50 * n]
MCDigest == [c \in Candidates, r \in Runs |-> IF c = "c1" THEN 0 ELSE 1]
MCProxy ==
    [f \in Families |-> [x \in Int |->
        IF f = "two_ota" THEN [pm |-> 600 - 90 * x, gbw |-> 300 + 120 * x]
        ELSE [pm |-> 540]]]

Parameters(choice, w) == [choice |-> choice, value |-> [w |-> w, l |-> 1]]
MCRequests == {[parameters |-> Parameters(1, 1), load |-> "nominal"],
               [parameters |-> Parameters(1, 3), load |-> "heavy"]}

Act(id, family, operator, targets, payload) ==
    [id |-> id, family |-> family, operator |-> operator, targets |-> targets,
     payload |-> payload]
Wider == Act("wider", "parameter_update", "shift", {"w"}, <<1>>)
Double == Act("double", "parameter_update", "scale", {"w"}, <<2>>)
Longer == Act("longer", "parameter_update", "shift", {"l"}, <<1>>)
Fold == Act("fold", "topology_switch", "set", {"choice"}, <<2>>)
Promote == Act("promote", "fidelity_upgrade", "promote_fidelity", {}, <<>>)
MCActions == {Wider, Double, Longer, Fold, Promote}
MCRollouts == {<<Wider, Double>>, <<Promote>>, <<Fold, Wider>>, <<Wider, Longer>>}

Truth(level, status, measured) == [level |-> level, status |-> status, measured |-> measured]
MCTruths == {Truth("configured_truth", "strong", [pm |-> 420, gbw |-> 480]),
             Truth("demonstrator_truth", "weak", [pm |-> 690])}

Stat(run, candidate, family, w, measured) ==
    [run |-> run, candidate |-> candidate, family |-> family, snapshot |-> TRUE,
     normalized |-> [w |-> 50 * w, l |-> 50], measured |-> measured]
MCExperiments ==
    {<<Stat("r1", "c1", "two_ota", 1, [pm |-> 450, gbw |-> 420]),
       Stat("r1", "c2", "two_ota", 2, [pm |-> 390]),
       [Stat("r1", "c3", "fc_ota", 1, [pm |-> 510]) EXCEPT !.snapshot = FALSE],
       Stat("r1", "c1", "two_ota", 1, [pm |-> 450, gbw |-> 420])>>,
     <<Stat("r2", "c2", "fc_ota", 1, [pm |-> 510]), Stat("r2", "c3", "fc_ota", 3, [pm |-> 480])>>,
     <<Stat("r1", "c2", "fc_ota", 2, [pm |-> 420]), Stat("r1", "c2", "fc_ota", 2, [pm |-> 420])>>,
     <<Stat("r2", "c1", "two_ota", 1, [pm |-> 450])>>}

\* The requests that leave something behind, but the first state: at most four
\* calibrations or trainings, a further state or a rollout in the place of two of them.
Bounded ==
    asked + Len(training) + Len(bundle.checkpoint)
    + 2 * (Cardinality(states) + Cardinality(rollouts) - 1) <= 4
=============================================================================
