--------------------------- MODULE MCMemoryLayer ---------------------------
(* Two OTA tasks of different types and an LDO task; three searches, one of *)
(* which has the same action family first in two of its effective steps;     *)
(* verified well, verified badly, and not verified.                          *)
EXTENDS MemoryLayer

MCTask == {"ota_sizing", "ota_explore", "ldo_sizing"}
MCFamilyOf(t) == IF t = "ldo_sizing" THEN "ldo" ELSE "two_stage_ota"
MCTypeOf(t) == IF t = "ota_explore" THEN "exploration" ELSE "sizing"
MCSharedProfile(t, u) ==
    IF t = u THEN 45 ELSE IF MCFamilyOf(t) = MCFamilyOf(u) THEN 20 ELSE 5

Step(tag, progress, chain) == [tag |-> tag, progress |-> progress, chain |-> chain]
Start == Step("initialized", TRUE, <<>>)

MCTwice == [episode |-> "e1", task |-> "ota_sizing", failures |-> <<"stability">>,
            traces |-> <<Start, Step("candidate_evaluated", TRUE, <<"widen">>),
                         Step("candidate_evaluated", TRUE, <<"widen", "bias">>)>>,
            phase |-> "calibration_recovery", pressure |-> 85, alerts |-> FALSE,
            best |-> "c1", bestInfeasible |-> "c2"]
MCBlocked == [episode |-> "e2", task |-> "ota_explore", failures |-> <<"stability">>,
              traces |-> <<Start, Step("candidate_evaluated", FALSE, <<"bias">>)>>,
              phase |-> "terminated", pressure |-> 99, alerts |-> TRUE,
              best |-> NoCandidate, bestInfeasible |-> "c2"]
MCPlain == [episode |-> "e3", task |-> "ldo_sizing", failures |-> <<>>,
            traces |-> <<Start, Step("phase_advanced", TRUE, <<"bias">>)>>,
            phase |-> "calibration_recovery", pressure |-> 40, alerts |-> FALSE,
            best |-> "c3", bestInfeasible |-> NoCandidate]

MCGood(c) == [feasibility |-> "feasible_certified", unsatisfied |-> <<>>,
              class |-> "none", disagrees |-> FALSE, robustness |-> "robust_certified",
              candidate |-> c]
MCBad(c) == [feasibility |-> "constraint_fail", unsatisfied |-> <<"gain", "stability">>,
             class |-> "design_failure", disagrees |-> TRUE,
             robustness |-> "nominal_only", candidate |-> c]

MCIngestions == {<<MCTwice, MCGood("c1")>>, <<MCBlocked, NoVerification>>,
                 <<MCBlocked, MCBad("c2")>>, <<MCPlain, MCGood("c3")>>}
=============================================================================
