-------------------------- MODULE MCMemoryStudies --------------------------
(* Three steps at most; a response is no simulation, a failure, a failure    *)
(* twice, or a feasible candidate; a best known feasible candidate may be    *)
(* there by prediction only.                                                 *)
EXTENDS MemoryStudies

MCTask == {"ota_sizing", "ldo_sizing", "gap_explore"}
MCFamilyOf(t) == IF t = "ota_sizing" THEN "two_stage_ota"
                 ELSE IF t = "ldo_sizing" THEN "ldo" ELSE "bandgap"
MCTypeOf(t) == IF t = "gap_explore" THEN "exploration" ELSE "sizing"
MCSharedProfile(t, u) == IF t = u THEN 45 ELSE IF MCTypeOf(t) = MCTypeOf(u) THEN 30 ELSE 40

Ran(step, feasibility, class) ==
    [step |-> step, feasibility |-> feasibility, class |-> class]
MCResponses(n) ==
    {[executions |-> <<>>, predicted |-> FALSE],
     [executions |-> <<Ran(1, "constraint_fail", "design_failure")>>, predicted |-> TRUE],
     [executions |-> <<Ran(1, "feasible_nominal", "none")>>, predicted |-> TRUE]}
    \cup IF n < 2 THEN {}
         ELSE {[executions |-> <<Ran(1, "constraint_fail", "design_failure"),
                                 Ran(2, "constraint_fail", "design_failure")>>,
                predicted |-> FALSE]}
=============================================================================
