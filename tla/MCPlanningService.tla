------------------------- MODULE MCPlanningService -------------------------
(* Small instances of PlanningService.  A candidate is the path of mutations *)
(* that made it from a seed; Child gives one path per anchor, phase and      *)
(* mutation, as the hash of the code does.  Paths longer than the rollouts   *)
(* can pay for are left out, so the last level is never expanded.            *)
EXTENDS PlanningService, Sequences

\* Generations of mutations the rollouts pay for.
MCDepth == (RolloutBudget + Branching - 1) \div Branching

PhaseIndex ==
    [feasibility_bootstrapping |-> 1, performance_refinement |-> 2,
     calibration_recovery |-> 3, robustness_verification |-> 4, terminated |-> 5]

MutationTag == {10 * i + k : i \in 1..5, k \in 1..Branching}

MCSeeds == {<<0>>}
MCTwoSeeds == {<<0>>, <<1>>}

MCCandidate ==
    UNION {{seed \o path : path \in [1..n -> MutationTag]} :
             n \in 0..MCDepth, seed \in Seeds}

MCChild(a, ph, k) ==
    IF Len(a) <= MCDepth THEN Append(a, 10 * PhaseIndex[ph] + k) ELSE a

Promising == [tier |-> "rollout_ready", mustEscalate |-> FALSE, feasibility |-> 90,
              value |-> 70, confidence |-> 80, nearBoundary |-> FALSE]
Urgent    == [tier |-> "must_escalate", mustEscalate |-> TRUE, feasibility |-> 60,
              value |-> 50, confidence |-> 60, nearBoundary |-> TRUE]
Doubtful  == [tier |-> "screening_only", mustEscalate |-> FALSE, feasibility |-> 40,
              value |-> 50, confidence |-> 40, nearBoundary |-> FALSE]
Blocked   == [tier |-> "hard_block", mustEscalate |-> FALSE, feasibility |-> 30,
              value |-> 60, confidence |-> 10, nearBoundary |-> FALSE]
Hopeless  == [tier |-> "ranking_ready", mustEscalate |-> FALSE, feasibility |-> 5,
              value |-> 20, confidence |-> 60, nearBoundary |-> FALSE]

\* The last mutation decides; the second bundle version is the more wary one.
MCPredict(b, c) ==
    LET k == IF Len(c) = 1 THEN 0 ELSE c[Len(c)] % 10
    IN  CASE k = 0 -> IF b = 1 THEN Doubtful ELSE Urgent
          [] k = 1 -> IF b = 1 THEN Promising ELSE Blocked
          [] OTHER -> IF b = 1 THEN Hopeless ELSE Promising

\* A world model that trusts every candidate.
MCPredictTrusting(b, c) == Promising
=============================================================================
