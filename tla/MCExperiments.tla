---------------------------- MODULE MCExperiments ----------------------------
(* Every mode on its own, and the pair a suite reports a reduction for.  The  *)
(* candidates are the one seed, its two mutations, and what a mutation of     *)
(* those gives; the samplers draw from two points of their own.               *)
EXTENDS Experiments

MCCandidate == {"seed", "a", "b", "deep", "x", "y"}
MCSeeds == {"seed"}
MCSamples == {"x", "y"}
MCChild(c, ph, k) ==
    IF c = "seed" THEN (IF k = 1 THEN "a" ELSE "b") ELSE "deep"

MCVersions == {"v1", "v2"}
\* What the world model says in two versions, and what the baselines invent.
MCBundles == MCVersions \cup {"guess", "full", "random", "coldBayes", "coldCmaes",
                              "coldRl", "dim", "dimRl", "bright"}

Belief(t, m, f, v, c) == [tier |-> t, mustEscalate |-> m, feasibility |-> f, value |-> v,
                          confidence |-> c, nearBoundary |-> FALSE]
MCPredict(b, c) ==
    CASE b = "v1" -> IF c = "b" THEN Belief("screening_only", FALSE, 40, 50, 40)
                     ELSE Belief("rollout_ready", FALSE, 70, 70, 80)
      [] b = "v2" -> IF c = "b" THEN Belief("rollout_ready", FALSE, 90, 70, 80)
                     ELSE Belief("must_escalate", TRUE, 60, 50, 60)
      [] b = "guess" -> Belief("ranking_ready", FALSE, 50, 60, 30)
      [] b = "full" -> Belief("must_escalate", TRUE, 50, 100, 15)
      [] b = "random" -> Belief("screening_only", FALSE, 50, 100, 12)
      [] b = "coldBayes" -> Belief("ranking_ready", FALSE, 35, 85, 15)
      [] b = "coldCmaes" -> Belief("ranking_ready", FALSE, 33, 78, 18)
      [] b = "coldRl" -> Belief("ranking_ready", FALSE, 34, 80, 20)
      [] b = "dim" -> Belief("ranking_ready", FALSE, 10, 50, 40)
      [] b = "dimRl" -> Belief("ranking_ready", FALSE, 12, 50, 40)
      [] OTHER -> Belief("ranking_ready", FALSE, 90, 50, 60)

MCNoStep == -1

MCPair == {<<"full_simulation_baseline", "full_system">>}
MCSuites == {<<m>> : m \in Mode} \cup MCPair
=============================================================================
