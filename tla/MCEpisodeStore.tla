--------------------------- MODULE MCEpisodeStore ---------------------------
(* One run of a Bayesian optimization and two of an evolution, on one store;  *)
(* of four outcomes two are at one place, and one is dominated by another.    *)
EXTENDS EpisodeStore

MCOptimizerOf(p) == IF p = "b" THEN "bo" ELSE "cmaes"
Point(at, gbw, power, margin) == [at |-> at, gbw |-> gbw, power |-> power, margin |-> margin]
MCRunBound(p) == IF p = "b" THEN 1 ELSE 2
MCOutcome == {Point(1, 3, 12, TRUE), Point(1, 10, 12, TRUE), Point(30, 12, 8, TRUE),
              Point(60, 9, 7, TRUE)}
=============================================================================
