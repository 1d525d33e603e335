------------------------ MODULE EpisodeConsolidation ------------------------
(***************************************************************************)
(* What is made of a list of episodes: MemoryConsolidator                  *)
(* (libs/memory/consolidation.py) and DesignPatternMiner                   *)
(* (libs/memory/design_pattern_miner.py).  An episode is a record [id,     *)
(* what], where "what" is the evaluation of a point: its place on one      *)
(* axis, its bandwidth (in 20 MHz), its power (in 0.1 mW) and whether a    *)
(* phase margin could be measured.                                         *)
(***************************************************************************)
EXTENDS Lists, SequencesExt

CONSTANT InfeasibleKept  \* the 20 of MemoryConsolidator.consolidate

\* check_constraints: the number of violated ones; a missing metric is a violated one.
Violations(e) ==
    (IF e.gbw < 4 THEN 1 ELSE 0) + (IF e.power > 15 THEN 1 ELSE 0)
    + (IF e.margin THEN 0 ELSE 1)
IsFeasible(e) == Violations(e) = 0

Feasible(eps) == Chosen(eps, {i \in DOMAIN eps : IsFeasible(eps[i].what)})
Infeasible(eps) == Chosen(eps, {i \in DOMAIN eps : ~IsFeasible(eps[i].what)})
\* The infeasible ones, those with the fewest violations first.
LeastViolating(eps) ==
    LET bad == Infeasible(eps)
    IN  SortedBy(bad, [i \in DOMAIN bad |-> Violations(bad[i].what)])

(***************************************************************************)
(* MemoryConsolidator                                                      *)
(***************************************************************************)

\* _compute_param_ranges, for the one axis.
ParamRange(eps) ==
    LET places == {eps[i].what.at : i \in DOMAIN eps} IN Max(places) - Min(places)

\* _is_similar, at a threshold of 0.05 of the range; without a range nothing differs.
Similar(a, b, range) ==
    \/ range = 0
    \/ 20 * (IF a.what.at < b.what.at THEN b.what.at - a.what.at
                                      ELSE a.what.at - b.what.at) < range

\* Mutant: of two similar episodes the first is kept, whatever came of it.
KeepsFirst(kept, ep, range) ==
    IF \E k \in Range(kept) : Similar(ep, k, range) THEN kept ELSE Append(kept, ep)

\* One episode more for _deduplicate: only the first similar one is looked at.
WithEpisode(kept, ep, range) ==
    LET similar == {i \in DOMAIN kept : Similar(ep, kept[i], range)}
    IN  IF similar = {} THEN Append(kept, ep)
        ELSE IF IsFeasible(ep.what) /\ ~IsFeasible(kept[Min(similar)].what)
        THEN Append(RemoveAt(kept, Min(similar)), ep)
        ELSE kept

\* _deduplicate; of a single episode no range is known, and it stays.
Deduplicated(eps) ==
    IF Len(eps) <= 1 THEN eps
    ELSE LET range == ParamRange(eps)
             kept[n \in 0 .. Len(eps)] ==
                 IF n = 0 THEN <<>> ELSE WithEpisode(kept[n - 1], eps[n], range)
         IN  kept[Len(eps)]

\* The metrics as _pareto_filter compares them: more is better of each, and a missing
\* one is zero.
Vector(e) == <<e.gbw, IF e.margin THEN 1 ELSE 0, e.power>>
Dominates(a, b) ==
    LET u == Vector(a.what) v == Vector(b.what)
    IN  (\A i \in DOMAIN u : u[i] >= v[i]) /\ u # v

ParetoFilter(eps) ==
    Chosen(eps, {i \in DOMAIN eps : ~\E other \in Range(eps) : Dominates(other, eps[i])})

\* consolidate.
Consolidated(eps) ==
    LET unique  == Deduplicated(eps)
        good    == Feasible(unique)
        pareto  == IF Len(good) > 2 THEN ParetoFilter(good) ELSE good
        room    == IF Len(pareto) > InfeasibleKept THEN Len(pareto) ELSE InfeasibleKept
    IN  pareto \o FirstOf(room, LeastViolating(unique))

\* forget at the threshold 0.3: an infeasible episode stays if at most seven tenths of
\* its metrics are violated.
MetricCount(e) == IF e.margin THEN 3 ELSE 2
Forgivable(e) ==
    LET v == Violations(e)
        m == IF MetricCount(e) > v THEN MetricCount(e) ELSE v + 1
    IN  10 * v <= 7 * m
Forgotten(eps) ==
    Chosen(eps, {i \in DOMAIN eps : IsFeasible(eps[i].what) \/ Forgivable(eps[i].what)})

(***************************************************************************)
(* DesignPatternMiner                                                      *)
(***************************************************************************)

\* suggest_warm_start.
SuggestWarmStart(eps, n) ==
    LET good == FirstOf(n, Feasible(eps))
    IN  good \o FirstOf(n - Len(good), LeastViolating(eps))

(***************************************************************************)
(* What must hold, for any list of episodes                                *)
(***************************************************************************)

\* Consolidating and forgetting lose no feasible knowledge: what a feasible episode
\* showed is still shown by one that is as good, at its place or near it, or by one
\* that dominates such a one.
FeasibleRepresented(eps) ==
    LET kept == Range(Forgotten(Consolidated(eps)))
        range == ParamRange(eps)
    IN  \A ep \in Range(Feasible(eps)) :
            \E near \in Range(Feasible(eps)), k \in kept :
                /\ near = ep \/ Similar(near, ep, range)
                /\ IsFeasible(k.what) /\ (k = near \/ Dominates(k, near))

\* A start that violates constraints is only suggested when every feasible design is.
SuggestionsPreferFeasible(eps, n) ==
    LET points == Range(SuggestWarmStart(eps, n))
    IN  (\E ep \in points : ~IsFeasible(ep.what)) => Range(Feasible(eps)) \subseteq points
=============================================================================
