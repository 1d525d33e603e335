-------------------------- MODULE SurrogateTraining --------------------------
(***************************************************************************)
(* How a surrogate is trained on the answers of earlier experiments: the   *)
(* dataset (libs/world_model/dataset_builder.py), its split, the weighted  *)
(* nearest neighbours and the evaluation                                   *)
(* (libs/world_model/trainable_surrogate.py).                              *)
(*                                                                         *)
(* Numbers are integers: a normalized parameter, a score, a confidence and *)
(* a coverage are in percent, the value of a metric is in a unit of its    *)
(* own; what the code rounds to six digits is rounded to that unit.        *)
(***************************************************************************)
EXTENDS Lists, SequencesExt, FiniteSetsExt

CONSTANTS
    CircuitFamilies,     \* a sequence: the families, in the order of their names
    Metrics,             \* the metrics that are told apart
    FeatureKeys,         \* the normalized parameters a record carries
    Runs, Candidates,
    Digest,              \* Digest[<<c, r>>] in 0 .. 4: the hash of candidate and run, modulo 5
    MinimumEvalRecords,  \* of the training configuration
    KNeighbors,          \* of the training configuration
    ConfigTargets        \* target_metrics of the configuration; {} for those of the dataset

Families == Range(CircuitFamilies)

ASSUME TrainingAssumption ==
    /\ CircuitFamilies \in Seq(Families)
    /\ \A i, j \in DOMAIN CircuitFamilies : CircuitFamilies[i] = CircuitFamilies[j] => i = j
    /\ IsFiniteSet(Metrics) /\ ConfigTargets \subseteq Metrics
    /\ MinimumEvalRecords \in Nat

Abs(n) == IF n < 0 THEN -n ELSE n
Clip(n, low, high) == IF n < low THEN low ELSE IF n > high THEN high ELSE n
\* round(n / d), for d > 0.
Rounded(n, d) == (2 * n + d) \div (2 * d)
Percent == 0 .. 100
\* f is a map from some of S to T.
MapOf(f, S, T) == DOMAIN f \subseteq S /\ \A x \in DOMAIN f : f[x] \in T
Total(S, f) == SumFunctionOnSet(f, S)
Mean(S, f) == IF S = {} THEN 0 ELSE Rounded(Total(S, f), Cardinality(S))

(***************************************************************************)
(* The dataset.                                                            *)
(***************************************************************************)

\* One entry of verification_stats with the snapshot of its candidate, if there is one.
VerificationStats(v) ==
    /\ <<v.run, v.candidate>> \in Runs \X Candidates /\ v.family \in Families
    /\ v.snapshot \in BOOLEAN
    /\ v.normalized \in [FeatureKeys -> Int]
    /\ MapOf(v.measured, Metrics, Int)

Splits == {"train", "eval"}
DatasetRecord(r) ==
    /\ r.id \in Runs \X Candidates
    /\ <<r.split, r.family>> \in Splits \X Families
    /\ r.normalized \in [FeatureKeys -> Int]
    /\ MapOf(r.measured, Metrics, Int)

\* _split_for_record: of the candidate and the run.
SplitForRecord(v) == IF Digest[<<v.candidate, v.run>>] = 0 THEN "eval" ELSE "train"

\* _build_records; a verification without a snapshot leaves no record.
Records(stats) ==
    LET record == [n \in DOMAIN stats |->
                     [id |-> <<stats[n].run, stats[n].candidate>>,
                      split |-> SplitForRecord(stats[n]),
                      family |-> stats[n].family, normalized |-> stats[n].normalized,
                      measured |-> stats[n].measured]]
    IN  Chosen(record, {n \in DOMAIN stats : stats[n].snapshot})

OfFamily(records, f) == Chosen(records, {n \in DOMAIN records : records[n].family = f})
\* _cap_records_by_family: without a cap the order of the runs, else family by family.
Capped(records, cap) ==
    IF cap = 0 THEN records
    ELSE FlattenSeq([n \in DOMAIN CircuitFamilies |->
                       FirstOf(cap, OfFamily(records, CircuitFamilies[n]))])

FamilyDatasetSummary ==
    [records : Nat, train : Nat, eval : Nat, targets : SUBSET Metrics]
TargetsOf(records) == UNION {DOMAIN records[n].measured : n \in DOMAIN records}
CountOf(records, split) == Cardinality({n \in DOMAIN records : records[n].split = split})
FamilySummary(records) ==
    [records |-> Len(records), train |-> CountOf(records, "train"),
     eval |-> CountOf(records, "eval"), targets |-> TargetsOf(records)]

WorldModelDatasetBundle(d) ==
    /\ \A n \in DOMAIN d.records : DatasetRecord(d.records[n])
    /\ d.sampling \in {"family_as_observed", "family_balanced_cap"}
    /\ d.scope \in {"experiment_suite", "benchmark_multitask"}
    /\ d.targets \subseteq Metrics
    /\ MapOf(d.summaries, Families, FamilyDatasetSummary)
\* build_world_model_dataset, of the records it keeps.
DatasetOf(records, cap) ==
    LET covered == {records[n].family : n \in DOMAIN records}
    IN  [records   |-> records,
         sampling  |-> IF cap = 0 THEN "family_as_observed" ELSE "family_balanced_cap",
         scope     |-> IF Cardinality(covered) > 1 THEN "benchmark_multitask"
                                                   ELSE "experiment_suite",
         targets   |-> TargetsOf(records),
         summaries |-> [f \in covered |-> FamilySummary(OfFamily(records, f))]]
WorldModelDataset(stats, cap) == DatasetOf(Capped(Records(stats), cap), cap)

(***************************************************************************)
(* The split.                                                              *)
(***************************************************************************)

SplitSources == {"dataset_declared", "single_record_reuse", "fallback_missing_eval",
                 "fallback_missing_train"}
SplitSummary(s) ==
    /\ s.source \in SplitSources
    /\ \A n \in DOMAIN s.train : DatasetRecord(s.train[n])
    /\ \A n \in DOMAIN s.eval : DatasetRecord(s.eval[n])

SplitOf(records, split) == Chosen(records, {n \in DOMAIN records : records[n].split = split})
Summary(source, train, eval) == [source |-> source, train |-> train, eval |-> eval]
LastOf(n, s) == SubSeq(s, Max({1, Len(s) - n + 1}), Len(s))

\* _resolve_train_eval_records
ResolvedSplit(records) ==
    LET train == SplitOf(records, "train")
        eval  == SplitOf(records, "eval")
        last  == LastOf(MinimumEvalRecords, records)
        upTo(n) == SubSeq(records, 1, n)
    IN  IF Len(records) = 1 THEN Summary("single_record_reuse", records, records)
        ELSE IF eval = <<>>
        THEN Summary("fallback_missing_eval", upTo(Len(records) - Len(last)), last)
        ELSE IF train = <<>>
        THEN Summary("fallback_missing_train",
                     upTo(Max({1, Len(records) - MinimumEvalRecords})), eval)
        ELSE Summary("dataset_declared", train, eval)

IdsOf(records) == {records[n].id : n \in DOMAIN records}

(***************************************************************************)
(* The prediction: the k nearest examples, weighted with the inverse of    *)
(* their distance.                                                         *)
(***************************************************************************)

\* _distance, in the percent of the normalized parameters.
Distance(a, b) == Total(FeatureKeys, [k \in FeatureKeys |-> Abs(a[k] - b[k])])

\* The examples that are compared: those of the family, or all when there are none.
Comparable(examples, family) ==
    LET own == {n \in DOMAIN examples : examples[n].family = family}
    IN  IF own = {} THEN DOMAIN examples ELSE own
\* The first k of them by distance; the sort is stable.
Neighbors(examples, family, at) ==
    LET pool == Comparable(examples, family)
        far  == [n \in pool |-> Distance(at, examples[n].normalized)]
        nearer(n) == {i \in pool : far[i] < far[n] \/ (far[i] = far[n] /\ i < n)}
    IN  {n \in pool : Cardinality(nearer(n)) < Max({1, KNeighbors})}

\* An example at the very place outweighs the others a million times: they do not count.
Weight(examples, near, at, n) ==
    LET far(i) == Distance(at, examples[i].normalized)
    IN  IF \E i \in near : far(i) = 0 THEN (IF far(n) = 0 THEN 1 ELSE 0)
        ELSE 6000 \div far(n)

\* _prediction_from_neighbors, one metric: [value, spread].
FromNeighbors(examples, near, at, m) ==
    LET known  == {n \in near : m \in DOMAIN examples[n].measured}
        weight == [n \in known |-> Weight(examples, known, at, n)]
        total  == Max({1, Total(known, weight)})
        value  == Rounded(Total(known, [n \in known |-> weight[n] * examples[n].measured[m]]),
                          total)
    IN  IF known = {} THEN [value |-> 0, spread |-> 0]
        ELSE [value  |-> value,
              spread |-> Rounded(Total(known, [n \in known |->
                                   weight[n] * Abs(examples[n].measured[m] - value)]), total)]

\* predict_with_training_examples, of the neighbors "near".
InferenceFrom(examples, near, family, at, targets) ==
    LET far     == Mean(near, [n \in near |-> Distance(at, examples[n].normalized)])
        support == Rounded(100 * 100, 100 + far)
        ratio   == Rounded(100 * Cardinality({n \in near : examples[n].family = family}),
                           Max({1, Cardinality(near)}))
    IN  [of         |-> [m \in targets |-> FromNeighbors(examples, near, at, m)],
         support    |-> support,
         ratio      |-> ratio,
         confidence |-> Min({100, Rounded(60 * support + 40 * ratio, 100)}),
         nearest    |-> {examples[n].id : n \in near}]
Inference(examples, family, at, targets) ==
    InferenceFrom(examples, Neighbors(examples, family, at), family, at, targets)

(***************************************************************************)
(* The training run.                                                       *)
(***************************************************************************)

PredictionInterval == [value : Int, truth : Int, spread : Nat, low : Int, high : Int]
EvaluationExample(e) ==
    /\ {e.id} \cup e.nearest \subseteq Runs \X Candidates
    /\ e.confidence \in Percent
    /\ MapOf(e.intervals, Metrics, PredictionInterval)

\* _interval_half_width, at the default scale.
HalfWidth(value, spread) == Max({Rounded(3 * Abs(value), 100), spread})
IntervalOf(p, truth) ==
    [value |-> p.value, truth |-> truth, spread |-> p.spread,
     low |-> p.value - HalfWidth(p.value, p.spread),
     high |-> p.value + HalfWidth(p.value, p.spread)]
Covered(i) == i.low <= i.truth /\ i.truth <= i.high
\* A record is hit when it has a target and the interval of every target holds the truth.
Hit(e) == DOMAIN e.intervals # {} /\ \A m \in DOMAIN e.intervals : Covered(e.intervals[m])

EvaluationWith(record, targets, inference) ==
    [id |-> record.id, nearest |-> inference.nearest, confidence |-> inference.confidence,
     intervals |-> [m \in targets \cap DOMAIN record.measured |->
                      IntervalOf(inference.of[m], record.measured[m])]]
EvaluationOf(record, examples, targets) ==
    EvaluationWith(record, targets,
                   Inference(examples, record.family, record.normalized, targets))

MetricSummary == [mae : Nat, coverage : Percent, sample_count : Nat]
\* per_metric_summary and coverage_summary
SummaryOf(evaluations, m) ==
    LET judged == {n \in DOMAIN evaluations : m \in DOMAIN evaluations[n].intervals}
        at(n)  == evaluations[n].intervals[m]
    IN  [mae |-> Mean(judged, [n \in judged |-> Abs(at(n).value - at(n).truth)]),
         coverage |-> Mean(judged, [n \in judged |-> IF Covered(at(n)) THEN 100 ELSE 0]),
         sample_count |-> Cardinality(judged)]

ConfidenceAlignment == [confidence : Percent, hit_rate : Percent, sample_count : Nat]
AlignmentOf(evaluations) ==
    [confidence   |-> Mean(DOMAIN evaluations,
                           [n \in DOMAIN evaluations |-> evaluations[n].confidence]),
     hit_rate     |-> Mean(DOMAIN evaluations,
                           [n \in DOMAIN evaluations |-> IF Hit(evaluations[n]) THEN 100
                                                                              ELSE 0]),
     sample_count |-> Len(evaluations)]

SurrogateTrainingRun(r) ==
    /\ SplitSummary(r.split)
    /\ r.targets \subseteq Metrics
    /\ \A n \in DOMAIN r.evaluations : EvaluationExample(r.evaluations[n])
    /\ MapOf(r.of, Metrics, MetricSummary)
    /\ r.alignment \in ConfidenceAlignment

\* Without training or evaluation records train_tabular_surrogate raises.
Trainable(dataset) ==
    LET split == ResolvedSplit(dataset.records)
    IN  dataset.records # <<>> /\ split.train # <<>> /\ split.eval # <<>>

\* train_tabular_surrogate, of a split and the evaluation of all its evaluation records.
RunOf(split, targets, all) ==
    [split |-> split, targets |-> targets,
     evaluations |-> FirstOf(5, all),
     of |-> [m \in UNION {DOMAIN all[n].intervals : n \in DOMAIN all} |-> SummaryOf(all, m)],
     alignment |-> AlignmentOf(all)]
\* The training examples are the training records.
RunOfSplit(split, targets) ==
    RunOf(split, targets,
          [n \in DOMAIN split.eval |-> EvaluationOf(split.eval[n], split.train, targets)])
TrainedRun(dataset) ==
    RunOfSplit(ResolvedSplit(dataset.records),
               IF ConfigTargets = {} THEN dataset.targets ELSE ConfigTargets)
=============================================================================
