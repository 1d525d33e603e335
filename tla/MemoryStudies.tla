--------------------------- MODULE MemoryStudies ---------------------------
(***************************************************************************)
(* The memory evidence (libs/eval/memory_evidence.py): repeated episodes   *)
(* under four memory modes, and the transfer of the memory of a source     *)
(* task to a target task under four transfer modes.  A study drives the    *)
(* memory layer; what the planning truth loop does with a task and a       *)
(* number of steps is a response: its simulations in order, and whether it *)
(* ended with a best known feasible candidate.  The jitter of seeds and    *)
(* initial points, metric values, prediction gaps and effect sizes are     *)
(* data and left out.                                                      *)
(***************************************************************************)
EXTENDS MemoryLayer

CONSTANTS
    Episodes, SourceEpisodes,
    MaxSteps,
    Responses(_)     \* what the loop can answer within that many steps

ASSUME StudyAssumption ==
    /\ Episodes \in Nat \ {0, 1} /\ SourceEpisodes \in Nat /\ MaxSteps \in Nat \ {0}

RepeatedModes == <<"no_memory", "episodic_retrieval_only", "episodic_plus_reflection",
                   "full_memory">>
TransferModes == <<"no_memory", "governed_transfer", "no_governance", "forced_transfer">>

VARIABLES
    source, target, \* the tasks of the study
    study,      \* "ablation", "source" while the source memory is built, "transfer", "done"
    mode,       \* index of the mode under way
    index,      \* episode_index
    prior,      \* failure classes with a positive count in prior_failure_counts
    previous,   \* previous_primary_failure
    streak,     \* consecutive_same_failure_count
    records,    \* the records of the mode under way
    summaries   \* the mode summaries

studyVars == <<source, target, study, mode, index, prior, previous, streak, records, summaries>>
allVars == <<vars, studyVars>>

NoneYet == "none"

(***************************************************************************)
(* What is read off a response                                             *)
(***************************************************************************)

IsFeasible(x) == x.feasibility \in {"feasible_nominal", "feasible_certified"}
FeasibleOnes(r) == Chosen(r.executions, {i \in DOMAIN r.executions : IsFeasible(r.executions[i])})

\* _primary_verification: the first feasible execution, or else the last.
Primary(r) ==
    LET good == FeasibleOnes(r)
    IN  IF r.executions = <<>> THEN NoVerification
        ELSE IF good # <<>> THEN good[1] ELSE Last(r.executions)

StepToFirstFeasible(r) ==
    LET good == FeasibleOnes(r)
    IN  IF good = <<>> THEN 0 ELSE good[1].step

Failed(x) == x.class # "none"
FailedOnes(r) == Chosen(r.executions, {i \in DOMAIN r.executions : Failed(r.executions[i])})
DominantFailures(r) ==
    LET failed == FailedOnes(r)
    IN  FirstOf(5, OrderedUnique([i \in DOMAIN failed |-> failed[i].class]))

\* _repeated_failure_count: seen in an earlier episode of the mode, or in this one.
RepeatedFailures(r, before) ==
    Cardinality({i \in DOMAIN r.executions :
        /\ Failed(r.executions[i])
        /\ \/ r.executions[i].class \in before
           \/ \E j \in 1..(i - 1) : r.executions[j].class = r.executions[i].class})

\* "best_feasible_found" of a record.
FeasibleFound(r) == r.predicted \/ \E i \in DOMAIN r.executions : IsFeasible(r.executions[i])

(***************************************************************************)
(* What memory does to a task                                              *)
(***************************************************************************)

NotRetrieved == [episodes |-> <<>>, precision |-> 0, advice |-> {}]

FewerSteps == IF MaxSteps = 1 THEN 1 ELSE MaxSteps - 1

\* _lookup_episode and _memory_seed_values: the first hit is replayed if it left a
\* candidate.
WarmStarts(found) ==
    /\ found.episodes # <<>>
    /\ \E e \in Range(episodes) : e.id = found.episodes[1] /\ e.seed # NoCandidate

Guidance(found) ==
    {a \in found.advice : a.type \in {"search_adjustment", "validation_focus",
                                      "trust_adjustment", "budget_adjustment"}}
Blocked(found, m) ==
    IF m = "full_memory" THEN {a \in Guidance(found) : a.confidence < 55} ELSE {}

\* _apply_reflection_guidance: the steps it leaves and the advice it consumes, one for
\* the tuned defaults and one for the seed it adds to the seed every compiled task has.
GuidedSteps(found, m) == IF Guidance(found) \ Blocked(found, m) = {} THEN MaxSteps
                                                                     ELSE FewerSteps
Consumed(found, m) ==
    IF m \notin {"episodic_plus_reflection", "full_memory"} THEN 0
    ELSE IF Guidance(found) \ Blocked(found, m) = {} THEN 0
    ELSE IF m = "full_memory" THEN 2 ELSE 1

\* Mutant: the cut for a warm start comes on top of the cut for the guidance.
EffectiveStepsStacked(found, m) ==
    (IF m \in {"episodic_plus_reflection", "full_memory"} THEN GuidedSteps(found, m)
                                                          ELSE MaxSteps)
    - (IF WarmStarts(found) /\ found.precision >= 5000 THEN 1 ELSE 0)

EffectiveSteps(found, m) ==
    IF WarmStarts(found) /\ found.precision >= 5000 THEN FewerSteps
    ELSE IF m \in {"episodic_plus_reflection", "full_memory"} THEN GuidedSteps(found, m)
    ELSE MaxSteps

\* The search that is ingested after a response.
SearchOf(task, m, n, r) ==
    [episode |-> ToString(<<task, m, n>>), task |-> task, failures |-> <<>>,
     traces |-> << [tag |-> "initialized", progress |-> TRUE, chain |-> <<>>] >>
                \o [i \in DOMAIN r.executions |->
                      [tag |-> "simulation_feedback_ingested",
                       progress |-> IsFeasible(r.executions[i]), chain |-> <<"mutate">>]],
     phase |-> "local_refinement", pressure |-> 50, alerts |-> FALSE,
     best |-> IF r.predicted THEN "c" ELSE NoCandidate,
     bestInfeasible |-> IF r.executions = <<>> THEN NoCandidate ELSE "c"]
VerificationOf(x) ==
    [feasibility |-> x.feasibility, unsatisfied |-> <<>>, class |-> x.class,
     disagrees |-> FALSE, robustness |-> "nominal_only", candidate |-> "c"]

\* The loop numbers its simulations by its steps, of which there are at most n.
ResponseOK(r, n) ==
    /\ r.executions \in Seq([step : 1 .. n, feasibility : STRING, class : STRING])
    /\ NoVerification \notin Range(r.executions)
    /\ r.predicted \in BOOLEAN
ASSUME ResponseAssumption ==
    \A n \in {MaxSteps, FewerSteps} : \A r \in Responses(n) : ResponseOK(r, n)

\* What a study has the memory layer ingest: the responses with a simulation.
StudyIngestions ==
    {<<SearchOf(of[1], of[2], of[3], of[4]), VerificationOf(Primary(of[4]))>> :
        of \in Task \X (Range(RepeatedModes) \cup {"source"})
               \X (0 .. Episodes + SourceEpisodes)
               \X {r \in Responses(MaxSteps) \cup Responses(FewerSteps) : r.executions # <<>>}}
ASSUME StudyIngestionAssumption == StudyIngestions \subseteq Ingestions

Remember(task, m, r) ==
    IF Primary(r) = NoVerification THEN UNCHANGED vars
    ELSE IngestEpisode(SearchOf(task, m, index, r), VerificationOf(Primary(r)))

(***************************************************************************)
(* The repeated-episode ablation                                           *)
(***************************************************************************)

EmptyBundle ==
    /\ episodes' = <<>> /\ patterns' = <<>> /\ reflections' = <<>>
    /\ valid' = TRUE /\ answer' = NoAnswer

StudyInit ==
    /\ Init
    /\ source \in Task /\ target \in Task
    /\ study \in {"ablation", "source"} /\ (study = "ablation" => source = target)
    /\ mode = 1 /\ index = 0
    /\ prior = {} /\ previous = NoneYet /\ streak = 0
    /\ records = <<>> /\ summaries = <<>>

\* One round of the loop over the episodes of a mode: retrieve, warm start, guide, run
\* the loop, count the failures, ingest, record.
RunAblationEpisode ==
    LET m     == RepeatedModes[mode]
        found == IF m = "no_memory" \/ episodes = <<>> THEN NotRetrieved
                                                        ELSE RetrievalResult(target)
        steps == EffectiveSteps(found, m)
    IN  /\ study = "ablation" /\ index < Episodes
        /\ \E r \in Responses(steps) :
             LET failures == DominantFailures(r)
                 primary  == IF failures = <<>> THEN NoneYet ELSE failures[1]
                 repeated == RepeatedFailures(r, prior)
             IN  /\ streak' = IF primary # NoneYet /\ primary = previous THEN streak + 1
                                                                       ELSE 0
                 /\ previous' = primary
                 /\ prior' = prior \cup Range(failures)
                 /\ IF m = "no_memory" THEN UNCHANGED vars ELSE Remember(target, m, r)
                 /\ records' = Append(records,
                      [mode |-> m, before |-> Len(episodes), retrieved |-> Len(found.episodes),
                       consumed |-> Consumed(found, m), warm |-> WarmStarts(found),
                       blocked |-> Cardinality(Blocked(found, m)), steps |-> steps,
                       found |-> FeasibleFound(r), calls |-> Len(r.executions),
                       step |-> StepToFirstFeasible(r), repeated |-> repeated,
                       dominant |-> primary \in prior, streak |-> streak',
                       aligned |-> Consumed(found, m) > 0 /\ (r.predicted \/ repeated = 0),
                       harmful |-> FALSE,
                       remembered |-> m # "no_memory" /\ r.executions # <<>>])
        /\ index' = index + 1
        /\ UNCHANGED <<source, target, study, mode, summaries>>

Total(field) == FoldLeft(LAMBDA sum, r : sum + r[field], 0, records)
Number(Test(_)) == Cardinality({i \in DOMAIN records : Test(records[i])})

\* _summarize_mode and _summarize_transfer_mode: totals in place of averages, since
\* every mode has the same number of records.
ModeSummary ==
    [found    |-> Number(LAMBDA r : r.found),
     calls    |-> Total("calls"),
     hits     |-> Number(LAMBDA r : r.step > 0),
     steps    |-> Total("step"),
     repeated |-> Total("repeated"),
     warm     |-> Number(LAMBDA r : r.warm),
     blocked  |-> Number(LAMBDA r : r.blocked > 0),
     aligned  |-> Number(LAMBDA r : r.aligned),
     harmful  |-> Number(LAMBDA r : r.harmful)]

\* The averages over the episodes with a first feasible step are 0.0 if there is none.
LowerAverageStep(a, b) ==
    IF b.hits = 0 THEN FALSE
    ELSE IF a.hits = 0 THEN b.steps > 0 ELSE a.steps * b.hits < b.steps * a.hits

\* The end of a mode; every mode of the ablation starts from an empty bundle, those of
\* the transfer from the one source bundle.
FinishMode ==
    /\ study \in {"ablation", "transfer"} /\ index = Episodes
    /\ summaries' = Append(summaries, ModeSummary)
    /\ IF mode = 4 THEN study' = "done" /\ UNCHANGED <<mode, vars>>
       ELSE /\ mode' = mode + 1 /\ UNCHANGED study
            /\ IF study = "ablation" THEN EmptyBundle ELSE UNCHANGED vars
    /\ index' = 0 /\ prior' = {} /\ previous' = NoneYet /\ streak' = 0
    /\ records' = <<>>
    /\ UNCHANGED <<source, target>>

(***************************************************************************)
(* The cross-task transfer                                                 *)
(***************************************************************************)

\* _build_source_memory_bundle.
RunSourceEpisode ==
    /\ study = "source" /\ index < SourceEpisodes
    /\ \E r \in Responses(MaxSteps) : Remember(source, "source", r)
    /\ index' = index + 1
    /\ UNCHANGED <<source, target, study, mode, prior, previous, streak, records, summaries>>

StartTransfer ==
    /\ study = "source" /\ index = SourceEpisodes
    /\ study' = "transfer" /\ index' = 0
    /\ UNCHANGED <<vars, source, target, mode, prior, previous, streak, records, summaries>>

\* _apply_forced_memory_warm_start: the newest episode, and what it says of itself.
Forced ==
    LET e == Last(episodes)
    IN  IF e.seed = NoCandidate THEN NotRetrieved
        ELSE [episodes |-> <<e.id>>, advice |-> {},
              precision |-> IF FamilyOf(e.task) = FamilyOf(target) THEN 10000 ELSE 1500]
ForcedRisk(found) ==
    IF found.episodes = <<>> THEN 0 ELSE IF found.precision = 10000 THEN 1500 ELSE 8500

\* Mutant: what is hardly relevant is transferred as well.
GovernanceAllowsAll(found) == found.precision >= 2500

GovernanceAllows(found) == 10000 - found.precision <= 5500

Harmful(m, warm, risk, repeated) ==
    /\ m \in {"forced_transfer", "no_governance"}
    /\ warm /\ risk >= 5000 /\ repeated > 0

\* What a transfer mode finds for the target.
TransferFound(m) ==
    IF m = "no_memory" \/ episodes = <<>> THEN NotRetrieved
    ELSE IF m = "forced_transfer" THEN Forced ELSE RetrievalResult(target)
TransferRisk(m, found) ==
    IF m = "no_memory" \/ episodes = <<>> THEN 0
    ELSE IF m = "forced_transfer" THEN ForcedRisk(found) ELSE 10000 - found.precision

\* Governance blocks what was found, or lets it be a warm start.
Blocks(m, found) == m = "governed_transfer" /\ episodes # <<>> /\ ~GovernanceAllows(found)
TransferWarm(m, found) == WarmStarts(found) /\ ~Blocks(m, found)
TransferFewer(m, found) ==
    /\ TransferWarm(m, found)
    /\ m = "no_governance" \/ (m = "governed_transfer" /\ found.precision >= 4000)

\* One round of the loop over the target episodes of a mode; nothing is ingested.
RunTransferEpisode ==
    LET m     == TransferModes[mode]
        found == TransferFound(m)
        warm  == TransferWarm(m, found)
        fewer == TransferFewer(m, found)
        used  == IF fewer \/ (m = "forced_transfer" /\ warm) THEN 1 ELSE 0
    IN  /\ study = "transfer" /\ index < Episodes
        /\ \E r \in Responses(IF fewer THEN FewerSteps ELSE MaxSteps) :
             LET failures == DominantFailures(r)
                 repeated == RepeatedFailures(r, prior)
                 harm     == Harmful(m, warm, TransferRisk(m, found), repeated)
             IN  /\ prior' = prior \cup Range(failures)
                 /\ records' = Append(records,
                      [mode |-> m, before |-> Len(episodes), retrieved |-> Len(found.episodes),
                       consumed |-> used, warm |-> warm,
                       blocked |-> IF Blocks(m, found) THEN 1 ELSE 0,
                       steps |-> IF fewer THEN FewerSteps ELSE MaxSteps,
                       found |-> FeasibleFound(r), calls |-> Len(r.executions),
                       step |-> StepToFirstFeasible(r), repeated |-> repeated,
                       dominant |-> FALSE, streak |-> 0,
                       aligned |-> used > 0 /\ ~harm /\ (r.predicted \/ repeated = 0),
                       harmful |-> harm, remembered |-> FALSE])
        /\ index' = index + 1
        /\ UNCHANGED <<vars, source, target, study, mode, previous, streak, summaries>>

StudyNext ==
    \/ RunAblationEpisode
    \/ RunSourceEpisode
    \/ StartTransfer
    \/ RunTransferEpisode
    \/ FinishMode

StudySpec == StudyInit /\ [][StudyNext]_allVars

(***************************************************************************)
(* The summaries                                                           *)
(***************************************************************************)

Of(modes, m) == summaries[CHOOSE i \in 1..4 : modes[i] = m]

\* MemoryAblationSummary.
AblationSummary ==
    LET none == Of(RepeatedModes, "no_memory")
        only == Of(RepeatedModes, "episodic_retrieval_only")
        refl == Of(RepeatedModes, "episodic_plus_reflection")
        full == Of(RepeatedModes, "full_memory")
    IN  [reducesCalls      |-> full.calls < none.calls,
         reducesStep       |-> LowerAverageStep(full, none),
         reducesRepeated   |-> full.repeated < none.repeated,
         usesRetrieval     |-> full.warm > 0,
         reflectionHelps   |-> refl.calls <= only.calls \/ refl.repeated <= only.repeated,
         governancePreserves |-> full.blocked >= 0,
         improvesAlignment |-> full.aligned >= only.aligned]

\* MemoryTransferSummary.
TransferSummary ==
    LET none     == Of(TransferModes, "no_memory")
        governed == Of(TransferModes, "governed_transfer")
        free     == Of(TransferModes, "no_governance")
        forced   == Of(TransferModes, "forced_transfer")
    IN  [beneficial  |-> governed.calls < none.calls \/ LowerAverageStep(governed, none),
         blocksHarm  |-> governed.harmful < forced.harmful,
         exposesHarm |-> free.harmful >= governed.harmful,
         forcedHarms |-> forced.harmful > 0]

(***************************************************************************)
(* What must hold of the evidence                                          *)
(***************************************************************************)

StudyTypeOK ==
    /\ TypeOK
    /\ source \in Task /\ target \in Task
    /\ study \in {"ablation", "source", "transfer", "done"}
    /\ mode \in 1..4 /\ index \in Nat /\ Len(summaries) <= 4
    /\ \A r \in Range(records) :
          /\ r.calls \in Nat /\ r.steps \in {MaxSteps, FewerSteps}
          /\ r.step \in 0..r.steps /\ r.repeated \in 0..r.calls

\* The modes of the ablation are compared on the same ground: a mode only ever sees
\* the episodes it ingested itself, so that its first episode has no memory at all.
MemoryOfOwnMode ==
    study = "ablation" =>
        \A i \in DOMAIN records :
            LET own == Cardinality({j \in 1..(i - 1) : records[j].remembered})
            IN  /\ records[i].before = (IF own < MaxEpisodes THEN own ELSE MaxEpisodes)
                /\ records[i].before = 0 => /\ records[i].retrieved = 0
                                            /\ records[i].consumed = 0
                                            /\ records[i].steps = MaxSteps

\* Memory costs an episode at most one step of its budget, whether by a warm start, by
\* guidance or by both, and only when it gave the episode something in return.
StepsCutOnce ==
    \A r \in Range(records) :
        /\ r.steps >= FewerSteps
        /\ r.steps < MaxSteps => r.retrieved > 0 /\ (r.warm \/ r.consumed > 0)

\* The three counts of repeated failures are kept apart and agree: a streak of the same
\* primary failure is a repeated one, and a repeated one is among those counted.
FailureCountsAgree ==
    \A i \in DOMAIN records :
        /\ records[i].streak > 0 => records[i].dominant
        /\ records[i].dominant => records[i].repeated > 0
        /\ records[i].streak < i

\* The ablation is a fair one: each mode pays for its own memory, at most a step an
\* episode, and the failures it is judged by are counted consistently.
AblationFair ==
    /\ StudyTypeOK
    /\ MemoryOfOwnMode
    /\ StepsCutOnce
    /\ FailureCountsAgree

\* The governance of full_memory blocks advice below a confidence that no reflection is
\* ever written with: its block rate is zero whatever happens.
FullMemoryNeverBlocks ==
    study = "ablation" => \A r \in Range(records) : r.blocked = 0

\* The threshold on the negative-transfer risk never lets a warm start through between
\* tasks that share neither family nor type.
GovernedTransfersLike ==
    study = "transfer" =>
        \A r \in Range(records) : r.mode = "governed_transfer" /\ r.warm =>
            FamilyOf(source) = FamilyOf(target) \/ TypeOf(source) = TypeOf(target)

\* Two of the verdicts cannot come out otherwise: governance always preserves quality,
\* and doing without it always exposes at least as much harm.
VerdictsWithoutContent ==
    study = "done" /\ Len(summaries) = 4 =>
        /\ AblationSummary.governancePreserves
        /\ TransferSummary.exposesHarm

\* What governance can and cannot show: of the block rates and the verdicts built on
\* them, which ones hold whatever the truth loop answers.
EmptyVerdicts ==
    /\ FullMemoryNeverBlocks
    /\ GovernedTransfersLike
    /\ VerdictsWithoutContent
=============================================================================
