-------------------------- MODULE Experiments_proofs --------------------------
(***************************************************************************)
(* Proofs about the experiments: whatever the suite, the candidates, the   *)
(* world model and the surrogates, every mode keeps the same account and   *)
(* claims only what it simulated.                                          *)
(***************************************************************************)
EXTENDS Experiments, PlanningService_proofs, SequenceTheorems

(***************************************************************************)
(* The inductive invariant                                                 *)
(***************************************************************************)

\* Where a run is: its mode is the next of the suite, and a step that has begun is one
\* of the steps of the run; only a mode with a world model evaluates and looks ahead.
RunOrder ==
    /\ pc # "begin" => Len(results) < Len(suite) /\ mode = suite[Len(results) + 1]
    /\ pc \notin {"begin", "report"} => step < MaxSteps
    /\ pc \in {"evaluate", "guide"} => Config(mode).world

\* No driver leaves a candidate unevaluated or queued for a rollout, so that what a
\* mode may select is what its step counts as selectable.
AllEvaluated ==
    \A c \in DOMAIN pool :
        pool[c].status \in {"frontier", "screened_out", "queued_for_simulation",
                            "verified", "rejected", "best_feasible"}

\* In a mode without calibration replanning every answer is followed by Suppress before
\* the step is closed.
FlagSuppressed == pc = "close" /\ Suppresses /\ selected > 0 => ~calibrationRequired

\* Until a simulation was feasible no surrogate of a learned baseline promises enough
\* for a candidate to be believed feasible.
SurrogateCautious ==
    mode \in Learned /\ pc # "begin" =>
        /\ bestFeasible \in BestKnownFeasible(pool)
        /\ ~feasible => \A c \in DOMAIN pool : Believed(pool, c).feasibility < 80

\* A candidate that any mode would simulate, if it could choose no other.
Takeable ==
    \E c \in DOMAIN pool :
        /\ c \in frontierIds /\ pool[c].status = "frontier"
        /\ Believed(pool, c).tier # "hard_block"

Simulating == Sampling \cup {"full_simulation_baseline", "no_world_model",
                             "no_world_model_baseline"}

\* A baseline that has not simulated anything is in its first step and has not
\* selected, and has something to select unless it is still to be sampled.
FirstBatchComes ==
    mode \in Simulating /\ pc # "begin" /\ calls = 0 /\ queue = {} =>
        /\ step = 0 /\ pc \in {"propose", "select"}
        /\ pc = "select" \/ mode \notin Sampling => Takeable

\* A feasible simulation is kept in the log of its step, or will be when it is closed.
FirstHitKept ==
    feasible => \/ firstHit # NoStep
                \/ hit /\ pc \in {"simulate", "suppress", "close"}

ExperimentInvariant ==
    /\ TypeOK
    /\ ExperimentTypeOK
    /\ BooksBalance
    /\ RatioValid
    /\ RunOrder
    /\ AllEvaluated
    /\ FlagSuppressed
    /\ SurrogateCautious
    /\ FirstBatchComes
    /\ FirstHitKept
    /\ BaselinesSimulate
    /\ FoundHasStep

(***************************************************************************)
(* Sets and pools                                                          *)
(***************************************************************************)

\* A batch of a bounded size.
LEMMA KSubsetsEffect ==
  ASSUME NEW s, IsFiniteSet(s), NEW k \in Nat, NEW t \in KSubsets(k, s)
  PROVE  /\ t \subseteq s /\ IsFiniteSet(t) /\ Cardinality(t) \in Nat
         /\ Cardinality(t) <= k
         /\ k > 0 /\ s # {} => t # {}
  <1>1. t \subseteq s /\ Cardinality(t) = Min2(k, Cardinality(s))
    BY DEF KSubsets
  <1>2. IsFiniteSet(t) /\ Cardinality(t) \in Nat /\ Cardinality(s) \in Nat
    BY <1>1, FS_Subset, FS_CardinalityType
  <1>3. Cardinality(t) <= k
    BY <1>1, <1>2 DEF Min2
  <1>4. s # {} => Cardinality(s) > 0
    BY <1>2, FS_EmptySet
  <1>5. k > 0 /\ s # {} => t # {}
    BY <1>1, <1>2, <1>4, FS_EmptySet DEF Min2
  <1> QED  BY <1>1, <1>2, <1>3, <1>5

\* What a baseline invents of a finite set of candidates is a pool.
LEMMA UpsertInvented ==
  ASSUME NEW p, PoolOK(p), NEW C \in SUBSET Candidate, IsFiniteSet(C),
         NEW belief \in [C -> Bundles], NEW q, q = Upsert(p, Invented(belief))
  PROVE  /\ PoolOK(q)
         /\ DOMAIN q = DOMAIN p \cup C
         /\ \A c \in DOMAIN q :
               q[c] = IF c \in C THEN [status |-> "frontier", belief |-> belief[c]] ELSE p[c]
  <1> DEFINE r == Invented(belief)
  <1>1. DOMAIN r = C /\ \A c \in C : r[c] = [status |-> "frontier", belief |-> belief[c]]
    BY DEF Invented
  <1>2. /\ DOMAIN q = DOMAIN p \cup C
        /\ \A c \in DOMAIN q : q[c] = IF c \in C THEN r[c] ELSE p[c]
    BY <1>1 DEF Upsert
  <1>3. \A c \in DOMAIN q : q[c] \in Record
    BY <1>1, <1>2 DEF PoolOK, Record, Status
  <1>4. q \in [DOMAIN q -> Record]
    <2>1. q = [c \in DOMAIN q |-> q[c]]
      BY <1>2 DEF Upsert
    <2> QED  BY <2>1, <1>3
  <1>5. IsFiniteSet(DOMAIN q)
    <2>1. IsFiniteSet(DOMAIN p) /\ IsFiniteSet(C)
      BY DEF PoolOK
    <2>2. IsFiniteSet(DOMAIN p \cup C)
      BY <2>1, FS_Union
    <2> QED  BY <1>2, <2>2
  <1> QED  BY <1>1, <1>2, <1>4, <1>5 DEF PoolOK

\* The pool of an empty search, and what a baseline invents before there is a pool.
LEMMA EmptyPool == PoolOK(<<>>) /\ DOMAIN <<>> = {}
  <1>1. DOMAIN <<>> = {}
    OBVIOUS
  <1>2. <<>> \in Seq(Record) /\ Len(<<>>) = 0
    BY EmptySeq
  <1>3. PICK n \in Nat : <<>> \in [1..n -> Record]
    BY <1>2, SeqDef
  <1>4. <<>> \in [{} -> Record]
    BY <1>1, <1>3
  <1>5. IsFiniteSet({})
    BY FS_EmptySet
  <1> QED  BY <1>1, <1>4, <1>5 DEF PoolOK

LEMMA InventedPool ==
  ASSUME NEW C \in SUBSET Candidate, IsFiniteSet(C), NEW belief \in [C -> Bundles]
  PROVE  /\ PoolOK(Invented(belief))
         /\ DOMAIN Invented(belief) = C
         /\ \A c \in C : Invented(belief)[c] = [status |-> "frontier", belief |-> belief[c]]
  BY DEF Invented, PoolOK, Record, Status

\* A baseline blocks nothing, and a surrogate without a feasible observation promises
\* little.
LEMMA BeliefsOfBaseline ==
  ASSUME NEW m, NEW C \in SUBSET Candidate, NEW belief \in Beliefs(m, C)
  PROVE  /\ belief \in [C -> Bundles]
         /\ \A c \in C : Predict(belief[c], c).tier # "hard_block"
         /\ m \in Learned /\ ~feasible =>
               \A c \in C : Predict(belief[c], c).feasibility < 80
  <1>1. belief \in [C -> Bundles \ Versions] /\ \A c \in C : Predicts(m, Predict(belief[c], c))
    BY DEF Beliefs
  <1>2. belief \in [C -> Bundles]
    BY <1>1
  <1>3. ASSUME NEW p, Predicts(m, p) PROVE p.tier # "hard_block"
    BY <1>3 DEF Predicts, BayesoptPredicts, CmaesPredicts, RlPredicts, BaselinePredicts,
                BaselineTrust
  <1>4. ASSUME NEW p \in Prediction, Predicts(m, p), m \in Learned, ~feasible
        PROVE  p.feasibility < 80
    BY <1>4 DEF Predicts, BayesoptPredicts, CmaesPredicts, RlPredicts, Learned, Prediction, Percent
  <1>5. \A c \in C : Predict(belief[c], c) \in Prediction
    BY <1>2, PredictAssumption
  <1> QED  BY <1>1, <1>2, <1>3, <1>4, <1>5

(***************************************************************************)
(* What the invariant says at once                                         *)
(***************************************************************************)

\* What the modes switch on decides how their runs propose.
LEMMA ModeFacts ==
  ASSUME NEW m \in Mode
  PROVE  /\ Config(m).world \in BOOLEAN
         /\ Config(m).world => m \notin Simulating /\ m \notin Learned
         /\ UsesBaselinePredictions(m) => m \notin Sampling /\ m \notin Learned
         /\ m \notin Sampling /\ ~UsesBaselinePredictions(m) => Config(m).world
         /\ m \in {"no_world_model", "no_world_model_baseline"} => Config(m).escalation
         /\ m \in Learned => m \in Sampling
         /\ m \in Sampling => m \in Simulating
  BY DEF Config, UsesBaselinePredictions, Sampling, Learned, Simulating, Mode

LEMMA RunFacts ==
  ASSUME ExperimentInvariant
  PROVE  /\ PoolOK(pool) /\ budget \in Budget /\ budget.simulations \in Nat
         /\ calls \in Nat /\ selected \in Nat /\ selectable \in Nat /\ focused \in Nat
         /\ IsFiniteSet(queue) /\ Cardinality(queue) \in Nat
         /\ pc \notin {"simulate", "suppress"} => queue = {} /\ Cardinality(queue) = 0
         /\ suite \in Seq(Mode) /\ Len(suite) \in Nat /\ Len(results) \in Nat
         /\ results \in Seq(Result)
         /\ pc # "begin" => mode \in Mode
         /\ step \in Nat /\ MaxSteps \in Nat
  <1> USE DEF ExperimentInvariant
  <1>1. PoolOK(pool) /\ budget \in Budget /\ budget.simulations \in Nat
    BY DEF TypeOK, Budget
  <1>2. calls \in Nat /\ selected \in Nat /\ selectable \in Nat /\ focused \in Nat
    BY DEF ExperimentTypeOK
  <1>3. IsFiniteSet(queue) /\ Cardinality(queue) \in Nat
    BY <1>1, PoolSubsetFinite DEF ExperimentTypeOK
  <1>4. pc \notin {"simulate", "suppress"} => queue = {} /\ Cardinality(queue) = 0
    BY FS_EmptySet DEF BooksBalance
  <1>5. suite \in Seq(Mode) /\ results \in Seq(Result)
    BY ExperimentAssumption DEF ExperimentTypeOK
  <1>6. Len(suite) \in Nat /\ Len(results) \in Nat
    BY <1>5
  <1>7. pc # "begin" => mode \in Mode
    BY <1>5, <1>6 DEF RunOrder
  <1>8. step \in Nat /\ MaxSteps \in Nat
    BY ExperimentAssumption DEF ExperimentTypeOK
  <1> QED  BY <1>1, <1>2, <1>3, <1>4, <1>5, <1>6, <1>7, <1>8

(***************************************************************************)
(* The start of a run                                                      *)
(***************************************************************************)

LEMMA ExperimentInitCorrect == ExperimentInit => ExperimentInvariant
  <1> SUFFICES ASSUME ExperimentInit PROVE ExperimentInvariant
    OBVIOUS
  <1> USE DEF ExperimentInit
  <1>1. PoolOK(pool) /\ DOMAIN pool = {}
    BY EmptyPool
  <1>2. TypeOK
    BY <1>1, ConstantsAssumption, ExperimentAssumption DEF TypeOK, NoBudget, Budget, Phase
  <1>3. ExperimentTypeOK
    <2>1. results \in Seq(Result) /\ Len(results) = 0 /\ DOMAIN results = {}
      BY EmptySeq
    <2>2. suite \in Seq(Mode)
      BY ExperimentAssumption
    <2>3. Len(suite) \in Nat
      BY <2>2
    <2>4. {force, feasible, hit} \subseteq BOOLEAN
      BY Zenon
    <2>5. queue \subseteq DOMAIN pool /\ {selected, selectable, calls, focused} \subseteq Nat
      OBVIOUS
    <2>6. step \in 0..MaxSteps /\ {convergence, firstHit} \subseteq 0..MaxSteps \cup {NoStep}
      BY ExperimentAssumption
    <2>7. Len(results) <= Len(suite)
      BY <2>1, <2>3
    <2> QED  BY <2>1, <2>4, <2>5, <2>6, <2>7 DEF ExperimentTypeOK
  <1>4. BooksBalance
    BY FS_EmptySet, ConstantsAssumption DEF BooksBalance, NoBudget
  <1>5. AllEvaluated
    BY <1>1 DEF AllEvaluated
  <1>6. BaselinesSimulate /\ FoundHasStep
    BY DEF BaselinesSimulate, FoundHasStep
  <1> QED  BY <1>2, <1>3, <1>4, <1>5, <1>6
           DEF ExperimentInvariant, RatioValid, RunOrder, FlagSuppressed,
               SurrogateCautious, FirstBatchComes, FirstHitKept

\* The three ways a search starts give a well-typed one, with nothing charged to the
\* simulator and something to choose from unless it is still to be sampled.
LEMMA StartEffect ==
  ASSUME ExperimentInvariant, BeginRun
  PROVE  /\ mode' \in Mode
         /\ PoolOK(pool') /\ budget' \in Budget /\ traces' \in Nat
         /\ budget'.simulations = 0
         /\ bestFeasible' \in DOMAIN pool' \cup {NoCandidate}
         /\ AllEvaluated'
         /\ mode' \in Learned =>
               /\ bestFeasible' \in BestKnownFeasible(pool')
               /\ \A c \in DOMAIN pool' : Believed(pool', c).feasibility < 80
         /\ mode' \in Simulating \ Sampling =>
               \E c \in DOMAIN pool' : /\ pool'[c].status = "frontier"
                                       /\ Believed(pool', c).tier # "hard_block"
  <1>1. mode' \in Mode
    <2>1. suite \in Seq(Mode) /\ Len(results) + 1 \in 1..Len(suite)
      BY RunFacts DEF BeginRun
    <2> QED  BY <2>1 DEF BeginRun
  <1>2. Cardinality(Seeds) \in Nat /\ IsFiniteSet(Seeds) /\ Seeds \in SUBSET Candidate
        /\ Seeds # {}
    BY ConstantsAssumption, FS_CardinalityType
  <1>3. CASE mode' \in Sampling
    <2>1. /\ pool' = <<>> /\ bestFeasible' = NoCandidate
          /\ budget' = NoBudget /\ traces' = 0
      BY <1>3 DEF BeginRun, EmptySearch
    <2>2. PoolOK(pool') /\ DOMAIN pool' = {}
      BY <2>1, EmptyPool
    <2>3. budget' \in Budget /\ budget'.simulations = 0
      BY <2>1 DEF NoBudget, Budget
    <2>4. bestFeasible' \in BestKnownFeasible(pool')
      BY <2>1, <2>2 DEF BestKnownFeasible, HasStatus
    <2> QED  BY <1>1, <1>3, <2>1, <2>2, <2>3, <2>4 DEF AllEvaluated
  <1>4. CASE mode' \notin Sampling /\ UsesBaselinePredictions(mode')
    <2>1. PICK belief \in Beliefs(mode', Seeds) : pool' = Invented(belief)
      BY <1>4 DEF BeginRun, BaselineSearch
    <2>2. /\ bestFeasible' \in Seeds /\ traces' = 0
          /\ budget' = [NoBudget EXCEPT !.proxy =
                IF mode' = "no_world_model_baseline" THEN Cardinality(Seeds) ELSE 0]
      BY <1>4 DEF BeginRun, BaselineSearch
    <2>3. /\ belief \in [Seeds -> Bundles]
          /\ \A c \in Seeds : Predict(belief[c], c).tier # "hard_block"
      BY <1>2, BeliefsOfBaseline
    <2>4. /\ PoolOK(pool') /\ DOMAIN pool' = Seeds
          /\ \A c \in Seeds : pool'[c] = [status |-> "frontier", belief |-> belief[c]]
      BY <1>2, <2>1, <2>3, InventedPool
    <2>5. budget' \in Budget /\ budget'.simulations = 0
      BY <1>2, <2>2 DEF NoBudget, Budget
    <2>6. \A c \in Seeds : /\ pool'[c].status = "frontier"
                           /\ Believed(pool', c).tier # "hard_block"
      BY <2>3, <2>4 DEF Believed
    <2>7. AllEvaluated'
      BY <2>4 DEF AllEvaluated
    <2> QED  BY <1>1, <1>2, <1>4, <2>2, <2>4, <2>5, <2>6, <2>7, ModeFacts
  <1>5. CASE mode' \notin Sampling /\ ~UsesBaselinePredictions(mode')
    <2>1. /\ pool' = [c \in Seeds |-> Evaluated(FirstVersion, c)]
          /\ bestFeasible' \in BestKnownFeasible(pool')
          /\ budget' = [NoBudget EXCEPT !.proxy = Cardinality(Seeds)]
          /\ traces' = 1
      BY <1>5 DEF BeginRun, ServiceSearch
    <2>2. FirstVersion \in Bundles
      BY ExperimentAssumption
    <2>3. /\ DOMAIN pool' = Seeds
          /\ \A c \in Seeds : /\ pool'[c] \in Record
                               /\ pool'[c].status \in {"frontier", "screened_out"}
      BY <2>1, <2>2, EvaluatedRecord
    <2>4. PoolOK(pool')
      <3>1. pool' \in [Seeds -> Record]
        BY <2>1, <2>3
      <3> QED  BY <1>2, <2>3, <3>1 DEF PoolOK
    <2>5. AllEvaluated'
      BY <2>3 DEF AllEvaluated
    <2>6. budget' \in Budget /\ budget'.simulations = 0
      BY <1>2, <2>1 DEF NoBudget, Budget
    <2>7. mode' \notin Learned /\ mode' \notin Simulating
      BY <1>1, <1>5, ModeFacts
    <2>8. bestFeasible' \in DOMAIN pool' \cup {NoCandidate}
      BY <2>1, BestKnownInPool
    <2> QED  BY <1>1, <2>1, <2>4, <2>5, <2>6, <2>7, <2>8
  <1> QED  BY <1>3, <1>4, <1>5

LEMMA BeginRunCorrect ==
  ASSUME ExperimentInvariant, BeginRun
  PROVE  ExperimentInvariant'
  <1>a. /\ mode' \in Mode
        /\ PoolOK(pool') /\ budget' \in Budget /\ traces' \in Nat
        /\ budget'.simulations = 0
        /\ bestFeasible' \in DOMAIN pool' \cup {NoCandidate}
        /\ AllEvaluated'
        /\ mode' \in Learned =>
              /\ bestFeasible' \in BestKnownFeasible(pool')
              /\ \A c \in DOMAIN pool' : Believed(pool', c).feasibility < 80
        /\ mode' \in Simulating \ Sampling =>
              \E c \in DOMAIN pool' : /\ pool'[c].status = "frontier"
                                      /\ Believed(pool', c).tier # "hard_block"
    BY StartEffect
  <1>b. /\ frontierIds' = HasStatus(pool', {"frontier"})
        /\ calibrationRequired' = (TrustAlerts(pool') # {})
        /\ phase' = InitialPhase /\ stagnation' = 0 /\ pendingRefs' = {}
        /\ bundle' = FirstVersion
        /\ step' = 0 /\ calls' = 0 /\ focused' = 0 /\ feasible' = FALSE /\ hit' = FALSE
        /\ convergence' = NoStep /\ firstHit' = NoStep /\ selected' = 0 /\ selectable' = 0
        /\ pc' = "propose" /\ suite' = suite /\ force' = force /\ results' = results
        /\ queue' = queue
    BY DEF BeginRun
  <1>c. pc = "begin" /\ Len(results) < Len(suite) /\ mode' = suite[Len(results) + 1]
    BY DEF BeginRun
  <1>d. queue = {} /\ Cardinality(queue) = 0
    BY <1>c, RunFacts
  <1>1. TypeOK'
    BY <1>a, <1>b, ConstantsAssumption, ExperimentAssumption DEF TypeOK, HasStatus, Phase
  <1>2. ExperimentTypeOK'
    <2>1. /\ suite \in Suites /\ results \in Seq(Result) /\ Len(results) <= Len(suite)
          /\ \A i \in DOMAIN results : results[i].mode = suite[i]
      BY DEF ExperimentInvariant, ExperimentTypeOK
    <2>2. {force', feasible', hit'} \subseteq BOOLEAN
      <3>1. force \in BOOLEAN
        BY DEF ExperimentInvariant, ExperimentTypeOK
      <3> QED  BY <1>b, <3>1, Zenon
    <2>3. step' \in 0..MaxSteps /\ {convergence', firstHit'} \subseteq 0..MaxSteps \cup {NoStep}
      BY <1>b, ExperimentAssumption
    <2>4. queue' \subseteq DOMAIN pool' /\ {selected', selectable', calls', focused'} \subseteq Nat
      BY <1>b, <1>d
    <2> QED  BY <1>a, <1>b, <2>1, <2>2, <2>3, <2>4 DEF ExperimentTypeOK
  <1>3. BooksBalance'
    BY <1>a, <1>b, <1>d, ConstantsAssumption DEF BooksBalance
  <1>4. RunOrder'
    BY <1>b, <1>c, ExperimentAssumption DEF RunOrder
  <1>5. SurrogateCautious'
    BY <1>a DEF SurrogateCautious
  <1>6. FirstBatchComes'
    BY <1>a, <1>b DEF FirstBatchComes, Takeable, HasStatus
  <1>7. BaselinesSimulate' /\ FoundHasStep'
    BY <1>b DEF ExperimentInvariant, BaselinesSimulate, FoundHasStep
  <1> QED  BY <1>a, <1>b, <1>1, <1>2, <1>3, <1>4, <1>5, <1>6, <1>7
           DEF ExperimentInvariant, RatioValid, FlagSuppressed, FirstHitKept

(***************************************************************************)
(* Proposing, evaluating and looking ahead                                 *)
(***************************************************************************)

\* What a step does before its selection: the pool may grow and be judged anew, nothing
\* is charged to the simulator, and the counters of the run stay.
LEMMA PreparationStep ==
  ASSUME ExperimentInvariant, TypeOK',
         UNCHANGED <<counters, queue, selected, selectable, hit>>,
         pc \in {"propose", "evaluate", "guide"}, pc' \in {"evaluate", "guide", "select"},
         pc' \in {"evaluate", "guide"} => Config(mode).world,
         pendingRefs' = pendingRefs, budget'.simulations = budget.simulations,
         AllEvaluated', SurrogateCautious',
         mode \in Simulating /\ calls = 0 => pc' = "select" /\ Takeable'
  PROVE  ExperimentInvariant'
  <1>a. /\ suite' = suite /\ force' = force /\ results' = results /\ mode' = mode
        /\ step' = step /\ calls' = calls /\ focused' = focused /\ feasible' = feasible
        /\ firstHit' = firstHit /\ convergence' = convergence /\ queue' = queue
        /\ selected' = selected /\ selectable' = selectable /\ hit' = hit
    BY DEF counters
  <1>b. queue = {} /\ Cardinality(queue) = 0
    BY RunFacts
  <1>1. ExperimentTypeOK'
    BY <1>a, <1>b DEF ExperimentInvariant, ExperimentTypeOK
  <1>2. BooksBalance'
    BY <1>a, <1>b DEF ExperimentInvariant, BooksBalance
  <1>3. RunOrder'
    BY <1>a DEF ExperimentInvariant, RunOrder
  <1>4. FirstBatchComes'
    BY <1>a, <1>b DEF ExperimentInvariant, FirstBatchComes
  <1>5. FirstHitKept'
    BY <1>a DEF ExperimentInvariant, FirstHitKept
  <1>6. BaselinesSimulate' /\ FoundHasStep'
    BY <1>a DEF ExperimentInvariant, BaselinesSimulate, FoundHasStep
  <1> QED  BY <1>1, <1>2, <1>3, <1>4, <1>5, <1>6
           DEF ExperimentInvariant, RatioValid, FlagSuppressed

\* The service's own proposals and evaluations, in a mode with a world model.
LEMMA ServiceCorrect ==
  ASSUME ExperimentInvariant, ProposeByService \/ EvaluateByService
  PROVE  ExperimentInvariant'
  <1>1. ProposeCandidates \/ EvaluateCandidates
    BY DEF ProposeByService, EvaluateByService
  <1>2. /\ UNCHANGED <<counters, queue, selected, selectable, hit>>
        /\ pc \in {"propose", "evaluate"} /\ pc' \in {"evaluate", "guide", "select"}
        /\ Config(mode).world
    BY DEF ProposeByService, EvaluateByService, ExperimentInvariant, RunOrder
  <1>3. TypeOK /\ TypeOK'
    BY <1>1, TypeStep DEF ExperimentInvariant, Call
  <1>4. PICK C \in SUBSET Candidate :
          /\ DOMAIN pool' = DOMAIN pool \cup C
          /\ \A c \in DOMAIN pool' :
                pool'[c] = IF c \in C THEN Evaluated(bundle, c) ELSE pool[c]
    BY <1>1, <1>3, EvaluationEffect
  <1>5. pendingRefs' = pendingRefs /\ budget'.simulations = budget.simulations
    BY <1>1, <1>3, EvaluationEffect
  <1>6. AllEvaluated'
    <2>1. \A c \in C : Evaluated(bundle, c).status \in {"frontier", "screened_out"}
      BY <1>3, EvaluatedRecord DEF TypeOK
    <2> QED  BY <1>4, <2>1 DEF ExperimentInvariant, AllEvaluated
  <1>7. mode \notin Learned /\ mode \notin Simulating /\ mode' = mode
    BY <1>2, ModeFacts, RunFacts DEF counters
  <1>8. SurrogateCautious'
    BY <1>7 DEF SurrogateCautious
  <1> QED  BY <1>2, <1>3, <1>5, <1>6, <1>7, <1>8, PreparationStep

\* The look-ahead.
LEMMA GuideCorrect ==
  ASSUME ExperimentInvariant, Guide
  PROVE  ExperimentInvariant'
  <1>1. /\ UNCHANGED <<counters, queue, selected, selectable, hit>>
        /\ pc = "guide" /\ pc' = "select" /\ Config(mode).world
    BY DEF Guide, ExperimentInvariant, RunOrder
  <1>2. TypeOK /\ TypeOK' /\ pendingRefs' = pendingRefs /\ pool' = pool
        /\ budget'.simulations = budget.simulations
    <2>1. TypeOK /\ budget \in Budget
      BY DEF ExperimentInvariant, TypeOK
    <2>2. CASE UNCHANGED vars
      BY <2>1, <2>2, TypeStep DEF vars
    <2>3. CASE PlanNextActions(Horizon) /\ 1 <= Horizon
      <3>1. Horizon \in 1..Horizon /\ Horizon \in Nat
        BY <2>3, ConstantsAssumption
      <3>2. Call
        BY <2>3, <3>1 DEF Call
      <3>3. budget'.simulations = budget.simulations + 0
        BY <2>1, <2>3, <3>1, ConsumedType DEF PlanNextActions
      <3> QED  BY <2>1, <2>3, <3>2, <3>3, TypeStep DEF PlanNextActions, Budget
    <2> QED  BY <2>2, <2>3 DEF Guide
  <1>3. AllEvaluated'
    BY <1>2 DEF ExperimentInvariant, AllEvaluated
  <1>4. mode \notin Learned /\ mode \notin Simulating /\ mode' = mode
    BY <1>1, ModeFacts, RunFacts DEF counters
  <1>5. SurrogateCautious'
    BY <1>4 DEF SurrogateCautious
  <1> QED  BY <1>1, <1>2, <1>3, <1>4, <1>5, PreparationStep

\* What a baseline adds to the pool leaves it evaluated; a learned one that has seen
\* nothing feasible stays cautious.
LEMMA InventedEffect ==
  ASSUME ExperimentInvariant, pc = "propose",
         NEW C \in SUBSET Candidate, IsFiniteSet(C), NEW belief \in Beliefs(mode, C),
         pool' = Upsert(pool, Invented(belief)), RefreshSearchState(FALSE),
         mode' = mode, feasible' = feasible
  PROVE  /\ PoolOK(pool') /\ DOMAIN pool' = DOMAIN pool \cup C
         /\ AllEvaluated' /\ SurrogateCautious'
         /\ \A c \in DOMAIN pool' : \/ /\ pool'[c].status = "frontier"
                                       /\ Believed(pool', c).tier # "hard_block"
                                    \/ c \notin C /\ pool'[c] = pool[c]
  <1>1. /\ belief \in [C -> Bundles]
        /\ \A c \in C : Predict(belief[c], c).tier # "hard_block"
        /\ mode \in Learned /\ ~feasible =>
              \A c \in C : Predict(belief[c], c).feasibility < 80
    BY BeliefsOfBaseline
  <1>2. PoolOK(pool)
    BY RunFacts
  <1>3. /\ PoolOK(pool') /\ DOMAIN pool' = DOMAIN pool \cup C
        /\ \A c \in DOMAIN pool' : pool'[c] =
              IF c \in C THEN [status |-> "frontier", belief |-> belief[c]] ELSE pool[c]
    BY <1>1, <1>2, UpsertInvented
  <1>b. ASSUME NEW c \in DOMAIN pool'
        PROVE  \/ /\ c \in C /\ pool'[c].status = "frontier"
                  /\ Believed(pool', c) = Predict(belief[c], c)
               \/ /\ c \notin C /\ c \in DOMAIN pool /\ pool'[c] = pool[c]
                  /\ Believed(pool', c) = Believed(pool, c)
    <2>1. CASE c \in C
      <3>1. pool'[c] = [status |-> "frontier", belief |-> belief[c]]
        BY <1>3, <2>1
      <3>2. pool'[c].status = "frontier" /\ pool'[c].belief = belief[c]
        BY <3>1
      <3> QED  BY <2>1, <3>2 DEF Believed
    <2>2. CASE c \notin C
      <3>1. pool'[c] = pool[c] /\ c \in DOMAIN pool
        BY <1>3, <2>2
      <3> QED  BY <2>2, <3>1 DEF Believed
    <2> QED  BY <2>1, <2>2
  <1>4. AllEvaluated'
    BY <1>b DEF ExperimentInvariant, AllEvaluated
  <1>5. bestFeasible' \in BestKnownFeasible(pool')
    BY DEF RefreshSearchState
  <1>6. SurrogateCautious'
    <2>1. SUFFICES ASSUME mode \in Learned, ~feasible, NEW c \in DOMAIN pool'
                   PROVE  Believed(pool', c).feasibility < 80
      BY <1>5 DEF SurrogateCautious
    <2>2. c \in DOMAIN pool => Believed(pool, c).feasibility < 80
      BY <2>1 DEF ExperimentInvariant, SurrogateCautious
    <2> QED  BY <1>1, <1>b, <2>1, <2>2
  <1>7. ASSUME NEW c \in DOMAIN pool'
        PROVE  \/ /\ pool'[c].status = "frontier"
                  /\ Believed(pool', c).tier # "hard_block"
               \/ c \notin C /\ pool'[c] = pool[c]
    BY <1>1, <1>b
  <1> QED  BY <1>3, <1>4, <1>6, <1>7

\* The mutations of a baseline.
LEMMA MutationCorrect ==
  ASSUME ExperimentInvariant, ProposeByMutation
  PROVE  ExperimentInvariant'
  <1>1. /\ UNCHANGED <<counters, queue, selected, selectable, hit>>
        /\ pc = "propose" /\ pc' = "select" /\ UsesBaselinePredictions(mode)
        /\ UNCHANGED <<pendingRefs, phase, stagnation, bundle>>
        /\ frontierIds' = FrontierCandidates(pool') /\ RefreshSearchState(FALSE)
    BY DEF ProposeByMutation
  <1>2. TypeOK
    BY DEF ExperimentInvariant
  <1>3. PICK anchors \in Anchors :
          LET n == Branching * Cardinality(DOMAIN anchors)
          IN  \E belief \in Beliefs(mode, Proposed(anchors, n)) :
                /\ pool' = Upsert(pool, Invented(belief))
                /\ budget' = [budget EXCEPT !.proxy =
                                 @ + (IF mode = "no_world_model_baseline" THEN n ELSE 0)]
    BY DEF ProposeByMutation
  <1> DEFINE n == Branching * Cardinality(DOMAIN anchors)
  <1>4. PICK k \in Nat : anchors \in [1..k -> Candidate] /\ Cardinality(DOMAIN anchors) = k
    BY <1>2, AnchorsType DEF TypeOK
  <1>5. n \in Nat
    BY <1>4, ConstantsAssumption
  <1>6. PICK C \in SUBSET Candidate : C = Proposed(anchors, n) /\ IsFiniteSet(C)
    BY <1>2, <1>4, <1>5, ProposedFinite DEF TypeOK
  <1> HIDE DEF n
  <1>7. PICK belief \in Beliefs(mode, C) :
          /\ pool' = Upsert(pool, Invented(belief))
          /\ budget' = [budget EXCEPT !.proxy =
                           @ + (IF mode = "no_world_model_baseline" THEN n ELSE 0)]
    BY <1>3, <1>6 DEF n
  <1>8. mode' = mode /\ feasible' = feasible /\ calls' = calls
    BY <1>1 DEF counters
  <1>9. /\ PoolOK(pool') /\ DOMAIN pool' = DOMAIN pool \cup C
        /\ AllEvaluated' /\ SurrogateCautious'
        /\ \A c \in DOMAIN pool' : \/ /\ pool'[c].status = "frontier"
                                      /\ Believed(pool', c).tier # "hard_block"
                                   \/ c \notin C /\ pool'[c] = pool[c]
    BY <1>1, <1>6, <1>7, <1>8, InventedEffect
  <1>10. budget' \in Budget /\ budget'.simulations = budget.simulations
    BY <1>2, <1>5, <1>7 DEF TypeOK, Budget
  <1>11. TypeOK'
    <2>1. frontierIds' \subseteq DOMAIN pool'
      BY <1>1 DEF FrontierCandidates, HasStatus
    <2> QED  BY <1>1, <1>2, <1>9, <1>10, <2>1, RefreshType DEF TypeOK
  <1>12. ASSUME mode \in Simulating, calls = 0 PROVE Takeable'
    <2>1. mode \notin Sampling /\ queue = {}
      BY <1>1, RunFacts, ModeFacts
    <2>2. PICK c \in DOMAIN pool : /\ c \in frontierIds /\ pool[c].status = "frontier"
                                  /\ Believed(pool, c).tier # "hard_block"
      BY <1>1, <1>12, <2>1 DEF ExperimentInvariant, FirstBatchComes, Takeable
    <2>3. /\ c \in DOMAIN pool' /\ pool'[c].status = "frontier"
          /\ Believed(pool', c).tier # "hard_block"
      BY <1>9, <2>2 DEF Believed
    <2> QED  BY <1>1, <2>3 DEF Takeable, FrontierCandidates, HasStatus
  <1> QED  BY <1>1, <1>8, <1>9, <1>10, <1>11, <1>12, PreparationStep

\* The samplers.
LEMMA SampleSize ==
  ASSUME ExperimentInvariant
  PROVE  /\ RemainingSimulations \in Nat /\ SampleBatch \in Nat
         /\ SampleBatch <= RemainingSimulations
         /\ calls = 0 /\ queue = {} => SampleBatch > 0 /\ RemainingSimulations > 0
         /\ Draw.charged \in Nat /\ Draw.drawn \in Nat
  <1>1. RemainingSimulations \in Nat
    BY RunFacts, RemainingType
  <1>2. SampleBatch \in Nat /\ SampleBatch <= RemainingSimulations
    BY <1>1, ConstantsAssumption DEF SampleBatch, Min2
  <1>3. ASSUME calls = 0, queue = {} PROVE SampleBatch > 0 /\ RemainingSimulations > 0
    <2>1. budget.simulations = 0
      BY <1>3, FS_EmptySet DEF ExperimentInvariant, BooksBalance
    <2>2. RemainingSimulations > 0
      BY <2>1, ConstantsAssumption DEF RemainingSimulations
    <2> QED  BY <1>1, <2>2, ConstantsAssumption DEF SampleBatch, Min2
  <1>4. Draw.charged \in Nat /\ Draw.drawn \in Nat
    <2>1. /\ RandomDraw.charged \in Nat /\ RandomDraw.drawn \in Nat
          /\ BayesoptDraw.charged \in Nat /\ BayesoptDraw.drawn \in Nat
      BY <1>2 DEF RandomDraw, BayesoptDraw, BayesoptPool, AtLeast
    <2>2. /\ CmaesDraw.charged \in Nat /\ CmaesDraw.drawn \in Nat
          /\ RlDraw.charged \in Nat /\ RlDraw.drawn \in Nat
      BY <1>2 DEF CmaesDraw, CmaesPopulation, RlDraw, RlPopulation, AtLeast
    <2> QED  BY <2>1, <2>2 DEF Draw
  <1> QED  BY <1>1, <1>2, <1>3, <1>4

LEMMA SamplingCorrect ==
  ASSUME ExperimentInvariant, ProposeBySampling
  PROVE  ExperimentInvariant'
  <1>1. /\ UNCHANGED <<counters, queue, selected, selectable, hit>>
        /\ pc = "propose" /\ pc' = "select" /\ mode \in Sampling
    BY DEF ProposeBySampling
  <1>2. TypeOK /\ queue = {}
    BY <1>1, RunFacts DEF ExperimentInvariant
  <1>3. mode' = mode /\ feasible' = feasible /\ calls' = calls
    BY <1>1 DEF counters
  <1>4. CASE SampleBatch = 0
    <2>1. UNCHANGED vars
      BY <1>4 DEF ProposeBySampling
    <2>2. TypeOK' /\ pool' = pool /\ bestFeasible' = bestFeasible
          /\ pendingRefs' = pendingRefs /\ budget'.simulations = budget.simulations
      BY <1>2, <2>1, TypeStep DEF vars
    <2>3. AllEvaluated' /\ SurrogateCautious'
      BY <1>1, <1>3, <2>2 DEF ExperimentInvariant, AllEvaluated, SurrogateCautious
    <2>4. calls # 0
      BY <1>2, <1>4, SampleSize
    <2> QED  BY <1>1, <2>2, <2>3, <2>4, PreparationStep
  <1>5. CASE SampleBatch # 0
    <2>1. PICK fresh \in SampledBatches(Draw.drawn) : \E belief \in Beliefs(mode, fresh) :
            pool' = Upsert(pool, Invented(belief)) /\ frontierIds' = fresh
      BY <1>5 DEF ProposeBySampling
    <2>2. /\ budget' = [budget EXCEPT !.proxy = @ + Draw.charged]
          /\ RefreshSearchState(FALSE)
          /\ UNCHANGED <<pendingRefs, phase, stagnation, bundle>>
      BY <1>5 DEF ProposeBySampling
    <2>3. PICK belief \in Beliefs(mode, fresh) : pool' = Upsert(pool, Invented(belief))
      BY <2>1
    <2>4. fresh \in SUBSET Candidate /\ IsFiniteSet(fresh) /\ fresh # {}
      BY ExperimentAssumption, FS_Subset DEF SampledBatches
    <2>5. /\ PoolOK(pool') /\ DOMAIN pool' = DOMAIN pool \cup fresh
          /\ AllEvaluated' /\ SurrogateCautious'
          /\ \A c \in DOMAIN pool' : \/ /\ pool'[c].status = "frontier"
                                        /\ Believed(pool', c).tier # "hard_block"
                                     \/ c \notin fresh /\ pool'[c] = pool[c]
      BY <1>1, <1>3, <2>2, <2>3, <2>4, InventedEffect
    <2>6. budget' \in Budget /\ budget'.simulations = budget.simulations
      BY <1>2, <2>2, SampleSize, ProxyType DEF TypeOK
    <2>7. TypeOK'
      BY <1>2, <2>1, <2>2, <2>5, <2>6, RefreshType DEF TypeOK
    <2>8. Takeable'
      BY <2>1, <2>4, <2>5 DEF Takeable
    <2> QED  BY <1>1, <2>2, <2>5, <2>6, <2>7, <2>8, PreparationStep
  <1> QED  BY <1>4, <1>5

(***************************************************************************)
(* Selecting a batch                                                       *)
(***************************************************************************)

\* Whatever the mode, its batch is open, affordable and no larger than what its step
\* counts, and not empty as long as nothing was simulated and something could be.
LEMMA BatchEffect ==
  ASSUME ExperimentInvariant, pc = "select", NEW batch \in Batches
  PROVE  /\ batch \subseteq OpenForSimulation /\ batch \subseteq DOMAIN pool
         /\ IsFiniteSet(batch) /\ Cardinality(batch) \in Nat
         /\ Cardinality(batch) <= RemainingSimulations
         /\ mode \in Simulating /\ calls = 0 => batch # {}
  <1>a. TypeOK /\ PoolOK(pool) /\ mode \in Mode /\ queue = {}
    BY RunFacts DEF ExperimentInvariant
  <1>b. /\ RemainingSimulations \in Nat /\ SampleBatch \in Nat
        /\ SampleBatch <= RemainingSimulations
        /\ calls = 0 => SampleBatch > 0 /\ RemainingSimulations > 0
    BY <1>a, SampleSize
  <1>c. /\ OpenForSimulation \subseteq DOMAIN pool
        /\ \A s \in SUBSET OpenForSimulation : IsFiniteSet(s) /\ Cardinality(s) \in Nat
    <2>1. OpenForSimulation \subseteq DOMAIN pool
      BY DEF OpenForSimulation, HasStatus
    <2> QED  BY <1>a, <2>1, PoolSubsetFinite
  <1>d. mode \in Simulating /\ calls = 0 => Takeable
    BY <1>a DEF ExperimentInvariant, FirstBatchComes
  <1>e. ASSUME NEW k \in Nat, NEW s \in SUBSET OpenForSimulation, batch \in KSubsets(k, s),
               k <= RemainingSimulations,
               mode \in Simulating /\ calls = 0 => k > 0 /\ s # {}
        PROVE  /\ batch \subseteq OpenForSimulation /\ batch \subseteq DOMAIN pool
               /\ IsFiniteSet(batch) /\ Cardinality(batch) \in Nat
               /\ Cardinality(batch) <= RemainingSimulations
               /\ mode \in Simulating /\ calls = 0 => batch # {}
    <2>1. /\ batch \subseteq s /\ IsFiniteSet(batch) /\ Cardinality(batch) \in Nat
          /\ Cardinality(batch) <= k
          /\ k > 0 /\ s # {} => batch # {}
      BY <1>c, <1>e, KSubsetsEffect
    <2> QED  BY <1>b, <1>c, <1>e, <2>1
  <1>f. /\ Fresh \subseteq OpenForSimulation /\ (Takeable => Fresh # {})
        /\ FrontierCandidates(pool) \cap frontierIds \subseteq OpenForSimulation
    BY DEF Fresh, OpenForSimulation, HasStatus, FrontierCandidates, Takeable,
           ExperimentInvariant, AllEvaluated
  <1>1. CASE mode = "random_search_baseline"
    BY <1>1, <1>b, <1>d, <1>e, <1>f DEF Batches, RandomBatches, Learned
  <1>2. CASE mode \in Learned
    BY <1>2, <1>b, <1>d, <1>e, <1>f DEF Batches, LearnedBatches, Learned
  <1>3. CASE mode = "top_k_baseline"
    <2> DEFINE k == Min2(IF BatchSize < 2 THEN 2 ELSE BatchSize, RemainingSimulations)
    <2>1. k \in Nat /\ k <= RemainingSimulations
      BY <1>b, ConstantsAssumption DEF Min2
    <2>2. batch \in KSubsets(k, FrontierCandidates(pool) \cap frontierIds)
      BY <1>3 DEF Batches, TopKBatches, Learned
    <2>3. mode \notin Simulating
      BY <1>3 DEF Simulating, Sampling, Learned
    <2> HIDE DEF k
    <2> QED  BY <1>e, <1>f, <2>1, <2>2, <2>3
  <1>4. CASE mode = "full_simulation_baseline"
    <2> DEFINE s == HasStatus(pool, {"proposed", "frontier", "best_feasible",
                                     "best_infeasible", "queued_for_rollout"})
    <2>1. s \subseteq OpenForSimulation /\ (Takeable => s # {})
      BY DEF OpenForSimulation, HasStatus, Takeable, ExperimentInvariant, AllEvaluated
    <2>2. batch \in KSubsets(RemainingSimulations, s)
      BY <1>4 DEF Batches, Everything, Learned
    <2> HIDE DEF s
    <2> QED  BY <1>b, <1>d, <1>e, <2>1, <2>2
  <1>5. CASE mode \notin Learned \cup {"random_search_baseline", "top_k_baseline",
                                      "full_simulation_baseline"}
    <2>1. batch \in ServiceBatches
      BY <1>5 DEF Batches
    <2>2. WorthSimulating \subseteq OpenForSimulation /\ FallbackPool \subseteq OpenForSimulation
      BY DEF WorthSimulating, FallbackPool
    <2>3. Cardinality(WorthSimulating) \in Nat
          /\ (WorthSimulating # {} => Cardinality(WorthSimulating) > 0)
      BY <1>c, <2>2, FS_EmptySet
    <2>4. \A k \in Nat : /\ TopK(k) \in Nat /\ TopK(k) <= RemainingSimulations
                         /\ k > 0 /\ RemainingSimulations > 0 => TopK(k) > 0
      BY <1>b, ConstantsAssumption DEF TopK, Min2
    <2>5. CASE ~(Config(mode).escalation \/ WorthSimulating = {})
      <3> DEFINE k == Min2(1, TopK(Cardinality(WorthSimulating)))
      <3>1. k \in Nat /\ k <= RemainingSimulations
        BY <1>b, <2>3, <2>4 DEF Min2
      <3>2. batch \in KSubsets(k, WorthSimulating)
        BY <2>1, <2>5 DEF ServiceBatches
      <3>3. mode \notin Simulating
        BY <1>a, <1>5, <2>5, ModeFacts DEF Simulating, Sampling
      <3> HIDE DEF k
      <3> QED  BY <1>e, <2>2, <3>1, <3>2, <3>3
    <2>6. CASE Config(mode).escalation \/ WorthSimulating = {}
      <3>1. batch \in SimulationBatches
        BY <2>1, <2>6 DEF ServiceBatches
      <3>2. /\ batch \subseteq OpenForSimulation /\ batch \subseteq DOMAIN pool
            /\ IsFiniteSet(batch) /\ Cardinality(batch) \in Nat
        BY <1>a, <3>1, BatchInPool
      <3>3. Cardinality(batch) <= RemainingSimulations
        BY <1>a, <3>1, BatchAffordable
      <3>4. ASSUME mode \in Simulating, calls = 0 PROVE batch # {}
        <4>1. FallbackPool # {} /\ RemainingSimulations > 0
          BY <1>b, <1>d, <3>4 DEF Takeable, FallbackPool, OpenForSimulation, HasStatus
        <4>2. CASE WorthSimulating = {}
          BY <3>1, <4>1, <4>2 DEF SimulationBatches
        <4>3. CASE WorthSimulating # {}
          <5>1. Cardinality(batch) > 0
            BY <2>3, <2>4, <3>1, <4>1, <4>3 DEF SimulationBatches
          <5> QED  BY <5>1, FS_EmptySet
        <4> QED  BY <4>2, <4>3
      <3> QED  BY <3>2, <3>3, <3>4
    <2> QED  BY <2>5, <2>6
  <1> QED  BY <1>1, <1>2, <1>3, <1>4, <1>5

LEMMA SelectCorrect ==
  ASSUME ExperimentInvariant, Select
  PROVE  ExperimentInvariant'
  <1>1. PICK batch \in Batches :
          /\ TakeBatch(batch) /\ queue' = batch /\ selected' = Cardinality(batch)
          /\ pc' = IF batch = {} THEN "close" ELSE "simulate"
    BY DEF Select
  <1>2. pc = "select" /\ selectable' = Selectable /\ hit' = FALSE /\ UNCHANGED counters
    BY DEF Select
  <1>3. /\ suite' = suite /\ force' = force /\ results' = results /\ mode' = mode
        /\ step' = step /\ calls' = calls /\ focused' = focused /\ feasible' = feasible
        /\ firstHit' = firstHit /\ convergence' = convergence
    BY <1>2 DEF counters
  <1>4. /\ batch \subseteq OpenForSimulation /\ batch \subseteq DOMAIN pool
        /\ IsFiniteSet(batch) /\ Cardinality(batch) \in Nat
        /\ Cardinality(batch) <= RemainingSimulations
        /\ mode \in Simulating /\ calls = 0 => batch # {}
    BY <1>2, BatchEffect
  <1>5. /\ TypeOK /\ PoolOK(pool) /\ budget \in Budget /\ mode \in Mode
        /\ queue = {} /\ Cardinality(queue) = 0 /\ calls \in Nat
    BY <1>2, RunFacts DEF ExperimentInvariant
  <1> DEFINE marked == IF mode = "full_simulation_baseline" THEN {} ELSE batch
  <1>6. /\ frontierIds' = FrontierCandidates(pool')
        /\ pendingRefs' = pendingRefs \cup marked
        /\ budget' = Consumed(budget, 0, Cardinality(batch))
        /\ RefreshSearchState(FALSE)
        /\ UNCHANGED <<phase, stagnation, bundle>>
    BY <1>1 DEF TakeBatch
  <1>7. /\ DOMAIN pool' = DOMAIN pool /\ PoolOK(pool')
        /\ \A c \in DOMAIN pool :
              /\ pool'[c].belief = pool[c].belief
              /\ pool'[c].status \in {pool[c].status, "queued_for_simulation"}
    <2>1. pool' = [c \in DOMAIN pool |->
                     IF c \in marked THEN [pool[c] EXCEPT !.status = "queued_for_simulation"]
                     ELSE pool[c]]
      BY <1>1 DEF TakeBatch
    <2> HIDE DEF marked
    <2> QED  BY <1>5, <2>1 DEF PoolOK, Record, Status
  <1>8. /\ budget' \in Budget
        /\ budget'.simulations = budget.simulations + Cardinality(batch)
    BY <1>4, <1>5, <1>6, ConsumedType
  <1>9. TypeOK'
    <2>1. frontierIds' \subseteq DOMAIN pool'
      BY <1>6 DEF FrontierCandidates, HasStatus
    <2>2. pendingRefs' \subseteq DOMAIN pool'
      BY <1>4, <1>5, <1>6, <1>7 DEF TypeOK
    <2> QED  BY <1>5, <1>6, <1>7, <1>8, <2>1, <2>2, RefreshType DEF TypeOK
  <1>10. selectable' \in Nat /\ Cardinality(batch) <= selectable'
    <2>1. OpenForSimulation \subseteq DOMAIN pool
      BY DEF OpenForSimulation, HasStatus
    <2>2. IsFiniteSet(OpenForSimulation) /\ Cardinality(OpenForSimulation) \in Nat
      BY <1>5, <2>1, PoolSubsetFinite
    <2>3. Cardinality(batch) <= Cardinality(OpenForSimulation)
      BY <1>4, <2>2, FS_Subset
    <2>4. OpenForSimulation = {} => Cardinality(batch) = 0
      BY <1>4, FS_EmptySet
    <2> QED  BY <1>2, <2>2, <2>3, <2>4 DEF Selectable
  <1>11. ExperimentTypeOK'
    <2>1. {force', feasible', hit'} \subseteq BOOLEAN
      <3>1. force \in BOOLEAN /\ feasible \in BOOLEAN
        BY DEF ExperimentInvariant, ExperimentTypeOK
      <3> QED  BY <1>2, <1>3, <3>1, Zenon
    <2>2. queue' \subseteq DOMAIN pool' /\ {selected', selectable', calls', focused'} \subseteq Nat
      BY <1>1, <1>3, <1>4, <1>7, <1>10 DEF ExperimentInvariant, ExperimentTypeOK
    <2>3. /\ suite' \in Suites /\ results' \in Seq(Result) /\ Len(results') <= Len(suite')
          /\ \A i \in DOMAIN results' : results'[i].mode = suite'[i]
          /\ mode' \in Mode \cup {NoMode} /\ step' \in 0..MaxSteps
          /\ {convergence', firstHit'} \subseteq 0..MaxSteps \cup {NoStep}
      BY <1>3 DEF ExperimentInvariant, ExperimentTypeOK
    <2>4. pc' \in {"close", "simulate"}
      BY <1>1
    <2> QED  BY <2>1, <2>2, <2>3, <2>4 DEF ExperimentTypeOK
  <1>12. BooksBalance'
    <2>1. /\ budget.simulations = calls + 0 /\ budget.simulations <= SimulationBudget
          /\ pendingRefs = {}
      BY <1>5 DEF ExperimentInvariant, BooksBalance
    <2>2. budget'.simulations <= SimulationBudget
      BY <1>4, <1>8, <2>1, <1>5, ConstantsAssumption DEF RemainingSimulations
    <2>3. budget'.simulations = calls' + Cardinality(queue')
      BY <1>1, <1>3, <1>4, <1>5, <1>8, <2>1
    <2>4. pendingRefs' = IF mode = "full_simulation_baseline" THEN {} ELSE queue'
      BY <1>1, <1>6, <2>1
    <2> QED  BY <1>1, <1>3, <2>2, <2>3, <2>4 DEF BooksBalance
  <1>13. RatioValid'
    BY <1>1, <1>10 DEF RatioValid
  <1>14. RunOrder'
    BY <1>1, <1>2, <1>3 DEF ExperimentInvariant, RunOrder
  <1>15. AllEvaluated'
    BY <1>7 DEF ExperimentInvariant, AllEvaluated
  <1>16. FlagSuppressed'
    BY <1>1, FS_EmptySet DEF FlagSuppressed
  <1>17. SurrogateCautious'
    <2>1. bestFeasible' \in BestKnownFeasible(pool')
      BY <1>6 DEF RefreshSearchState
    <2> QED  BY <1>2, <1>3, <1>7, <2>1 DEF ExperimentInvariant, SurrogateCautious, Believed
  <1>18. FirstBatchComes'
    BY <1>1, <1>3, <1>4 DEF FirstBatchComes
  <1>19. FirstHitKept'
    BY <1>2, <1>3 DEF ExperimentInvariant, FirstHitKept
  <1>20. BaselinesSimulate' /\ FoundHasStep'
    BY <1>3 DEF ExperimentInvariant, BaselinesSimulate, FoundHasStep
  <1> QED  BY <1>9, <1>11, <1>12, <1>13, <1>14, <1>15, <1>16, <1>17, <1>18, <1>19, <1>20
           DEF ExperimentInvariant

(***************************************************************************)
(* Simulating a batch and closing the step                                 *)
(***************************************************************************)

\* An answer to one of the batch.
LEMMA SimulateCorrect ==
  ASSUME ExperimentInvariant, NEW c \in queue, Simulate(c)
  PROVE  ExperimentInvariant'
  <1>0. PICK f \in RequestedFidelity(c) : \E a \in Answers(f, TRUE) : \E h \in BOOLEAN :
          /\ IngestSimulationFeedback(c, [verdict |-> a.verdict, level |-> TruthLevel],
                                      a.lifecycle, Config(mode).calibration)
          /\ focused' = focused + (IF f = "focused_truth" THEN 1 ELSE 0)
          /\ feasible' = (feasible \/ h)
          /\ hit' = (hit \/ h)
    BY DEF Simulate
  <1>1. PICK a \in Answers(f, TRUE), h \in BOOLEAN :
          /\ IngestSimulationFeedback(c, [verdict |-> a.verdict, level |-> TruthLevel],
                                      a.lifecycle, Config(mode).calibration)
          /\ focused' = focused + (IF f = "focused_truth" THEN 1 ELSE 0)
          /\ feasible' = (feasible \/ h)
          /\ hit' = (hit \/ h)
    BY <1>0
  <1>2. /\ pc = "simulate" /\ queue' = queue \ {c} /\ calls' = calls + 1
        /\ pc' = IF Suppresses THEN "suppress" ELSE IF queue' = {} THEN "close" ELSE "simulate"
        /\ suite' = suite /\ force' = force /\ results' = results /\ mode' = mode
        /\ step' = step /\ selected' = selected /\ selectable' = selectable
        /\ firstHit' = firstHit /\ convergence' = convergence
    BY DEF Simulate
  <1>3. /\ TypeOK /\ PoolOK(pool) /\ mode \in Mode /\ c \in DOMAIN pool
        /\ calls \in Nat /\ focused \in Nat /\ budget.simulations \in Nat
        /\ IsFiniteSet(queue) /\ Cardinality(queue) \in Nat
    BY <1>2, RunFacts DEF ExperimentInvariant, ExperimentTypeOK
  <1> DEFINE truth == [verdict |-> a.verdict, level |-> TruthLevel]
  <1>4. truth \in Truth /\ a.lifecycle \in Feedback /\ Config(mode).calibration \in BOOLEAN
    <2>1. a \in Answer
      BY DEF Answers
    <2>2. Config(mode).calibration \in BOOLEAN
      BY <1>3 DEF Config, Mode
    <2> QED  BY <2>1, <2>2, ExperimentAssumption DEF Answer, Truth, Feedback
  <1>5. IngestSimulationFeedback(c, truth, a.lifecycle, Config(mode).calibration)
    BY <1>1
  <1> HIDE DEF truth
  <1>6. TypeOK'
    BY <1>3, <1>4, <1>5, TypeStep DEF Call, IngestAny
  <1>7. /\ DOMAIN pool' = DOMAIN pool
        /\ pool'[c].status \in {"verified", "rejected", "frontier", "best_feasible"}
        /\ \A d \in DOMAIN pool : pool'[d].belief = pool[d].belief
        /\ \A d \in DOMAIN pool \ {c} : pool'[d].status = pool[d].status
        /\ pendingRefs' = pendingRefs \ {c}
        /\ budget'.simulations = budget.simulations
        /\ bestFeasible' \in BestKnownFeasible(pool')
    BY <1>3, <1>4, <1>5, FeedbackEffect DEF RefreshSearchState
  <1>8. ExperimentTypeOK'
    <2>1. {force', feasible', hit'} \subseteq BOOLEAN
      <3>1. /\ force \in BOOLEAN /\ feasible \in BOOLEAN /\ hit \in BOOLEAN
        BY DEF ExperimentInvariant, ExperimentTypeOK
      <3>2. feasible' \in BOOLEAN /\ hit' \in BOOLEAN /\ force' \in BOOLEAN
        BY <1>1, <1>2, <3>1
      <3> QED  BY <3>2, Zenon
    <2>2. /\ queue' \subseteq DOMAIN pool'
          /\ {selected', selectable', calls', focused'} \subseteq Nat
      BY <1>1, <1>2, <1>3, <1>7 DEF ExperimentInvariant, ExperimentTypeOK
    <2>3. /\ suite' \in Suites /\ results' \in Seq(Result) /\ Len(results') <= Len(suite')
          /\ \A i \in DOMAIN results' : results'[i].mode = suite'[i]
          /\ mode' \in Mode \cup {NoMode} /\ step' \in 0..MaxSteps
          /\ {convergence', firstHit'} \subseteq 0..MaxSteps \cup {NoStep}
      BY <1>2 DEF ExperimentInvariant, ExperimentTypeOK
    <2>4. pc' \in {"suppress", "close", "simulate"}
      BY <1>2
    <2> QED  BY <2>1, <2>2, <2>3, <2>4 DEF ExperimentTypeOK
  <1>9. BooksBalance'
    <2>1. Cardinality(queue') = Cardinality(queue) - 1
      BY <1>2, <1>3, FS_RemoveElement
    <2>2. /\ budget.simulations = calls + Cardinality(queue)
          /\ budget.simulations <= SimulationBudget
          /\ pendingRefs = IF mode = "full_simulation_baseline" THEN {} ELSE queue
      BY DEF ExperimentInvariant, BooksBalance
    <2>3. pendingRefs' = IF mode = "full_simulation_baseline" THEN {} ELSE queue'
      BY <1>2, <1>7, <2>2
    <2> QED  BY <1>2, <1>3, <1>7, <2>1, <2>2, <2>3 DEF BooksBalance
  <1>10. RatioValid'
    BY <1>2 DEF ExperimentInvariant, RatioValid
  <1>11. RunOrder'
    BY <1>2 DEF ExperimentInvariant, RunOrder
  <1>12. AllEvaluated'
    BY <1>7 DEF ExperimentInvariant, AllEvaluated
  <1>13. FlagSuppressed'
    BY <1>2 DEF FlagSuppressed, Suppresses
  <1>14. SurrogateCautious'
    BY <1>1, <1>2, <1>7 DEF ExperimentInvariant, SurrogateCautious, Believed
  <1>15. FirstBatchComes'
    BY <1>2, <1>3 DEF FirstBatchComes
  <1>16. FirstHitKept'
    BY <1>1, <1>2 DEF ExperimentInvariant, FirstHitKept
  <1>17. BaselinesSimulate' /\ FoundHasStep'
    BY <1>2 DEF ExperimentInvariant, BaselinesSimulate, FoundHasStep
  <1> QED  BY <1>6, <1>8, <1>9, <1>10, <1>11, <1>12, <1>13, <1>14, <1>15, <1>16, <1>17
           DEF ExperimentInvariant

\* After an answer of a mode without calibration replanning.
LEMMA SuppressCorrect ==
  ASSUME ExperimentInvariant, Suppress
  PROVE  ExperimentInvariant'
  <1>1. /\ pc = "suppress" /\ calibrationRequired' = FALSE
        /\ pc' = IF queue = {} THEN "close" ELSE "simulate"
        /\ pool' = pool /\ frontierIds' = frontierIds /\ pendingRefs' = pendingRefs
        /\ budget' = budget /\ phase' = phase /\ stagnation' = stagnation
        /\ bestFeasible' = bestFeasible /\ traces' = traces /\ bundle' = bundle
        /\ queue' = queue /\ selected' = selected /\ selectable' = selectable /\ hit' = hit
    BY DEF Suppress, FlagCleared
  <1>2. /\ suite' = suite /\ force' = force /\ results' = results /\ mode' = mode
        /\ step' = step /\ calls' = calls /\ focused' = focused /\ feasible' = feasible
        /\ firstHit' = firstHit /\ convergence' = convergence
    BY DEF Suppress, counters
  <1>3. TypeOK'
    BY <1>1 DEF ExperimentInvariant, TypeOK
  <1>4. ExperimentTypeOK'
    BY <1>1, <1>2 DEF ExperimentInvariant, ExperimentTypeOK
  <1>5. BooksBalance' /\ RatioValid' /\ FlagSuppressed'
    BY <1>1, <1>2 DEF ExperimentInvariant, BooksBalance, RatioValid, FlagSuppressed
  <1>6. RunOrder' /\ AllEvaluated' /\ SurrogateCautious'
    BY <1>1, <1>2 DEF ExperimentInvariant, RunOrder, AllEvaluated, SurrogateCautious
  <1>7. FirstBatchComes'
    BY <1>1, <1>2 DEF ExperimentInvariant, FirstBatchComes
  <1>8. FirstHitKept'
    BY <1>1, <1>2 DEF ExperimentInvariant, FirstHitKept
  <1>9. BaselinesSimulate' /\ FoundHasStep'
    BY <1>2 DEF ExperimentInvariant, BaselinesSimulate, FoundHasStep
  <1> QED  BY <1>3, <1>4, <1>5, <1>6, <1>7, <1>8, <1>9 DEF ExperimentInvariant

LEMMA CloseStepCorrect ==
  ASSUME ExperimentInvariant, CloseStep
  PROVE  ExperimentInvariant'
  <1>1. /\ pc = "close" /\ pc' \in {"report", "propose"}
        /\ pc' = "propose" => step + 1 # MaxSteps
        /\ convergence' = IF convergence = NoStep /\ bestFeasible' # NoCandidate
                          THEN step ELSE convergence
        /\ firstHit' = IF firstHit = NoStep /\ hit THEN step ELSE firstHit
        /\ step' = step + 1
        /\ suite' = suite /\ force' = force /\ results' = results /\ mode' = mode
        /\ queue' = queue /\ selected' = selected /\ selectable' = selectable
        /\ calls' = calls /\ focused' = focused /\ feasible' = feasible /\ hit' = hit
    BY DEF CloseStep, LastStep
  <1>2. /\ TypeOK /\ queue = {} /\ step \in Nat /\ MaxSteps \in Nat /\ step < MaxSteps
    BY <1>1, RunFacts DEF ExperimentInvariant, RunOrder
  <1>3. /\ TypeOK' /\ pool' = pool /\ pendingRefs' = pendingRefs /\ budget' = budget
        /\ bestFeasible' \in BestKnownFeasible(pool') \/ bestFeasible' = bestFeasible
    <2>1. CASE Config(mode).phases
      <3>1. AdvancePhase
        BY <2>1 DEF CloseStep
      <3>2. TypeOK'
        BY <1>2, <3>1, TypeStep DEF Call
      <3> QED  BY <3>1, <3>2 DEF AdvancePhase, RefreshSearchState
    <2>2. CASE ~Config(mode).phases
      BY <1>2, <2>2 DEF CloseStep, IncrementPhaseIteration, TypeOK
    <2> QED  BY <2>1, <2>2
  <1>4. ExperimentTypeOK'
    <2>1. step' \in 0..MaxSteps /\ step \in 0..MaxSteps
      BY <1>1, <1>2
    <2>2. {convergence', firstHit'} \subseteq 0..MaxSteps \cup {NoStep}
      BY <1>1, <2>1 DEF ExperimentInvariant, ExperimentTypeOK
    <2>3. {force', feasible', hit'} \subseteq BOOLEAN
      BY <1>1 DEF ExperimentInvariant, ExperimentTypeOK
    <2>4. /\ suite' \in Suites /\ results' \in Seq(Result) /\ Len(results') <= Len(suite')
          /\ \A i \in DOMAIN results' : results'[i].mode = suite'[i]
          /\ mode' \in Mode \cup {NoMode} /\ queue' \subseteq DOMAIN pool'
          /\ {selected', selectable', calls', focused'} \subseteq Nat
      BY <1>1, <1>3 DEF ExperimentInvariant, ExperimentTypeOK
    <2> QED  BY <1>1, <2>1, <2>2, <2>3, <2>4 DEF ExperimentTypeOK
  <1>5. BooksBalance' /\ RatioValid' /\ FlagSuppressed'
    BY <1>1, <1>2, <1>3 DEF ExperimentInvariant, BooksBalance, RatioValid, FlagSuppressed
  <1>6. RunOrder'
    BY <1>1, <1>2 DEF ExperimentInvariant, RunOrder
  <1>7. AllEvaluated' /\ SurrogateCautious'
    BY <1>1, <1>3 DEF ExperimentInvariant, AllEvaluated, SurrogateCautious
  <1>8. FirstBatchComes'
    BY <1>1, <1>2 DEF ExperimentInvariant, FirstBatchComes
  <1>9. FirstHitKept'
    BY <1>1, <1>2, ExperimentAssumption DEF ExperimentInvariant, FirstHitKept
  <1>10. BaselinesSimulate' /\ FoundHasStep'
    BY <1>1 DEF ExperimentInvariant, BaselinesSimulate, FoundHasStep
  <1> QED  BY <1>3, <1>4, <1>5, <1>6, <1>7, <1>8, <1>9, <1>10 DEF ExperimentInvariant

\* The record of a run, and the runs before it.
LEMMA ReportRunCorrect ==
  ASSUME ExperimentInvariant, ReportRun
  PROVE  ExperimentInvariant'
  <1> DEFINE record == [mode |-> mode, calls |-> calls, found |-> feasible,
                        convergence |-> ConvergenceStep, focused |-> focused,
                        calibrations |-> budget.calibrations]
  <1>1. pc = "report" /\ pc' = "begin" /\ results' = Append(results, record)
    BY DEF ReportRun
  <1>2. /\ UNCHANGED vars
        /\ suite' = suite /\ force' = force /\ mode' = mode
        /\ step' = step /\ calls' = calls /\ focused' = focused /\ feasible' = feasible
        /\ firstHit' = firstHit /\ convergence' = convergence /\ queue' = queue
        /\ selected' = selected /\ selectable' = selectable /\ hit' = hit
    BY DEF ReportRun
  <1>3. /\ pool' = pool /\ pendingRefs' = pendingRefs /\ budget' = budget
        /\ frontierIds' = frontierIds /\ bestFeasible' = bestFeasible
    BY <1>2 DEF vars
  <1>4. /\ mode \in Mode /\ calls \in Nat /\ focused \in Nat /\ budget \in Budget
        /\ results \in Seq(Result) /\ Len(results) \in Nat /\ queue = {}
        /\ suite \in Seq(Mode) /\ Len(suite) \in Nat
    BY <1>1, RunFacts
  <1>5. Len(results) < Len(suite) /\ mode = suite[Len(results) + 1]
    BY <1>1 DEF ExperimentInvariant, RunOrder
  <1>6. ConvergenceStep \in Nat \cup {NoStep} /\ (feasible => ConvergenceStep # NoStep)
    <2>1. convergence \in 0..MaxSteps \cup {NoStep} /\ firstHit \in 0..MaxSteps \cup {NoStep}
      BY DEF ExperimentInvariant, ExperimentTypeOK
    <2>2. feasible => firstHit # NoStep
      BY <1>1 DEF ExperimentInvariant, FirstHitKept
    <2> QED  BY <2>1, <2>2 DEF ConvergenceStep
  <1>7. mode \in Simulating => calls > 0
    BY <1>1, <1>4 DEF ExperimentInvariant, FirstBatchComes
  <1>8. /\ record \in Result /\ record.mode = mode /\ record.calls = calls
        /\ record.found = feasible /\ record.convergence = ConvergenceStep
    <2>1. feasible \in BOOLEAN
      BY DEF ExperimentInvariant, ExperimentTypeOK
    <2>2. budget.calibrations \in Nat
      BY <1>4 DEF Budget
    <2> QED  BY <1>4, <1>6, <2>1, <2>2 DEF Result
  <1> HIDE DEF record
  <1>9. /\ results' \in Seq(Result) /\ Len(results') = Len(results) + 1
        /\ \A i \in DOMAIN results' :
              results'[i] = IF i = Len(results) + 1 THEN record ELSE results[i]
        /\ \A i \in DOMAIN results' : i # Len(results) + 1 => i \in DOMAIN results
    BY <1>1, <1>4, <1>8
  <1>10. TypeOK'
    BY <1>2, TypeStep DEF ExperimentInvariant
  <1>11. ExperimentTypeOK'
    <2>1. Len(results') <= Len(suite')
      BY <1>2, <1>4, <1>5, <1>9
    <2>2. \A i \in DOMAIN results' : results'[i].mode = suite'[i]
      BY <1>2, <1>5, <1>8, <1>9 DEF ExperimentInvariant, ExperimentTypeOK
    <2>3. /\ suite' \in Suites /\ mode' \in Mode \cup {NoMode} /\ step' \in 0..MaxSteps
          /\ queue' \subseteq DOMAIN pool' /\ {selected', selectable', calls', focused'} \subseteq Nat
          /\ {convergence', firstHit'} \subseteq 0..MaxSteps \cup {NoStep}
      BY <1>2, <1>3 DEF ExperimentInvariant, ExperimentTypeOK
    <2>4. {force', feasible', hit'} \subseteq BOOLEAN
      BY <1>2 DEF ExperimentInvariant, ExperimentTypeOK
    <2> QED  BY <1>1, <1>9, <2>1, <2>2, <2>3, <2>4 DEF ExperimentTypeOK
  <1>12. BooksBalance'
    BY <1>1, <1>2, <1>3, <1>4 DEF ExperimentInvariant, BooksBalance
  <1>13. BaselinesSimulate'
    BY <1>7, <1>8, <1>9 DEF ExperimentInvariant, BaselinesSimulate, Simulating
  <1>14. FoundHasStep'
    BY <1>6, <1>8, <1>9 DEF ExperimentInvariant, FoundHasStep
  <1>15. AllEvaluated' /\ RunOrder' /\ RatioValid' /\ FlagSuppressed' /\ SurrogateCautious'
    BY <1>1, <1>3 DEF ExperimentInvariant, AllEvaluated, RunOrder, RatioValid,
                      FlagSuppressed, SurrogateCautious
  <1>16. FirstBatchComes' /\ FirstHitKept'
    BY <1>1, <1>2 DEF ExperimentInvariant, FirstBatchComes, FirstHitKept
  <1> QED  BY <1>10, <1>11, <1>12, <1>13, <1>14, <1>15, <1>16 DEF ExperimentInvariant

LEMMA ExperimentStep ==
  ExperimentInvariant /\ [ExperimentNext]_allVars => ExperimentInvariant'
  <1> SUFFICES ASSUME ExperimentInvariant, [ExperimentNext]_allVars
               PROVE  ExperimentInvariant'
    OBVIOUS
  <1>1. CASE UNCHANGED allVars
    <2>1. /\ UNCHANGED vars
          /\ suite' = suite /\ force' = force /\ results' = results /\ mode' = mode
          /\ step' = step /\ calls' = calls /\ focused' = focused /\ feasible' = feasible
          /\ firstHit' = firstHit /\ convergence' = convergence /\ queue' = queue
          /\ selected' = selected /\ selectable' = selectable /\ hit' = hit /\ pc' = pc
      BY <1>1 DEF allVars, runVars
    <2>2. /\ pool' = pool /\ pendingRefs' = pendingRefs /\ budget' = budget
          /\ frontierIds' = frontierIds /\ bestFeasible' = bestFeasible
          /\ calibrationRequired' = calibrationRequired
      BY <2>1 DEF vars
    <2>3. TypeOK'
      BY <2>1, TypeStep DEF ExperimentInvariant
    <2>4. ExperimentTypeOK'
      BY <2>1, <2>2 DEF ExperimentInvariant, ExperimentTypeOK
    <2>5. BooksBalance' /\ RatioValid' /\ RunOrder' /\ AllEvaluated' /\ FlagSuppressed'
      BY <2>1, <2>2 DEF ExperimentInvariant, BooksBalance, RatioValid, RunOrder,
                        AllEvaluated, FlagSuppressed, Suppresses
    <2>6. SurrogateCautious' /\ FirstBatchComes' /\ FirstHitKept'
      BY <2>1, <2>2 DEF ExperimentInvariant, SurrogateCautious, FirstBatchComes, Takeable,
                        FirstHitKept, Believed
    <2>7. BaselinesSimulate' /\ FoundHasStep'
      BY <2>1 DEF ExperimentInvariant, BaselinesSimulate, FoundHasStep
    <2> QED  BY <2>3, <2>4, <2>5, <2>6, <2>7 DEF ExperimentInvariant
  <1> QED  BY <1>1, BeginRunCorrect, ServiceCorrect, GuideCorrect, MutationCorrect,
              SamplingCorrect, SelectCorrect, SimulateCorrect, SuppressCorrect,
              CloseStepCorrect, ReportRunCorrect DEF ExperimentNext

(***************************************************************************)
(* What the comparison may rely on                                         *)
(***************************************************************************)

\* Whatever the suite and its modes meet, every invariant of the runs holds.
THEOREM ExperimentCorrect == ExperimentSpec => []ExperimentInvariant
  BY ExperimentInitCorrect, ExperimentStep, PTL DEF ExperimentSpec

\* run_experiment, in every mode: every simulation charged to the budget is run or about
\* to be, the budget is never overspent, and no step selects more than
\* the log record allows.
COROLLARY AccountsCorrect == ExperimentSpec => []AccountsSound
  <1>1. ExperimentInvariant => AccountsSound
    BY DEF ExperimentInvariant, AccountsSound
  <1> QED  BY <1>1, ExperimentCorrect, PTL

\* No learned baseline believes in a candidate it has no evidence for, every baseline
\* that is compared has simulated something, and what was found has a step.
COROLLARY ClaimsCorrect == ExperimentSpec => []ClaimsEarned
  <1>1. ExperimentInvariant => ClaimsEarned
    <2> SUFFICES ASSUME ExperimentInvariant PROVE ClaimsEarned
      OBVIOUS
    <2>1. ASSUME mode \in Learned, pc # "begin", bestFeasible # NoCandidate, ~feasible
          PROVE  pool[bestFeasible].status \in {"verified", "best_feasible"}
      <3>1. /\ bestFeasible \in BestKnownFeasible(pool)
            /\ \A c \in DOMAIN pool : Believed(pool, c).feasibility < 80
        BY <2>1 DEF ExperimentInvariant, SurrogateCautious
      <3>2. PoolOK(pool)
        BY RunFacts
      <3>3. \A c \in DOMAIN pool : Believed(pool, c).feasibility \in Int
        BY <3>2, PredictAssumption DEF Believed, PoolOK, Record, Prediction, Percent
      <3>4. {c \in DOMAIN pool : Believed(pool, c).feasibility >= 80} = {}
        BY <3>1, <3>3
      <3> QED  BY <2>1, <3>1, <3>4 DEF BestKnownFeasible, HasStatus
    <2> QED  BY <2>1 DEF ExperimentInvariant, ClaimsEarned, SurrogateClaimsEarned
  <1> QED  BY <1>1, ExperimentCorrect, PTL

\* _suppress_calibration_replanning: without calibration replanning no step that
\* simulated something sends the search into recovery.
THEOREM SuppressedCorrect == ExperimentSpec => SuppressedSteps
  <1> DEFINE Kept == Suppresses /\ selected > 0 /\ phase' = "calibration_recovery" =>
                       phase = "calibration_recovery"
  <1>1. ExperimentInvariant /\ [ExperimentNext]_allVars => [Kept]_allVars
    <2> SUFFICES ASSUME ExperimentInvariant, ExperimentNext, Suppresses, selected > 0,
                        phase' = "calibration_recovery"
                 PROVE  phase = "calibration_recovery"
      OBVIOUS
    <2>1. CASE BeginRun
      BY <2>1, ConstantsAssumption DEF BeginRun
    <2>2. CASE CloseStep
      <3>1. CASE Config(mode).phases
        <4>1. AdvancePhase /\ ~calibrationRequired
          BY <2>2, <3>1 DEF CloseStep, ExperimentInvariant, FlagSuppressed
        <4> QED  BY <4>1 DEF AdvancePhase, NextPhase, IncrementPhaseIteration
      <3>2. CASE ~Config(mode).phases
        BY <2>2, <3>2 DEF CloseStep, IncrementPhaseIteration
      <3> QED  BY <3>1, <3>2
    <2>3. CASE ProposeByService \/ EvaluateByService \/ Guide
      BY <2>3 DEF ProposeByService, EvaluateByService, Guide, ProposeCandidates,
                  EvaluateCandidates, PlanNextActions, IncrementPhaseIteration, vars
    <2>4. CASE ProposeByMutation \/ ProposeBySampling \/ Select
      BY <2>4 DEF ProposeByMutation, ProposeBySampling, Select, TakeBatch, vars
    <2>5. ASSUME NEW c \in queue, Simulate(c) PROVE phase' = phase
      BY <2>5 DEF Simulate, IngestSimulationFeedback
    <2>6. CASE Suppress \/ ReportRun
      BY <2>6 DEF Suppress, ReportRun, vars
    <2> QED  BY <2>1, <2>2, <2>3, <2>4, <2>5, <2>6 DEF ExperimentNext
  <1> QED  BY <1>1, ExperimentCorrect, PTL DEF ExperimentSpec, SuppressedSteps
==============================================================================
