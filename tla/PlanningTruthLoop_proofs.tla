---------------------- MODULE PlanningTruthLoop_proofs ----------------------
(***************************************************************************)
(* Proofs about the truth loop.  Every step of the loop is a call of the   *)
(* service or leaves the search state alone, so what is proved of any      *)
(* caller holds of the loop; the books of the loop are then proved to      *)
(* agree with the planner's.                                               *)
(***************************************************************************)
EXTENDS PlanningTruthLoop, PlanningService_proofs

LEMMA LoopInitCorrect == LoopInit => LoopInvariant
  <1> SUFFICES ASSUME LoopInit PROVE LoopInvariant
    OBVIOUS
  <1>1. EscalationInvariant
    BY EscalationInit DEF LoopInit
  <1>2. /\ budget.simulations = 0 /\ pendingRefs = {}
        /\ DOMAIN queue = {} /\ executed = 0 /\ baseline = 0
        /\ pc = "propose" /\ truthLevel \in {"strong", "demonstrator"}
    BY DEF LoopInit, Init
  <1>3. Cardinality({}) = 0
    BY FS_EmptySet
  <1> QED  BY <1>1, <1>2, <1>3 DEF LoopInvariant, BooksClose, ComparisonHonest

\* The answer of a simulation reaches the planner as feedback on a candidate it knows.
LEMMA SimulationIngested ==
  ASSUME LoopInvariant, NEW c \in DOMAIN queue, Simulate(c)
  PROVE  /\ c \in DOMAIN pool
         /\ \E truth \in Truth, feedback \in Feedback :
              IngestSimulationFeedback(c, truth, feedback, TRUE)
  <1>1. c \in DOMAIN pool
    BY DEF LoopInvariant, BooksClose, EscalationInvariant, TypeOK
  <1>2. PICK a \in Answers(ExecutedFidelity(c), Constrained) : Ingest(c, a)
    BY DEF Simulate
  <1>3. a \in Answer
    BY DEF Answers
  <1> DEFINE truth == [verdict |-> a.verdict, level |-> truthLevel]
  <1>4. truth \in Truth /\ a.lifecycle \in Feedback
    BY <1>3 DEF Answer, Truth, Feedback, LoopInvariant
  <1>5. IngestSimulationFeedback(c, truth, a.lifecycle, TRUE)
    BY <1>2 DEF Ingest
  <1> QED  BY <1>1, <1>4, <1>5

\* A step of the loop is a call of the service.
LEMMA LoopStepIsCall ==
  ASSUME LoopInvariant, [LoopNext]_allVars
  PROVE  [Call]_vars
  <1>1. CASE Propose \/ Evaluate \/ Advance
    BY <1>1 DEF Propose, Evaluate, Advance, Call
  <1>2. CASE Select
    BY <1>2 DEF Select, Call
  <1>3. ASSUME NEW c \in DOMAIN queue, Simulate(c) PROVE Call
    BY <1>3, SimulationIngested DEF Call, IngestAny
  <1>4. CASE VerificationRaises \/ UNCHANGED allVars
    BY <1>4 DEF VerificationRaises, allVars
  <1> QED  BY <1>1, <1>2, <1>3, <1>4 DEF LoopNext

\* The baseline counts finitely many candidates.
LEMMA BaselineFinite ==
  ASSUME NEW p, PoolOK(p)
  PROVE  /\ IsFiniteSet(BaselineCandidates(p))
         /\ Cardinality(BaselineCandidates(p)) \in Nat
  <1>1. BaselineCandidates(p) \subseteq DOMAIN p /\ IsFiniteSet(DOMAIN p)
    BY DEF BaselineCandidates, HasStatus, PoolOK
  <1> QED  BY <1>1, FS_Subset, FS_CardinalityType

\* Every batch is among the candidates the baseline has counted.
LEMMA BatchInBaseline ==
  ASSUME PoolOK(pool), NEW batch \in SimulationBatches
  PROVE  Cardinality(batch) <= Cardinality(BaselineCandidates(pool))
  <1>1. batch \subseteq BaselineCandidates(pool)
    BY BatchInPool, BatchNotBlocked DEF BaselineCandidates, OpenForSimulation
  <1> QED  BY <1>1, BaselineFinite, FS_Subset

LEMMA LoopStep == LoopInvariant /\ [LoopNext]_allVars => LoopInvariant'
  <1> SUFFICES ASSUME LoopInvariant, [LoopNext]_allVars PROVE LoopInvariant'
    OBVIOUS
  <1>a. EscalationInvariant /\ EscalationInvariant'
    BY LoopStepIsCall, EscalationStep DEF LoopInvariant
  <1>b. TypeOK /\ TypeOK' /\ PoolOK(pool) /\ PoolOK(pool)'
    BY <1>a DEF EscalationInvariant, TypeOK
  <1>c. /\ executed \in Nat /\ baseline \in Nat /\ budget.simulations \in Nat
        /\ truthLevel \in {"strong", "demonstrator"}
        /\ BooksClose /\ ComparisonHonest
        /\ IsFiniteSet(DOMAIN queue) /\ Cardinality(DOMAIN queue) \in Nat
    BY <1>b, PoolSubsetFinite DEF LoopInvariant, BooksClose, TypeOK, Budget
  <1>1. CASE Propose
    <2>1. budget'.simulations = budget.simulations /\ pendingRefs' = pendingRefs
      BY <1>1, <1>b, EvaluationEffect DEF Propose
    <2> QED  BY <1>1, <1>a, <1>c, <2>1
             DEF Propose, LoopInvariant, BooksClose, ComparisonHonest
  <1>2. CASE Evaluate
    <2>1. budget'.simulations = budget.simulations /\ pendingRefs' = pendingRefs
      BY <1>2, <1>b, EvaluationEffect DEF Evaluate
    <2>2. Cardinality(BaselineCandidates(pool')) \in Nat
      BY <1>b, BaselineFinite
    <2>3. DOMAIN queue = {} /\ Cardinality(DOMAIN queue) = 0
      BY <1>2, <1>c, FS_EmptySet DEF Evaluate, BooksClose
    <2>4. executed' + Cardinality(BaselineCandidates(pool')) <= baseline'
      BY <1>2, <1>c, <2>2, <2>3 DEF Evaluate, Counted, ComparisonHonest
    <2> QED  BY <1>2, <1>a, <1>c, <2>1, <2>2, <2>3, <2>4
             DEF Evaluate, Counted, LoopInvariant, BooksClose, ComparisonHonest
  <1>3. CASE Select
    <2>1. PICK batch \in SimulationBatches :
            /\ SelectForSimulation(batch)
            /\ queue' \in RequestedFidelities(batch)
            /\ pc' = IF batch = {} THEN "advance" ELSE "simulate"
      BY <1>3 DEF Select
    <2>2. DOMAIN queue' = batch
      BY <2>1 DEF RequestedFidelities
    <2>3. /\ Cardinality(batch) \in Nat
          /\ pendingRefs' = pendingRefs \cup batch
          /\ budget'.simulations = budget.simulations + Cardinality(batch)
      BY <1>b, <2>1, SelectionEffect
    <2>4. DOMAIN queue = {} /\ pendingRefs = {} /\ budget.simulations = executed
      BY <1>3, <1>c, FS_EmptySet DEF Select, BooksClose
    <2>5. executed + Cardinality(batch) <= baseline
      BY <1>3, <1>b, <1>c, <2>1, <2>3, BatchInBaseline, BaselineFinite
         DEF Select, LoopInvariant
    <2> QED  BY <1>3, <1>a, <1>c, <2>1, <2>2, <2>3, <2>4, <2>5
             DEF Select, LoopInvariant, BooksClose, ComparisonHonest
  <1>4. ASSUME NEW c \in DOMAIN queue, Simulate(c) PROVE LoopInvariant'
    <2>1. PICK truth \in Truth, feedback \in Feedback :
            IngestSimulationFeedback(c, truth, feedback, TRUE)
      BY <1>4, SimulationIngested
    <2>2. /\ pendingRefs' = pendingRefs \ {c}
          /\ budget'.simulations = budget.simulations
      BY <1>4, <1>b, <2>1, SimulationIngested, FeedbackEffect
    <2>3. DOMAIN queue' = DOMAIN queue \ {c} /\ executed' = executed + 1
      BY <1>4 DEF Simulate
    <2>4. Cardinality(DOMAIN queue') = Cardinality(DOMAIN queue) - 1
      BY <1>4, <1>c, <2>3, FS_RemoveElement
    <2>5. pc' \in {"simulate", "advance"} /\ (pc' = "advance" => DOMAIN queue' = {})
      BY <1>4 DEF Simulate
    <2>6. baseline' = baseline /\ truthLevel' = truthLevel
      BY <1>4 DEF Simulate
    <2> QED  BY <1>a, <1>c, <2>2, <2>3, <2>4, <2>5, <2>6
             DEF LoopInvariant, BooksClose, ComparisonHonest
  <1>5. CASE VerificationRaises \/ UNCHANGED allVars
    BY <1>5, <1>a, <1>c DEF VerificationRaises, allVars, vars, loopVars, LoopInvariant,
       BooksClose, ComparisonHonest, BaselineCandidates, HasStatus, Believed
  <1>6. CASE Advance
    <2>1. pc' \in {"finished", "propose"}
      BY <1>6 DEF Advance
    <2> QED  BY <1>6, <1>a, <1>c, <2>1
             DEF Advance, AdvancePhase, LoopInvariant, BooksClose, ComparisonHonest
  <1> QED  BY <1>1, <1>2, <1>3, <1>4, <1>5, <1>6 DEF LoopNext

\* Whatever the simulator answers, and wherever the loop stops: the planner's books
\* agree with what the loop has simulated, and the loop has simulated no more than
\* the baseline it is compared with.
THEOREM LoopCorrect == LoopSpec => []LoopInvariant
  BY LoopInitCorrect, LoopStep, PTL DEF LoopSpec

\* What was charged was simulated or waits; what is pending is what waits.
COROLLARY BooksCorrect == LoopSpec => []BooksClose
  <1>1. LoopInvariant => BooksClose
    BY DEF LoopInvariant
  <1> QED  BY <1>1, LoopCorrect, PTL

\* The savings the loop reports are never negative before they are clipped.
COROLLARY ComparisonCorrect == LoopSpec => []ComparisonHonest
  <1>1. LoopInvariant => ComparisonHonest
    BY DEF LoopInvariant
  <1> QED  BY <1>1, LoopCorrect, PTL

(***************************************************************************)
(* What a verdict rests on                                                 *)
(***************************************************************************)

\* The status an answer leaves is the one its lifecycle update asked for, except that
\* demonstrator truth verifies nothing.
LEMMA AnsweredAsAsked ==
  ASSUME TypeOK, NEW c \in DOMAIN pool, NEW a \in Answer, Ingest(c, a)
  PROVE  /\ DOMAIN pool' = DOMAIN pool
         /\ \A d \in DOMAIN pool \ {c} : pool'[d].status = pool[d].status
         /\ pool'[c].status = "verified" =>
               a.lifecycle = "verified" /\ truthLevel # "demonstrator"
         /\ pool'[c].status = "rejected" => a.lifecycle = "rejected"
         /\ pool'[c].status = "best_feasible" =>
               \/ a.lifecycle = "boundary_candidate"
               \/ a.lifecycle = "verified" /\ truthLevel = "demonstrator"
  <1> DEFINE truth == [verdict |-> a.verdict, level |-> truthLevel]
             asked == RequestedLifecycle(c, truth, a.lifecycle)
  <1>1. pool' = [pool EXCEPT ![c].status = LifecycleStatus[asked]]
    BY DEF Ingest, IngestSimulationFeedback
  <1>2. /\ DOMAIN pool' = DOMAIN pool
        /\ \A d \in DOMAIN pool \ {c} : pool'[d].status = pool[d].status
        /\ pool'[c].status = LifecycleStatus[asked]
    BY <1>1 DEF TypeOK, PoolOK, Record
  <1>3. asked = IF truthLevel = "demonstrator" /\ a.lifecycle = "verified"
                THEN "boundary_candidate" ELSE a.lifecycle
    BY DEF RequestedLifecycle, Answer
  <1> HIDE DEF asked
  <1> QED  BY <1>2, <1>3 DEF Answer, LifecycleStatus

LEMMA VerdictsStep ==
  LoopInvariant /\ VerdictsEarned /\ [LoopNext]_allVars => VerdictsEarned'
  <1> SUFFICES ASSUME LoopInvariant, VerdictsEarned, [LoopNext]_allVars
               PROVE  VerdictsEarned'
    OBVIOUS
  <1>a. TypeOK /\ bundle \in Bundles
    BY DEF LoopInvariant, EscalationInvariant, TypeOK
  <1>1. CASE Propose \/ Evaluate
    <2>1. ProposeCandidates \/ EvaluateCandidates
      BY <1>1 DEF Propose, Evaluate
    <2>2. \A c \in DOMAIN pool' :
            pool'[c].status \in {"frontier", "screened_out"} \/
              (c \in DOMAIN pool /\ pool'[c].status = pool[c].status)
      BY <1>a, <2>1, EvaluationEffect, EvaluatedRecord
    <2>3. answers' = answers /\ truthLevel' = truthLevel
      BY <1>1 DEF Propose, Evaluate
    <2> QED  BY <2>2, <2>3 DEF VerdictsEarned
  <1>2. CASE Select
    <2>1. PICK batch \in SimulationBatches : SelectForSimulation(batch)
      BY <1>2 DEF Select
    <2>2. /\ DOMAIN pool' = DOMAIN pool
          /\ \A c \in DOMAIN pool : pool'[c].status = "queued_for_simulation"
                                      \/ pool'[c].status = pool[c].status
      BY <1>a, <2>1, SelectionEffect
    <2>3. answers' = answers /\ truthLevel' = truthLevel
      BY <1>2 DEF Select
    <2> QED  BY <2>2, <2>3 DEF VerdictsEarned
  <1>3. ASSUME NEW c \in DOMAIN queue, Simulate(c) PROVE VerdictsEarned'
    <2>1. c \in DOMAIN pool
      BY <1>3, SimulationIngested
    <2>2. PICK a \in Answers(ExecutedFidelity(c), Constrained) : Ingest(c, a)
      BY <1>3 DEF Simulate
    <2>3. /\ a \in Answer
          /\ a.lifecycle = "verified" =>
                a.verdict # "fail" /\ ExecutedFidelity(c) = "full_robustness_certification"
          /\ a.lifecycle = "rejected" => a.verdict = "fail"
      BY DEF Answers
    <2>4. /\ DOMAIN answers' = DOMAIN answers \cup {c}
          /\ answers'[c] = [lifecycle |-> a.lifecycle, verdict |-> a.verdict,
                            fidelity |-> ExecutedFidelity(c)]
          /\ \A d \in DOMAIN answers \ {c} : answers'[d] = answers[d]
      BY <2>2 DEF Ingest, Upsert
    <2>5. truthLevel' = truthLevel
      BY <1>3 DEF Simulate
    <2>6. /\ DOMAIN pool' = DOMAIN pool
          /\ \A d \in DOMAIN pool \ {c} : pool'[d].status = pool[d].status
          /\ pool'[c].status = "verified" =>
                a.lifecycle = "verified" /\ truthLevel # "demonstrator"
          /\ pool'[c].status = "rejected" => a.lifecycle = "rejected"
          /\ pool'[c].status = "best_feasible" =>
                \/ a.lifecycle = "boundary_candidate"
                \/ a.lifecycle = "verified" /\ truthLevel = "demonstrator"
      BY <1>a, <2>1, <2>2, <2>3, AnsweredAsAsked
    <2>7. ASSUME NEW d \in DOMAIN pool', d = c
          PROVE  /\ pool'[d].status = "verified" =>
                       /\ d \in DOMAIN answers'
                       /\ answers'[d].lifecycle = "verified"
                       /\ answers'[d].verdict # "fail"
                       /\ answers'[d].fidelity = "full_robustness_certification"
                       /\ truthLevel' # "demonstrator"
                 /\ pool'[d].status = "rejected" =>
                       d \in DOMAIN answers' /\ answers'[d].verdict = "fail"
                 /\ pool'[d].status = "best_feasible" =>
                       /\ d \in DOMAIN answers'
                       /\ \/ answers'[d].lifecycle = "boundary_candidate"
                          \/ answers'[d].lifecycle = "verified"
                               /\ truthLevel' = "demonstrator"
      BY <2>3, <2>4, <2>5, <2>6, <2>7
    <2>8. \A d \in DOMAIN pool' \ {c} :
             /\ pool'[d].status = pool[d].status /\ d \in DOMAIN pool
             /\ d \in DOMAIN answers <=> d \in DOMAIN answers'
             /\ d \in DOMAIN answers => answers'[d] = answers[d]
      BY <2>4, <2>6
    <2> QED  BY <2>5, <2>7, <2>8 DEF VerdictsEarned
  <1>4. CASE VerificationRaises \/ UNCHANGED allVars
    BY <1>4 DEF VerificationRaises, allVars, vars, loopVars, VerdictsEarned
  <1>5. CASE Advance
    BY <1>5 DEF Advance, AdvancePhase, VerdictsEarned
  <1> QED  BY <1>1, <1>2, <1>3, <1>4, <1>5 DEF LoopNext

\* No candidate is verified but by a full certification under trusted truth, and none
\* rejected but by a failing constraint.
THEOREM VerdictsCorrect == LoopSpec => []VerdictsEarned
  <1>1. LoopInit => VerdictsEarned
    <2> SUFFICES ASSUME LoopInit PROVE VerdictsEarned
      OBVIOUS
    <2>1. \A c \in DOMAIN pool : /\ pool[c].status \in {"frontier", "screened_out"}
      BY EvaluatedRecord DEF LoopInit, Init
    <2> QED  BY <2>1 DEF VerdictsEarned
  <1> QED  BY <1>1, VerdictsStep, LoopCorrect, PTL DEF LoopSpec

(***************************************************************************)
(* The planner stops the loop                                              *)
(***************************************************************************)

LEMMA TraceStep ==
  LoopInvariant /\ TraceInvariant /\ [LoopNext]_allVars => TraceInvariant'
  <1> SUFFICES ASSUME LoopInvariant, TraceInvariant, [LoopNext]_allVars
               PROVE  TraceInvariant'
    OBVIOUS
  <1>a. traces \in Nat /\ step \in Nat
    BY DEF LoopInvariant, EscalationInvariant, TypeOK, TraceInvariant
  <1>1. CASE Propose \/ Evaluate
    <2>1. traces' = traces + 1
      BY <1>1 DEF Propose, Evaluate, ProposeCandidates, EvaluateCandidates,
                  RefreshSearchState
    <2> QED  BY <1>1, <1>a, <2>1 DEF Propose, Evaluate, TraceInvariant
  <1>2. CASE Select
    <2>1. traces' = traces + 1 /\ pc' \in {"simulate", "advance"}
      BY <1>2 DEF Select, SelectForSimulation, RefreshSearchState
    <2> QED  BY <1>2, <1>a, <2>1 DEF Select, TraceInvariant
  <1>3. ASSUME NEW c \in DOMAIN queue, Simulate(c) PROVE TraceInvariant'
    <2>1. traces' = traces + 1 /\ pc' \in {"simulate", "advance"}
      BY <1>3 DEF Simulate, Ingest, IngestSimulationFeedback, RefreshSearchState
    <2> QED  BY <1>3, <1>a, <2>1 DEF Simulate, TraceInvariant
  <1>4. CASE VerificationRaises \/ UNCHANGED allVars
    BY <1>4 DEF VerificationRaises, allVars, vars, loopVars, TraceInvariant
  <1>5. CASE Advance
    <2>1. traces' = traces + 1 /\ step' = step + 1 /\ pc = "advance"
      BY <1>5 DEF Advance, AdvancePhase, RefreshSearchState
    <2>2. pc' = "finished" \/ (pc' = "propose" /\ ~ShouldTerminate')
      BY <1>5 DEF Advance
    <2>3. ~ShouldTerminate' => ~(traces' >= MaxIterations)
      BY DEF ShouldTerminate, TerminationReason
    <2> QED  BY <1>a, <2>1, <2>2, <2>3, ConstantsAssumption DEF TraceInvariant
  <1> QED  BY <1>1, <1>2, <1>3, <1>4, <1>5 DEF LoopNext

\* The planner's own tests end the loop after a quarter of max_iterations steps.
THEOREM StopsCorrect == LoopSpec => []StopsByItself
  <1>1. LoopInit => TraceInvariant
    BY DEF LoopInit, Init, TraceInvariant
  <1>2. LoopInvariant /\ TraceInvariant => StopsByItself
    BY ConstantsAssumption
       DEF LoopInvariant, EscalationInvariant, TypeOK, TraceInvariant, StopsByItself
  <1> QED  BY <1>1, <1>2, TraceStep, LoopCorrect, PTL DEF LoopSpec
=============================================================================
