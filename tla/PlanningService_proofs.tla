---------------------- MODULE PlanningService_proofs ----------------------
(***************************************************************************)
(* Proofs about PlanningService, for every task, policy and budget: the    *)
(* type invariant, the invariants of the escalation to the simulator, and  *)
(* the two properties of the phase changes.                                *)
(***************************************************************************)
EXTENDS PlanningService, TLAPS, FiniteSetTheorems

(***************************************************************************)
(* The helpers of the pool                                                 *)
(***************************************************************************)

\* A record that the bundle has just evaluated is on the frontier or dropped, and
\* what is blocked is dropped.
LEMMA EvaluatedRecord ==
  ASSUME NEW b \in Bundles, NEW c
  PROVE  /\ Evaluated(b, c) \in Record
         /\ Evaluated(b, c).status \in {"frontier", "screened_out"}
         /\ Evaluated(b, c).belief = b
  BY DEF Evaluated, ScreenedStatus, Record, Status

\* Upserting a finite batch of evaluated records keeps the pool a finite pool.
LEMMA UpsertEvaluated ==
  ASSUME NEW p, PoolOK(p), NEW C \in SUBSET Candidate, IsFiniteSet(C),
         NEW b \in Bundles, NEW r, r = [c \in C |-> Evaluated(b, c)],
         NEW q, q = Upsert(p, r)
  PROVE  /\ PoolOK(q)
         /\ DOMAIN q = DOMAIN p \cup C
         /\ \A c \in DOMAIN q : q[c] = IF c \in C THEN Evaluated(b, c) ELSE p[c]
  <1>1. DOMAIN r = C /\ \A c \in C : r[c] = Evaluated(b, c)
    OBVIOUS
  <1>2. /\ DOMAIN q = DOMAIN p \cup C
        /\ \A c \in DOMAIN q : q[c] = IF c \in C THEN r[c] ELSE p[c]
    BY <1>1 DEF Upsert
  <1>3. \A c \in DOMAIN q : q[c] \in Record
    BY <1>1, <1>2, EvaluatedRecord DEF PoolOK
  <1>4. q \in [DOMAIN q -> Record]
    <2>1. q = [c \in DOMAIN q |-> q[c]]
      BY <1>2 DEF Upsert
    <2> QED  BY <2>1, <1>3
  <1>5. IsFiniteSet(DOMAIN q)
    BY <1>2, FS_Union DEF PoolOK
  <1> QED  BY <1>1, <1>2, <1>4, <1>5 DEF PoolOK

\* The best known feasible candidate, if any, is one of the pool.
LEMMA BestKnownInPool ==
  ASSUME NEW p
  PROVE  BestKnownFeasible(p) \subseteq DOMAIN p \cup {NoCandidate}
  BY DEF BestKnownFeasible, HasStatus

\* Every anchor assignment names finitely many known mutations.
LEMMA ProposedFinite ==
  ASSUME NEW k \in Nat, NEW anchors \in [1..k -> Candidate], NEW n \in Nat,
         phase \in Phase
  PROVE  /\ Proposed(anchors, n) \subseteq Candidate
         /\ IsFiniteSet(Proposed(anchors, n))
  <1> DEFINE M(j) == Mutations(anchors, j, n)
             A(j) == {i \in 1..Branching : (j - 1) * Branching + i <= n}
             f(j) == [i \in A(j) |-> Child(anchors[j], phase, i)]
             g == [j \in 1..k |-> M(j)]
  <1>1. ASSUME NEW j \in 1..k
        PROVE  M(j) \subseteq Candidate /\ IsFiniteSet(M(j))
    <2>1. M(j) \subseteq Candidate
      BY ChildAssumption DEF Mutations
    <2>2. IsFiniteSet(A(j))
      <3>1. IsFiniteSet(1..Branching)
        BY FS_Interval, ConstantsAssumption
      <3>2. A(j) \in SUBSET (1..Branching)
        OBVIOUS
      <3> HIDE DEF A
      <3> QED  BY <3>1, <3>2, FS_Subset
    <2>3. f(j) \in Surjection(A(j), M(j))
      BY DEF Surjection, Mutations
    <2> HIDE DEF A, M, f
    <2> QED  BY <2>1, <2>2, <2>3, FS_Surjection
  <1>2. DOMAIN anchors = 1..k
    OBVIOUS
  <1> HIDE DEF M
  <1>3. g \in Surjection(1..k, {M(j) : j \in 1..k})
    BY DEF Surjection
  <1>4. IsFiniteSet(1..k)
    BY FS_Interval
  <1> HIDE DEF g
  <1>5. IsFiniteSet({M(j) : j \in 1..k})
    BY <1>3, <1>4, FS_Surjection
  <1>6. IsFiniteSet(UNION {M(j) : j \in 1..k})
    BY <1>1, <1>5, FS_UNION
  <1>7. Proposed(anchors, n) = UNION {M(j) : j \in 1..k}
    BY <1>2 DEF Proposed, M
  <1> QED  BY <1>1, <1>6, <1>7

\* A set of the pool's candidates is finite.
LEMMA PoolSubsetFinite ==
  ASSUME PoolOK(pool), NEW S, S \subseteq DOMAIN pool
  PROVE  IsFiniteSet(S) /\ Cardinality(S) \in Nat
  BY FS_Subset, FS_CardinalityType DEF PoolOK

(***************************************************************************)
(* Type correctness                                                        *)
(***************************************************************************)

\* A call that refreshes the derived views leaves them well typed.
LEMMA RefreshType ==
  ASSUME NEW required \in BOOLEAN, RefreshSearchState(required),
         traces \in Nat
  PROVE  /\ bestFeasible' \in DOMAIN pool' \cup {NoCandidate}
         /\ calibrationRequired' \in BOOLEAN
         /\ traces' \in Nat
  <1>1. bestFeasible' \in DOMAIN pool' \cup {NoCandidate}
    BY BestKnownInPool DEF RefreshSearchState
  <1> QED  BY <1>1 DEF RefreshSearchState

\* The initial search state is well typed.
LEMMA TypeInit == Init => TypeOK
  <1> SUFFICES ASSUME Init PROVE TypeOK
    OBVIOUS
  <1> USE DEF Init
  <1>1. PoolOK(pool)
    <2>1. DOMAIN pool = Seeds
      OBVIOUS
    <2>2. \A c \in Seeds : pool[c] \in Record
      BY EvaluatedRecord
    <2>3. pool \in [Seeds -> Record]
      BY <2>2
    <2> QED  BY <2>1, <2>3, ConstantsAssumption DEF PoolOK
  <1>2. frontierIds \subseteq DOMAIN pool
    BY DEF HasStatus
  <1>3. budget \in Budget
    BY FS_CardinalityType, ConstantsAssumption DEF Budget
  <1>4. phase \in Phase
    BY ConstantsAssumption DEF Phase
  <1>5. bestFeasible \in DOMAIN pool \cup {NoCandidate}
    BY BestKnownInPool
  <1> QED  BY <1>1, <1>2, <1>3, <1>4, <1>5 DEF TypeOK

\* The anchors of a proposal are known candidates, finitely many.
LEMMA AnchorsType ==
  ASSUME PoolOK(pool), NEW anchors \in Anchors
  PROVE  \E k \in Nat : /\ k <= BatchSize
                        /\ anchors \in [1..k -> Candidate]
                        /\ DOMAIN anchors = 1..k
                        /\ Cardinality(DOMAIN anchors) = k
  <1> DEFINE k == Min2(BatchSize, Cardinality(FrontierCandidates(pool)))
  <1>1. FrontierCandidates(pool) \subseteq DOMAIN pool
    BY DEF FrontierCandidates, HasStatus
  <1>2. k \in Nat /\ k <= BatchSize
    BY <1>1, PoolSubsetFinite, ConstantsAssumption DEF Min2
  <1>3. anchors \in [1..k -> FrontierCandidates(pool)]
    BY DEF Anchors
  <1> HIDE DEF k
  <1>4. anchors \in [1..k -> Candidate] /\ DOMAIN anchors = 1..k
    BY <1>1, <1>3 DEF PoolOK
  <1>5. Cardinality(1..k) = k
    BY <1>2, FS_Interval
  <1> QED  BY <1>2, <1>4, <1>5

\* What remains of the budgets is a natural number, and a proposal never asks for
\* more rollouts than that.
LEMMA RemainingType ==
  ASSUME budget \in Budget
  PROVE  /\ RemainingRollouts \in Nat
         /\ RemainingSimulations \in Nat
  BY ConstantsAssumption DEF RemainingRollouts, RemainingSimulations, Budget

LEMMA ProposalSize ==
  ASSUME budget \in Budget, NEW k \in Nat
  PROVE  /\ Min2(RemainingRollouts, Branching * k) \in Nat
         /\ Min2(RemainingRollouts, Branching * k) <= RemainingRollouts
  <1>1. Branching * k \in Nat
    BY ConstantsAssumption
  <1>2. RemainingRollouts \in Nat
    BY RemainingType
  <1> QED  BY <1>1, <1>2 DEF Min2

\* What the counters of the budget become.
LEMMA ConsumedType ==
  ASSUME NEW b \in Budget, NEW n \in Nat, NEW m \in Nat
  PROVE  /\ Consumed(b, n, m) \in Budget
         /\ Consumed(b, n, m).rollouts = b.rollouts + n
         /\ Consumed(b, n, m).simulations = b.simulations + m
  <1> DEFINE r == [b EXCEPT !.rollouts = @ + n]
  <1>1. r \in Budget /\ r.rollouts = b.rollouts + n /\ r.simulations = b.simulations
    BY DEF Budget
  <1>2. Consumed(b, n, m) = [r EXCEPT !.simulations = @ + m]
    BY DEF Consumed
  <1> HIDE DEF r
  <1> QED  BY <1>1, <1>2 DEF Budget

LEMMA ProxyType ==
  ASSUME NEW b \in Budget, NEW n \in Nat
  PROVE  /\ [b EXCEPT !.proxy = @ + n] \in Budget
         /\ [b EXCEPT !.proxy = @ + n].rollouts = b.rollouts
         /\ [b EXCEPT !.proxy = @ + n].simulations = b.simulations
  BY DEF Budget

\* A batch for the simulator is a finite set of candidates of the pool.
LEMMA BatchInPool ==
  ASSUME PoolOK(pool), NEW batch \in SimulationBatches
  PROVE  /\ batch \subseteq OpenForSimulation
         /\ batch \subseteq DOMAIN pool
         /\ IsFiniteSet(batch) /\ Cardinality(batch) \in Nat
  <1>1. batch \subseteq OpenForSimulation
    BY DEF SimulationBatches, FallbackPool, WorthSimulating
  <1>2. batch \subseteq DOMAIN pool
    BY <1>1 DEF OpenForSimulation, HasStatus
  <1> QED  BY <1>1, <1>2, PoolSubsetFinite

\* Whatever the feedback asks for, the candidate gets a known lifecycle.
LEMMA AnsweredStatus ==
  ASSUME NEW c, NEW truth \in Truth, NEW feedback \in Feedback
  PROVE  LifecycleStatus[RequestedLifecycle(c, truth, feedback)]
           \in {"verified", "rejected", "frontier", "best_feasible"}
  BY DEF LifecycleStatus, RequestedLifecycle, Feedback

\* The bound on the number of calls is all that Next adds to Call.
LEMMA NextIsCall == [Next]_vars => [Call]_vars
  BY DEF Next

\* Every call of a well-typed search state leaves one.
LEMMA TypeStep == TypeOK /\ [Call]_vars => TypeOK'
  <1> SUFFICES ASSUME TypeOK, [Call]_vars PROVE TypeOK'
    OBVIOUS
  <1> USE DEF TypeOK
  <1>1. CASE ProposeCandidates
    <2>1. PICK anchors \in Anchors :
            LET n == Min2(RemainingRollouts, Branching * Cardinality(DOMAIN anchors))
            IN  /\ pool' = Upsert(pool, [c \in Proposed(anchors, n) |->
                                            Evaluated(bundle, c)])
                /\ frontierIds' = FrontierCandidates(pool')
                /\ budget' = [Consumed(budget, n, 0) EXCEPT !.proxy = @ + n]
                /\ IncrementPhaseIteration(n > 0)
                /\ RefreshSearchState(FALSE)
                /\ UNCHANGED <<pendingRefs, bundle>>
      BY <1>1 DEF ProposeCandidates
    <2>2. PICK k \in Nat : /\ anchors \in [1..k -> Candidate]
                           /\ Cardinality(DOMAIN anchors) = k
      BY AnchorsType
    <2> DEFINE n == Min2(RemainingRollouts, Branching * Cardinality(DOMAIN anchors))
    <2>3. n \in Nat
      BY <2>2, ProposalSize
    <2>4. PICK C \in SUBSET Candidate : C = Proposed(anchors, n) /\ IsFiniteSet(C)
      BY <2>2, <2>3, ProposedFinite
    <2>5. PoolOK(pool') /\ DOMAIN pool' = DOMAIN pool \cup C
      <3>1. PoolOK(pool) /\ bundle \in Bundles
        OBVIOUS
      <3>2. PICK r : r = [c \in C |-> Evaluated(bundle, c)]
        OBVIOUS
      <3>3. pool' = Upsert(pool, r)
        BY <2>1, <2>4, <3>2
      <3>4. IsFiniteSet(C)
        BY <2>4
      <3> HIDE DEF TypeOK
      <3> QED  BY <3>1, <3>2, <3>3, <3>4, UpsertEvaluated
    <2>6. budget' \in Budget
      BY <2>1, <2>3, ConsumedType, ProxyType
    <2>7. phase' \in Phase /\ stagnation' \in Nat
      BY <2>1 DEF IncrementPhaseIteration
    <2>8. frontierIds' \subseteq DOMAIN pool'
      BY <2>1 DEF FrontierCandidates, HasStatus
    <2>9. pendingRefs' \subseteq DOMAIN pool' /\ bundle' \in Bundles
      BY <2>1, <2>5
    <2> QED  BY <2>1, <2>5, <2>6, <2>7, <2>8, <2>9, RefreshType
  <1>2. CASE EvaluateCandidates
    <2>1. PICK stale \in SUBSET Candidate :
            /\ stale = frontierIds \cap DOMAIN pool
            /\ IsFiniteSet(stale) /\ Cardinality(stale) \in Nat
      BY PoolSubsetFinite DEF PoolOK
    <2>2. /\ pool' = Upsert(pool, [c \in stale |-> Evaluated(bundle, c)])
          /\ frontierIds' = FrontierCandidates(pool')
          /\ budget' = [budget EXCEPT !.proxy = @ + Cardinality(stale)]
          /\ IncrementPhaseIteration(stale # {})
          /\ RefreshSearchState(FALSE)
          /\ UNCHANGED <<pendingRefs, bundle>>
      BY <1>2, <2>1 DEF EvaluateCandidates
    <2>3. PoolOK(pool') /\ DOMAIN pool' = DOMAIN pool \cup stale
      <3>1. PoolOK(pool) /\ bundle \in Bundles
        OBVIOUS
      <3>2. PICK r : r = [c \in stale |-> Evaluated(bundle, c)]
        OBVIOUS
      <3>3. pool' = Upsert(pool, r)
        BY <2>2, <3>2
      <3> HIDE DEF TypeOK
      <3> QED  BY <2>1, <3>1, <3>2, <3>3, UpsertEvaluated
    <2>4. budget' \in Budget
      BY <2>1, <2>2, ProxyType
    <2>5. phase' \in Phase /\ stagnation' \in Nat
      BY <2>2 DEF IncrementPhaseIteration
    <2>6. frontierIds' \subseteq DOMAIN pool'
      BY <2>2 DEF FrontierCandidates, HasStatus
    <2> QED  BY <2>2, <2>3, <2>4, <2>5, <2>6, RefreshType
  <1>3. ASSUME NEW h \in 1..Horizon, PlanNextActions(h) PROVE TypeOK'
    <2>1. budget' \in Budget
      BY <1>3, ConstantsAssumption, ConsumedType DEF PlanNextActions
    <2> QED  BY <1>3, <2>1 DEF PlanNextActions
  <1>4. ASSUME NEW batch \in SimulationBatches, SelectForSimulation(batch)
        PROVE  TypeOK'
    <2>1. batch \subseteq DOMAIN pool /\ Cardinality(batch) \in Nat
      BY BatchInPool
    <2>2. PoolOK(pool') /\ DOMAIN pool' = DOMAIN pool
      BY <1>4 DEF SelectForSimulation, PoolOK, Record, Status
    <2>3. budget' \in Budget
      BY <1>4, <2>1, ConsumedType DEF SelectForSimulation
    <2>4. frontierIds' \subseteq DOMAIN pool'
      BY <1>4 DEF SelectForSimulation, FrontierCandidates, HasStatus
    <2>5. pendingRefs' \subseteq DOMAIN pool'
      BY <1>4, <2>1, <2>2 DEF SelectForSimulation
    <2> QED  BY <1>4, <2>2, <2>3, <2>4, <2>5, RefreshType DEF SelectForSimulation
  <1>5. ASSUME NEW c \in DOMAIN pool, NEW truth \in Truth, NEW feedback \in Feedback,
               NEW apply \in BOOLEAN, IngestSimulationFeedback(c, truth, feedback, apply)
        PROVE  TypeOK'
    <2>1. PoolOK(pool') /\ DOMAIN pool' = DOMAIN pool
      <3>1. LifecycleStatus[RequestedLifecycle(c, truth, feedback)] \in Status
        BY AnsweredStatus DEF Status
      <3> QED  BY <1>5, <3>1 DEF IngestSimulationFeedback, PoolOK, Record
    <2>2. budget' \in Budget /\ bundle' \in Bundles
      BY <1>5 DEF IngestSimulationFeedback, Budget
    <2>3. frontierIds' \subseteq DOMAIN pool'
      BY <1>5 DEF IngestSimulationFeedback, FrontierCandidates, HasStatus
    <2>4. pendingRefs' \subseteq DOMAIN pool'
      BY <1>5, <2>1 DEF IngestSimulationFeedback, PendingAfterAnswer
    <2>5. PICK required \in BOOLEAN : RefreshSearchState(required)
      BY <1>5 DEF IngestSimulationFeedback, Mismatch, TruthFeasible
    <2> QED  BY <1>5, <2>1, <2>2, <2>3, <2>4, <2>5, RefreshType
             DEF IngestSimulationFeedback
  <1>6. CASE AdvancePhase
    <2>1. NextPhase \in Phase
      BY DEF NextPhase, Phase
    <2>2. phase' \in Phase /\ stagnation' \in Nat
      BY <1>6, <2>1 DEF AdvancePhase, IncrementPhaseIteration
    <2> QED  BY <1>6, <2>2, RefreshType DEF AdvancePhase
  <1>7. CASE SupplyBundle
    BY <1>7 DEF SupplyBundle
  <1>8. CASE UNCHANGED vars
    BY <1>8 DEF vars
  <1> QED  BY <1>1, <1>2, <1>3, <1>4, <1>5, <1>6, <1>7, <1>8 DEF Call, IngestAny

\* Whatever the caller does, the search state stays well typed: in particular the
\* frontier, the pending refs and the best known candidate name pool candidates.
THEOREM TypeCorrect == Spec => []TypeOK
  BY TypeInit, TypeStep, NextIsCall, PTL DEF Spec

(***************************************************************************)
(* The escalation to the simulator                                         *)
(***************************************************************************)

\* What an evaluation does: new and re-evaluated candidates leave the queue and the
\* answered ones, everything that was charged or is pending stays so.
LEMMA EvaluationEffect ==
  ASSUME TypeOK, ProposeCandidates \/ EvaluateCandidates
  PROVE  /\ \E C \in SUBSET Candidate :
               /\ DOMAIN pool' = DOMAIN pool \cup C
               /\ \A c \in DOMAIN pool' :
                     pool'[c] = IF c \in C THEN Evaluated(bundle, c) ELSE pool[c]
         /\ frontierIds' = FrontierCandidates(pool')
         /\ pendingRefs' = pendingRefs
         /\ budget'.simulations = budget.simulations
         /\ budget.rollouts <= RolloutBudget => budget'.rollouts <= RolloutBudget
         /\ RefreshSearchState(FALSE)
  <1> USE DEF TypeOK
  <1>1. CASE ProposeCandidates
    <2>1. PICK anchors \in Anchors :
            LET n == Min2(RemainingRollouts, Branching * Cardinality(DOMAIN anchors))
            IN  /\ pool' = Upsert(pool, [c \in Proposed(anchors, n) |->
                                            Evaluated(bundle, c)])
                /\ frontierIds' = FrontierCandidates(pool')
                /\ budget' = [Consumed(budget, n, 0) EXCEPT !.proxy = @ + n]
                /\ RefreshSearchState(FALSE)
                /\ UNCHANGED <<pendingRefs, bundle>>
      BY <1>1 DEF ProposeCandidates
    <2>2. PICK k \in Nat : /\ anchors \in [1..k -> Candidate]
                           /\ Cardinality(DOMAIN anchors) = k
      BY AnchorsType
    <2> DEFINE n == Min2(RemainingRollouts, Branching * Cardinality(DOMAIN anchors))
    <2>3. n \in Nat /\ n <= RemainingRollouts
      BY <2>2, ProposalSize
    <2>4. PICK C \in SUBSET Candidate : C = Proposed(anchors, n) /\ IsFiniteSet(C)
      BY <2>2, <2>3, ProposedFinite
    <2>5. /\ DOMAIN pool' = DOMAIN pool \cup C
          /\ \A c \in DOMAIN pool' :
                pool'[c] = IF c \in C THEN Evaluated(bundle, c) ELSE pool[c]
      <3>1. PoolOK(pool) /\ bundle \in Bundles
        OBVIOUS
      <3>2. PICK r : r = [c \in C |-> Evaluated(bundle, c)]
        OBVIOUS
      <3>3. pool' = Upsert(pool, r)
        BY <2>1, <2>4, <3>2
      <3>4. IsFiniteSet(C)
        BY <2>4
      <3> HIDE DEF TypeOK
      <3> QED  BY <3>1, <3>2, <3>3, <3>4, UpsertEvaluated
    <2>6. /\ budget'.simulations = budget.simulations
          /\ budget'.rollouts = budget.rollouts + n
      BY <2>1, <2>3, ConsumedType, ProxyType DEF Budget
    <2>7. budget.rollouts <= RolloutBudget => budget'.rollouts <= RolloutBudget
      BY <2>3, <2>6, ConstantsAssumption DEF RemainingRollouts, Budget
    <2> QED  BY <2>1, <2>5, <2>6, <2>7
  <1>2. CASE EvaluateCandidates
    <2>1. PICK stale \in SUBSET Candidate :
            /\ stale = frontierIds \cap DOMAIN pool
            /\ IsFiniteSet(stale) /\ Cardinality(stale) \in Nat
      BY PoolSubsetFinite DEF PoolOK
    <2>2. /\ pool' = Upsert(pool, [c \in stale |-> Evaluated(bundle, c)])
          /\ frontierIds' = FrontierCandidates(pool')
          /\ budget' = [budget EXCEPT !.proxy = @ + Cardinality(stale)]
          /\ RefreshSearchState(FALSE)
          /\ UNCHANGED <<pendingRefs, bundle>>
      BY <1>2, <2>1 DEF EvaluateCandidates
    <2>3. /\ DOMAIN pool' = DOMAIN pool \cup stale
          /\ \A c \in DOMAIN pool' :
                pool'[c] = IF c \in stale THEN Evaluated(bundle, c) ELSE pool[c]
      <3>1. PoolOK(pool) /\ bundle \in Bundles
        OBVIOUS
      <3>2. PICK r : r = [c \in stale |-> Evaluated(bundle, c)]
        OBVIOUS
      <3>3. pool' = Upsert(pool, r)
        BY <2>2, <3>2
      <3>4. IsFiniteSet(stale)
        BY <2>1
      <3> HIDE DEF TypeOK
      <3> QED  BY <3>1, <3>2, <3>3, <3>4, UpsertEvaluated
    <2>4. /\ budget'.simulations = budget.simulations
          /\ budget'.rollouts = budget.rollouts
      BY <2>1, <2>2, ProxyType
    <2> QED  BY <2>2, <2>3, <2>4
  <1> QED  BY <1>1, <1>2

\* A batch never holds more candidates than simulations remain.
LEMMA BatchAffordable ==
  ASSUME TypeOK, NEW batch \in SimulationBatches
  PROVE  Cardinality(batch) <= RemainingSimulations
  <1>1. RemainingSimulations \in Nat
    BY RemainingType DEF TypeOK
  <1>2. CASE WorthSimulating = {} /\ FallbackPool # {} /\ RemainingSimulations > 0
    <2>1. Cardinality(batch) = 1
      BY <1>2, FS_Singleton DEF SimulationBatches
    <2> QED  BY <1>1, <1>2, <2>1
  <1>3. CASE ~(WorthSimulating = {} /\ FallbackPool # {} /\ RemainingSimulations > 0)
    <2>1. Cardinality(batch) = TopK(Cardinality(WorthSimulating))
      BY <1>3 DEF SimulationBatches
    <2>2. WorthSimulating \subseteq DOMAIN pool
      BY DEF WorthSimulating, OpenForSimulation, HasStatus
    <2>3. Cardinality(WorthSimulating) \in Nat
      BY <2>2, PoolSubsetFinite DEF TypeOK
    <2>4. \A k \in Nat : TopK(k) <= RemainingSimulations
      BY <1>1, ConstantsAssumption DEF TopK, Min2
    <2> QED  BY <2>1, <2>3, <2>4
  <1> QED  BY <1>2, <1>3

\* What a selection does.
LEMMA SelectionEffect ==
  ASSUME TypeOK, NEW batch \in SimulationBatches, SelectForSimulation(batch)
  PROVE  /\ IsFiniteSet(batch) /\ Cardinality(batch) \in Nat
         /\ DOMAIN pool' = DOMAIN pool
         /\ \A c \in DOMAIN pool :
               /\ pool'[c].belief = pool[c].belief
               /\ pool'[c].status = IF c \in batch THEN "queued_for_simulation"
                                                  ELSE pool[c].status
         /\ frontierIds' = FrontierCandidates(pool')
         /\ pendingRefs' = pendingRefs \cup batch
         /\ budget'.simulations = budget.simulations + Cardinality(batch)
         /\ budget'.simulations <= SimulationBudget \/ batch = {}
         /\ budget'.rollouts = budget.rollouts
         /\ RefreshSearchState(FALSE)
  <1>1. IsFiniteSet(batch) /\ Cardinality(batch) \in Nat
    BY BatchInPool DEF TypeOK
  <1>2. /\ DOMAIN pool' = DOMAIN pool
        /\ \A c \in DOMAIN pool :
             /\ pool'[c].belief = pool[c].belief
             /\ pool'[c].status = IF c \in batch THEN "queued_for_simulation"
                                                ELSE pool[c].status
    BY DEF SelectForSimulation, TypeOK, PoolOK, Record
  <1>3. /\ budget'.simulations = budget.simulations + Cardinality(batch)
        /\ budget'.rollouts = budget.rollouts
    <2>1. budget \in Budget /\ budget' = Consumed(budget, 0, Cardinality(batch))
      BY DEF SelectForSimulation, TypeOK
    <2>2. /\ budget'.simulations = budget.simulations + Cardinality(batch)
          /\ budget'.rollouts = budget.rollouts + 0
      BY <1>1, <2>1, ConsumedType
    <2> QED  BY <2>1, <2>2 DEF Budget
  <1>4. budget'.simulations <= SimulationBudget \/ batch = {}
    <2>1. Cardinality(batch) = 0 => batch = {}
      BY <1>1, FS_EmptySet
    <2>2. Cardinality(batch) <= RemainingSimulations
      BY BatchAffordable
    <2> QED  BY <1>1, <1>3, <2>1, <2>2, ConstantsAssumption
             DEF RemainingSimulations, TypeOK, Budget
  <1> QED  BY <1>1, <1>2, <1>3, <1>4 DEF SelectForSimulation

\* What an answer does.
LEMMA FeedbackEffect ==
  ASSUME TypeOK, NEW c \in DOMAIN pool, NEW truth \in Truth, NEW feedback \in Feedback,
         NEW apply \in BOOLEAN, IngestSimulationFeedback(c, truth, feedback, apply)
  PROVE  /\ DOMAIN pool' = DOMAIN pool
         /\ pool'[c].status \in {"verified", "rejected", "frontier", "best_feasible"}
         /\ \A d \in DOMAIN pool : pool'[d].belief = pool[d].belief
         /\ \A d \in DOMAIN pool \ {c} : pool'[d].status = pool[d].status
         /\ frontierIds' = FrontierCandidates(pool')
         /\ pendingRefs' = pendingRefs \ {c}
         /\ budget'.simulations = budget.simulations
         /\ budget'.rollouts = budget.rollouts
         /\ \E required \in BOOLEAN : RefreshSearchState(required)
  <1>1. /\ DOMAIN pool' = DOMAIN pool
        /\ pool'[c].status \in {"verified", "rejected", "frontier", "best_feasible"}
        /\ \A d \in DOMAIN pool : pool'[d].belief = pool[d].belief
        /\ \A d \in DOMAIN pool \ {c} : pool'[d].status = pool[d].status
    BY AnsweredStatus DEF IngestSimulationFeedback, TypeOK, PoolOK, Record
  <1>2. budget'.simulations = budget.simulations /\ budget'.rollouts = budget.rollouts
    BY DEF IngestSimulationFeedback, TypeOK, Budget
  <1>3. \E required \in BOOLEAN : RefreshSearchState(required)
    BY DEF IngestSimulationFeedback, Mismatch, TruthFeasible
  <1> QED  BY <1>1, <1>2, <1>3 DEF IngestSimulationFeedback, PendingAfterAnswer

\* Nothing the world model blocks is in a batch.
LEMMA BatchNotBlocked ==
  ASSUME NEW batch \in SimulationBatches, NEW c \in batch
  PROVE  Believed(pool, c).tier # "hard_block"
  BY DEF SimulationBatches, FallbackPool, WorthSimulating

\* The derived views follow the pool.
LEMMA RefreshedViews ==
  ASSUME NEW required \in BOOLEAN, RefreshSearchState(required),
         frontierIds' = FrontierCandidates(pool')
  PROVE  ViewsFresh'
  BY DEF RefreshSearchState, ViewsFresh

LEMMA EscalationInit == Init => EscalationInvariant
  <1> SUFFICES ASSUME Init PROVE EscalationInvariant
    OBVIOUS
  <1>1. TypeOK
    BY TypeInit
  <1>2. \A c \in DOMAIN pool : /\ pool[c] = Evaluated(bundle, c)
                              /\ pool[c].status \in {"frontier", "screened_out"}
    BY EvaluatedRecord DEF Init
  <1>3. BudgetsRespected
    BY ConstantsAssumption DEF Init, BudgetsRespected
  <1>4. QueuedIsPending /\ QueuedNotBlocked
    BY <1>2 DEF QueuedIsPending, QueuedNotBlocked, HasStatus
  <1>5. PendingPaid /\ AnsweredNotPending
    BY FS_EmptySet DEF Init, PendingPaid, AnsweredNotPending
  <1>6. ViewsFresh
    BY <1>2 DEF Init, ViewsFresh, FrontierCandidates, HasStatus
  <1> QED  BY <1>1, <1>3, <1>4, <1>5, <1>6 DEF EscalationInvariant

LEMMA EscalationStep ==
  EscalationInvariant /\ [Call]_vars => EscalationInvariant'
  <1> SUFFICES ASSUME EscalationInvariant, [Call]_vars PROVE EscalationInvariant'
    OBVIOUS
  <1>a. TypeOK /\ TypeOK'
    BY TypeStep DEF EscalationInvariant
  <1>1. CASE ProposeCandidates \/ EvaluateCandidates
    <2>1. PICK C \in SUBSET Candidate :
            /\ DOMAIN pool' = DOMAIN pool \cup C
            /\ \A c \in DOMAIN pool' :
                  pool'[c] = IF c \in C THEN Evaluated(bundle, c) ELSE pool[c]
      BY <1>a, <1>1, EvaluationEffect
    <2>2. /\ frontierIds' = FrontierCandidates(pool')
          /\ pendingRefs' = pendingRefs
          /\ budget'.simulations = budget.simulations
          /\ budget.rollouts <= RolloutBudget => budget'.rollouts <= RolloutBudget
          /\ RefreshSearchState(FALSE)
      BY <1>a, <1>1, EvaluationEffect
    <2>3. \A c \in DOMAIN pool' :
            pool'[c].status \notin {"frontier", "screened_out"} =>
              c \in DOMAIN pool /\ pool'[c] = pool[c]
      BY <1>a, <2>1, EvaluatedRecord DEF TypeOK
    <2>4. BudgetsRespected'
      BY <2>2 DEF EscalationInvariant, BudgetsRespected
    <2>5. QueuedIsPending'
      BY <2>2, <2>3 DEF EscalationInvariant, QueuedIsPending, HasStatus
    <2>6. PendingPaid'
      BY <2>2 DEF EscalationInvariant, PendingPaid
    <2>7. AnsweredNotPending'
      BY <2>2, <2>3 DEF EscalationInvariant, AnsweredNotPending, HasStatus
    <2>8. ViewsFresh'
      BY <2>2, RefreshedViews
    <2>9. QueuedNotBlocked'
      BY <2>3 DEF EscalationInvariant, QueuedNotBlocked, HasStatus, Believed
    <2> QED  BY <1>a, <2>4, <2>5, <2>6, <2>7, <2>8, <2>9 DEF EscalationInvariant
  <1>2. ASSUME NEW h \in 1..Horizon, PlanNextActions(h) PROVE EscalationInvariant'
    <2>1. budget'.rollouts <= RolloutBudget /\ budget'.simulations = budget.simulations
      <3>1. budget \in Budget /\ h \in Nat /\ h <= RemainingRollouts
            /\ budget' = Consumed(budget, h, 0)
        BY <1>a, <1>2, ConstantsAssumption DEF PlanNextActions, TypeOK
      <3>2. /\ budget'.rollouts = budget.rollouts + h
            /\ budget'.simulations = budget.simulations + 0
        BY <3>1, ConsumedType
      <3> QED  BY <3>1, <3>2, ConstantsAssumption
               DEF RemainingRollouts, EscalationInvariant, BudgetsRespected, Budget
    <2> QED  BY <1>a, <1>2, <2>1
             DEF PlanNextActions, EscalationInvariant, BudgetsRespected, QueuedIsPending,
                 PendingPaid, AnsweredNotPending, ViewsFresh, QueuedNotBlocked
  <1>3. ASSUME NEW batch \in SimulationBatches, SelectForSimulation(batch)
        PROVE  EscalationInvariant'
    <2>1. /\ IsFiniteSet(batch) /\ Cardinality(batch) \in Nat
          /\ DOMAIN pool' = DOMAIN pool
          /\ \A c \in DOMAIN pool :
                /\ pool'[c].belief = pool[c].belief
                /\ pool'[c].status = IF c \in batch THEN "queued_for_simulation"
                                                   ELSE pool[c].status
          /\ frontierIds' = FrontierCandidates(pool')
          /\ pendingRefs' = pendingRefs \cup batch
          /\ budget'.simulations = budget.simulations + Cardinality(batch)
          /\ budget'.simulations <= SimulationBudget \/ batch = {}
          /\ budget'.rollouts = budget.rollouts
          /\ RefreshSearchState(FALSE)
      BY <1>a, <1>3, SelectionEffect
    <2>2. BudgetsRespected'
      <3>1. CASE batch = {}
        BY <2>1, <3>1, FS_EmptySet, <1>a
           DEF EscalationInvariant, BudgetsRespected, TypeOK, Budget
      <3>2. CASE budget'.simulations <= SimulationBudget
        BY <2>1, <3>2 DEF EscalationInvariant, BudgetsRespected
      <3> QED  BY <2>1, <3>1, <3>2
    <2>3. QueuedIsPending'
      BY <2>1 DEF EscalationInvariant, QueuedIsPending, HasStatus
    <2>4. PendingPaid'
      <3>1. IsFiniteSet(pendingRefs) /\ Cardinality(pendingRefs) \in Nat
        BY <1>a, PoolSubsetFinite DEF TypeOK
      <3>2. Cardinality(pendingRefs \cup batch)
              = Cardinality(pendingRefs) + Cardinality(batch)
                  - Cardinality(pendingRefs \cap batch)
        BY <2>1, <3>1, FS_Union
      <3>3. Cardinality(pendingRefs \cap batch) \in Nat
        BY <3>1, FS_Intersection, FS_CardinalityType
      <3> QED  BY <1>a, <2>1, <3>1, <3>2, <3>3
               DEF EscalationInvariant, PendingPaid, TypeOK, Budget
    <2>5. AnsweredNotPending'
      BY <2>1 DEF EscalationInvariant, AnsweredNotPending, HasStatus
    <2>6. ViewsFresh'
      BY <2>1, RefreshedViews
    <2>7. QueuedNotBlocked'
      BY <2>1, BatchNotBlocked
         DEF EscalationInvariant, QueuedNotBlocked, HasStatus, Believed
    <2> QED  BY <1>a, <2>2, <2>3, <2>4, <2>5, <2>6, <2>7 DEF EscalationInvariant
  <1>4. ASSUME NEW c \in DOMAIN pool, NEW truth \in Truth, NEW feedback \in Feedback,
               NEW apply \in BOOLEAN, IngestSimulationFeedback(c, truth, feedback, apply)
        PROVE  EscalationInvariant'
    <2>1. /\ DOMAIN pool' = DOMAIN pool
          /\ pool'[c].status \in {"verified", "rejected", "frontier", "best_feasible"}
          /\ \A d \in DOMAIN pool : pool'[d].belief = pool[d].belief
          /\ \A d \in DOMAIN pool \ {c} : pool'[d].status = pool[d].status
      BY <1>a, <1>4, FeedbackEffect
    <2>2. /\ frontierIds' = FrontierCandidates(pool')
          /\ pendingRefs' = pendingRefs \ {c}
          /\ budget'.simulations = budget.simulations
          /\ budget'.rollouts = budget.rollouts
          /\ \E required \in BOOLEAN : RefreshSearchState(required)
      BY <1>a, <1>4, FeedbackEffect
    <2>3. /\ \A d \in DOMAIN pool' : d \in DOMAIN pool /\ pool'[d].belief = pool[d].belief
          /\ \A d \in DOMAIN pool' \ {c} : pool'[d].status = pool[d].status
      BY <2>1
    <2>4. pool'[c].status # "queued_for_simulation"
      BY <2>1
    <2>5. BudgetsRespected'
      BY <2>2 DEF EscalationInvariant, BudgetsRespected
    <2>6. QueuedIsPending'
      BY <2>2, <2>3, <2>4 DEF EscalationInvariant, QueuedIsPending, HasStatus
    <2>7. PendingPaid'
      <3>1. IsFiniteSet(pendingRefs) /\ Cardinality(pendingRefs) \in Nat
        BY <1>a, PoolSubsetFinite DEF TypeOK
      <3>2. /\ Cardinality(pendingRefs \ {c}) \in Nat
            /\ Cardinality(pendingRefs \ {c}) <= Cardinality(pendingRefs)
        BY <3>1, FS_RemoveElement, FS_CardinalityType, FS_Subset
      <3> QED  BY <1>a, <2>2, <3>1, <3>2 DEF EscalationInvariant, PendingPaid, TypeOK, Budget
    <2>8. AnsweredNotPending'
      BY <2>2, <2>3 DEF EscalationInvariant, AnsweredNotPending, HasStatus
    <2>9. ViewsFresh'
      BY <2>2, RefreshedViews
    <2>10. QueuedNotBlocked'
      BY <2>3, <2>4 DEF EscalationInvariant, QueuedNotBlocked, HasStatus, Believed
    <2> QED  BY <1>a, <2>5, <2>6, <2>7, <2>8, <2>9, <2>10 DEF EscalationInvariant
  <1>5. CASE AdvancePhase
    <2>1. ViewsFresh'
      BY <1>a, <1>5, RefreshedViews
         DEF AdvancePhase, EscalationInvariant, ViewsFresh, TypeOK, FrontierCandidates,
             HasStatus
    <2> QED  BY <1>a, <1>5, <2>1
             DEF AdvancePhase, EscalationInvariant, BudgetsRespected, QueuedIsPending,
                 PendingPaid, AnsweredNotPending, QueuedNotBlocked, HasStatus, Believed
  <1>6. CASE SupplyBundle \/ UNCHANGED vars
    BY <1>a, <1>6
       DEF SupplyBundle, vars, EscalationInvariant, BudgetsRespected, QueuedIsPending,
           PendingPaid, AnsweredNotPending, ViewsFresh, QueuedNotBlocked, HasStatus,
           Believed, FrontierCandidates, BestKnownFeasible, TrustAlerts
  <1> QED  BY <1>1, <1>2, <1>3, <1>4, <1>5, <1>6 DEF Call, IngestAny

\* Whatever the caller does and whatever the simulator answers, in whatever order:
\* budgets hold, every queued candidate is pending and paid for, none of them is
\* blocked, no answered one is pending, and the derived views follow the pool.
THEOREM EscalationCorrect == Spec => []EscalationInvariant
  BY EscalationInit, EscalationStep, NextIsCall, PTL DEF Spec

\* No sequence of calls overspends: neither rollouts nor simulations, and every
\* outstanding simulation has been charged.
COROLLARY SpendingCorrect == Spec => []SpendingSound
  <1>1. EscalationInvariant => SpendingSound
    BY DEF EscalationInvariant, SpendingSound
  <1> QED  BY <1>1, EscalationCorrect, PTL

\* The queue is sound: a queued candidate is pending and not blocked, an answered
\* one is not pending.
COROLLARY QueueCorrect == Spec => []QueueSound
  <1>1. EscalationInvariant => QueueSound
    BY DEF EscalationInvariant, QueueSound
  <1> QED  BY <1>1, EscalationCorrect, PTL

\* No call leaves a copy behind that disagrees with the pool it was derived from.
COROLLARY ViewsCorrect == Spec => []ViewsFresh
  <1>1. EscalationInvariant => ViewsFresh
    BY DEF EscalationInvariant
  <1> QED  BY <1>1, EscalationCorrect, PTL

(***************************************************************************)
(* The phases                                                              *)
(***************************************************************************)

\* Only advance_phase changes the phase.
LEMMA OthersKeepPhase ==
  ASSUME [Call]_vars, ~AdvancePhase
  PROVE  phase' = phase
  BY DEF Call, IngestAny, ProposeCandidates, EvaluateCandidates, PlanNextActions,
         SelectForSimulation, IngestSimulationFeedback, SupplyBundle,
         IncrementPhaseIteration, vars

\* What advance_phase knows when it enters the verification phase, and the moves it
\* can make at all.
LEMMA PhaseMoves ==
  ASSUME TypeOK, AdvancePhase, phase' # phase
  PROVE  /\ <<phase, phase'>> \in AllowedTransitions
         /\ phase' = "robustness_verification" =>
               bestFeasible # NoCandidate /\ budget.simulations > 0 /\ ~calibrationRequired
  <1>1. phase' = NextPhase /\ phase \in Phase
    BY DEF AdvancePhase, TypeOK, IncrementPhaseIteration
  <1>2. CASE phase = "feasibility_bootstrapping"
    BY <1>1, <1>2 DEF NextPhase, AllowedTransitions
  <1>3. CASE phase = "performance_refinement"
    BY <1>1, <1>3 DEF NextPhase, AllowedTransitions, TypeOK
  <1>4. CASE phase = "calibration_recovery"
    BY <1>1, <1>4 DEF NextPhase, AllowedTransitions
  <1>5. CASE phase \in {"robustness_verification", "terminated"}
    BY <1>1, <1>5 DEF NextPhase
  <1> QED  BY <1>1, <1>2, <1>3, <1>4, <1>5 DEF Phase

\* The hard-coded rules of advance_phase never leave the compiled transitions, and
\* the verification phase is entered with a paid simulation and no trust alert in the
\* pool: advance_phase tests a flag, and the invariant ties it to the pool.
THEOREM PhasesCorrect == Spec => PhasesSound
  <1>1. EscalationInvariant /\ [Next]_vars => [RobustnessEarned /\ PhasesAllowed]_vars
    <2> SUFFICES ASSUME EscalationInvariant, [Next]_vars
                 PROVE  RobustnessEarned /\ PhasesAllowed
      OBVIOUS
    <2>1. [Call]_vars /\ TypeOK
      BY NextIsCall DEF EscalationInvariant
    <2>2. CASE phase' # phase
      <3>1. AdvancePhase
        BY <2>1, <2>2, OthersKeepPhase
      <3>2. PhasesAllowed
        BY <2>1, <2>2, <3>1, PhaseMoves DEF PhasesAllowed
      <3>3. RobustnessEarned
        BY <2>1, <2>2, <3>1, PhaseMoves
        DEF RobustnessEarned, EscalationInvariant, ViewsFresh
      <3> QED  BY <3>2, <3>3
    <2>3. CASE phase' = phase
      BY <2>3 DEF RobustnessEarned, PhasesAllowed
    <2> QED  BY <2>2, <2>3
  <1> QED  BY <1>1, EscalationCorrect, PTL DEF Spec, PhasesSound

(***************************************************************************)
(* The service implements the escalation ledger                            *)
(***************************************************************************)

\* The ledger's own copies of the operators of FiniteSets.
LEMMA LedgerOperators ==
  ASSUME NEW S
  PROVE  /\ Ledger!Cardinality(S) = Cardinality(S)
         /\ Ledger!IsFiniteSet(S) <=> IsFiniteSet(S)
  <1>1. Ledger!IsFiniteSet(S) <=> IsFiniteSet(S)
    BY DEF IsFiniteSet, Ledger!IsFiniteSet
  <1>2. Ledger!Cardinality(S) = Cardinality(S)
    BY DEF Cardinality, Ledger!Cardinality
  <1> QED  BY <1>1, <1>2

LEMMA LedgerInit == Init => Ledger!Init
  BY DEF Init, Ledger!Init

\* A selection escalates, an answer settles or finds nothing to settle, and every
\* other call leaves the account alone.
LEMMA LedgerStep ==
  ASSUME EscalationInvariant, [Call]_vars
  PROVE  [Ledger!Next]_<<budget.simulations, pendingRefs>>
  <1>a. TypeOK
    BY DEF EscalationInvariant
  <1>1. CASE ProposeCandidates \/ EvaluateCandidates
    BY <1>a, <1>1, EvaluationEffect
  <1>2. ASSUME NEW h \in 1..Horizon, PlanNextActions(h)
        PROVE  UNCHANGED <<budget.simulations, pendingRefs>>
    <2>1. budget \in Budget /\ h \in Nat /\ budget' = Consumed(budget, h, 0)
      BY <1>a, <1>2, ConstantsAssumption DEF PlanNextActions, TypeOK
    <2>2. budget'.simulations = budget.simulations + 0
      BY <2>1, ConsumedType
    <2> QED  BY <1>2, <2>1, <2>2 DEF PlanNextActions, Budget
  <1>3. ASSUME NEW batch \in SimulationBatches, SelectForSimulation(batch)
        PROVE  Ledger!Escalate \/ UNCHANGED <<budget.simulations, pendingRefs>>
    <2>1. /\ IsFiniteSet(batch) /\ Cardinality(batch) \in Nat
          /\ pendingRefs' = pendingRefs \cup batch
          /\ budget'.simulations = budget.simulations + Cardinality(batch)
          /\ budget'.simulations <= SimulationBudget \/ batch = {}
      BY <1>a, <1>3, SelectionEffect
    <2>2. /\ budget.simulations \in Nat
          /\ IsFiniteSet(pendingRefs)
      BY <1>a, PoolSubsetFinite DEF TypeOK, Budget
    <2>3. CASE batch = {}
      BY <2>1, <2>2, <2>3, FS_EmptySet
    <2>4. CASE budget'.simulations <= SimulationBudget
      <3>1. pendingRefs' \ pendingRefs \subseteq batch
        BY <2>1
      <3>2. Cardinality(pendingRefs' \ pendingRefs) <= Cardinality(batch)
        BY <2>1, <3>1, FS_Subset
      <3>3. IsFiniteSet(pendingRefs')
        BY <2>1, <2>2, FS_Union
      <3>4. Cardinality(batch) \in 0..(SimulationBudget - budget.simulations)
        BY <2>1, <2>2, <2>4, ConstantsAssumption
      <3> QED  BY <2>1, <3>2, <3>3, <3>4, LedgerOperators DEF Ledger!Escalate
    <2> QED  BY <2>1, <2>3, <2>4
  <1>4. ASSUME NEW c \in DOMAIN pool, NEW truth \in Truth, NEW feedback \in Feedback,
               NEW apply \in BOOLEAN, IngestSimulationFeedback(c, truth, feedback, apply)
        PROVE  Ledger!Settle(c)
    BY <1>a, <1>4, FeedbackEffect DEF Ledger!Settle
  <1>5. ASSUME NEW c \in DOMAIN pool, Ledger!Settle(c)
        PROVE  Ledger!Next \/ UNCHANGED <<budget.simulations, pendingRefs>>
    BY <1>5 DEF Ledger!Next, Ledger!Settle
  <1>6. CASE AdvancePhase \/ SupplyBundle \/ UNCHANGED vars
    BY <1>6 DEF AdvancePhase, SupplyBundle, vars
  <1> QED  BY <1>1, <1>2, <1>3, <1>4, <1>5, <1>6
           DEF Call, IngestAny, Ledger!Next

\* Whoever calls, the search state is a correct escalation account.
THEOREM LedgerCorrect == Spec => LedgerKept
  <1>1. EscalationInvariant /\ [Next]_vars =>
          [Ledger!Next]_<<budget.simulations, pendingRefs>>
    BY NextIsCall, LedgerStep
  <1> QED  BY <1>1, LedgerInit, EscalationCorrect, PTL DEF Spec, LedgerKept, Ledger!Spec
=============================================================================
