------------------------ MODULE EpisodeStore_proofs ------------------------
(***************************************************************************)
(* Proofs about EpisodeStore, for any number of processes, of either       *)
(* optimizer, with any budgets and any outcomes of an evaluation.          *)
(***************************************************************************)
EXTENDS EpisodeStore, SequenceTheorems, FiniteSetTheorems, WellFoundedInduction, TLAPS

Episode == [id : Nat, what : Outcome]
ProgramState == Live \cup {"idle", "done", "failed", "killed"}

\* The ids of a list of episodes are their places in it.
Numbered(eps) == \A i \in DOMAIN eps : eps[i].id = i - 1

\* What has which type, and which lists are numbered.
StoreTypes ==
    /\ file \in [state : {"absent", "torn", "whole"}, episodes : Seq(Episode)]
    /\ pc \in [Process -> ProgramState]
    /\ loaded \in [Process -> Seq(Episode)]
    /\ trail \in [Process -> Seq(Outcome)]
    /\ best \in [Process -> Nat]
    /\ mixed \in [Process -> BOOLEAN]
    /\ runs \in [Process -> Nat]
    /\ recorded \in Seq(Episode)
    /\ raced \in BOOLEAN /\ killed \in BOOLEAN

Counted ==
    \A p \in Process :
        /\ best[p] <= Len(trail[p]) /\ Len(trail[p]) <= Evaluations(p)
        /\ runs[p] <= RunBound(p)
        /\ mixed[p] => Writing(p)

Numbers == Numbered(file.episodes) /\ \A p \in Process : Numbered(loaded[p])

\* Unless runs have raced there is one at a time; unless one was also killed while it
\* saved, it holds all that was recorded, and so does the file when nobody is saving.
Serial ==
    ~raced =>
        /\ \A p, q \in Process : Alive(p) /\ Alive(q) => p = q
        /\ \A p \in Process : ~mixed[p]
        /\ ~killed =>
              /\ \A p \in Process : Alive(p) => loaded[p] = recorded
              /\ (\A p \in Process : ~Writing(p)) =>
                     file.state # "torn" /\ file.episodes = recorded

StoreInvariant == StoreTypes /\ Counted /\ Numbers /\ Serial

\* A run has finitely many evaluations.
LEMMA EvaluationsCounted == \A p \in Process : Evaluations(p) \in Nat
  <1>1. \A m, n \in Nat : m * n \in Nat
    OBVIOUS
  <1> QED  BY <1>1, EpisodeStoreAssumption DEF Evaluations

\* The episode that is recorded next has the next number.
LEMMA AppendNumbered ==
  ASSUME NEW s \in Seq(Episode), Numbered(s), NEW e \in Outcome
  PROVE  /\ Append(s, [id |-> Len(s), what |-> e]) \in Seq(Episode)
         /\ Numbered(Append(s, [id |-> Len(s), what |-> e]))
  <1> DEFINE new == [id |-> Len(s), what |-> e]
             t == Append(s, new)
  <1>1. new \in Episode
    BY DEF Episode
  <1>2. t \in Seq(Episode) /\ DOMAIN t = 1 .. Len(s) + 1
    BY <1>1
  <1>3. ASSUME NEW i \in DOMAIN t  PROVE t[i].id = i - 1
    <2>1. CASE i = Len(s) + 1
      BY <2>1, <1>1
    <2>2. CASE i # Len(s) + 1
      <3>1. i \in DOMAIN s /\ t[i] = s[i]
        BY <2>2, <1>1, <1>2
      <3> QED  BY <3>1 DEF Numbered
    <2> QED  BY <2>1, <2>2
  <1> QED  BY <1>2, <1>3 DEF Numbered

LEMMA StoreInit == Init => StoreInvariant
  <1> SUFFICES ASSUME Init PROVE StoreInvariant
    OBVIOUS
  <1> USE EpisodeStoreAssumption, EvaluationsCounted DEF Init, Absent
  <1>1. StoreTypes
    <2>1. /\ <<>> \in Seq(Episode) /\ <<>> \in Seq(Outcome)
          /\ "idle" \in ProgramState
      BY DEF ProgramState
    <2>2. file \in [state : {"absent", "torn", "whole"}, episodes : Seq(Episode)]
      BY <2>1
    <2>3. mixed \in [Process -> BOOLEAN]
      OBVIOUS
    <2>4. raced \in BOOLEAN /\ killed \in BOOLEAN
      OBVIOUS
    <2>5. /\ pc \in [Process -> ProgramState]
          /\ loaded \in [Process -> Seq(Episode)] /\ trail \in [Process -> Seq(Outcome)]
          /\ best \in [Process -> Nat] /\ runs \in [Process -> Nat]
      BY <2>1
    <2> QED  BY <2>1, <2>2, <2>3, <2>4, <2>5, Zenon DEF StoreTypes
  <1>2. Counted
    BY DEF Counted
  <1>3. Numbers
    BY DEF Numbers, Numbered
  <1>4. Serial
    BY DEF Serial, Alive, Live
  <1> QED  BY <1>1, <1>2, <1>3, <1>4 DEF StoreInvariant

\* A start is a race when somebody is alive; otherwise it takes over all there is.
LEMMA StartKeeps ==
  ASSUME StoreInvariant, NEW p \in Process, Start(p)
  PROVE  StoreInvariant'
  <1> USE DEF StoreInvariant, Start, Readable, EpisodesOf
  <1>0. <<>> \in Seq(Episode) /\ <<>> \in Seq(Outcome) /\ Len(<<>>) = 0 /\ DOMAIN <<>> = {}
    OBVIOUS
  <1>1. StoreTypes'
    BY <1>0, SMTT(30) DEF StoreTypes, ProgramState, Live
  <1>2. Counted'
    <2>1. ~Writing(p)
      BY DEF Alive, Live, Writing
    <2>2. /\ best'[p] = 0 /\ trail'[p] = <<>> /\ runs'[p] = runs[p] + 1
          /\ mixed'[p] = mixed[p] /\ ~mixed[p]
      BY <2>1 DEF StoreTypes, Counted
    <2>3. Evaluations(p) \in Nat /\ RunBound(p) \in Nat /\ runs[p] \in Nat
      BY EvaluationsCounted, EpisodeStoreAssumption DEF StoreTypes
    <2>4. ASSUME NEW q \in Process, q # p
          PROVE  /\ best'[q] = best[q] /\ trail'[q] = trail[q] /\ runs'[q] = runs[q]
                 /\ mixed'[q] = mixed[q] /\ (Writing(q)' <=> Writing(q))
      BY <2>4 DEF StoreTypes, Writing
    <2>5. runs[p] < RunBound(p)
      OBVIOUS
    <2>6. /\ best'[p] <= Len(trail'[p]) /\ Len(trail'[p]) <= Evaluations(p)
          /\ runs'[p] <= RunBound(p)
      BY <1>0, <2>2, <2>3, <2>5
    <2> QED  BY <2>2, <2>4, <2>6 DEF Counted
  <1>3. Numbers'
    BY <1>0 DEF StoreTypes, Numbers, Numbered
  <1>4. Serial'
    <2> SUFFICES ASSUME ~raced' PROVE Serial'
      BY DEF Serial
    <2>1. ~raced /\ \A q \in Process : ~Alive(q)
      BY DEF StoreTypes
    <2>2. \A q \in Process : ~Writing(q)
      BY <2>1 DEF Alive, Live, Writing
    <2>3. \A q \in Process : q # p => ~Alive(q)' /\ ~Writing(q)'
      BY <2>1, <2>2 DEF Alive, Writing, StoreTypes
    <2>4. ~Writing(p)'
      BY DEF Writing, StoreTypes
    <2>5. ~killed => file.state # "torn" /\ file.episodes = recorded
      BY <2>1, <2>2 DEF Serial
    <2>6. ~killed => loaded'[p] = recorded /\ recorded' = recorded
      BY <2>5 DEF StoreTypes
    <2>7. \A q \in Process : ~mixed'[q]
      BY <2>1 DEF Serial
    <2> QED  BY <2>3, <2>4, <2>5, <2>6, <2>7 DEF Serial
  <1> QED  BY <1>1, <1>2, <1>3, <1>4

\* What recording does, whoever records: the file is open, and when nobody else is
\* alive nobody else has it open.
LEMMA RecordKeeps ==
  ASSUME StoreInvariant, NEW p \in Process, NEW e \in Outcome, Alive(p), RecordEpisode(p, e),
         trail' \in [Process -> Seq(Outcome)], best' \in [Process -> Nat],
         \A q \in Process : best'[q] <= Len(trail'[q]) /\ Len(trail'[q]) <= Evaluations(q),
         UNCHANGED <<runs, raced, killed>>
  PROVE  StoreInvariant'
  <1> USE DEF StoreInvariant, RecordEpisode, EpisodeId
  <1> DEFINE new == [id |-> Len(loaded[p]), what |-> e]
  <1>1. /\ loaded[p] \in Seq(Episode) /\ Numbered(loaded[p])
        /\ loaded' = [loaded EXCEPT ![p] = Append(loaded[p], new)]
        /\ recorded' = IF raced \/ killed THEN <<>> ELSE Append(recorded, new)
    BY DEF StoreTypes, Numbers
  <1>2. /\ Append(loaded[p], new) \in Seq(Episode)
        /\ Numbered(Append(loaded[p], new))
    BY <1>1, AppendNumbered
  <1>3. new \in Episode
    BY <1>1 DEF Episode
  <1>4. recorded' \in Seq(Episode)
    BY <1>1, <1>3 DEF StoreTypes
  <1>5. Torn \in [state : {"absent", "torn", "whole"}, episodes : Seq(Episode)]
    BY DEF Torn
  <1>6. mixed' \in [Process -> BOOLEAN] /\ pc' \in [Process -> ProgramState]
    BY DEF StoreTypes, Writing, ProgramState, Live
  <1>7. StoreTypes'
    <2>1. raced' \in BOOLEAN /\ killed' \in BOOLEAN
      BY Zenon DEF StoreTypes
    <2>2. /\ file' \in [state : {"absent", "torn", "whole"}, episodes : Seq(Episode)]
          /\ loaded' \in [Process -> Seq(Episode)] /\ runs' \in [Process -> Nat]
      BY <1>1, <1>2, <1>5 DEF StoreTypes
    <2> QED  BY <2>1, <2>2, <1>4, <1>6, Zenon DEF StoreTypes
  <1>8. \A q \in Process : q # p => (Writing(q)' <=> Writing(q)) /\ (Alive(q)' <=> Alive(q))
    BY DEF StoreTypes, Writing, Alive
  <1>9. Writing(p)'
    BY DEF StoreTypes, Writing
  <1>10. Counted'
    <2> SUFFICES ASSUME NEW q \in Process, mixed'[q] PROVE Writing(q)'
      BY DEF Counted
    <2> QED  BY <1>8, <1>9 DEF Counted
  <1>11. Numbers'
    <2>1. Numbered(file'.episodes)
      BY DEF Numbered, Torn
    <2>2. \A q \in Process : Numbered(loaded'[q])
      BY <1>1, <1>2 DEF Numbers, StoreTypes
    <2> QED  BY <2>1, <2>2 DEF Numbers, Numbered
  <1>12. Serial'
    <2> SUFFICES ASSUME ~raced PROVE Serial'
      BY DEF Serial
    <2>1. \A q \in Process : q # p => ~Alive(q) /\ ~Writing(q)
      BY DEF Serial, Alive, Live, Writing
    <2>2. \A q \in Process : q # p => ~Alive(q)'
      BY <2>1, <1>8
    <2>3. \A q \in Process : ~mixed'[q]
      BY <2>1 DEF Serial
    <2>4. ~killed => loaded'[p] = recorded'
      BY <1>1 DEF Serial, StoreTypes
    <2> QED  BY <2>2, <2>3, <2>4, <1>9 DEF Serial
  <1> QED  BY <1>7, <1>10, <1>11, <1>12

\* An evaluation is counted, and the best is among those counted.
LEMMA BestCounted ==
  ASSUME StoreInvariant, NEW p \in Process, NEW e \in Outcome,
         Len(trail[p]) < Evaluations(p),
         trail' = [trail EXCEPT ![p] = Append(@, e)],
         best' = [best EXCEPT ![p] = BestAfter(trail[p], @, e)]
  PROVE  /\ trail' \in [Process -> Seq(Outcome)]
         /\ best' \in [Process -> Nat]
         /\ \A q \in Process : best'[q] <= Len(trail'[q]) /\ Len(trail'[q]) <= Evaluations(q)
  <1> USE DEF StoreInvariant
  <1>1. /\ trail[p] \in Seq(Outcome) /\ Append(trail[p], e) \in Seq(Outcome)
        /\ Len(Append(trail[p], e)) = Len(trail[p]) + 1
    BY DEF StoreTypes
  <1>2. BestAfter(trail[p], best[p], e) \in {best[p], Len(trail[p]) + 1}
    BY DEF BestAfter
  <1>3. best[p] \in Nat /\ best[p] <= Len(trail[p])
    BY DEF StoreTypes, Counted
  <1>4. Evaluations(p) \in Nat
    BY EvaluationsCounted
  <1>5. trail' \in [Process -> Seq(Outcome)] /\ best' \in [Process -> Nat]
    BY <1>1, <1>2, <1>3 DEF StoreTypes
  <1>6. best'[p] <= Len(trail'[p]) /\ Len(trail'[p]) <= Evaluations(p)
    BY <1>1, <1>2, <1>3, <1>4 DEF StoreTypes
  <1>7. ASSUME NEW q \in Process, q # p
        PROVE  best'[q] <= Len(trail'[q]) /\ Len(trail'[q]) <= Evaluations(q)
    BY <1>7 DEF StoreTypes, Counted
  <1> QED  BY <1>5, <1>6, <1>7

\* A round evaluates one point, measured or predicted, and records it.
LEMMA StepsRecord ==
  ASSUME NEW p \in Process, StepBO(p)
  PROVE  \E e \in Outcome : /\ trail' = [trail EXCEPT ![p] = Append(@, e)]
                            /\ best' = [best EXCEPT ![p] = BestAfter(trail[p], @, e)]
                            /\ RecordEpisode(p, e)
  <1>0. PICK predicted \in Outcome : \E answer \in Answers(predicted.at) :
          LET e == IF answer = NoMetrics THEN predicted ELSE answer
          IN  /\ trail' = [trail EXCEPT ![p] = Append(@, e)]
              /\ best' = [best EXCEPT ![p] = BestAfter(trail[p], @, e)]
              /\ RecordEpisode(p, e)
    BY DEF StepBO
  <1>1. PICK answer \in Answers(predicted.at) :
          LET e == IF answer = NoMetrics THEN predicted ELSE answer
          IN  /\ trail' = [trail EXCEPT ![p] = Append(@, e)]
              /\ best' = [best EXCEPT ![p] = BestAfter(trail[p], @, e)]
              /\ RecordEpisode(p, e)
    BY <1>0
  <1>2. answer = NoMetrics \/ answer \in Outcome
    BY DEF Answers
  <1>3. CASE answer = NoMetrics
    BY <1>1, <1>3
  <1>4. CASE answer # NoMetrics
    BY <1>1, <1>2, <1>4
  <1> QED  BY <1>3, <1>4

LEMMA BOKeeps ==
  ASSUME StoreInvariant, NEW p \in Process, StepBO(p)
  PROVE  StoreInvariant'
  <1>1. PICK e \in Outcome : /\ trail' = [trail EXCEPT ![p] = Append(@, e)]
                             /\ best' = [best EXCEPT ![p] = BestAfter(trail[p], @, e)]
                             /\ RecordEpisode(p, e)
    BY StepsRecord
  <1>2. Alive(p) /\ Len(trail[p]) < Evaluations(p) /\ UNCHANGED <<runs, raced, killed>>
    BY DEF StepBO, Alive, Live
  <1>3. /\ trail' \in [Process -> Seq(Outcome)] /\ best' \in [Process -> Nat]
        /\ \A q \in Process : best'[q] <= Len(trail'[q]) /\ Len(trail'[q]) <= Evaluations(q)
    BY <1>1, <1>2, BestCounted
  <1> QED  BY <1>1, <1>2, <1>3, RecordKeeps

\* An evolution evaluates without touching the store.
LEMMA CMAESKeeps ==
  ASSUME StoreInvariant, NEW p \in Process, StepCMAES(p)
  PROVE  StoreInvariant'
  <1>1. PICK e \in Outcome : /\ trail' = [trail EXCEPT ![p] = Append(@, e)]
                             /\ best' = [best EXCEPT ![p] = BestAfter(trail[p], @, e)]
    BY DEF StepCMAES
  <1>2. /\ Len(trail[p]) < Evaluations(p)
        /\ UNCHANGED <<file, pc, loaded, report, mixed, runs, recorded, raced, killed>>
    BY DEF StepCMAES
  <1>3. /\ trail' \in [Process -> Seq(Outcome)] /\ best' \in [Process -> Nat]
        /\ \A q \in Process : best'[q] <= Len(trail'[q]) /\ Len(trail'[q]) <= Evaluations(q)
    BY <1>1, <1>2, BestCounted
  <1>4. StoreTypes'
    BY <1>2, <1>3 DEF StoreInvariant, StoreTypes
  <1>5. Counted'
    BY <1>2, <1>3 DEF StoreInvariant, Counted, Writing
  <1>6. Numbers'
    BY <1>2 DEF StoreInvariant, Numbers
  <1>7. Serial'
    BY <1>2 DEF StoreInvariant, Serial, Alive, Writing
  <1> QED  BY <1>4, <1>5, <1>6, <1>7 DEF StoreInvariant

\* A state change of one process that leaves the store and the lists alone: neither
\* before nor after it is the process saving, and it comes to life in neither.
LEMMA ProgressKeeps ==
  ASSUME StoreInvariant, NEW p \in Process, NEW s \in ProgramState \ {"saving"},
         Alive(p), ~Writing(p), pc' = [pc EXCEPT ![p] = s],
         UNCHANGED <<file, loaded, trail, best, mixed, runs, recorded, raced, killed>>
  PROVE  StoreInvariant'
  <1> USE DEF StoreInvariant
  <1>1. \A q \in Process : Writing(q)' <=> Writing(q)
    BY DEF StoreTypes, Writing
  <1>2. \A q \in Process : Alive(q)' => Alive(q)
    BY DEF StoreTypes, Alive
  <1>3. StoreTypes' /\ Numbers'
    BY DEF StoreTypes, Numbers
  <1>4. Counted'
    BY <1>1 DEF Counted
  <1>5. Serial'
    BY <1>1, <1>2 DEF Serial
  <1> QED  BY <1>3, <1>4, <1>5

LEMMA VerifyKeeps ==
  ASSUME StoreInvariant, NEW p \in Process, VerifyCMAES(p)
  PROVE  StoreInvariant'
  <1>1. Alive(p) /\ ~Writing(p)
    BY DEF VerifyCMAES, Alive, Live, Writing
  <1>2. CASE Unverified(p)
    <2>1. "unverified" \in ProgramState \ {"saving"}
      BY DEF ProgramState, Live
    <2> QED  BY <1>1, <1>2, <2>1, ProgressKeeps DEF Unverified
  <1>3. CASE ~Unverified(p)
    <2>1. PICK answer \in Answers(trail[p][best[p]].at) \ {NoMetrics} :
            RecordEpisode(p, answer)
      BY <1>3 DEF VerifyCMAES
    <2>2. UNCHANGED <<trail, best, runs, raced, killed>>
      BY <1>3 DEF VerifyCMAES
    <2>3. answer \in Outcome
      BY DEF Answers
    <2>4. /\ trail' \in [Process -> Seq(Outcome)] /\ best' \in [Process -> Nat]
          /\ \A q \in Process : best'[q] <= Len(trail'[q]) /\ Len(trail'[q]) <= Evaluations(q)
      BY <2>2 DEF StoreInvariant, StoreTypes, Counted
    <2> QED  BY <1>1, <2>1, <2>2, <2>3, <2>4, RecordKeeps
  <1> QED  BY <1>2, <1>3

LEMMA FinishKeeps ==
  ASSUME StoreInvariant, NEW p \in Process, Finish(p)
  PROVE  StoreInvariant'
  <1>1. Alive(p) /\ ~Writing(p)
    BY DEF Finish, Alive, Live, Writing
  <1>2. "done" \in ProgramState \ {"saving"}
    BY DEF ProgramState, Live
  <1> QED  BY <1>1, <1>2, ProgressKeeps DEF Finish

\* The store is whole again and holds what the process has loaded; only when others had
\* it open as well it may be torn, and then runs have raced.
LEMMA SaveKeeps ==
  ASSUME StoreInvariant, NEW p \in Process, Save(p)
  PROVE  StoreInvariant'
  <1> USE DEF StoreInvariant, Save
  <1>1. file' = Holding(loaded[p]) \/ (file' = Torn /\ mixed[p])
    OBVIOUS
  <1>2. /\ Torn \in [state : {"absent", "torn", "whole"}, episodes : Seq(Episode)]
        /\ Holding(loaded[p]) \in [state : {"absent", "torn", "whole"}, episodes : Seq(Episode)]
    BY DEF Torn, Holding, StoreTypes
  <1>3. pc' \in [Process -> ProgramState] /\ mixed' \in [Process -> BOOLEAN]
    BY DEF StoreTypes, ProgramState, Live, Writing
  <1>4. StoreTypes'
    BY <1>1, <1>2, <1>3 DEF StoreTypes
  <1>5. ~Writing(p)' /\ Alive(p)
    BY DEF StoreTypes, Writing, Alive, Live
  <1>6. \A q \in Process : q # p => (Writing(q)' <=> Writing(q)) /\ (Alive(q)' <=> Alive(q))
    BY DEF StoreTypes, Writing, Alive
  <1>7. Counted'
    <2> SUFFICES ASSUME NEW q \in Process, mixed'[q] PROVE Writing(q)'
      BY DEF Counted
    <2>1. q # p /\ (mixed[q] \/ Writing(q))
      OBVIOUS
    <2> QED  BY <2>1, <1>6 DEF Counted
  <1>8. Numbers'
    <2>1. Numbered(file'.episodes)
      BY <1>1 DEF Numbers, Numbered, Torn, Holding
    <2> QED  BY <2>1 DEF Numbers
  <1>9. Serial'
    <2> SUFFICES ASSUME ~raced PROVE Serial'
      BY DEF Serial
    <2>1. ~mixed[p] /\ \A q \in Process : q # p => ~Alive(q) /\ ~Writing(q) /\ ~mixed[q]
      BY <1>5 DEF Serial, Writing, Alive, Live
    <2>2. \A q \in Process : q # p => ~Alive(q)' /\ ~Writing(q)'
      BY <2>1, <1>6
    <2>3. \A q \in Process : ~mixed'[q]
      BY <2>1 DEF Serial
    <2>4. file'.state = "whole" /\ file'.episodes = loaded[p]
      BY <1>1, <2>1 DEF Holding
    <2>5. ~killed => loaded[p] = recorded
      BY <1>5 DEF Serial
    <2> QED  BY <2>2, <2>3, <2>4, <2>5 DEF Serial
  <1> QED  BY <1>4, <1>7, <1>8, <1>9

\* A kill is recorded when it leaves the file open; otherwise the file keeps all there is.
LEMMA KillKeeps ==
  ASSUME StoreInvariant, NEW p \in Process, Kill(p)
  PROVE  StoreInvariant'
  <1> USE DEF StoreInvariant, Kill
  <1>1. /\ <<>> \in Seq(Episode) /\ <<>> \in Seq(Outcome) /\ Len(<<>>) = 0
        /\ DOMAIN <<>> = {}
    OBVIOUS
  <1>2. StoreTypes'
    <2>1. pc' \in [Process -> ProgramState]
      BY DEF StoreTypes, ProgramState
    <2>2. killed' \in BOOLEAN /\ mixed' \in [Process -> BOOLEAN]
      BY DEF StoreTypes, Writing
    <2> QED  BY <1>1, <2>1, <2>2 DEF StoreTypes
  <1>3. ~Alive(p)' /\ ~Writing(p)'
    BY DEF StoreTypes, Alive, Live, Writing
  <1>4. \A q \in Process : q # p => (Writing(q)' <=> Writing(q)) /\ (Alive(q)' <=> Alive(q))
    BY DEF StoreTypes, Writing, Alive
  <1>5. Counted'
    <2>1. best'[p] = 0 /\ trail'[p] = <<>> /\ ~mixed'[p] /\ runs'[p] = runs[p]
      BY DEF StoreTypes
    <2>2. ASSUME NEW q \in Process, q # p
          PROVE  /\ best'[q] = best[q] /\ trail'[q] = trail[q] /\ runs'[q] = runs[q]
                 /\ mixed'[q] = mixed[q]
      BY <2>2 DEF StoreTypes
    <2>3. 0 <= Len(<<>>) /\ Len(<<>>) <= Evaluations(p)
      BY <1>1, EvaluationsCounted
    <2> QED  BY <2>1, <2>2, <2>3, <1>4 DEF Counted
  <1>6. Numbers'
    BY <1>1 DEF Numbers, Numbered, StoreTypes
  <1>7. Serial'
    <2> SUFFICES ASSUME ~raced PROVE Serial'
      BY DEF Serial
    <2>1. \A q \in Process : ~Alive(q)' /\ ~Writing(q)'
      BY <1>3, <1>4 DEF Serial, Alive, Live, Writing
    <2>2. \A q \in Process : ~mixed'[q]
      BY DEF Serial, StoreTypes
    <2>3. ASSUME ~killed'
          PROVE  file'.state # "torn" /\ file'.episodes = recorded'
      <3>1. ~killed /\ ~Writing(p)
        BY <2>3 DEF StoreTypes, Writing
      <3>2. \A q \in Process : ~Writing(q)
        BY <3>1 DEF Serial, Alive, Live, Writing
      <3> QED  BY <2>3, <3>1, <3>2 DEF Serial
    <2> QED  BY <2>1, <2>2, <2>3 DEF Serial
  <1> QED  BY <1>2, <1>5, <1>6, <1>7

LEMMA StoreStep == StoreInvariant /\ [Next]_vars => StoreInvariant'
  <1>1. ASSUME StoreInvariant, NEW p \in Process, Start(p) \/ Step(p) \/ Kill(p)
        PROVE  StoreInvariant'
    BY <1>1, StartKeeps, BOKeeps, CMAESKeeps, SaveKeeps, VerifyKeeps, FinishKeeps, KillKeeps
       DEF Step
  <1>2. StoreInvariant /\ UNCHANGED vars => StoreInvariant'
    BY DEF StoreInvariant, StoreTypes, Counted, Numbers, Serial, Alive, Writing, vars
  <1> QED  BY <1>1, <1>2 DEF Next

\* Numbered lists have no id twice.
LEMMA NumberedOnce ==
  ASSUME NEW eps \in Seq(Episode), Numbered(eps)
  PROVE  IsInjective([i \in DOMAIN eps |-> eps[i].id])
  BY DEF Numbered, IsInjective

LEMMA StoreInvariantImplies == StoreInvariant => StoreSound
  <1> SUFFICES ASSUME StoreInvariant PROVE StoreSound
    OBVIOUS
  <1> USE DEF StoreInvariant
  <1>1. TypeOK
    <2>1. file.state \in {"absent", "torn", "whole"}
      BY DEF StoreTypes
    <2>2. ASSUME NEW p \in Process
          PROVE  /\ pc[p] \in ProgramState
                 /\ best[p] \in 0..Len(trail[p]) /\ Len(trail[p]) <= Evaluations(p)
                 /\ runs[p] \in 0..RunBound(p)
                 /\ mixed[p] => Writing(p)
      <3>1. Len(trail[p]) \in Nat /\ best[p] \in Nat /\ runs[p] \in Nat /\ RunBound(p) \in Nat
        BY EpisodeStoreAssumption DEF StoreTypes
      <3> QED  BY <3>1 DEF StoreTypes, Counted
    <2>3. ASSUME NEW p \in Process, NEW ep \in Range(loaded[p])
          PROVE  ep.id \in Nat /\ ep.what \in Outcome
      <3>1. PICK i \in DOMAIN loaded[p] : ep = loaded[p][i]
        BY DEF Range
      <3>2. loaded[p] \in Seq(Episode)
        BY DEF StoreTypes
      <3>3. ep \in Episode
        BY <3>1, <3>2
      <3> QED  BY <3>3 DEF Episode
    <2> QED  BY <2>1, <2>2, <2>3 DEF TypeOK, ProgramState
  <1>2. SerialRunsKeepAll
    BY DEF SerialRunsKeepAll, Serial
  <1>3. IdsUnique
    <2> SUFFICES ASSUME NEW p \in Process
                 PROVE  IsInjective([i \in DOMAIN loaded[p] |-> loaded[p][i].id])
      BY DEF IdsUnique
    <2>1. loaded[p] \in Seq(Episode) /\ Numbered(loaded[p])
      BY DEF StoreTypes, Numbers
    <2> QED  BY <2>1, NumberedOnce
  <1> QED  BY <1>1, <1>2, <1>3 DEF StoreSound

\* Whatever the processes do, one after the other, side by side or dying with the file
\* open: no two episodes a run works with have the same id, and as long as no two runs
\* overlapped and none died while it saved, the store is whole and holds every episode
\* that was ever recorded.
THEOREM StoreCorrect == Spec => []StoreSound
  <1>1. Spec => []StoreInvariant
    BY StoreInit, StoreStep, PTL DEF Spec
  <1> QED  BY <1>1, StoreInvariantImplies, PTL

\* A store that was left torn with nobody alive stays so: nobody gets past loading it.
THEOREM TornCorrect == Spec => TornForGood
  <1>1. StoreInvariant /\ [Next]_vars => [Abandoned => Abandoned']_vars
    <2> SUFFICES ASSUME StoreInvariant, Next, Abandoned PROVE Abandoned'
      OBVIOUS
    <2>1. PICK p \in Process : Start(p) \/ Step(p) \/ Kill(p)
      BY DEF Next
    <2>2. ~Alive(p)
      BY DEF Abandoned
    <2>3. ~Step(p) /\ ~Kill(p)
      BY <2>2 DEF Step, StepBO, StepCMAES, Save, VerifyCMAES, Finish, Kill, Writing, Alive, Live
    <2>4. Start(p)
      BY <2>1, <2>3
    <2>5. ~Readable(file)
      BY DEF Abandoned, Readable, Torn
    <2>6. file' = file /\ pc' = [pc EXCEPT ![p] = "failed"]
      BY <2>4, <2>5 DEF Start
    <2>7. pc \in [Process -> ProgramState]
      BY DEF StoreInvariant, StoreTypes
    <2> QED  BY <2>6, <2>7 DEF Abandoned, Alive, Live
  <1>2. Spec => []StoreInvariant
    BY StoreInit, StoreStep, PTL DEF Spec
  <1> QED  BY <1>1, <1>2, PTL DEF Spec, TornForGood

(***************************************************************************)
(* What a run finds and reports                                            *)
(***************************************************************************)

\* The best of an evaluation history: none while nothing in it is feasible, else a
\* feasible one that no other feasible one outscores.
BestOf(tr, b) ==
    /\ b = 0 => \A i \in DOMAIN tr : ~IsFeasible(tr[i])
    /\ b # 0 => /\ b \in DOMAIN tr /\ IsFeasible(tr[b])
                /\ \A i \in DOMAIN tr : IsFeasible(tr[i]) => Score(tr[b]) >= Score(tr[i])

\* What a run found, what of it is among its episodes, and what it reports of it.
RunSound(p) ==
    /\ BestOf(trail[p], best[p])
    /\ OptimizerOf(p) = "bo" =>
          \A i \in DOMAIN trail[p] : \E j \in DOMAIN loaded[p] : loaded[p][j].what = trail[p][i]
    /\ pc[p] \in {"saving", "verified"} => Len(loaded[p]) \in DOMAIN loaded[p]
    /\ pc[p] = "done" /\ report[p].spec_met =>
          /\ report[p].feasible > 0
          /\ OptimizerOf(p) = "bo" \/ report[p].verified =>
                \E j \in DOMAIN loaded[p] : IsFeasible(loaded[p][j].what)

RunInvariant == DOMAIN report = Process /\ \A p \in Process : RunSound(p)

LEMMA ScoreHolds == \A e \in Outcome : Score(e) \in Int
  <1> SUFFICES ASSUME NEW e \in Outcome PROVE Score(e) \in Int
    OBVIOUS
  <1>1. e.gbw \in Nat /\ e.power \in Nat
    BY EpisodeStoreAssumption
  <1> QED  BY <1>1 DEF Score

\* One evaluation more, and the best after it.
LEMMA BestAfterHolds ==
  ASSUME NEW tr \in Seq(Outcome), NEW b, BestOf(tr, b), NEW e \in Outcome
  PROVE  BestOf(Append(tr, e), BestAfter(tr, b, e))
  <1> DEFINE t == Append(tr, e)
             c == BestAfter(tr, b, e)
             n == Len(tr) + 1
  <1>1. /\ DOMAIN t = 1 .. n /\ DOMAIN tr = 1 .. Len(tr) /\ Len(tr) \in Nat
        /\ t[n] = e /\ \A i \in DOMAIN tr : t[i] = tr[i]
    OBVIOUS
  <1>2. /\ \A i \in DOMAIN t : i \in DOMAIN tr \/ i = n
        /\ n \in DOMAIN t /\ \A i \in DOMAIN tr : i \in DOMAIN t
        /\ n # 0 /\ \A i \in DOMAIN tr : i # 0
    BY <1>1
  <1>3. /\ Score(e) \in Int
        /\ \A i \in DOMAIN tr : Score(tr[i]) \in Int
    BY ScoreHolds
  <1> HIDE DEF t, n
  <1>4. CASE IsFeasible(e) /\ (b = 0 \/ Score(e) > Score(tr[b]))
    <2>1. c = n
      BY <1>4 DEF BestAfter, n
    <2>2. ASSUME NEW i \in DOMAIN tr, IsFeasible(tr[i]) PROVE Score(e) >= Score(tr[i])
      <3>1. b # 0
        BY <2>2 DEF BestOf
      <3>2. b \in DOMAIN tr /\ Score(tr[b]) >= Score(tr[i])
        BY <2>2, <3>1 DEF BestOf
      <3>3. Score(e) > Score(tr[b])
        BY <1>4, <3>1
      <3> QED  BY <1>3, <3>2, <3>3
    <2>3. \A i \in DOMAIN t : IsFeasible(t[i]) => Score(t[n]) >= Score(t[i])
      BY <1>1, <1>2, <1>3, <2>2
    <2> HIDE DEF c
    <2>4. BestOf(t, n)
      BY <1>1, <1>2, <1>4, <2>3 DEF BestOf
    <2> QED  BY <2>1, <2>4 DEF t, c
  <1>5. CASE ~(IsFeasible(e) /\ (b = 0 \/ Score(e) > Score(tr[b])))
    <2>1. c = b
      BY <1>5 DEF BestAfter
    <2> HIDE DEF c
    <2>2. CASE b = 0
      <3>1. \A i \in DOMAIN t : ~IsFeasible(t[i])
        BY <1>1, <1>2, <1>5, <2>2 DEF BestOf
      <3> QED  BY <2>1, <2>2, <3>1 DEF BestOf, t, c
    <2>3. CASE b # 0
      <3>1. /\ b \in DOMAIN tr /\ IsFeasible(tr[b])
            /\ \A i \in DOMAIN tr : IsFeasible(tr[i]) => Score(tr[b]) >= Score(tr[i])
        BY <2>3 DEF BestOf
      <3>2. IsFeasible(e) => Score(tr[b]) >= Score(e)
        BY <1>3, <1>5, <2>3, <3>1
      <3>3. /\ b \in DOMAIN t /\ IsFeasible(t[b])
            /\ \A i \in DOMAIN t : IsFeasible(t[i]) => Score(t[b]) >= Score(t[i])
        BY <1>1, <1>2, <3>1, <3>2
      <3> QED  BY <2>1, <2>3, <3>3 DEF BestOf, t, c
    <2> QED  BY <2>2, <2>3
  <1> QED  BY <1>4, <1>5

\* Something feasible is counted exactly when something feasible is there.
LEMMA FeasibleCounted ==
  ASSUME NEW tr \in Seq(Outcome)
  PROVE  /\ FeasibleCount(tr) \in Nat
         /\ FeasibleCount(tr) = 0 <=> \A i \in DOMAIN tr : ~IsFeasible(tr[i])
  <1> DEFINE good == {i \in DOMAIN tr : IsFeasible(tr[i])}
  <1>1. DOMAIN tr = 1 .. Len(tr) /\ Len(tr) \in Nat
    OBVIOUS
  <1>2. IsFiniteSet(DOMAIN tr)
    BY <1>1, FS_Interval
  <1>3. good \in SUBSET DOMAIN tr
    OBVIOUS
  <1>4. good = {} <=> \A i \in DOMAIN tr : ~IsFeasible(tr[i])
    OBVIOUS
  <1> HIDE DEF good
  <1>5. IsFiniteSet(good) /\ Cardinality(good) \in Nat
    BY <1>2, <1>3, FS_Subset, FS_CardinalityType
  <1>6. Cardinality(good) = 0 <=> good = {}
    BY <1>5, FS_EmptySet
  <1> QED  BY <1>4, <1>5, <1>6 DEF FeasibleCount, good

\* The run of another process is left alone.
LEMMA OthersKeep ==
  ASSUME NEW q \in Process, RunSound(q),
         pc'[q] = pc[q], loaded'[q] = loaded[q], trail'[q] = trail[q], best'[q] = best[q],
         report'[q] = report[q]
  PROVE  RunSound(q)'
  BY DEF RunSound, BestOf

\* An evaluation that is recorded: it is the last episode of the run.
LEMMA RecordedHolds ==
  ASSUME StoreTypes, NEW p \in Process, NEW e \in Outcome, RecordEpisode(p, e)
  PROVE  /\ pc' = [pc EXCEPT ![p] = "saving"]
         /\ \A q \in Process \ {p} : loaded'[q] = loaded[q]
         /\ Len(loaded'[p]) = Len(loaded[p]) + 1 /\ Len(loaded[p]) \in Nat
         /\ DOMAIN loaded[p] = 1 .. Len(loaded[p])
         /\ DOMAIN loaded'[p] = 1 .. Len(loaded[p]) + 1
         /\ \A j \in DOMAIN loaded[p] : loaded'[p][j] = loaded[p][j]
         /\ loaded'[p][Len(loaded[p]) + 1].what = e
  <1> DEFINE episode == [id |-> EpisodeId(loaded[p]), what |-> e]
  <1>1. /\ loaded' = [loaded EXCEPT ![p] = Append(@, episode)]
        /\ pc' = [pc EXCEPT ![p] = "saving"]
    BY DEF RecordEpisode
  <1>2. loaded[p] \in Seq(Episode) /\ loaded \in [Process -> Seq(Episode)]
    BY DEF StoreTypes
  <1>3. episode \in Episode /\ episode.what = e
    BY <1>2 DEF EpisodeId, Episode
  <1> HIDE DEF episode
  <1>4. /\ Len(Append(loaded[p], episode)) = Len(loaded[p]) + 1 /\ Len(loaded[p]) \in Nat
        /\ DOMAIN loaded[p] = 1 .. Len(loaded[p])
        /\ DOMAIN Append(loaded[p], episode) = 1 .. Len(loaded[p]) + 1
        /\ \A j \in 1 .. Len(loaded[p]) : Append(loaded[p], episode)[j] = loaded[p][j]
        /\ Append(loaded[p], episode)[Len(loaded[p]) + 1] = episode
    BY <1>2, <1>3
  <1> QED  BY <1>1, <1>2, <1>3, <1>4

LEMMA RunInit == Init => RunInvariant
  <1> SUFFICES ASSUME Init, NEW p \in Process PROVE RunSound(p)
    BY DEF Init, RunInvariant
  <1>1. pc[p] = "idle" /\ trail[p] = <<>> /\ best[p] = 0
    BY DEF Init
  <1>2. \A i \in DOMAIN trail[p] : FALSE
    BY <1>1
  <1> QED  BY <1>1, <1>2 DEF RunSound, BestOf

\* A run that begins or dies has found nothing, and reports nothing.
LEMMA StartRuns ==
  ASSUME StoreInvariant, RunInvariant, NEW p \in Process, Start(p) \/ Kill(p)
  PROVE  RunInvariant'
  <1>1. /\ trail' = [trail EXCEPT ![p] = <<>>] /\ best' = [best EXCEPT ![p] = 0]
        /\ report' = report
        /\ \E s \in {"running", "failed", "killed"} : pc' = [pc EXCEPT ![p] = s]
        /\ \E s : loaded' = [loaded EXCEPT ![p] = s]
    <2>1. CASE Start(p)
      BY <2>1 DEF Start
    <2>2. CASE Kill(p)
      BY <2>2 DEF Kill
    <2> QED  BY <2>1, <2>2
  <1>3. /\ DOMAIN pc = Process /\ DOMAIN trail = Process /\ DOMAIN best = Process
        /\ DOMAIN loaded = Process
    BY DEF StoreInvariant, StoreTypes
  <1>2. \A q \in Process \ {p} : loaded'[q] = loaded[q]
    BY <1>1, <1>3
  <1>4. RunSound(p)'
    <2>1. trail'[p] = <<>> /\ best'[p] = 0 /\ pc'[p] \in {"running", "failed", "killed"}
      BY <1>1, <1>3
    <2>2. \A i \in DOMAIN trail'[p] : FALSE
      BY <2>1
    <2> QED  BY <2>1, <2>2 DEF RunSound, BestOf
  <1>5. ASSUME NEW q \in Process, q # p PROVE RunSound(q)'
    <2>1. /\ pc'[q] = pc[q] /\ trail'[q] = trail[q] /\ best'[q] = best[q]
          /\ loaded'[q] = loaded[q] /\ report'[q] = report[q]
      BY <1>1, <1>2, <1>3, <1>5
    <2> QED  BY <2>1, OthersKeep DEF RunInvariant
  <1> QED  BY <1>1, <1>4, <1>5 DEF RunInvariant

LEMMA BORuns ==
  ASSUME StoreInvariant, RunInvariant, NEW p \in Process, StepBO(p)
  PROVE  RunInvariant'
  <1>1. PICK e \in Outcome : /\ trail' = [trail EXCEPT ![p] = Append(@, e)]
                             /\ best' = [best EXCEPT ![p] = BestAfter(trail[p], @, e)]
                             /\ RecordEpisode(p, e)
    BY StepsRecord
  <1>2. report' = report
    BY DEF StepBO
  <1>3. /\ pc \in [Process -> ProgramState] /\ trail \in [Process -> Seq(Outcome)]
        /\ best \in [Process -> Nat] /\ StoreTypes
    BY DEF StoreInvariant, StoreTypes
  <1>4. /\ pc' = [pc EXCEPT ![p] = "saving"]
        /\ \A q \in Process \ {p} : loaded'[q] = loaded[q]
        /\ Len(loaded'[p]) = Len(loaded[p]) + 1 /\ Len(loaded[p]) \in Nat
        /\ DOMAIN loaded[p] = 1 .. Len(loaded[p])
        /\ DOMAIN loaded'[p] = 1 .. Len(loaded[p]) + 1
        /\ \A j \in DOMAIN loaded[p] : loaded'[p][j] = loaded[p][j]
        /\ loaded'[p][Len(loaded[p]) + 1].what = e
    BY <1>1, <1>3, RecordedHolds
  <1>5. RunSound(p)'
    <2>1. /\ trail'[p] = Append(trail[p], e) /\ best'[p] = BestAfter(trail[p], best[p], e)
          /\ trail[p] \in Seq(Outcome) /\ pc'[p] = "saving"
      BY <1>1, <1>3, <1>4
    <2>2. BestOf(trail'[p], best'[p])
      <3>1. BestOf(trail[p], best[p])
        BY DEF RunInvariant, RunSound
      <3> QED  BY <2>1, <3>1, BestAfterHolds
    <2>3. ASSUME OptimizerOf(p) = "bo", NEW i \in DOMAIN trail'[p]
          PROVE  \E j \in DOMAIN loaded'[p] : loaded'[p][j].what = trail'[p][i]
      <3>1. CASE i = Len(trail[p]) + 1
        <4>1. trail'[p][i] = e
          BY <2>1, <3>1
        <4>2. Len(loaded[p]) + 1 \in DOMAIN loaded'[p]
          BY <1>4
        <4> QED  BY <1>4, <4>1, <4>2
      <3>2. CASE i # Len(trail[p]) + 1
        <4>1. i \in DOMAIN trail[p] /\ trail'[p][i] = trail[p][i]
          BY <2>1, <3>2
        <4>2. PICK j \in DOMAIN loaded[p] : loaded[p][j].what = trail[p][i]
          BY <2>3, <4>1 DEF RunInvariant, RunSound
        <4>3. j \in DOMAIN loaded'[p] /\ loaded'[p][j] = loaded[p][j]
          BY <1>4
        <4> QED  BY <4>1, <4>2, <4>3
      <3> QED  BY <3>1, <3>2
    <2>4. Len(loaded'[p]) \in DOMAIN loaded'[p]
      BY <1>4
    <2> QED  BY <2>1, <2>2, <2>3, <2>4 DEF RunSound
  <1>6. ASSUME NEW q \in Process, q # p PROVE RunSound(q)'
    <2>1. /\ pc'[q] = pc[q] /\ trail'[q] = trail[q] /\ best'[q] = best[q]
          /\ loaded'[q] = loaded[q] /\ report'[q] = report[q]
      BY <1>1, <1>2, <1>3, <1>4, <1>6
    <2> QED  BY <2>1, OthersKeep DEF RunInvariant
  <1> QED  BY <1>2, <1>5, <1>6 DEF RunInvariant

LEMMA CMAESRuns ==
  ASSUME StoreInvariant, RunInvariant, NEW p \in Process, StepCMAES(p)
  PROVE  RunInvariant'
  <1>1. PICK e \in Outcome : /\ trail' = [trail EXCEPT ![p] = Append(@, e)]
                             /\ best' = [best EXCEPT ![p] = BestAfter(trail[p], @, e)]
    BY DEF StepCMAES
  <1>2. /\ pc[p] = "running" /\ OptimizerOf(p) = "cmaes"
        /\ pc' = pc /\ loaded' = loaded /\ report' = report
    BY DEF StepCMAES
  <1>3. trail \in [Process -> Seq(Outcome)] /\ best \in [Process -> Nat]
    BY DEF StoreInvariant, StoreTypes
  <1>4. RunSound(p)'
    <2>1. /\ trail'[p] = Append(trail[p], e) /\ best'[p] = BestAfter(trail[p], best[p], e)
          /\ trail[p] \in Seq(Outcome)
      BY <1>1, <1>3
    <2>2. BestOf(trail[p], best[p])
      BY DEF RunInvariant, RunSound
    <2>3. BestOf(trail'[p], best'[p])
      BY <2>1, <2>2, BestAfterHolds
    <2> QED  BY <1>2, <2>3 DEF RunSound
  <1>5. ASSUME NEW q \in Process, q # p PROVE RunSound(q)'
    <2>1. /\ pc'[q] = pc[q] /\ trail'[q] = trail[q] /\ best'[q] = best[q]
          /\ loaded'[q] = loaded[q] /\ report'[q] = report[q]
      BY <1>1, <1>2, <1>3, <1>5
    <2> QED  BY <2>1, OthersKeep DEF RunInvariant
  <1> QED  BY <1>2, <1>4, <1>5 DEF RunInvariant

LEMMA VerifyRuns ==
  ASSUME StoreInvariant, RunInvariant, NEW p \in Process, VerifyCMAES(p)
  PROVE  RunInvariant'
  <1>1. /\ OptimizerOf(p) = "cmaes"
        /\ trail' = trail /\ best' = best /\ report' = report
    BY DEF VerifyCMAES, Unverified
  <1>2. pc \in [Process -> ProgramState] /\ StoreTypes
    BY DEF StoreInvariant, StoreTypes
  <1>3. CASE Unverified(p)
    <2>1. pc' = [pc EXCEPT ![p] = "unverified"] /\ loaded' = loaded
      BY <1>3 DEF Unverified
    <2>2. RunSound(p)'
      BY <1>1, <1>2, <2>1 DEF RunInvariant, RunSound, BestOf
    <2>3. ASSUME NEW q \in Process, q # p PROVE RunSound(q)'
      <3>1. /\ pc'[q] = pc[q] /\ trail'[q] = trail[q] /\ best'[q] = best[q]
            /\ loaded'[q] = loaded[q] /\ report'[q] = report[q]
        BY <1>1, <1>2, <2>1, <2>3
      <3> QED  BY <3>1, OthersKeep DEF RunInvariant
    <2> QED  BY <1>1, <2>2, <2>3 DEF RunInvariant
  <1>4. CASE ~Unverified(p)
    <2>1. PICK e \in Answers(trail[p][best[p]].at) \ {NoMetrics} : RecordEpisode(p, e)
      BY <1>4 DEF VerifyCMAES
    <2>2. e \in Outcome
      BY DEF Answers
    <2>3. /\ pc' = [pc EXCEPT ![p] = "saving"]
          /\ \A q \in Process \ {p} : loaded'[q] = loaded[q]
          /\ Len(loaded'[p]) \in DOMAIN loaded'[p]
      BY <1>2, <2>1, <2>2, RecordedHolds
    <2>4. RunSound(p)'
      BY <1>1, <1>2, <2>3 DEF RunInvariant, RunSound, BestOf
    <2>5. ASSUME NEW q \in Process, q # p PROVE RunSound(q)'
      <3>1. /\ pc'[q] = pc[q] /\ trail'[q] = trail[q] /\ best'[q] = best[q]
            /\ loaded'[q] = loaded[q] /\ report'[q] = report[q]
        BY <1>1, <1>2, <2>3, <2>5
      <3> QED  BY <3>1, OthersKeep DEF RunInvariant
    <2> QED  BY <1>1, <2>4, <2>5 DEF RunInvariant
  <1> QED  BY <1>3, <1>4

LEMMA SaveRuns ==
  ASSUME StoreInvariant, RunInvariant, NEW p \in Process, Save(p)
  PROVE  RunInvariant'
  <1>1. /\ pc[p] = "saving"
        /\ \E s \in {"verified", "running"} : pc' = [pc EXCEPT ![p] = s]
        /\ loaded' = loaded /\ trail' = trail /\ best' = best /\ report' = report
    BY DEF Save, Writing
  <1>2. pc \in [Process -> ProgramState]
    BY DEF StoreInvariant, StoreTypes
  <1>3. RunSound(p)'
    <2>1. RunSound(p) /\ pc'[p] \in {"verified", "running"}
      BY <1>1, <1>2 DEF RunInvariant
    <2>2. BestOf(trail'[p], best'[p])
      BY <1>1, <2>1 DEF RunSound, BestOf
    <2> QED  BY <1>1, <2>1, <2>2 DEF RunSound
  <1>4. ASSUME NEW q \in Process, q # p PROVE RunSound(q)'
    <2>1. /\ pc'[q] = pc[q] /\ trail'[q] = trail[q] /\ best'[q] = best[q]
          /\ loaded'[q] = loaded[q] /\ report'[q] = report[q]
      BY <1>1, <1>2, <1>4
    <2> QED  BY <2>1, OthersKeep DEF RunInvariant
  <1> QED  BY <1>1, <1>3, <1>4 DEF RunInvariant

\* What is reported is what was found.
LEMMA FinishRuns ==
  ASSUME StoreInvariant, RunInvariant, NEW p \in Process, Finish(p)
  PROVE  RunInvariant'
  <1> DEFINE results == IF OptimizerOf(p) = "bo" THEN ResultsBO(p) ELSE ResultsCMAES(p)
  <1>1. /\ report' = [report EXCEPT ![p] = results]
        /\ pc' = [pc EXCEPT ![p] = "done"]
        /\ loaded' = loaded /\ trail' = trail /\ best' = best
    BY DEF Finish
  <1>2. /\ pc \in [Process -> ProgramState] /\ trail[p] \in Seq(Outcome)
        /\ OptimizerOf(p) \in {"bo", "cmaes"} /\ DOMAIN report = Process
    BY EpisodeStoreAssumption DEF StoreInvariant, StoreTypes, RunInvariant
  <1>3. RunSound(p)
    BY DEF RunInvariant
  <1>4. best[p] # 0 => FeasibleCount(trail[p]) > 0
    <2>1. /\ FeasibleCount(trail[p]) \in Nat
          /\ FeasibleCount(trail[p]) = 0 <=> \A i \in DOMAIN trail[p] : ~IsFeasible(trail[p][i])
      BY <1>2, FeasibleCounted
    <2>2. best[p] # 0 => best[p] \in DOMAIN trail[p] /\ IsFeasible(trail[p][best[p]])
      BY <1>3 DEF RunSound, BestOf
    <2> QED  BY <2>1, <2>2
  <1>5. ASSUME results.spec_met
        PROVE  /\ results.feasible > 0
               /\ OptimizerOf(p) = "bo" \/ results.verified =>
                     \E j \in DOMAIN loaded[p] : IsFeasible(loaded[p][j].what)
    <2>1. CASE OptimizerOf(p) = "bo"
      <3>1. best[p] # 0 /\ results.feasible = FeasibleCount(trail[p])
        BY <1>5, <2>1 DEF ResultsBO
      <3>2. best[p] \in DOMAIN trail[p] /\ IsFeasible(trail[p][best[p]])
        BY <1>3, <3>1 DEF RunSound, BestOf
      <3>3. PICK j \in DOMAIN loaded[p] : loaded[p][j].what = trail[p][best[p]]
        BY <1>3, <2>1, <3>2 DEF RunSound
      <3>4. IsFeasible(loaded[p][j].what)
        BY <3>2, <3>3
      <3> HIDE DEF results
      <3> QED  BY <1>4, <3>1, <3>4
    <2>2. CASE OptimizerOf(p) # "bo"
      <3>1. /\ best[p] # 0 /\ results.feasible = FeasibleCount(trail[p])
            /\ results.verified <=> pc[p] = "verified"
            /\ pc[p] = "verified" => IsFeasible(Last(loaded[p]).what)
        BY <1>5, <2>2 DEF ResultsCMAES
      <3> HIDE DEF results
      <3>2. pc[p] = "verified" => Len(loaded[p]) \in DOMAIN loaded[p]
        BY <1>3 DEF RunSound
      <3>3. pc[p] = "verified" => \E j \in DOMAIN loaded[p] : IsFeasible(loaded[p][j].what)
        BY <3>1, <3>2 DEF Last
      <3> QED  BY <1>4, <2>2, <3>1, <3>3
    <2> QED  BY <2>1, <2>2
  <1> HIDE DEF results
  <1>6. RunSound(p)'
    <2>1. report'[p] = results /\ pc'[p] = "done"
      BY <1>1, <1>2
    <2>2. BestOf(trail'[p], best'[p])
      BY <1>1, <1>3 DEF RunSound, BestOf
    <2> QED  BY <1>1, <1>3, <1>5, <2>1, <2>2 DEF RunSound
  <1>7. ASSUME NEW q \in Process, q # p PROVE RunSound(q)'
    <2>1. /\ pc'[q] = pc[q] /\ trail'[q] = trail[q] /\ best'[q] = best[q]
          /\ loaded'[q] = loaded[q] /\ report'[q] = report[q]
      BY <1>1, <1>2, <1>7
    <2> QED  BY <2>1, OthersKeep DEF RunInvariant
  <1> QED  BY <1>1, <1>2, <1>6, <1>7 DEF RunInvariant

LEMMA RunStep == StoreInvariant /\ RunInvariant /\ [Next]_vars => RunInvariant'
  <1>1. ASSUME StoreInvariant, RunInvariant, NEW p \in Process, Start(p) \/ Step(p) \/ Kill(p)
        PROVE  RunInvariant'
    BY <1>1, StartRuns, BORuns, CMAESRuns, SaveRuns, VerifyRuns, FinishRuns DEF Step
  <1>2. RunInvariant /\ UNCHANGED vars => RunInvariant'
    BY DEF RunInvariant, RunSound, BestOf, vars
  <1> QED  BY <1>1, <1>2 DEF Next

\* Whatever the processes do to each other's store: the best design a run knows is
\* feasible and unbeaten by what it evaluated, a run claims that the specification is met
\* only if it found something feasible, and unless it is an evolution that could not be
\* verified, that is among the episodes it leaves.
THEOREM ReportsCorrect == Spec => []ReportsSound
  <1>1. StoreInvariant /\ RunInvariant => ReportsSound
    <2> SUFFICES ASSUME StoreInvariant, RunInvariant PROVE ReportsSound
      OBVIOUS
    <2>1. ReportsEarned
      <3> SUFFICES ASSUME NEW p \in Process, pc[p] = "done", report[p].spec_met
                   PROVE  /\ report[p].feasible > 0
                          /\ OptimizerOf(p) = "bo" \/ report[p].verified =>
                                \E ep \in Range(loaded[p]) : IsFeasible(ep.what)
        BY DEF ReportsEarned
      <3> QED  BY DEF RunInvariant, RunSound, Range
    <2>2. BestIsBest
      <3> SUFFICES ASSUME NEW p \in Process
                   PROVE  /\ best[p] = 0 <=> FeasibleCount(trail[p]) = 0
                          /\ \A i \in DOMAIN trail[p] : IsFeasible(trail[p][i]) =>
                                Score(trail[p][best[p]]) >= Score(trail[p][i])
        BY DEF BestIsBest
      <3>1. BestOf(trail[p], best[p])
        BY DEF RunInvariant, RunSound
      <3>2. FeasibleCount(trail[p]) = 0 <=> \A i \in DOMAIN trail[p] : ~IsFeasible(trail[p][i])
        BY FeasibleCounted DEF StoreInvariant, StoreTypes
      <3> QED  BY <3>1, <3>2 DEF BestOf
    <2> QED  BY <2>1, <2>2 DEF ReportsSound
  <1> QED  BY StoreInit, StoreStep, RunInit, RunStep, <1>1, PTL DEF Spec

(***************************************************************************)
(* Lists of episodes                                                       *)
(***************************************************************************)

\* Members are placed by how many come before them: below[x] are those before x.
PlacedBy(S, below, place) ==
    /\ below \in [S -> SUBSET S]
    /\ \A x \in S : x \notin below[x]
    /\ \A x, y \in S : x # y => \/ x \in below[y] /\ below[x] \subseteq below[y]
                                \/ y \in below[x] /\ below[y] \subseteq below[x]
    /\ place = [x \in S |-> 1 + Cardinality(below[x])]

\* Every place is taken once, in the order of the members.
Ranked(S, below, place) ==
    /\ Cardinality(S) \in Nat
    /\ \A n \in 1 .. Cardinality(S) : \E x \in S : place[x] = n
    /\ \A x \in S : place[x] \in 1 .. Cardinality(S)
    /\ \A x, y \in S : place[x] = place[y] => x = y
    /\ \A x, y \in S : place[x] < place[y] => x \in below[y]

LEMMA PlacesAreTaken ==
  ASSUME NEW S, IsFiniteSet(S), NEW below, NEW place, PlacedBy(S, below, place)
  PROVE  Ranked(S, below, place)
  <1> USE DEF PlacedBy
  <1> DEFINE N == Cardinality(S)
  <1>1. N \in Nat
    BY FS_CardinalityType
  <1>2. \A x \in S : IsFiniteSet(below[x]) /\ Cardinality(below[x]) \in Nat
    BY FS_Subset, FS_CardinalityType
  <1>3. ASSUME NEW x \in S PROVE place[x] \in 1 .. N
    <2>1. below[x] \in SUBSET S /\ below[x] # S
      OBVIOUS
    <2>2. Cardinality(below[x]) <= N /\ Cardinality(below[x]) # N
      BY <2>1, FS_Subset
    <2> QED  BY <1>1, <1>2, <2>2
  <1>4. ASSUME NEW x \in S, NEW y \in S, x \in below[y], below[x] \subseteq below[y]
        PROVE  place[x] < place[y]
    <2>1. IsFiniteSet(below[y]) /\ below[x] \in SUBSET below[y] /\ below[x] # below[y]
      BY <1>2, <1>4
    <2>2. /\ Cardinality(below[x]) <= Cardinality(below[y])
          /\ Cardinality(below[x]) # Cardinality(below[y])
      BY <2>1, FS_Subset
    <2> QED  BY <1>2, <2>2
  <1>5. \A x \in S : place[x] \in Int
    BY <1>1, <1>3
  <1>6. \A x, y \in S : place[x] = place[y] => x = y
    BY <1>4, <1>5
  <1>7. \A x, y \in S : place[x] < place[y] => x \in below[y]
    BY <1>4, <1>5
  <1>8. \A n \in 1 .. N : \E x \in S : place[x] = n
    <2>1. place \in Injection(S, 1 .. N)
      BY <1>3, <1>6 DEF Injection, IsInjective
    <2>2. IsFiniteSet(1 .. N) /\ Cardinality(1 .. N) = N
      BY <1>1, FS_Interval
    <2>3. place \in Surjection(S, 1 .. N)
      BY <2>1, <2>2, FS_Injection
    <2> QED  BY <2>3 DEF Surjection
  <1> QED  BY <1>1, <1>3, <1>6, <1>7, <1>8 DEF Ranked

LEMMA UpTo ==
  ASSUME NEW n \in Nat
  PROVE  IsFiniteSet(1 .. n) /\ Cardinality(1 .. n) = n
  BY FS_Interval

\* What is chosen of a list are its members at the chosen indices, and all of them.
LEMMA ChosenHolds ==
  ASSUME NEW X, NEW s \in Seq(X), NEW I \in SUBSET DOMAIN s
  PROVE  /\ Chosen(s, I) \in Seq(X)
         /\ Len(Chosen(s, I)) <= Len(s)
         /\ \A n \in DOMAIN Chosen(s, I) : \E i \in I : Chosen(s, I)[n] = s[i]
         /\ \A i \in I : \E n \in DOMAIN Chosen(s, I) : Chosen(s, I)[n] = s[i]
  <1> DEFINE below == [i \in I |-> {j \in I : j < i}]
             place == [i \in I |-> 1 + Cardinality({j \in I : j < i})]
             at(n) == CHOOSE i \in I : place[i] = n
             N == Cardinality(I)
  <1>1. Len(s) \in Nat /\ DOMAIN s = 1 .. Len(s) /\ I \subseteq Int
    OBVIOUS
  <1>2. IsFiniteSet(I) /\ N <= Len(s)
    <2>1. IsFiniteSet(1 .. Len(s)) /\ Cardinality(1 .. Len(s)) = Len(s)
      BY <1>1, UpTo
    <2> QED  BY <1>1, <2>1, FS_Subset
  <1>3. PlacedBy(I, below, place)
    BY <1>1 DEF PlacedBy
  <1>4. Ranked(I, below, place)
    <2> HIDE DEF below, place
    <2> QED  BY <1>2, <1>3, PlacesAreTaken
  <1> HIDE DEF place
  <1>5. \A n \in 1 .. N : at(n) \in I /\ place[at(n)] = n
    BY <1>4 DEF Ranked
  <1>6. Chosen(s, I) = [n \in 1 .. N |-> s[at(n)]]
    BY DEF Chosen, place
  <1> HIDE DEF at
  <1>7. \A n \in 1 .. N : s[at(n)] \in X
    BY <1>5
  <1>8. Chosen(s, I) \in Seq(X) /\ Len(Chosen(s, I)) = N /\ DOMAIN Chosen(s, I) = 1 .. N
    BY <1>4, <1>6, <1>7 DEF Ranked
  <1>9. ASSUME NEW i \in I PROVE \E n \in DOMAIN Chosen(s, I) : Chosen(s, I)[n] = s[i]
    <2>1. place[i] \in 1 .. N /\ at(place[i]) = i
      BY <1>4, <1>5 DEF Ranked
    <2>2. Chosen(s, I)[place[i]] = s[i]
      BY <1>6, <2>1
    <2> QED  BY <1>8, <2>1, <2>2
  <1>10. ASSUME NEW n \in DOMAIN Chosen(s, I) PROVE \E i \in I : Chosen(s, I)[n] = s[i]
    BY <1>5, <1>6, <1>8
  <1> QED  BY <1>2, <1>8, <1>9, <1>10


LEMMA ChosenMembers ==
  ASSUME NEW X, NEW s \in Seq(X), NEW I \in SUBSET DOMAIN s
  PROVE  /\ Chosen(s, I) \in Seq(X)
         /\ Range(Chosen(s, I)) = {s[i] : i \in I}
  <1>1. /\ Chosen(s, I) \in Seq(X)
        /\ \A n \in DOMAIN Chosen(s, I) : \E i \in I : Chosen(s, I)[n] = s[i]
        /\ \A i \in I : \E n \in DOMAIN Chosen(s, I) : Chosen(s, I)[n] = s[i]
    BY ChosenHolds
  <1> QED  BY <1>1 DEF Range

\* A list without one of its members, and one list behind another.
LEMMA RemoveAtHolds ==
  ASSUME NEW X, NEW s \in Seq(X), NEW i \in DOMAIN s
  PROVE  /\ RemoveAt(s, i) \in Seq(X)
         /\ Range(RemoveAt(s, i)) \subseteq Range(s)
         /\ \A j \in DOMAIN s : j # i => s[j] \in Range(RemoveAt(s, i))
  <1> DEFINE a == SubSeq(s, 1, i - 1)
             b == SubSeq(s, i + 1, Len(s))
             t == RemoveAt(s, i)
  <1>1. Len(s) \in Nat /\ DOMAIN s = 1 .. Len(s) /\ i \in 1 .. Len(s)
    OBVIOUS
  <1>2. a \in Seq(X) /\ Len(a) = i - 1 /\ \A n \in 1 .. i - 1 : a[n] = s[n]
    BY <1>1
  <1>3. b \in Seq(X) /\ Len(b) = Len(s) - i /\ \A n \in 1 .. Len(s) - i : b[n] = s[n + i]
    BY <1>1
  <1>4. t = a \o b
    BY DEF RemoveAt
  <1> HIDE DEF a, b, t
  <1>5. /\ t \in Seq(X) /\ Len(t) = Len(s) - 1 /\ DOMAIN t = 1 .. Len(s) - 1
        /\ \A n \in 1 .. Len(s) - 1 : t[n] = (IF n < i THEN s[n] ELSE s[n + 1])
    <2>1. t \in Seq(X) /\ Len(t) = Len(a) + Len(b)
      <3>1. a \in Seq(X) /\ b \in Seq(X)
        BY <1>2, <1>3
      <3> QED  BY <1>4, <3>1, ConcatProperties
    <2>3. Len(t) = Len(s) - 1 /\ DOMAIN t = 1 .. Len(s) - 1
      <3>1. (i - 1) + (Len(s) - i) = Len(s) - 1
        BY <1>1
      <3> QED  BY <1>2, <1>3, <2>1, <3>1
    <2>2. ASSUME NEW n \in 1 .. Len(s) - 1
          PROVE  t[n] = (IF n < i THEN s[n] ELSE s[n + 1])
      <3>1. CASE n < i
        <4>1. t[n] = a[n]
          BY <1>1, <1>2, <1>3, <1>4, <3>1
        <4> QED  BY <1>1, <1>2, <3>1, <4>1
      <3>2. CASE ~(n < i)
        <4>1. t[n] = b[n - (i - 1)] /\ n - (i - 1) \in 1 .. Len(s) - i
          BY <1>1, <1>2, <1>3, <1>4, <3>2
        <4>2. b[n - (i - 1)] = s[(n - (i - 1)) + i] /\ (n - (i - 1)) + i = n + 1
          BY <1>1, <1>3, <4>1
        <4> QED  BY <3>2, <4>1, <4>2
      <3> QED  BY <3>1, <3>2
    <2> QED  BY <2>1, <2>2, <2>3
  <1>6. Range(t) \subseteq Range(s)
    <2> SUFFICES ASSUME NEW n \in 1 .. Len(s) - 1 PROVE t[n] \in Range(s)
      BY <1>5 DEF Range
    <2>1. n \in DOMAIN s /\ n + 1 \in DOMAIN s
      BY <1>1
    <2> QED  BY <1>5, <2>1 DEF Range
  <1>7. ASSUME NEW j \in DOMAIN s, j # i PROVE s[j] \in Range(t)
    <2>1. CASE j < i
      <3>1. j \in 1 .. Len(s) - 1 /\ t[j] = s[j]
        BY <1>1, <1>5, <2>1
      <3> QED  BY <1>5, <3>1 DEF Range
    <2>2. CASE ~(j < i)
      <3>1. j - 1 \in 1 .. Len(s) - 1 /\ ~(j - 1 < i) /\ (j - 1) + 1 = j
        BY <1>1, <1>7, <2>2
      <3>2. t[j - 1] = s[j]
        BY <1>5, <3>1
      <3> QED  BY <1>5, <3>1, <3>2 DEF Range
    <2> QED  BY <2>1, <2>2
  <1> QED  BY <1>5, <1>6, <1>7 DEF t

LEMMA JoinedMembers ==
  ASSUME NEW X, NEW s \in Seq(X), NEW t \in Seq(X)
  PROVE  s \o t \in Seq(X) /\ Range(s \o t) = Range(s) \cup Range(t)
  <1>1. /\ s \o t \in Seq(X) /\ Len(s \o t) = Len(s) + Len(t)
        /\ \A n \in 1 .. Len(s) + Len(t) :
              (s \o t)[n] = (IF n <= Len(s) THEN s[n] ELSE t[n - Len(s)])
    OBVIOUS
  <1>2. /\ DOMAIN s = 1 .. Len(s) /\ DOMAIN t = 1 .. Len(t)
        /\ DOMAIN (s \o t) = 1 .. Len(s) + Len(t)
        /\ Len(s) \in Nat /\ Len(t) \in Nat
    BY <1>1
  <1>3. ASSUME NEW n \in 1 .. Len(s) + Len(t) PROVE (s \o t)[n] \in Range(s) \cup Range(t)
    <2>1. n <= Len(s) => n \in DOMAIN s
      BY <1>2
    <2>2. ~(n <= Len(s)) => n - Len(s) \in DOMAIN t
      BY <1>2
    <2> QED  BY <1>1, <2>1, <2>2 DEF Range
  <1>4. ASSUME NEW n \in DOMAIN s PROVE s[n] \in Range(s \o t)
    <2>1. n \in DOMAIN (s \o t) /\ (s \o t)[n] = s[n]
      BY <1>1, <1>2
    <2> QED  BY <2>1 DEF Range
  <1>5. ASSUME NEW n \in DOMAIN t PROVE t[n] \in Range(s \o t)
    <2>1. n + Len(s) \in DOMAIN (s \o t) /\ (s \o t)[n + Len(s)] = t[n]
      BY <1>1, <1>2
    <2> QED  BY <2>1 DEF Range
  <1>6. Range(s \o t) \subseteq Range(s) \cup Range(t)
    BY <1>2, <1>3 DEF Range
  <1>7. Range(s) \subseteq Range(s \o t) /\ Range(t) \subseteq Range(s \o t)
    BY <1>4, <1>5 DEF Range
  <1> QED  BY <1>1, <1>6, <1>7

\* The front of a list.
LEMMA FirstOfHolds ==
  ASSUME NEW X, NEW s \in Seq(X), NEW n \in Nat
  PROVE  /\ FirstOf(n, s) \in Seq(X)
         /\ Range(FirstOf(n, s)) \subseteq Range(s)
         /\ Len(s) <= n => FirstOf(n, s) = s
         /\ ~(Len(s) <= n) => Len(FirstOf(n, s)) = n
         /\ n = 0 => Range(FirstOf(n, s)) = {}
  <1> DEFINE m == IF Len(s) < n THEN Len(s) ELSE n
             t == FirstOf(n, s)
  <1>0. DOMAIN s = 1 .. Len(s)
    OBVIOUS
  <1>1. /\ Len(s) \in Nat /\ m \in 0 .. Len(s)
        /\ Len(s) <= n => m = Len(s)
        /\ ~(Len(s) <= n) => m = n
    OBVIOUS
  <1>2. t = SubSeq(s, 1, m)
    BY DEF FirstOf
  <1> HIDE DEF m, t
  <1>3. t \in Seq(X) /\ Len(t) = m /\ \A i \in 1 .. m : t[i] = s[i]
    BY <1>1, <1>2
  <1>4. DOMAIN t = 1 .. m
    BY <1>1, <1>3
  <1>5. Range(t) \subseteq Range(s)
    <2>1. \A i \in 1 .. m : i \in 1 .. Len(s)
      BY <1>1
    <2> QED  BY <1>0, <1>3, <1>4, <2>1 DEF Range
  <1>6. Len(s) <= n => t = s
    BY <1>1, <1>3
  <1>7. n = 0 => Range(t) = {}
    <2>1. n = 0 => m = 0
      BY <1>1
    <2> QED  BY <1>4, <2>1 DEF Range
  <1> QED  BY <1>1, <1>3, <1>5, <1>6, <1>7 DEF t

\* Some number of a set is the least; what passes from each number to the next holds of
\* every number.
LEMMA Least ==
  ASSUME NEW S \in SUBSET Nat, S # {}
  PROVE  \E n \in S : \A m \in S : n <= m
  <1> DEFINE R == {ss \in Nat \X Nat : ss[1] < ss[2]}
  <1>1. IsWellFoundedOn(R, Nat)
    BY NatLessThanWellFounded DEF OpToRel
  <1>2. \E x \in S : \A y \in S : ~ (<<y, x>> \in R)
    <2> HIDE DEF R
    <2> QED  BY <1>1, WFMin
  <1>3. PICK x \in S : \A y \in S : ~ (<<y, x>> \in R)
    BY <1>2
  <1>4. ASSUME NEW y \in S PROVE x <= y
    <2>1. <<y, x>> \in Nat \X Nat /\ ~(<<y, x>> \in R)
      BY <1>3
    <2> QED  BY <2>1
  <1> QED  BY <1>4

LEMMA Induct ==
  ASSUME NEW S, 0 \in S, \A n \in Nat : n \in S => n + 1 \in S
  PROVE  \A n \in Nat : n \in S
  <1> SUFFICES ASSUME NEW k \in Nat, k \notin S PROVE FALSE
    OBVIOUS
  <1> DEFINE B == {n \in Nat : n \notin S}
  <1>1. B \in SUBSET Nat /\ B # {}
    OBVIOUS
  <1>2. PICK n \in B : \A m \in B : n <= m
    <2> HIDE DEF B
    <2> QED  BY <1>1, Least
  <1>3. n \in Nat /\ n \notin S /\ n # 0
    BY <1>2
  <1>4. n - 1 \in Nat /\ n - 1 \notin B
    BY <1>2, <1>3
  <1>5. (n - 1) + 1 \in S
    BY <1>4
  <1> QED  BY <1>3, <1>5

(***************************************************************************)
(* KnowledgeKept                                                           *)
(***************************************************************************)

\* How much there is of all metrics together.
Worth(e) == e.gbw + e.power + (IF e.margin THEN 1 ELSE 0)

\* An episode that dominates another is worth more, and what dominates it dominates that
\* other as well.
LEMMA DominatesHolds ==
  ASSUME NEW a \in Episode, NEW b \in Episode, NEW c \in Episode
  PROVE  /\ Worth(a.what) \in Nat
         /\ Dominates(a, b) => Worth(a.what) > Worth(b.what)
         /\ Dominates(a, b) /\ Dominates(b, c) => Dominates(a, c)
  <1> DEFINE m(e) == IF e.what.margin THEN 1 ELSE 0
  <1>1. \A e \in Episode : e.what.gbw \in Nat /\ e.what.power \in Nat /\ e.what.at \in Nat
    BY EpisodeStoreAssumption DEF Episode
  <1>2. \A e \in Episode : m(e) \in Nat /\ Vector(e.what) = <<e.what.gbw, m(e), e.what.power>>
    BY DEF Vector
  <1>3. \A e \in Episode : Worth(e.what) = e.what.gbw + e.what.power + m(e)
    BY DEF Worth
  <1> HIDE DEF m
  <1>4. ASSUME NEW d \in Episode, NEW e \in Episode
        PROVE  Dominates(d, e) <=>
                  /\ d.what.gbw >= e.what.gbw /\ m(d) >= m(e) /\ d.what.power >= e.what.power
                  /\ \/ d.what.gbw # e.what.gbw \/ m(d) # m(e) \/ d.what.power # e.what.power
    BY <1>2 DEF Dominates
  <1>5. Worth(a.what) \in Nat
    BY <1>1, <1>2, <1>3
  <1>6. Dominates(a, b) => Worth(a.what) > Worth(b.what)
    BY <1>1, <1>2, <1>3, <1>4
  <1>7. Dominates(a, b) /\ Dominates(b, c) => Dominates(a, c)
    BY <1>1, <1>2, <1>4
  <1> QED  BY <1>5, <1>6, <1>7

\* Of a list of episodes each is undominated, or dominated by one that is.
LEMMA Undominated ==
  ASSUME NEW eps \in Seq(Episode), NEW ep \in Range(eps)
  PROVE  \E k \in Range(eps) : /\ k = ep \/ Dominates(k, ep)
                               /\ ~\E other \in Range(eps) : Dominates(other, k)
  <1> DEFINE C == {k \in Range(eps) : k = ep \/ Dominates(k, ep)}
  <1>1. /\ Len(eps) \in Nat /\ DOMAIN eps = 1 .. Len(eps)
        /\ \A i \in 1 .. Len(eps) : eps[i] \in Episode
        /\ Range(eps) = {eps[i] : i \in 1 .. Len(eps)} /\ Range(eps) \subseteq Episode
    BY DEF Range
  <1> DEFINE Bounded(n, w) == \A i \in 1 .. Len(eps) : i <= n => Worth(eps[i].what) <= w
             S == {n \in Nat : \E w \in Nat : Bounded(n, w)}
  <1>2. \E w \in Nat : Bounded(Len(eps), w)
    <2>1. 0 \in S
      <3>1. Bounded(0, 0)
        OBVIOUS
      <3> QED  BY <3>1
    <2>2. ASSUME NEW n \in Nat, n \in S PROVE n + 1 \in S
      <3>1. PICK w \in Nat : Bounded(n, w)
        BY <2>2
      <3>2. CASE n + 1 \in 1 .. Len(eps)
        <4> DEFINE u == Worth(eps[n + 1].what)
        <4>1. u \in Nat
          BY <1>1, <3>2, DominatesHolds
        <4>2. \A i \in 1 .. Len(eps) : Worth(eps[i].what) \in Nat
          BY <1>1, DominatesHolds
        <4>3. ASSUME NEW i \in 1 .. Len(eps), i <= n + 1 PROVE Worth(eps[i].what) <= w + u
          <5>1. CASE i <= n
            <6>1. Worth(eps[i].what) <= w
              BY <3>1, <5>1
            <6> HIDE DEF u
            <6> QED  BY <4>1, <4>2, <6>1
          <5>2. CASE ~(i <= n)
            <6>1. i = n + 1
              BY <4>3, <5>2
            <6>2. Worth(eps[i].what) = u
              BY <6>1
            <6> HIDE DEF u
            <6> QED  BY <4>1, <6>2
          <5> QED  BY <5>1, <5>2
        <4> HIDE DEF u
        <4> QED  BY <4>1, <4>3
      <3>3. CASE n + 1 \notin 1 .. Len(eps)
        <4>1. Bounded(n + 1, w)
          BY <1>1, <3>1, <3>3
        <4> QED  BY <4>1
      <3> QED  BY <3>2, <3>3
    <2>3. \A n \in Nat : n \in S
      <3> HIDE DEF S
      <3> QED  BY <2>1, <2>2, Induct
    <2> QED  BY <1>1, <2>3
  <1> HIDE DEF Bounded, S
  <1> DEFINE W == {w \in Nat : \A k \in C : Worth(k.what) <= w}
  <1>3. W \in SUBSET Nat /\ W # {}
    <2>1. PICK w \in Nat : Bounded(Len(eps), w)
      BY <1>2
    <2>2. ASSUME NEW k \in C PROVE Worth(k.what) <= w
      <3>1. PICK i \in 1 .. Len(eps) : k = eps[i]
        BY <1>1
      <3> QED  BY <2>1, <3>1 DEF Bounded
    <2>3. w \in W
      BY <2>2
    <2> QED  BY <2>3
  <1>4. PICK w \in W : \A v \in W : w <= v
    <2> HIDE DEF W
    <2> QED  BY <1>3, Least
  <1>5. ep \in C /\ \A k \in C : k \in Episode /\ Worth(k.what) \in Nat
    BY <1>1, DominatesHolds
  <1>6. \E k \in C : Worth(k.what) = w
    <2> SUFFICES ASSUME \A k \in C : Worth(k.what) # w PROVE FALSE
      OBVIOUS
    <2> HIDE DEF C
    <2>1. \A k \in C : Worth(k.what) <= w - 1
      BY <1>4, <1>5
    <2>2. w - 1 \in Nat
      BY <1>4, <1>5, <2>1
    <2> QED  BY <1>4, <2>1, <2>2
  <1>7. PICK k \in C : Worth(k.what) = w
    BY <1>6
  <1>8. ASSUME NEW other \in Range(eps), Dominates(other, k) PROVE FALSE
    <2>1. other \in Episode /\ k \in Episode /\ ep \in Episode
      BY <1>1, <1>5
    <2>2. other \in C
      BY <1>8, <2>1, DominatesHolds
    <2>3. Worth(other.what) > Worth(k.what)
      BY <1>8, <2>1, DominatesHolds
    <2>4. Worth(other.what) <= w
      BY <1>4, <2>2
    <2> HIDE DEF C
    <2> QED  BY <1>4, <1>5, <1>7, <2>2, <2>3, <2>4
  <1> QED  BY <1>7, <1>8

LEMMA SimilarSymmetric ==
  ASSUME NEW a \in Episode, NEW b \in Episode, NEW range
  PROVE  Similar(a, b, range) <=> Similar(b, a, range)
  <1>1. a.what.at \in Nat /\ b.what.at \in Nat
    BY EpisodeStoreAssumption DEF Episode
  <1> DEFINE apart(x, y) == IF x < y THEN y - x ELSE x - y
  <1>2. apart(a.what.at, b.what.at) = apart(b.what.at, a.what.at)
    BY <1>1
  <1> QED  BY <1>2 DEF Similar

\* A list of episodes that stands for others near them: no feasible one is lost.
StandsFor(kept, ep, range) ==
    \E k \in Range(kept) : IsFeasible(k.what) /\ (k = ep \/ Similar(k, ep, range))

\* One more episode: what is feasible stays, and the new one is stood for.
LEMMA WithEpisodeHolds ==
  ASSUME NEW kept \in Seq(Episode), NEW ep \in Episode, NEW range
  PROVE  LET new == WithEpisode(kept, ep, range)
         IN  /\ new \in Seq(Episode) /\ Range(new) \subseteq Range(kept) \cup {ep}
             /\ \A k \in Range(kept) : IsFeasible(k.what) => k \in Range(new)
             /\ IsFeasible(ep.what) => StandsFor(new, ep, range)
  <1> DEFINE similar == {i \in DOMAIN kept : Similar(ep, kept[i], range)}
             first == Min(similar)
             new == WithEpisode(kept, ep, range)
  <1>1. ASSUME NEW s \in Seq(Episode)
        PROVE  Append(s, ep) \in Seq(Episode) /\ Range(Append(s, ep)) = Range(s) \cup {ep}
    <2>1. <<ep>> \in Seq(Episode) /\ Append(s, ep) = s \o <<ep>>
      OBVIOUS
    <2>2. Range(<<ep>>) = {ep}
      BY DEF Range
    <2> QED  BY <2>1, <2>2, JoinedMembers
  <1>2. Range(kept) = {kept[i] : i \in DOMAIN kept} /\ \A i \in DOMAIN kept : kept[i] \in Episode
    BY DEF Range
  <1>3. CASE similar = {}
    <2>1. new = Append(kept, ep)
      BY <1>3 DEF WithEpisode
    <2> QED  BY <1>1, <2>1 DEF StandsFor
  <1>4. CASE similar # {}
    <2>1. first \in similar
      <3>1. similar \in SUBSET Nat
        OBVIOUS
      <3>2. \E n \in similar : \A m \in similar : n <= m
        <4> HIDE DEF similar
        <4> QED  BY <1>4, <3>1, Least
      <3> QED  BY <3>2 DEF Min
    <2>2. first \in DOMAIN kept /\ kept[first] \in Range(kept) /\ kept[first] \in Episode
          /\ Similar(ep, kept[first], range)
      BY <1>2, <2>1
    <2>3. new = IF IsFeasible(ep.what) /\ ~IsFeasible(kept[first].what)
                THEN Append(RemoveAt(kept, first), ep) ELSE kept
      BY <1>4 DEF WithEpisode
    <2> HIDE DEF first, new, similar
    <2>4. CASE IsFeasible(ep.what) /\ ~IsFeasible(kept[first].what)
      <3> DEFINE rest == RemoveAt(kept, first)
      <3>1. /\ rest \in Seq(Episode) /\ Range(rest) \subseteq Range(kept)
            /\ \A j \in DOMAIN kept : j # first => kept[j] \in Range(rest)
        BY <2>2, RemoveAtHolds
      <3>2. new = Append(rest, ep)
        BY <2>3, <2>4
      <3> HIDE DEF rest
      <3>3. new \in Seq(Episode) /\ Range(new) = Range(rest) \cup {ep}
        BY <1>1, <3>1, <3>2
      <3>4. ASSUME NEW k \in Range(kept), IsFeasible(k.what) PROVE k \in Range(new)
        BY <1>2, <2>4, <3>1, <3>3, <3>4
      <3> QED  BY <2>4, <3>1, <3>3, <3>4 DEF StandsFor, new
    <2>5. CASE ~(IsFeasible(ep.what) /\ ~IsFeasible(kept[first].what))
      <3>1. new = kept
        BY <2>3, <2>5
      <3>2. Similar(kept[first], ep, range)
        BY <2>2, SimilarSymmetric
      <3>3. IsFeasible(ep.what) => StandsFor(new, ep, range)
        BY <2>2, <2>5, <3>1, <3>2 DEF StandsFor
      <3> QED  BY <3>1, <3>3 DEF new
    <2> QED  BY <2>4, <2>5
  <1> QED  BY <1>3, <1>4

\* The recursion of Deduplicated, episode by episode.
Deduplicates(kept, eps, range, m) ==
    /\ kept \in [0 .. m -> Seq(Episode)] /\ kept[0] = <<>>
    /\ \A n \in 1 .. m : kept[n] = WithEpisode(kept[n - 1], eps[n], range)

LEMMA DeduplicationExists ==
  ASSUME NEW eps \in Seq(Episode), NEW range
  PROVE  \E kept : Deduplicates(kept, eps, range, Len(eps))
  <1> DEFINE S == {m \in Nat : m <= Len(eps) => \E kept : Deduplicates(kept, eps, range, m)}
  <1>1. 0 \in S
    <2>1. Deduplicates([n \in 0 .. 0 |-> <<>>], eps, range, 0)
      BY DEF Deduplicates
    <2> QED  BY <2>1
  <1>2. ASSUME NEW m \in Nat, m \in S PROVE m + 1 \in S
    <2> SUFFICES ASSUME m + 1 <= Len(eps)
                 PROVE  \E kept : Deduplicates(kept, eps, range, m + 1)
      OBVIOUS
    <2>1. m <= Len(eps) /\ Len(eps) \in Nat
      OBVIOUS
    <2>2. PICK kept : Deduplicates(kept, eps, range, m)
      BY <1>2, <2>1
    <2> DEFINE more == [n \in 0 .. m + 1 |->
                          IF n = m + 1 THEN WithEpisode(kept[m], eps[m + 1], range)
                          ELSE kept[n]]
    <2>3. kept[m] \in Seq(Episode) /\ eps[m + 1] \in Episode
      BY <2>1, <2>2 DEF Deduplicates
    <2>4. WithEpisode(kept[m], eps[m + 1], range) \in Seq(Episode)
      BY <2>3, WithEpisodeHolds
    <2>5. more \in [0 .. m + 1 -> Seq(Episode)] /\ more[0] = <<>>
      BY <2>2, <2>4 DEF Deduplicates
    <2>6. ASSUME NEW n \in 1 .. m + 1
          PROVE  more[n] = WithEpisode(more[n - 1], eps[n], range)
      <3>1. more[n - 1] = kept[n - 1]
        OBVIOUS
      <3>2. CASE n = m + 1
        BY <3>1, <3>2
      <3>3. CASE n # m + 1
        <4>1. n \in 1 .. m /\ more[n] = kept[n]
          BY <3>3
        <4> QED  BY <2>2, <3>1, <4>1 DEF Deduplicates
      <3> QED  BY <3>2, <3>3
    <2> QED  BY <2>5, <2>6 DEF Deduplicates
  <1>3. \A m \in Nat : m \in S
    <2> HIDE DEF S
    <2> QED  BY <1>1, <1>2, Induct
  <1> QED  BY <1>3

\* Deduplication keeps episodes of the list only, and stands for every feasible one.
LEMMA DeduplicatedHolds ==
  ASSUME NEW eps \in Seq(Episode)
  PROVE  /\ Deduplicated(eps) \in Seq(Episode)
         /\ Range(Deduplicated(eps)) \subseteq Range(eps)
         /\ \A ep \in Range(eps) :
               IsFeasible(ep.what) => StandsFor(Deduplicated(eps), ep, ParamRange(eps))
  <1>1. CASE Len(eps) <= 1
    <2>1. Deduplicated(eps) = eps
      BY <1>1 DEF Deduplicated
    <2> QED  BY <2>1 DEF StandsFor
  <1>2. CASE ~(Len(eps) <= 1)
    <2> DEFINE range == ParamRange(eps)
               N == Len(eps)
               Eq(f) == f = [n \in 0 .. N |->
                              IF n = 0 THEN <<>> ELSE WithEpisode(f[n - 1], eps[n], range)]
               kept == CHOOSE f : Eq(f)
    <2>1. Deduplicated(eps) = kept[N]
      BY <1>2 DEF Deduplicated
    <2> HIDE DEF range
    <2>2. N \in Nat /\ \A n \in 1 .. N : eps[n] \in Episode
      OBVIOUS
    <2>3. PICK f : Deduplicates(f, eps, range, N)
      BY DeduplicationExists
    <2>4. Eq(f)
      <3> DEFINE g == [n \in 0 .. N |->
                         IF n = 0 THEN <<>> ELSE WithEpisode(f[n - 1], eps[n], range)]
      <3>1. f = [n \in 0 .. N |-> f[n]]
        BY <2>3 DEF Deduplicates
      <3>2. ASSUME NEW n \in 0 .. N
            PROVE  f[n] = (IF n = 0 THEN <<>> ELSE WithEpisode(f[n - 1], eps[n], range))
        <4>1. CASE n = 0
          BY <2>3, <4>1 DEF Deduplicates
        <4>2. CASE n # 0
          <5>1. n \in 1 .. N
            BY <2>2, <4>2
          <5> QED  BY <2>3, <4>2, <5>1 DEF Deduplicates
        <4> QED  BY <4>1, <4>2
      <3> QED  BY <3>1, <3>2
    <2>5. Eq(kept)
      <3> HIDE DEF Eq
      <3> QED  BY <2>4
    <2> HIDE DEF kept
    <2>6. kept[0] = <<>> /\ \A n \in 1 .. N : kept[n] = WithEpisode(kept[n - 1], eps[n], range)
      <3>1. \A n \in 0 .. N :
               kept[n] = (IF n = 0 THEN <<>> ELSE WithEpisode(kept[n - 1], eps[n], range))
        BY <2>5
      <3> HIDE DEF Eq
      <3>2. 0 \in 0 .. N /\ \A n \in 1 .. N : n \in 0 .. N /\ n # 0
        BY <2>2
      <3> QED  BY <3>1, <3>2
    <2> DEFINE Good(n) ==
                 /\ kept[n] \in Seq(Episode) /\ Range(kept[n]) \subseteq Range(eps)
                 /\ \A j \in 1 .. N : j <= n /\ IsFeasible(eps[j].what) =>
                                         StandsFor(kept[n], eps[j], range)
               S == {n \in Nat : n <= N => Good(n)}
    <2> HIDE DEF Eq
    <2>7. 0 \in S
      <3>1. Good(0)
        BY <2>2, <2>6 DEF Range
      <3> QED  BY <3>1
    <2>8. ASSUME NEW n \in Nat, n \in S PROVE n + 1 \in S
      <3> SUFFICES ASSUME n + 1 <= N PROVE Good(n + 1)
        BY <2>8
      <3>1. Good(n) /\ n + 1 \in 1 .. N /\ (n + 1) - 1 = n
        BY <2>2, <2>8
      <3> DEFINE e == eps[n + 1]
                 new == kept[n + 1]
      <3>2. new = WithEpisode(kept[n], e, range) /\ e \in Episode /\ e \in Range(eps)
        <4>1. DOMAIN eps = 1 .. N
          OBVIOUS
        <4> QED  BY <2>2, <2>6, <3>1, <4>1 DEF Range
      <3> HIDE DEF e, new
      <3>3. /\ new \in Seq(Episode) /\ Range(new) \subseteq Range(kept[n]) \cup {e}
            /\ \A k \in Range(kept[n]) : IsFeasible(k.what) => k \in Range(new)
            /\ IsFeasible(e.what) => StandsFor(new, e, range)
        BY <3>1, <3>2, WithEpisodeHolds
      <3>4. ASSUME NEW j \in 1 .. N, j <= n + 1, IsFeasible(eps[j].what)
            PROVE  StandsFor(new, eps[j], range)
        <4>1. CASE j = n + 1
          BY <3>3, <3>4, <4>1 DEF e
        <4>2. CASE j # n + 1
          <5>1. StandsFor(kept[n], eps[j], range)
            BY <2>2, <3>1, <3>4, <4>2
          <5> QED  BY <3>3, <5>1 DEF StandsFor
        <4> QED  BY <4>1, <4>2
      <3> QED  BY <3>1, <3>2, <3>3, <3>4 DEF new
    <2>9. \A n \in Nat : n \in S
      <3> HIDE DEF S
      <3> QED  BY <2>7, <2>8, Induct
    <2>10. Good(N)
      BY <2>2, <2>9
    <2>11. ASSUME NEW ep \in Range(eps), IsFeasible(ep.what)
           PROVE  StandsFor(kept[N], ep, range)
      <3>1. PICK j \in 1 .. N : ep = eps[j]
        BY DEF Range
      <3> QED  BY <2>2, <2>10, <2>11, <3>1
    <2> HIDE DEF N
    <2> QED  BY <2>1, <2>10, <2>11 DEF range
  <1> QED  BY <1>1, <1>2

\* What is feasible of a list, what is not, and what of it nothing dominates.
LEMMA FeasibleHolds ==
  ASSUME NEW eps \in Seq(Episode)
  PROVE  /\ Feasible(eps) \in Seq(Episode)
         /\ Range(Feasible(eps)) = {ep \in Range(eps) : IsFeasible(ep.what)}
         /\ ParetoFilter(eps) \in Seq(Episode)
         /\ Range(ParetoFilter(eps)) =
               {ep \in Range(eps) : ~\E other \in Range(eps) : Dominates(other, ep)}
  <1> DEFINE F == {i \in DOMAIN eps : IsFeasible(eps[i].what)}
             P == {i \in DOMAIN eps : ~\E other \in Range(eps) : Dominates(other, eps[i])}
  <1>1. Range(eps) = {eps[i] : i \in DOMAIN eps}
    BY DEF Range
  <1>2. F \in SUBSET DOMAIN eps /\ P \in SUBSET DOMAIN eps
    OBVIOUS
  <1>3. /\ {eps[i] : i \in F} = {ep \in Range(eps) : IsFeasible(ep.what)}
        /\ {eps[i] : i \in P} =
              {ep \in Range(eps) : ~\E other \in Range(eps) : Dominates(other, ep)}
    BY <1>1
  <1>4. Feasible(eps) = Chosen(eps, F) /\ ParetoFilter(eps) = Chosen(eps, P)
    BY DEF Feasible, ParetoFilter
  <1> HIDE DEF F, P
  <1> QED  BY <1>2, <1>3, <1>4, ChosenMembers

\* Whatever order the infeasible ones are in, they are a list.
LEMMA LeastViolatingIsList ==
  ASSUME NEW eps \in Seq(Episode)
  PROVE  \E X : LeastViolating(eps) \in Seq(X)
  <1> DEFINE I == {i \in DOMAIN eps : ~IsFeasible(eps[i].what)}
             bad == Infeasible(eps)
             lv == LeastViolating(eps)
  <1>1. bad \in Seq(Episode)
    <2>1. I \in SUBSET DOMAIN eps /\ bad = Chosen(eps, I)
      BY DEF Infeasible
    <2> HIDE DEF I, bad
    <2> QED  BY <2>1, ChosenMembers
  <1>2. \E f : lv = [n \in DOMAIN bad |-> f[n]]
    <2> DEFINE key == [i \in DOMAIN bad |-> Violations(bad[i].what)]
               place == [i \in DOMAIN bad |->
                           1 + Cardinality({j \in DOMAIN bad :
                                              \/ key[j] < key[i]
                                              \/ (key[j] = key[i] /\ j < i)})]
    <2>1. lv = SortedBy(bad, key)
      BY DEF LeastViolating
    <2> HIDE DEF key, bad, lv
    <2>2. SortedBy(bad, key) =
             [n \in DOMAIN bad |-> bad[CHOOSE i \in DOMAIN bad : place[i] = n]]
      BY DEF SortedBy
    <2> HIDE DEF place
    <2>3. lv = [n \in DOMAIN bad |-> lv[n]]
      BY <2>1, <2>2
    <2> QED  BY <2>3
  <1> HIDE DEF bad, lv
  <1>3. PICK f : lv = [n \in DOMAIN bad |-> f[n]]
    BY <1>2
  <1>4. DOMAIN bad = 1 .. Len(bad) /\ Len(bad) \in Nat
    BY <1>1
  <1>5. lv = [n \in 1 .. Len(bad) |-> f[n]]
    BY <1>3, <1>4
  <1> DEFINE X == {f[i] : i \in 1 .. Len(bad)}
  <1>6. lv \in [1 .. Len(bad) -> X]
    BY <1>5
  <1>7. Len(bad) \in Nat
    BY <1>4
  <1> HIDE DEF X
  <1>8. lv \in Seq(X)
    BY <1>6, <1>7, SeqDef
  <1> QED  BY <1>8 DEF lv

\* What nothing feasible dominates is still there after consolidating and forgetting.
LEMMA ConsolidationHolds ==
  ASSUME NEW eps \in Seq(Episode), NEW k \in Range(Deduplicated(eps)), IsFeasible(k.what)
  PROVE  \E top \in Range(Forgotten(Consolidated(eps))) :
            IsFeasible(top.what) /\ (top = k \/ Dominates(top, k))
  <1> DEFINE unique == Deduplicated(eps)
             good == Feasible(unique)
             pareto == IF Len(good) > 2 THEN ParetoFilter(good) ELSE good
             room == IF Len(pareto) > InfeasibleKept THEN Len(pareto) ELSE InfeasibleKept
             lv == LeastViolating(unique)
             all == Consolidated(eps)
  <1>1. all = pareto \o FirstOf(room, lv)
    BY DEF Consolidated
  <1>2. unique \in Seq(Episode)
    BY DeduplicatedHolds
  <1>3. PICK X : lv \in Seq(X)
    <2> HIDE DEF unique
    <2> QED  BY <1>2, LeastViolatingIsList
  <1>4. /\ good \in Seq(Episode)
        /\ Range(good) = {ep \in Range(unique) : IsFeasible(ep.what)}
    <2> HIDE DEF unique
    <2> QED  BY <1>2, FeasibleHolds
  <1>5. k \in Range(good)
    BY <1>4
  <1> HIDE DEF unique, good, lv, all
  <1>6. /\ ParetoFilter(good) \in Seq(Episode)
        /\ Range(ParetoFilter(good)) =
              {ep \in Range(good) : ~\E other \in Range(good) : Dominates(other, ep)}
    BY <1>4, FeasibleHolds
  <1>7. pareto \in Seq(Episode)
    BY <1>4, <1>6
  <1>8. \E top \in Range(pareto) : top \in Range(good) /\ (top = k \/ Dominates(top, k))
    <2>1. PICK top \in Range(good) : /\ top = k \/ Dominates(top, k)
                                     /\ ~\E other \in Range(good) : Dominates(other, top)
      BY <1>4, <1>5, Undominated
    <2>2. top \in Range(ParetoFilter(good))
      BY <1>6, <2>1
    <2> QED  BY <1>5, <2>1, <2>2
  <1>9. room \in Nat
    BY <1>7, EpisodeStoreAssumption
  <1> HIDE DEF pareto, room
  <1>10. PICK top \in Range(pareto) : top \in Range(good) /\ (top = k \/ Dominates(top, k))
    BY <1>8
  <1>11. IsFeasible(top.what)
    BY <1>4, <1>10
  <1>12. all \in Seq(Episode \cup X) /\ top \in Range(all)
    <2>1. FirstOf(room, lv) \in Seq(X)
      BY <1>3, <1>9, FirstOfHolds
    <2>2. \A Y, Z, W : Y \subseteq W => (Z \in Seq(Y) => Z \in Seq(W))
      OBVIOUS
    <2>3. pareto \in Seq(Episode \cup X) /\ FirstOf(room, lv) \in Seq(Episode \cup X)
      BY <1>7, <2>1, <2>2
    <2> QED  BY <1>1, <1>10, <2>3, JoinedMembers
  <1>13. top \in Range(Forgotten(all))
    <2> DEFINE I == {i \in DOMAIN all : IsFeasible(all[i].what) \/ Forgivable(all[i].what)}
    <2>1. I \in SUBSET DOMAIN all /\ Forgotten(all) = Chosen(all, I)
      BY DEF Forgotten
    <2>2. PICK i \in DOMAIN all : top = all[i]
      BY <1>12 DEF Range
    <2>3. i \in I
      BY <1>11, <2>2
    <2> HIDE DEF I
    <2>4. Range(Forgotten(all)) = {all[j] : j \in I}
      BY <1>12, <2>1, ChosenMembers
    <2> QED  BY <2>2, <2>3, <2>4
  <1> QED  BY <1>10, <1>11, <1>13 DEF all

\* No list of episodes, from whatever runs, has feasible knowledge that consolidating and
\* forgetting it would lose.
LEMMA FeasibleStays ==
  ASSUME NEW eps \in Seq(Episode)
  PROVE  FeasibleRepresented(eps)
  <1> DEFINE range == ParamRange(eps)
             kept == Range(Forgotten(Consolidated(eps)))
  <1>1. Range(Feasible(eps)) = {ep \in Range(eps) : IsFeasible(ep.what)}
    BY FeasibleHolds
  <1>2. ASSUME NEW ep \in Range(Feasible(eps))
        PROVE  \E near \in Range(Feasible(eps)), k \in kept :
                  /\ near = ep \/ Similar(near, ep, range)
                  /\ IsFeasible(k.what) /\ (k = near \/ Dominates(k, near))
    <2>1. StandsFor(Deduplicated(eps), ep, range)
      BY <1>1, <1>2, DeduplicatedHolds
    <2>2. PICK near \in Range(Deduplicated(eps)) :
             IsFeasible(near.what) /\ (near = ep \/ Similar(near, ep, range))
      BY <2>1 DEF StandsFor
    <2>3. near \in Range(Feasible(eps))
      BY <1>1, <2>2, DeduplicatedHolds
    <2>4. PICK k \in kept : IsFeasible(k.what) /\ (k = near \/ Dominates(k, near))
      BY <2>2, ConsolidationHolds
    <2> QED  BY <2>2, <2>3, <2>4
  <1> QED  BY <1>2 DEF FeasibleRepresented

LEMMA SuggestionsHold ==
  ASSUME NEW eps \in Seq(Episode), NEW n \in Nat
  PROVE  SuggestionsPreferFeasible(eps, n)
  <1> DEFINE F == Feasible(eps)
             good == FirstOf(n, F)
             lv == LeastViolating(eps)
             rest == FirstOf(n - Len(good), lv)
             all == SuggestWarmStart(eps, n)
  <1>1. F \in Seq(Episode) /\ \A ep \in Range(F) : IsFeasible(ep.what)
    BY FeasibleHolds
  <1>2. all = good \o rest
    BY DEF SuggestWarmStart
  <1>3. PICK X : lv \in Seq(X)
    BY LeastViolatingIsList
  <1> HIDE DEF F, lv, all
  <1>4. /\ good \in Seq(Episode) /\ Range(good) \subseteq Range(F)
        /\ Len(F) <= n => good = F
        /\ ~(Len(F) <= n) => Len(good) = n
    BY <1>1, FirstOfHolds
  <1> HIDE DEF good
  <1>5. n - Len(good) \in Nat
    BY <1>1, <1>4
  <1>6. rest \in Seq(X) /\ (n - Len(good) = 0 => Range(rest) = {})
    BY <1>3, <1>5, FirstOfHolds
  <1> HIDE DEF rest
  <1>7. Range(all) = Range(good) \cup Range(rest)
    <2>1. \A Y, Z, W : Y \subseteq W => (Z \in Seq(Y) => Z \in Seq(W))
      OBVIOUS
    <2>2. good \in Seq(Episode \cup X) /\ rest \in Seq(Episode \cup X)
      BY <1>4, <1>6, <2>1
    <2> QED  BY <1>2, <2>2, JoinedMembers
  <1>8. CASE Len(F) <= n
    BY <1>4, <1>7, <1>8 DEF SuggestionsPreferFeasible, F, all
  <1>9. CASE ~(Len(F) <= n)
    <2>1. Range(all) \subseteq Range(F)
      BY <1>4, <1>5, <1>6, <1>7, <1>9
    <2> QED  BY <1>1, <2>1 DEF SuggestionsPreferFeasible, all
  <1> QED  BY <1>8, <1>9

\* Whatever the runs leave in a store, consolidating and forgetting it loses no feasible
\* knowledge, and a start that violates constraints is suggested only after every
\* feasible one.
THEOREM KnowledgeCorrect == Spec => []KnowledgeKept
  <1>1. StoreInvariant => KnowledgeKept
    <2> SUFFICES ASSUME StoreInvariant, NEW p \in Process
                 PROVE  /\ FeasibleRepresented(loaded[p])
                        /\ SuggestionsPreferFeasible(loaded[p], 2)
      BY DEF KnowledgeKept
    <2>1. loaded[p] \in Seq(Episode)
      BY DEF StoreInvariant, StoreTypes
    <2> QED  BY <2>1, FeasibleStays, SuggestionsHold
  <1> QED  BY StoreInit, StoreStep, <1>1, PTL DEF Spec
=============================================================================
