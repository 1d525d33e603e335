---------------------------- MODULE EpisodeStore ----------------------------
(***************************************************************************)
(* The optimizer scripts and the JSON file they remember their episodes    *)
(* in: libs/memory/episode_store.py, written to by run_bo_optimization.py  *)
(* and run_cmaes_optimization.py, on their own or under                    *)
(* run_full_pipeline.py.  Each run is an operating-system process: it may  *)
(* be killed at any moment, and two may work on one store.  Points,        *)
(* metrics and scores are those of EpisodeConsolidation; a score is in     *)
(* thousandths.                                                            *)
(***************************************************************************)
EXTENDS EpisodeConsolidation

CONSTANTS
    Process,
    OptimizerOf(_),    \* "bo" or "cmaes"
    Outcome,           \* the evaluations that occur: [at, gbw, power, margin]
    Budget, InitialPoints,        \* of BayesianOptimizer
    PopulationSize, Generations,  \* of CMAESOptimizer
    RunBound(_)        \* bound on the runs a process stands for

ASSUME EpisodeStoreAssumption ==
    /\ \A p \in Process : OptimizerOf(p) \in {"bo", "cmaes"}
    /\ Budget \in Nat /\ InitialPoints \in Nat \ {0}
    /\ PopulationSize \in Nat \ {0} /\ Generations \in Nat \ {0}
    /\ InfeasibleKept \in Nat /\ \A p \in Process : RunBound(p) \in Nat
    /\ \A e \in Outcome : {e.at, e.gbw, e.power} \subseteq Nat

VARIABLES
    file,     \* the store on disk: absent, torn, or whole with its episodes
    pc,       \* where the run of a process is
    loaded,   \* _episodes of the EpisodeStore of a process
    trail,    \* the evaluations of its run
    best,     \* best_feasible_idx, zero for None
    report,   \* the results of its last run
    mixed,    \* another process wrote while this one had the file open
    runs,     \* runs started by a process
    recorded, \* history: every episode recorded, in order, until raced or killed
    raced,    \* history: a run was started beside another
    killed    \* history: a run was killed with the file open

vars == <<file, pc, loaded, trail, best, report, mixed, runs, recorded, raced, killed>>

Absent == [state |-> "absent", episodes |-> <<>>]
Torn == [state |-> "torn", episodes |-> <<>>]
Holding(eps) == [state |-> "whole", episodes |-> eps]
NoReport == [spec_met |-> FALSE, verified |-> FALSE, total |-> 0, feasible |-> 0]

Live == {"running", "saving", "verified", "unverified"}
Alive(p) == pc[p] \in Live
Writing(p) == pc[p] = "saving"

\* scalarize_objective.
Score(e) ==
    28 * (IF e.gbw < 25 THEN e.gbw ELSE 25) + 20 * (IF e.power < 15 THEN 15 - e.power ELSE 0)

\* Evaluations of a run: a budget below the initial design does not shorten it.
Evaluations(p) ==
    IF OptimizerOf(p) = "cmaes" THEN PopulationSize * Generations
    ELSE IF Budget < InitialPoints THEN InitialPoints ELSE Budget

(***************************************************************************)
(* The store                                                               *)
(***************************************************************************)

Init ==
    /\ file = Absent
    /\ pc = [p \in Process |-> "idle"]
    /\ loaded = [p \in Process |-> <<>>]
    /\ trail = [p \in Process |-> <<>>]
    /\ best = [p \in Process |-> 0]
    /\ report = [p \in Process |-> NoReport]
    /\ mixed = [p \in Process |-> FALSE]
    /\ runs = [p \in Process |-> 0]
    /\ recorded = <<>> /\ raced = FALSE /\ killed = FALSE

\* Mutants: what cannot be parsed counts as an empty store; every run starts afresh.
ReadableOrEmpty(f) == f.state \in {"absent", "torn", "whole"}
NothingOf(f) == <<>>

Readable(f) == f.state # "torn"
EpisodesOf(f) == f.episodes

\* A run starts, after another or after a crash: EpisodeStore.__init__ loads the file,
\* and json.load raises on one that is cut off.
Start(p) ==
    /\ ~Alive(p) /\ runs[p] < RunBound(p)
    /\ runs' = [runs EXCEPT ![p] = @ + 1]
    /\ raced' = (raced \/ \E q \in Process : Alive(q))
    /\ pc' = [pc EXCEPT ![p] = IF Readable(file) THEN "running" ELSE "failed"]
    /\ loaded' = [loaded EXCEPT ![p] = IF Readable(file) THEN EpisodesOf(file) ELSE <<>>]
    /\ trail' = [trail EXCEPT ![p] = <<>>]
    /\ best' = [best EXCEPT ![p] = 0]
    /\ recorded' = IF raced' THEN <<>> ELSE recorded
    /\ UNCHANGED <<file, report, mixed, killed>>

\* The id of the next episode, in the worst case that all fall in the same second.
EpisodeId(eps) == Len(eps)

\* record_episode up to the opening of the file, which cuts it off.
RecordEpisode(p, e) ==
    LET episode == [id |-> EpisodeId(loaded[p]), what |-> e]
    IN  /\ loaded' = [loaded EXCEPT ![p] = Append(@, episode)]
        /\ recorded' = IF raced \/ killed THEN <<>> ELSE Append(recorded, episode)
        /\ file' = Torn
        /\ mixed' = [q \in Process |->
                        IF q = p THEN \E r \in Process \ {p} : Writing(r)
                        ELSE mixed[q] \/ Writing(q)]
        /\ pc' = [pc EXCEPT ![p] = "saving"]

\* The rest of _save: json.dump and the closing of the file.  When other writers had
\* the file open as well the text of both may be in it.
Save(p) ==
    /\ Writing(p)
    /\ file' \in {Holding(loaded[p])} \cup IF mixed[p] THEN {Torn} ELSE {}
    /\ mixed' = [q \in Process |-> q # p /\ (mixed[q] \/ Writing(q))]
    /\ pc' = [pc EXCEPT ![p] = IF OptimizerOf(p) = "cmaes" THEN "verified" ELSE "running"]
    /\ UNCHANGED <<loaded, trail, best, report, runs, recorded, raced, killed>>

\* The process is killed, and its memory is gone; a store it had open stays as it is.
Kill(p) ==
    /\ Alive(p)
    /\ pc' = [pc EXCEPT ![p] = "killed"]
    /\ loaded' = [loaded EXCEPT ![p] = <<>>]
    /\ trail' = [trail EXCEPT ![p] = <<>>]
    /\ best' = [best EXCEPT ![p] = 0]
    /\ mixed' = [mixed EXCEPT ![p] = FALSE]
    /\ killed' = (killed \/ Writing(p))
    /\ recorded' = IF killed' THEN <<>> ELSE recorded
    /\ UNCHANGED <<file, report, runs, raced>>

(***************************************************************************)
(* The optimizers                                                          *)
(***************************************************************************)

\* Mutant: every feasible point is the best so far.
BestLatest(tr, b, e) == IF IsFeasible(e) THEN Len(tr) + 1 ELSE b

\* The best of a run after e: only a better feasible point replaces it.
BestAfter(tr, b, e) ==
    IF IsFeasible(e) /\ (b = 0 \/ Score(e) > Score(tr[b])) THEN Len(tr) + 1 ELSE b

NoMetrics == [at |-> -1]
\* run_ngspice at a place: metrics, or None after a timeout or on output without them.
Answers(at) == {e \in Outcome : e.at = at} \cup {NoMetrics}

\* One round of BayesianOptimizer.run, of the initial design or of the iterations after
\* it: ngspice is asked, and when it fails the prediction stands in for it.  The
\* episode is recorded whichever it was.
StepBO(p) ==
    /\ pc[p] = "running" /\ OptimizerOf(p) = "bo"
    /\ Len(trail[p]) < Evaluations(p)
    /\ \E predicted \in Outcome : \E answer \in Answers(predicted.at) :
          LET e == IF answer = NoMetrics THEN predicted ELSE answer
          IN  /\ trail' = [trail EXCEPT ![p] = Append(@, e)]
              /\ best' = [best EXCEPT ![p] = BestAfter(trail[p], @, e)]
              /\ RecordEpisode(p, e)
    /\ UNCHANGED <<report, runs, raced, killed>>

\* One solution in the loop of CMAESOptimizer.run, by prediction only.
StepCMAES(p) ==
    /\ pc[p] = "running" /\ OptimizerOf(p) = "cmaes"
    /\ Len(trail[p]) < Evaluations(p)
    /\ \E e \in Outcome :
          /\ trail' = [trail EXCEPT ![p] = Append(@, e)]
          /\ best' = [best EXCEPT ![p] = BestAfter(trail[p], @, e)]
    /\ UNCHANGED <<file, pc, loaded, report, mixed, runs, recorded, raced, killed>>

\* Mutant: it goes on until something feasible is found.
StoppedWhenFound(p) == best[p] # 0

\* The evolution strategy stops when it likes after a generation, at the latest after
\* the last.
Stopped(p) == trail[p] # <<>> /\ Len(trail[p]) % PopulationSize = 0

Unverified(p) ==
    /\ pc' = [pc EXCEPT ![p] = "unverified"]
    /\ UNCHANGED <<file, loaded, trail, best, report, mixed, runs, recorded, raced, killed>>

\* The best candidate of an evolution is measured and recorded; if ngspice fails, was
\* switched off, or there is no candidate, nothing is.
VerifyCMAES(p) ==
    /\ pc[p] = "running" /\ OptimizerOf(p) = "cmaes" /\ Stopped(p)
    /\ \/ Unverified(p)
       \/ /\ best[p] # 0
          /\ \E answer \in Answers(trail[p][best[p]].at) \ {NoMetrics} :
                RecordEpisode(p, answer)
          /\ UNCHANGED <<trail, best, report, runs, raced, killed>>

FeasibleCount(tr) == Cardinality({i \in DOMAIN tr : IsFeasible(tr[i])})

\* BayesianOptimizer._compile_results: a feasible point will do, measured or predicted.
ResultsBO(p) ==
    [spec_met |-> best[p] # 0, verified |-> FALSE, total |-> Len(trail[p]),
     feasible |-> FeasibleCount(trail[p])]

\* CMAESOptimizer._compile_results: what the verification measured decides, if it did.
ResultsCMAES(p) ==
    [spec_met |-> /\ best[p] # 0
                  /\ pc[p] = "verified" => IsFeasible(Last(loaded[p]).what),
     verified |-> pc[p] = "verified", total |-> Len(trail[p]),
     feasible |-> FeasibleCount(trail[p])]

\* The results are reported and the process ends; stage_results only reads the store.
Finish(p) ==
    /\ \/ pc[p] \in {"verified", "unverified"}
       \/ pc[p] = "running" /\ OptimizerOf(p) = "bo" /\ Len(trail[p]) = Evaluations(p)
    /\ report' = [report EXCEPT ![p] =
                    IF OptimizerOf(p) = "bo" THEN ResultsBO(p) ELSE ResultsCMAES(p)]
    /\ pc' = [pc EXCEPT ![p] = "done"]
    /\ UNCHANGED <<file, loaded, trail, best, mixed, runs, recorded, raced, killed>>

Step(p) == StepBO(p) \/ StepCMAES(p) \/ Save(p) \/ VerifyCMAES(p) \/ Finish(p)
Next == \E p \in Process : Start(p) \/ Step(p) \/ Kill(p)

\* A process that was started goes on by itself; nothing makes anyone start one.
Spec == Init /\ [][Next]_vars /\ \A p \in Process : WF_vars(Step(p))

(***************************************************************************)
(* What must hold                                                          *)
(***************************************************************************)

TypeOK ==
    /\ file.state \in {"absent", "torn", "whole"}
    /\ \A p \in Process :
          /\ pc[p] \in Live \cup {"idle", "done", "failed", "killed"}
          /\ best[p] \in 0..Len(trail[p]) /\ Len(trail[p]) <= Evaluations(p)
          /\ runs[p] \in 0..RunBound(p)
          /\ mixed[p] => Writing(p)
          /\ \A ep \in Range(loaded[p]) : ep.id \in Nat /\ ep.what \in Outcome

\* Runs that follow each other lose nothing: unless two ran side by side or one was
\* killed in the middle of a save, the file holds every episode ever recorded, in the
\* order they were.
SerialRunsKeepAll ==
    ~raced /\ ~killed /\ (\A p \in Process : ~Writing(p)) =>
        file.state # "torn" /\ file.episodes = recorded

\* No two episodes of one store have the same id, even when runs overwrite each other.
IdsUnique ==
    \A p \in Process : IsInjective([i \in DOMAIN loaded[p] |-> loaded[p][i].id])

\* What processes make of one file when they follow each other, overlap or die.
StoreSound == TypeOK /\ SerialRunsKeepAll /\ IdsUnique

\* A report says that the specification is met only on account of a feasible point, and
\* except for an evolution that ngspice gave no answer to, of one that is among the
\* episodes the run leaves in the store.
ReportsEarned ==
    \A p \in Process : pc[p] = "done" /\ report[p].spec_met =>
        /\ report[p].feasible > 0
        /\ OptimizerOf(p) = "bo" \/ report[p].verified =>
              \E ep \in Range(loaded[p]) : IsFeasible(ep.what)

\* The best design of a report is feasible and scores no less than any other feasible
\* point of the run.
BestIsBest ==
    \A p \in Process :
        /\ best[p] = 0 <=> FeasibleCount(trail[p]) = 0
        /\ \A i \in DOMAIN trail[p] : IsFeasible(trail[p][i]) =>
              Score(trail[p][best[p]]) >= Score(trail[p][i])

\* What a run reports is what it found.
ReportsSound == ReportsEarned /\ BestIsBest

\* Consolidation loses no feasible knowledge of the store a run leaves, and mining does
\* not prefer an infeasible start to it.
KnowledgeKept ==
    \A p \in Process :
        pc[p] = "done" /\ loaded[p] # <<>> =>
            /\ FeasibleRepresented(loaded[p])
            /\ SuggestionsPreferFeasible(loaded[p], 2)

\* A torn store is only repaired by a process that still has its episodes in memory:
\* once there is none, no run gets past loading it.
Abandoned == file = Torn /\ \A p \in Process : ~Alive(p)
TornForGood == [][Abandoned => Abandoned']_vars

\* A run that is started ends, with a report or without, whatever ngspice does.
RunsEnd == \A p \in Process : Alive(p) ~> ~Alive(p)
=============================================================================
