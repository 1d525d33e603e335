------------------------- MODULE PlanningTruthLoop -------------------------
(***************************************************************************)
(* The closed loop of apps/orchestrator/job_runner.py: a driver of         *)
(* PlanningService that lets the simulator answer for every candidate the  *)
(* planner selects, and the answers calibrate the world model.  Both loops *)
(* are modelled: run_planning_truth_loop, and run_full_system_acceptance,  *)
(* which overrides the fidelity of its first simulation.                   *)
(*                                                                         *)
(* What one simulation answers is the promise SimulationAnswers states.    *)
(***************************************************************************)
EXTENDS PlanningService, SimulationAnswers

CONSTANTS
    MaxSteps,        \* max_steps
    FirstFidelity,   \* default_fidelity of the acceptance loop, NoFidelity otherwise
    NoFidelity,
    Constrained      \* whether the task has constraints

ASSUME LoopAssumption ==
    /\ MaxSteps \in Nat \ {0}
    /\ FirstFidelity \in Fidelity \cup {NoFidelity} /\ NoFidelity \notin Fidelity
    /\ Constrained \in BOOLEAN

VARIABLES
    pc,          \* what the loop does next
    step,        \* step_index
    queue,       \* selected candidates still to simulate -> requested fidelity
    executed,    \* len(simulation_executions)
    baseline,    \* baseline_call_counter
    answers,     \* verification_by_candidate: candidate -> its last answer
    mismatched,  \* trust violations seen since the last change of phase was decided
    truthLevel   \* truth the model binding of this machine gives: a configured one is
                 \* strong, the builtin one demonstrates the flow

loopVars == <<pc, step, queue, executed, baseline, answers, mismatched, truthLevel>>
allVars == <<vars, loopVars>>

LoopInit ==
    /\ Init
    /\ pc = "propose" /\ step = 0
    /\ queue = <<>> /\ answers = <<>>
    /\ executed = 0 /\ baseline = 0
    /\ mismatched = {}
    /\ truthLevel \in {"strong", "demonstrator"}

Propose ==
    /\ pc = "propose" /\ pc' = "evaluate"
    /\ ProposeCandidates
    /\ UNCHANGED <<step, queue, executed, baseline, answers, mismatched, truthLevel>>

\* _baseline_candidates: what a baseline that simulates everything would simulate.
BaselineCandidates(p) ==
    {c \in HasStatus(p, {"frontier", "best_feasible", "best_infeasible"}) :
        Believed(p, c).tier # "hard_block"}

\* Mutant: the counter is set, not added to.
CountedAnew(p) == Cardinality(BaselineCandidates(p))

Counted(p) == baseline + Cardinality(BaselineCandidates(p))

Evaluate ==
    /\ pc = "evaluate" /\ pc' = "select"
    /\ EvaluateCandidates
    /\ baseline' = Counted(pool')
    /\ UNCHANGED <<step, queue, executed, answers, mismatched, truthLevel>>

Select ==
    /\ pc = "select"
    /\ \E batch \in SimulationBatches :
         /\ SelectForSimulation(batch)
         /\ queue' \in RequestedFidelities(batch)
         /\ pc' = IF batch = {} THEN "advance" ELSE "simulate"
    /\ UNCHANGED <<step, executed, baseline, answers, mismatched, truthLevel>>

ExecutedFidelity(c) ==
    IF step = 0 /\ executed = 0 /\ FirstFidelity # NoFidelity
    THEN FirstFidelity ELSE queue[c]

\* verify_candidate answers a: the truth record and the feedback are ingested, and
\* the world model is calibrated, before the next candidate is simulated.
Ingest(c, a) ==
    LET truth == [verdict |-> a.verdict, level |-> truthLevel]
    IN  /\ IngestSimulationFeedback(c, truth, a.lifecycle, TRUE)
        /\ answers' = Upsert(answers, [d \in {c} |->
               [lifecycle |-> a.lifecycle, verdict |-> a.verdict,
                fidelity |-> ExecutedFidelity(c)]])
        /\ mismatched' = IF Mismatch(c, truth) THEN mismatched \cup {c} ELSE mismatched

\* Mutant: a simulation has to be paid for again when its turn comes.
TurnMetered(c) == c \in DOMAIN queue /\ RemainingSimulations > 0

Turn(c) == c \in DOMAIN queue

\* One round of the loop over the selected candidates.
Simulate(c) ==
    /\ pc = "simulate"
    /\ Turn(c)
    /\ \E a \in Answers(ExecutedFidelity(c), Constrained) : Ingest(c, a)
    /\ queue' = [d \in DOMAIN queue \ {c} |-> queue[d]]
    /\ executed' = executed + 1
    /\ pc' = IF DOMAIN queue' = {} THEN "advance" ELSE "simulate"
    /\ UNCHANGED <<step, baseline, truthLevel>>

\* A bundle that does not compile makes verify_candidate raise, and nothing in the
\* loop catches it.
VerificationRaises ==
    /\ pc = "simulate" /\ pc' = "failed"
    /\ UNCHANGED <<vars, step, queue, executed, baseline, answers, mismatched, truthLevel>>

\* advance_phase and should_terminate close a step.
Advance ==
    /\ pc = "advance"
    /\ AdvancePhase
    /\ step' = step + 1
    /\ mismatched' = {}
    /\ pc' = IF ShouldTerminate' \/ step' = MaxSteps THEN "finished" ELSE "propose"
    /\ UNCHANGED <<queue, executed, baseline, answers, truthLevel>>

LoopNext ==
    \/ Propose
    \/ Evaluate
    \/ Select
    \/ \E c \in DOMAIN queue : Simulate(c)
    \/ VerificationRaises
    \/ Advance

\* The loop is one sequential program, and every simulation has a timeout; that a
\* verification raises is never relied on to end it.
LoopSpec == LoopInit /\ [][LoopNext]_allVars
                     /\ WF_allVars(LoopNext /\ ~VerificationRaises)

(***************************************************************************)
(* What must hold of the loop                                              *)
(***************************************************************************)

\* The planner's books and the loop's agree at every moment: what was charged was
\* simulated or waits for its turn, and what is pending is what waits.  A step never
\* begins with an answer outstanding.
BooksClose ==
    /\ budget.simulations = executed + Cardinality(DOMAIN queue)
    /\ pendingRefs = DOMAIN queue
    /\ pc # "simulate" /\ pc # "failed" => DOMAIN queue = {}

\* The selective loop never simulates more than the full-simulation baseline it is
\* compared with: simulations_saved is never negative before it is clipped at zero.
ComparisonHonest == executed + Cardinality(DOMAIN queue) <= baseline

\* The lifecycle the pool shows is what the simulator said last of that candidate.
\* Only a full certification under trusted truth makes a candidate verified, and
\* only a failing constraint makes one rejected.
VerdictsEarned ==
    \A c \in DOMAIN pool :
        /\ pool[c].status = "verified" =>
              /\ c \in DOMAIN answers
              /\ answers[c].lifecycle = "verified" /\ answers[c].verdict # "fail"
              /\ answers[c].fidelity = "full_robustness_certification"
              /\ truthLevel # "demonstrator"
        /\ pool[c].status = "rejected" =>
              c \in DOMAIN answers /\ answers[c].verdict = "fail"
        /\ pool[c].status = "best_feasible" =>
              /\ c \in DOMAIN answers
              /\ \/ answers[c].lifecycle = "boundary_candidate"
                 \/ answers[c].lifecycle = "verified" /\ truthLevel = "demonstrator"

\* max_iterations counts traces, and a step leaves at least four: the planner stops
\* the loop by itself after a quarter of them, whatever max_steps allows.
StopsByItself == pc = "propose" => 4 * step + 1 < MaxIterations \/ step = 0

\* Every run ends: no selected candidate waits for an answer for ever.
Ends == <>(pc \in {"finished", "failed"})

\* Why the books close: the search state is one any caller could have made, and what
\* the baseline has just counted is still all there is to select from.
LoopInvariant ==
    /\ EscalationInvariant
    /\ executed \in Nat /\ baseline \in Nat
    /\ truthLevel \in {"strong", "demonstrator"}
    /\ BooksClose
    /\ ComparisonHonest
    /\ pc = "select" => executed + Cardinality(BaselineCandidates(pool)) <= baseline

\* Why the loop stops by itself: the traces count the operations of the steps.
TraceInvariant ==
    /\ step \in Nat
    /\ pc = "propose" => /\ traces >= 4 * step + 1
                         /\ traces < MaxIterations \/ step = 0
    /\ pc = "evaluate" => traces >= 4 * step + 2
    /\ pc = "select" => traces >= 4 * step + 3
    /\ pc \in {"simulate", "advance"} => traces >= 4 * step + 4

(***************************************************************************)
(* What the repository says and the code does not keep                     *)
(***************************************************************************)

\* "world_model_trust_degrades": a mismatch in a step of performance refinement leads
\* to calibration recovery.
MismatchRecovers ==
    [][pc = "advance" /\ phase = "performance_refinement" /\ mismatched # {} =>
          phase' = "calibration_recovery"]_allVars
=============================================================================
