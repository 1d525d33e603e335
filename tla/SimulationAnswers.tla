------------------------- MODULE SimulationAnswers -------------------------
(***************************************************************************)
(* What the simulation layer promises the planner of one verification: the *)
(* lifecycle update of its feedback, and what its truth record says of the *)
(* constraints.  SimulationVerification is checked to keep the promise,    *)
(* PlanningTruthLoop relies on nothing else.                               *)
(***************************************************************************)

Fidelity == {"quick_truth", "focused_truth", "full_robustness_certification",
             "targeted_failure_analysis"}

\* An answer: the verdict is on the constraints of the truth record, "none" when the
\* task has no constraints.
Answer == [lifecycle: {"verified", "rejected", "needs_more_simulation",
                       "boundary_candidate"},
           verdict: {"pass", "fail", "none"}]

\* The answers a verification of fidelity f can give.  A simulation that failed, or
\* could not measure a constraint, asks for more whatever the record says.
Answers(f, constrained) ==
    {a \in Answer :
        /\ a.verdict = "none" <=> ~constrained
        /\ a.lifecycle = "verified" =>
              a.verdict # "fail" /\ f = "full_robustness_certification"
        /\ a.lifecycle \in {"rejected", "boundary_candidate"} => a.verdict = "fail"}
=============================================================================
