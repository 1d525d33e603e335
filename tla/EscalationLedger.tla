-------------------------- MODULE EscalationLedger --------------------------
(***************************************************************************)
(* What the planner promises about real simulations, without candidates'   *)
(* records, phases or predictions: an account that is charged when a batch *)
(* is escalated to the simulator, and the escalations still unanswered.    *)
(* PlanningService implements it, whoever calls its operations.            *)
(***************************************************************************)
EXTENDS Integers, FiniteSets

CONSTANT SimulationBudget

VARIABLES
    charged,     \* simulations paid for
    outstanding  \* candidates whose simulation has not been answered

Init == charged = 0 /\ outstanding = {}

\* A batch is paid for in full before any of it is simulated; a candidate that
\* is already outstanding may be paid for again.
Escalate ==
    /\ \E cost \in 0..(SimulationBudget - charged) :
          /\ charged' = charged + cost
          /\ Cardinality(outstanding' \ outstanding) <= cost
    /\ outstanding \subseteq outstanding'
    /\ IsFiniteSet(outstanding')

\* An answer settles one escalation and gives nothing back.
Settle(c) ==
    /\ outstanding' = outstanding \ {c}
    /\ UNCHANGED charged

Next ==
    \/ Escalate
    \/ \E c \in outstanding : Settle(c)

Spec == Init /\ [][Next]_<<charged, outstanding>>
=============================================================================
