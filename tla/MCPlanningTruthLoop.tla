------------------------ MODULE MCPlanningTruthLoop ------------------------
(* The truth loop over the candidates and predictions of MCPlanningService. *)
EXTENDS MCPlanningService, PlanningTruthLoop
=============================================================================
