SPECIFICATION Spec
CONSTANTS
    Circuit = {"two_stage_ota", "comparator"}
    Plan <- MCPlan
    Contract <- MCContract
    Source <- MCSource
    MetricOf <- MCMetricOf
    NoExtractor = "none"
    Constraints <- MCConstraints
INVARIANTS
    VerdictsSound
    StrongTruthEarned
    AnswerPromised
CHECK_DEADLOCK FALSE
