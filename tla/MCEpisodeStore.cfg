SPECIFICATION Spec
CONSTANTS
    Process = {"b", "c"}
    OptimizerOf <- MCOptimizerOf
    Outcome <- MCOutcome
    InfeasibleKept = 1
    Budget = 2
    InitialPoints = 1
    PopulationSize = 1
    Generations = 1
    RunBound <- MCRunBound
INVARIANTS
    StoreSound
    ReportsSound
    KnowledgeKept
PROPERTIES
    TornForGood
    RunsEnd
CHECK_DEADLOCK FALSE
