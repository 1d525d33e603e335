SPECIFICATION Spec
CONSTANTS
    NoCandidate = NoCandidate
    Candidate <- MCCandidate
    Seeds <- MCSeeds
    Child <- MCChild
    Predict <- MCPredict
    Bundles = {1, 2}
    Branching = 2
    Horizon = 1
    MinSimulationValue = 65
    BatchSize = 2
    MaxBatchSize = 2
    FocusedTruthBatchLimit = 1
    ProxyBudget = 4
    RolloutBudget = 3
    SimulationBudget = 2
    CalibrationBudget = 1
    MaxIterations = 5
    StagnationPatience = 2
    InitialPhase = "performance_refinement"
    CallBound = 5
INVARIANTS
    TypeOK
    SpendingSound
    QueueSound
    ViewsFresh
PROPERTIES
    PhasesSound
    LedgerKept
CHECK_DEADLOCK FALSE
