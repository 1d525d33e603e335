SPECIFICATION LoopSpec
CONSTANTS
    NoCandidate = NoCandidate
    NoFidelity = NoFidelity
    Candidate <- MCCandidate
    Seeds <- MCTwoSeeds
    Child <- MCChild
    Predict <- MCPredictTrusting
    Bundles = {1, 2}
    Branching = 2
    Horizon = 1
    MinSimulationValue = 65
    BatchSize = 1
    MaxBatchSize = 2
    FocusedTruthBatchLimit = 1
    ProxyBudget = 20
    RolloutBudget = 4
    SimulationBudget = 3
    CalibrationBudget = 1
    MaxIterations = 9
    StagnationPatience = 3
    InitialPhase = "performance_refinement"
    CallBound = 100
    MaxSteps = 3
    FirstFidelity = NoFidelity
    Constrained = TRUE
PROPERTY MismatchRecovers
CHECK_DEADLOCK FALSE
