SPECIFICATION ExperimentSpec
CONSTANTS
    NoCandidate = "none"
    NoMode = "no mode"
    NoStep <- MCNoStep
    Candidate <- MCCandidate
    Seeds <- MCSeeds
    Samples <- MCSamples
    Child <- MCChild
    Predict <- MCPredict
    Bundles <- MCBundles
    Versions <- MCVersions
    FirstVersion = "v1"
    Suites <- MCPair
    MaxSteps = 5
    TruthLevel = "weak"
    Branching = 1
    Horizon = 1
    MinSimulationValue = 65
    BatchSize = 1
    MaxBatchSize = 1
    FocusedTruthBatchLimit = 1
    ProxyBudget = 8
    RolloutBudget = 6
    SimulationBudget = 6
    CalibrationBudget = 2
    MaxIterations = 20
    StagnationPatience = 6
    InitialPhase = "performance_refinement"
    CallBound = 0
INVARIANT
    ReductionValid
CHECK_DEADLOCK FALSE
