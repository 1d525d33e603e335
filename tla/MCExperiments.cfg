SPECIFICATION ExperimentSpec
CONSTANTS
    NoCandidate = "none"
    NoMode = "no mode"
    NoStep <- MCNoStep
    Candidate <- MCCandidate
    Seeds <- MCSeeds
    Samples <- MCSamples
    Child <- MCChild
    Predict <- MCPredict
    Bundles <- MCBundles
    Versions <- MCVersions
    FirstVersion = "v1"
    Suites <- MCSuites
    MaxSteps = 2
    TruthLevel = "weak"
    Branching = 2
    Horizon = 1
    MinSimulationValue = 65
    BatchSize = 2
    MaxBatchSize = 2
    FocusedTruthBatchLimit = 1
    ProxyBudget = 8
    RolloutBudget = 4
    SimulationBudget = 5
    CalibrationBudget = 2
    MaxIterations = 8
    StagnationPatience = 3
    InitialPhase = "performance_refinement"
    CallBound = 0
INVARIANTS
    AccountsSound
    ClaimsEarned
PROPERTIES
    SuppressedSteps
    RunsEnd
CHECK_DEADLOCK FALSE
