SPECIFICATION LoopSpec
CONSTANTS
    NoCandidate = NoCandidate
    NoFidelity = NoFidelity
    Candidate <- MCCandidate
    Seeds <- MCSeeds
    Child <- MCChild
    Predict <- MCPredict
    Bundles = {1, 2}
    Branching = 2
    Horizon = 1
    MinSimulationValue = 65
    BatchSize = 1
    MaxBatchSize = 2
    FocusedTruthBatchLimit = 1
    ProxyBudget = 20
    RolloutBudget = 4
    SimulationBudget = 4
    CalibrationBudget = 1
    MaxIterations = 13
    StagnationPatience = 3
    InitialPhase = "feasibility_bootstrapping"
    CallBound = 100
    MaxSteps = 4
    FirstFidelity = "full_robustness_certification"
    Constrained = TRUE
INVARIANTS
    BooksClose
    ComparisonHonest
    StopsByItself
    VerdictsEarned
PROPERTIES
    Ends
CHECK_DEADLOCK FALSE
