SPECIFICATION Spec
CONSTANTS
    CircuitFamilies <- MCFamilies
    Metrics = {"pm", "gbw"}
    FeatureKeys = {"w", "l"}
    Runs = {"r1", "r2"}
    Candidates = {"c1", "c2", "c3"}
    Digest <- MCDigest
    MinimumEvalRecords = 1
    KNeighbors = 2
    ConfigTargets = {}
    CircuitFamily = "unknown"
    TemplateChoices <- MCTemplates
    TopologyMode = "template_family"
    Cost = "cheap"
    FrozenVariables = {"l"}
    NormalizedValue <- MCNormalized
    Proxy <- MCProxy
    StabilityMetric = "pm"
    Threshold = 500
    Requests <- MCRequests
    DesignActions <- MCActions
    Rollouts <- MCRollouts
    TruthRecords <- MCTruths
    Experiments <- MCExperiments
    Caps = {0, 1}
    MaxStates = 3
    MaxRollouts = 2
    MaxCalibrations = 4
INVARIANTS
    WorldTypeOK
    LearningSound
    RolloutsSound
    PredictionsHonest
CONSTRAINT Bounded
CHECK_DEADLOCK FALSE
