SPECIFICATION StudySpec
CONSTANTS
    Task <- MCTask
    FamilyOf <- MCFamilyOf
    TypeOf <- MCTypeOf
    SharedProfile <- MCSharedProfile
    Ingestions <- StudyIngestions
    NoVerification = NoVerification
    NoCandidate = "none"
    MaxEpisodes = 3
    MaxPatterns = 4
    StaleAfter = 1
    ExpireAfter = 2
    MinSupport = 2
    TopK = 5
    IngestBound = 10
    Episodes = 2
    SourceEpisodes = 1
    MaxSteps = 2
    Responses <- MCResponses
INVARIANTS
    AblationFair
    EmptyVerdicts
CHECK_DEADLOCK FALSE
