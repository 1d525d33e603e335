SPECIFICATION Spec
CONSTANTS
    Task <- MCTask
    FamilyOf <- MCFamilyOf
    TypeOf <- MCTypeOf
    SharedProfile <- MCSharedProfile
    Ingestions <- MCIngestions
    NoVerification = NoVerification
    NoCandidate = "none"
    MaxEpisodes = 4
    MaxPatterns = 5
    StaleAfter = 1
    ExpireAfter = 2
    MinSupport = 2
    TopK = 2
    IngestBound = 6
INVARIANTS
    TypeOK
    ForgettingSound
    RetrievalSound
PROPERTIES
    NoFreshnessWithoutSupport
CHECK_DEADLOCK FALSE
