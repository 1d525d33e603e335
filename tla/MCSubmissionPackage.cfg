SPECIFICATION PackageSpec
CONSTANTS
    Metrics <- MCMetrics
    Gbw <- MCGbw
    Preferred = {"gbw_hz", "power_w"}
    Benchmarks <- MCBenchmarks
    Primary = "ota2_v1"
    Reports <- MCReports
    Measured <- MCMeasured
    Histories <- MCHistories
    Remeasured <- MCRemeasured
    MaxBuilds = 2
    MaxEvents = 1
INVARIANTS
    ArchiveSound
    CopiesAgree
    ReadinessSound
    ClaimsMeasured
PROPERTIES
    BuildsEnd
CHECK_DEADLOCK FALSE
