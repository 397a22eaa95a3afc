\* An open breaker and health checks that pass.
SPECIFICATION StuckSpec
CONSTANTS
    NumAdapters = 1
    FailureThreshold = 2
    MinimumOperations = 2
    RateNum = 1
    RateDen = 2
    WriteQuorum = 1
    RequirePrimary = FALSE
    MaxCount = 3
    DeepCheck = FALSE
    OwnKeyRules <- NoAdapter
    MaxInFlight = 1
PROPERTY BreakerRecovers
