\* Deep checks of an adapter that validates keys.
SPECIFICATION DeepSpec
CONSTANTS
    NumAdapters = 1
    FailureThreshold = 2
    MinimumOperations = 2
    RateNum = 1
    RateDen = 2
    WriteQuorum = 1
    RequirePrimary = FALSE
    MaxCount = 3
    DeepCheck = TRUE
    OwnKeyRules <- NoAdapter
    MaxInFlight = 1
INVARIANT UnhealthyForAReason
