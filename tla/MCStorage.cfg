\* Successive writes with retries, overlapping calls with aborts, two of three adapters.
SPECIFICATION MCSpec
CONSTANTS
    NumAdapters = 3
    FailureThreshold = 1
    MinimumOperations = 1
    RateNum = 1
    RateDen = 2
    WriteQuorum = 2
    RequirePrimary = FALSE
    MaxCount = 1
    Calls = {1, 2}
    Kinds <- AllKinds
    Null = Null
    MaxAttempts = 2
    Abortable = {}
    Flaky = {3}
    MaxConcurrent = 1
INVARIANTS ReadsWereWritten SuccessMeansQuorum ReplicasAgree
PROPERTY LateWritesAreOrphans
PROPERTY CallsEnd
