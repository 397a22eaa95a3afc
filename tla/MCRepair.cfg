\* Overlapping runs with random eviction, and runs that do not overlap.
SPECIFICATION MCSpec
CONSTANTS
    NumAdapters = 2
    FailureThreshold = 1
    MinimumOperations = 1
    RateNum = 1
    RateDen = 1
    WriteQuorum = 1
    RequirePrimary = FALSE
    MaxCount = 1
    Ops = {o1, o2}
    Missed <- MissedByBoth
    None = None
    Runs = {1, 2}
    MaxQueueSize = 1
    Eviction = "random"
    BatchSize = 1
    MaxAttempts = 1
    MaxAge = 2
    Interval = 2
    Unfit <- NothingUnfit
INVARIANTS NothingLost AttemptsBounded
PROPERTY SpacedAlone
PROPERTY EverythingLeaves
