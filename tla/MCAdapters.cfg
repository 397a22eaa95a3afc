\* Adapters, seen from their health records or from within; the intervals and the timeouts are fair.
SPECIFICATION AdaptersSpec
CONSTANTS
    NumAdapters = 2
    FailureThreshold = 2
    MinimumOperations = 2
    RateNum = 1
    RateDen = 2
    WriteQuorum = 1
    RequirePrimary = TRUE
    MaxCount = 4
    DeepCheck = FALSE
    OwnKeyRules <- NoAdapter
    MaxInFlight = 2
    k1 = k1
    k2 = k2
    small = small
    large = large
    Keys = {k1, k2}
    Values = {small, large}
    None = None
    Size <- ValueSizes
    MaxSize = 3
    BadKeys <- NoKeys
    BadValues <- NoValues
    Prefixed <- SecondKey
    Batches <- SomeBatches
    Callers = {p1, p2}
INVARIANTS RecordsOK WriteDecisionSound
INVARIANTS QuotaKept ClosedHoldsNothing
PROPERTY OnlyStragglersClose
PROPERTY AdapterHeals
PROPERTIES ImplementsStore ExpiredGoes
