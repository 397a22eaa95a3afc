\* A batch whose second operation throws.
SPECIFICATION MemorySpec
CONSTANTS
    k1 = k1
    k2 = k2
    small = small
    large = large
    Keys = {k1, k2}
    Values = {small, large}
    None = None
    Size <- ValueSizes
    MaxSize = 3
    BadKeys <- SecondKey
    BadValues <- NoValues
    Prefixed <- SecondKey
    Batches <- SomeBatches
    Callers = {p1}
INVARIANT FailedBatchDidNothing
