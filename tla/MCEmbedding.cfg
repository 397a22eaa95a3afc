SPECIFICATION MCSpec
CONSTANTS
    d1 = d1
    t1 = t1
    t2 = t2
    t3 = t3
    k1 = k1
    k2 = k2
    Texts = {t1, t2, t3}
    Keys = {k1, k2}
    KeyOf <- SomeKeys
    None = None
    Merged = Merged
    Callers = {c1, c2}
    Disposers = {d1, d2}
    Models = {m, n}
    InExtension = TRUE
    Bundled = {m}
    m = m
    n = n
    Model = m
    MaxRecords = 3
    MaxRetries = 2
    BatchSize = 2
    CacheResults = TRUE
    CacheLimit = 1
    EvictionShare = 2
    TensorBatches = FALSE
    Requests <- SomeRequests
    MaxCreations = 2
    MaxClosings = 2
    l1 = l1
    l2 = l2
    l3 = l3
    Listeners = {l1, l2, l3}
    Nobody = Nobody
    Priority <- Priorities
    Once <- TwoOnce
    Throwers <- Second
    Emissions = {e1, e2}
INVARIANTS EmbTypeOK ModelsShared BatchesAddUp DisposedStaysBlank NobodyForgotten ListenersOK UndisturbedReachesAll
PROPERTY OffIsFinal
CHECK_DEADLOCK FALSE
