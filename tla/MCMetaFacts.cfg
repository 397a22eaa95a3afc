\* A package of an AtomicMemory provider whose filter is on.
SPECIFICATION MCSpec
CONSTANTS
    None = None
    Garbled = Garbled
    Quotes404 = Quotes404
    Families <- ContentFamilies
    Setups <- CallSetups
    Inputs <- CallInputs
    Readers = {r1}
    Writers = {w1}
    MaxRows = 3
    MaxIngests = 2
    MaxLate = 1
    Absent = Absent
    Names <- ClientNames
    Default = "atomicmemory"
    Registered = {"atomicmemory", "custom"}
    Async = {"atomicmemory", "custom"}
    Initializers = {i1, i2}
    Clients = {c1, c2}
    Pipelines <- ClientPipelines
    Packagers = {"atomicmemory"}
    Items <- CoreItems
    Kind <- CoreKind
    Owner <- CoreOwner
    Site <- CoreSite
    Unreported = {"l2"}
    Faded = {"m1", "m2"}
    Clustered = {"m1", "m3"}
    Deferred = {"m1", "m3"}
    Fields <- Knobs
    Shown = {"maxSearchResults"}
    Admins = {"a1", "a2", "b1", "b2"}
    AdminAsks <- CoreAsks
    MaxAdrift = 1
    Unset = Unset
    Artifacts = {"i1", "i2"}
    Docs <- ArtifactDocs
    Uploaders = {"u1", "u2"}
    Uses <- ArtifactUses
    Backends <- ArtifactBackends
INVARIANT MetaFactsNeverReachCaller
CHECK_DEADLOCK FALSE
