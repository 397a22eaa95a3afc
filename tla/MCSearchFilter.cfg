SPECIFICATION FilterSpec
CONSTANTS
    Error = Error
    Nothing = Nothing
    Ids <- MCIds
    IdOrder <- MCIdOrder
    Contents <- MCContents
    Misfits <- MCMisfits
    Queries <- MCQueries
    Score <- MCScore
    Stamp <- MCStamp
    LengthFactor <- MCLengthFactor
    AgeFactor <- MCAgeFactor
    Options <- MCFilterOptions
    Inputs <- MCInputs
    Passes <- MCPasses
    DefaultTopK = 2
    MaxResults = 2
    DefaultThreshold = 10
    FullScore = 100
    EnableCaching = TRUE
    MaxCached = 1
    Searchers = {s1}
    Changers = {c1}
    NumAdapters = 2
    WriteQuorum = 1
    MaxOrphans = 1
INVARIANTS
    FilterRespected
