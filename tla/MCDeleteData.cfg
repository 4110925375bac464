SPECIFICATION FairSpec
CONSTANTS
    STANDARD_VECTOR_SIZE = 2
    Threads = {t1, t2}
    DataFiles <- TwoPaths
    Key <- OwnKey
    Chunks <- SomeChunks
    DeleteManifests <- SmallManifests
    MaxFailures = 1
INVARIANTS
    TypeOK
    ResultIsExact
    OnlyDeletesDropped
PROPERTIES
    StableDeletes
    ExecutionEnds
