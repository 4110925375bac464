SPECIFICATION Spec
CONSTANTS
    STANDARD_VECTOR_SIZE = 2
    Threads = {t1, t2}
    DataFiles <- TwoPaths
    Key <- OwnKey
    Chunks <- SomeChunks
    DeleteManifests <- FewManifests
    MaxFailures = 1
INVARIANT DeletesKnown
