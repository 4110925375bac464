SPECIFICATION FairSpec
CONSTANTS
    STANDARD_VECTOR_SIZE = 2
    Tables <- SmallTables
    Lookahead = 1
    MaxManifests = 2
    MaxEntries = 3
INVARIANT NoMoreMeansAll
PROPERTIES
    CallsReturn
    ImplementsLazyFileList
