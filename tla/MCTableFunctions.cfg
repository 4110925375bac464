SPECIFICATION FunctionsSpec
CONSTANTS
    STANDARD_VECTOR_SIZE = 2
    Tables <- SmallTables
    Counts <- UpToMax
    MaxManifests = 2
    MaxEntries = 3
    MaxSnapshots = 7
INVARIANTS TypeOK OnlyBoundariesSkipped
PROPERTY ImplementsRowStream
CHECK_DEADLOCK FALSE
