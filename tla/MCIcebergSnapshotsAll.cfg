SPECIFICATION Spec
CONSTANTS
    STANDARD_VECTOR_SIZE = 3
    Counts <- UpToMax
    MaxSnapshots = 16
INVARIANT ListsSnapshots
CHECK_DEADLOCK FALSE
