SPECIFICATION Spec
CONSTANTS
    HalfRange = 4
    Ids = {1, 2, 3}
    Tables <- SmallTables
    MaxSnapshots = 3
INVARIANTS
    TooEarlyFails
CHECK_DEADLOCK FALSE
