SPECIFICATION Spec
CONSTANTS
    STANDARD_VECTOR_SIZE = 2
    Tables <- SmallTables
    Lookahead = 2
    MaxManifests = 1
    MaxEntries = 4
INVARIANT FirstTwoExpanded
