SPECIFICATION Spec
CONSTANTS
    STANDARD_VECTOR_SIZE = 2
    Tables <- SmallTables
    Lookahead = 3
    MaxManifests = 2
    MaxEntries = 3
INVARIANTS
    TypeOK
    ExpandedInOrder
    ManifestsAreSplit
