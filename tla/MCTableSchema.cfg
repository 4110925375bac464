SPECIFICATION SchemaSpec
CONSTANTS
    HalfRange = 4
    Ids = {1, 2, 3}
    Tables <- MCTables
    MaxSnapshots = 3
    Written <- MCWritten
    Name <- MCName
    ColumnTypes <- MCTypes
    MaxDepth = 2
    Depth <- MCDepth
    Numeral <- MCNumeral
INVARIANTS
    TypeOK
    SchemaTypeOK
    LatestIsLatest
    AsOfIsLatestBefore
    IdIsFound
    BindsCurrentSchema
    EntryHasCurrentSchema
    FailsForCause
CHECK_DEADLOCK FALSE
