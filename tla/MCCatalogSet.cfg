SPECIFICATION FairSpec
CONSTANTS
    Threads = {t1, t2}
    NoThread = NoThread
    Listed = {a, b}
    Names = {a, b, c}
    MaxCalls = 2
INVARIANTS
    TypeOK
    ReturnedStays
    MissesOnlyIfOverlapped
CHECK_DEADLOCK FALSE
PROPERTY CallsReturn
