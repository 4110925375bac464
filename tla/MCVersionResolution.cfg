SPECIFICATION Spec
CONSTANTS
    FirstVersion = 8
    LastVersion = 11
    Retained = 1
INVARIANTS
    TypeOK
    ReadsCurrentVersion
    GuessFindsGreatest
    FailsOnlyIfDisturbed
CHECK_DEADLOCK FALSE
