SPECIFICATION FairSpec
CONSTANTS
    Proc = {p1, p2}
    Area = {a1}
    MaxSess = 3
    SetRetries = 1
    LockTries = 1
    Backend = "POSTGR"
    Orderly = FALSE
    None = None
INVARIANTS SharerKeepsExclusiveOut
PROPERTIES LiveRowsKept CallsReturn DeadRowsSwept
CHECK_DEADLOCK FALSE
