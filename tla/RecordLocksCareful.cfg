SPECIFICATION Spec
CONSTANTS
    Proc = {p1, p2}
    Area = {a1}
    Existing = 1
    MaxRecord = 2
    MaxValue = 3
    MaxDepth = 1
    nAutoCommit = 0
    SR_MAXIMUN_LOCKS = 100
    Shared = TRUE
    Careful = TRUE
    Failing = FALSE
    ReadUncommitted = FALSE
SYMMETRY Symm
INVARIANTS TypeOK ListedIsHeld LockedByOne LockedIsFresh NoLostUpdate ShownWasStored
PROPERTIES LinesStayLocked
CHECK_DEADLOCK FALSE
