SPECIFICATION Spec
CONSTANTS
    Proc = {p1}
    Area = {a1, a2}
    Existing = 1
    MaxRecord = 2
    MaxValue = 3
    MaxDepth = 2
    nAutoCommit = 0
    SR_MAXIMUN_LOCKS = 100
    Shared = TRUE
    Careful = TRUE
    Failing = FALSE
    ReadUncommitted = FALSE
SYMMETRY Symm
INVARIANTS InsertedStaysLocked
CHECK_DEADLOCK FALSE
