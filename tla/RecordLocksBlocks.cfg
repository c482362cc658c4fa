SPECIFICATION Spec
CONSTANTS
    Proc = {p1}
    Area = {a1, a2}
    Existing = 1
    MaxRecord = 2
    MaxValue = 2
    MaxDepth = 2
    nAutoCommit = 2
    SR_MAXIMUN_LOCKS = 100
    Shared = TRUE
    Careful = TRUE
    Failing = TRUE
    ReadUncommitted = FALSE
SYMMETRY Symm
PROPERTIES CommitsOutside
CHECK_DEADLOCK FALSE
