SPECIFICATION Spec
CONSTANTS
    Proc = {p1, p2}
    Area = {a1, a2}
    MaxSess = 2
    SetRetries = 1
    LockTries = 2
    Backend = "MSSQL7"
    Orderly = TRUE
    None = None
SYMMETRY Symm
INVARIANTS TypeOK OneOwner OwnerHasRows NoLeakedRow IInv
PROPERTIES ImplementsOwnership
CHECK_DEADLOCK FALSE
