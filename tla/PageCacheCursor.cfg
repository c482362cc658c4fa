SPECIFICATION Spec
CONSTANTS
    Ring = 8
    PageSizes = {3}
    FetchSize = 3
    Sizes = {9}
    MaxRec = 11
    GoTos = {0, 6}
    MaxDel = 0
    Marks = {6}
    Backward = TRUE
    UseDeleteds = TRUE
    hnDeleted = TRUE
    Siblings = FALSE
    Nil = Nil
INVARIANTS TypeOK WindowHasAllRows
PROPERTIES ImplementsCursor
CHECK_DEADLOCK FALSE
