SPECIFICATION Spec
CONSTANTS
    Ring = 8
    PageSizes = {3}
    FetchSize = 3
    Sizes = {5}
    MaxRec = 6
    GoTos = {}
    MaxDel = 2
    Marks = {}
    Backward = FALSE
    UseDeleteds = FALSE
    hnDeleted = TRUE
    Siblings = TRUE
    Nil = Nil
INVARIANTS EndsAreEnds
PROPERTIES SkipLeavesDeleted
CHECK_DEADLOCK FALSE
