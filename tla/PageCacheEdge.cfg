SPECIFICATION Spec
CONSTANTS
    Ring = 9
    PageSizes = {3}
    FetchSize = 3
    Sizes = {10}
    MaxRec = 10
    GoTos = {}
    MaxDel = 0
    Marks = {}
    Backward = FALSE
    UseDeleteds = TRUE
    hnDeleted = TRUE
    Siblings = FALSE
    Nil = Nil
PROPERTIES SkipsToNeighbour
CHECK_DEADLOCK FALSE
