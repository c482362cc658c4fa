SPECIFICATION Spec
CONSTANTS
    ListSize = 4
    TopSize = 2
    PageSize = 3
    PoolSize = 4
    hnDeleted = TRUE
    UseDeleteds = TRUE
    MaxRec = 3
    MaxVal = 2
    MaxDepth = 8
    Starts <- MarkedStarts
    Conditions = {}
    Skips = {1}
    GoTos = {}
    Seeks = {}
    Marks = {}
    Calls = {}
    NoRow = NoRow
PROPERTIES ImplementsCursor
CHECK_DEADLOCK FALSE
