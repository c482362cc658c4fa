SPECIFICATION Spec
CONSTANTS
    ListSize = 2
    TopSize = 1
    PageSize = 2
    PoolSize = 1
    hnDeleted = TRUE
    UseDeleteds = TRUE
    MaxRec = 2
    MaxVal = 1
    MaxDepth = 8
    Starts <- EditStarts
    Conditions <- AllRows
    Skips = {1}
    GoTos = {1}
    Seeks = {}
    Marks = {1}
    Calls = {"append", "delete", "recall", "edit", "keycount", "filter", "other"}
    NoRow = NoRow
INVARIANTS TypeOK PoolIsCurrent BufferShowsRecord
PROPERTIES WritesItsRecord
CHECK_DEADLOCK FALSE
