SPECIFICATION FairSpec
CONSTANTS
    ListSize = 2
    TopSize = 2
    PageSize = 2
    PoolSize = 2
    hnDeleted = TRUE
    UseDeleteds = TRUE
    MaxRec = 3
    MaxVal = 2
    MaxDepth = 6
    Starts <- CursorStarts
    Conditions <- AllRows
    Skips <- OneSkips
    GoTos = {2}
    Seeks = {1, 2}
    Marks = {}
    Calls = {"order", "scope", "flush", "count", "filter", "recall"}
    NoRow = NoRow
INVARIANTS ListIsRun EndsAreEnds
PROPERTIES ImplementsCursor SeekFindsKey CallsReturn
CHECK_DEADLOCK FALSE
