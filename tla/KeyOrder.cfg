SPECIFICATION Spec
CONSTANTS
    Column <- MCColumn
    Numeric = {"recno", "amount"}
    Date = {"date"}
    Nullable = {"date", "amount"}
    Fields <- MCFields
    PageSize = 2
    Backends = {"MYSQL", "POSTGR"}
    EmptyDates = FALSE
    StaleFilters = FALSE
    Tables <- MCTables
    Filters <- MCFilters
    Descends = {1}
    Tops <- MCTops
    Bottoms <- MCBottoms
    Seeks <- MCSeeks
    Null = Null
    NoRow = NoRow
    NIL = NIL
INVARIANTS TypeOK PageIsRest KeptIsCurrent
PROPERTIES MovesAsCursor SeekFinds
CHECK_DEADLOCK FALSE
