SPECIFICATION Spec
CONSTANTS
    ColumnLists <- MCColumnLists
    MaxRows = 4
    Limits <- MCLimits
    CancelEvery = 2
    EmptyReads = FALSE
    Bits = 2
    Null = Null
    a = a
    b = b
INVARIANTS
    NoRowLeftBehind
    AnswersHoldTheirRows
    ColumnarHoldsItsRows
PROPERTIES
    IsCursor
