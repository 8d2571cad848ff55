SPECIFICATION Spec
CONSTANTS
    MaxGiven = 6
    MaxRows = 2
    MaxLength = 5
    Columns = {c1, c2}
    OtherKey = k
    MaxBytes = 5
    ReportBytes = 2
INVARIANTS
    SentOnce
    StreamEndsOnce
    NothingLeftBehind
PROPERTIES
    IsAtomic
    CallsEnd
