SPECIFICATION Spec
CONSTANTS
    Threads = {t1, t2}
    NoThread = none
    NAttrs = 2
    Values = {e, m}
    Empty = e
    MaxTrips = 3
INVARIANTS
    OwnAttributes
    BreaksItsTrip
    OnlyInterruptedAreBroken
PROPERTIES
    InterruptEndsTrip
