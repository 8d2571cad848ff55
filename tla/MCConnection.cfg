SPECIFICATION Spec
CONSTANTS
    Ops = {o1, o2}
    NoOp = NoOp
    Statements = {s1}
    Stack = Stack
    AutoCommit = FALSE
    PingStalls = FALSE
    Calls <- AllCalls
INVARIANTS
    AtMostOnce
    AckedIsHeld
    LostStaysLost
    GuardedCallsKeepConnection
    UsableAfterCall
PROPERTIES
    IsTransactional
