SPECIFICATION Spec
CONSTANTS
    Ops = {o1, o2}
    NoOp = NoOp
    Statements = {s1}
    Stack = Stack
    AutoCommit = FALSE
    PingStalls = TRUE
    Calls <- PlainCalls
INVARIANTS
    LostStaysLost
