SPECIFICATION Spec
CONSTANTS
    Ops = {o1, o2}
    NoOp = NoOp
    Statements = {s1}
    Stack = Stack
    AutoCommit = TRUE
    PingStalls = TRUE
    Calls <- AllCalls
INVARIANTS
    Durable
PROPERTIES
    CallsReturn
