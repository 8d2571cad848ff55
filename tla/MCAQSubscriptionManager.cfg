SPECIFICATION Spec
CONSTANTS
    Queues = {q1, q2, q3}
    Module = Module
    Threads = {t1, t2, t3, t4}
    NoThread = NoThread
INVARIANTS
    OneThreadInLoop
    WatchedHaveWatchdog
PROPERTIES
    WatchedAreChecked
    ThreadsEnd
CHECK_DEADLOCK FALSE
