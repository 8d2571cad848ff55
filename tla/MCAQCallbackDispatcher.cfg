SPECIFICATION Spec
CONSTANTS
    Posters = {watchdog, listener}
    Threads = {t1, t2, t3}
    NoThread = NoThread
    Callbacks = {async, lost}
    NoCallback = NoCallback
    MaxQueue = 2
INVARIANTS
    EveryThreadJoinedOnce
    QueuedIsServed
PROPERTIES
    StopReturns
    Implements
CHECK_DEADLOCK FALSE
