SPECIFICATION FairSpec
CONSTANTS
    Queues = {q1}
    Users = {u1}
    Dispatcher = Dispatcher
    Watchdog = Watchdog
    Listener = Listener
    Nobody = Nobody
    Module = Module
    WThreads = {t1, t2}
    DThreads = {d1, d2}
    NoThread = NoThread
    NoCallback = NoCallback
    Methods = {"startSubscription", "stopSubscription", "getMessage"}
    MaxSubs = 2
    MaxQueue = 0
    CreateFails = FALSE
PROPERTIES
    LossIsReported
    CallsReturn
CHECK_DEADLOCK FALSE
