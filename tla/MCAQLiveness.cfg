SPECIFICATION FairSpec
CONSTANTS
    Queues = {q1}
    Users = {u1}
    Dispatcher = Dispatcher
    Watchdog = Watchdog
    Listener = Listener
    Nobody = Nobody
    Module = Module
    WThreads = {t1}
    DThreads = {d1}
    NoThread = NoThread
    NoCallback = NoCallback
    Methods = {"startSubscription", "stopSubscription"}
    MaxSubs = 1
    MaxQueue = 1
    CreateFails = TRUE
PROPERTIES
    CallsReturn
CHECK_DEADLOCK FALSE
