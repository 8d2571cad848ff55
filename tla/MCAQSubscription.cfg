SPECIFICATION Spec
CONSTANTS
    Queues = {q1}
    Users = {u1}
    Dispatcher = Dispatcher
    Watchdog = Watchdog
    Listener = Listener
    Nobody = Nobody
    Module = Module
    WThreads = {t1, t2}
    DThreads = {d1, d2}
    NoThread = NoThread
    NoCallback = NoCallback
    Methods = {"startSubscription", "stopSubscription", "getMessage", "post", "commit", "destructor"}
    MaxSubs = 2
    MaxQueue = 1
    CreateFails = TRUE
SYMMETRY ThreadSymmetry
INVARIANTS
    SubscriptionConsistent
    RegisteredIsAlive
    CallbackThreadCount
    SubscribedIsWatched
    LossHasReporter
PROPERTIES
    NoDeliveryBeginsAfterStop
CHECK_DEADLOCK FALSE
