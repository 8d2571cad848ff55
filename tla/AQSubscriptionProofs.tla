------------------------ MODULE AQSubscriptionProofs ------------------------
(***************************************************************************)
(* The subscriptions of queues, for any number of queues, threads and      *)
(* callbacks: whoever holds the lock of a queue keeps its subscription     *)
(* whole, the composition keeps to the protocols of the watchdog manager   *)
(* and of the dispatcher, so that what is proved of them holds here, and   *)
(* no loss is forgotten.                                                   *)
(***************************************************************************)
EXTENDS AQSubscription, FiniteSetTheorems, TLAPS

WP == INSTANCE AQSubscriptionManagerProofs WITH
        started <- wStarted, running <- wRunning, quit <- wQuit,
        thread <- wThread, pc <- wpc, joining <- wJoining,
        Threads <- WThreads, stopped <- FALSE

DP == INSTANCE AQCallbackDispatcherProofs WITH
        started <- dStarted, running <- dRunning, thread <- dThread,
        pc <- dpc, joining <- dJoining, Threads <- DThreads,
        Posters <- {Watchdog, Listener}, stopped <- FALSE

-----------------------------------------------------------------------------
(***************************************************************************)
(* The places of a method.  At the places `Held` its thread has the lock   *)
(* of the queue.                                                           *)
(***************************************************************************)
Subscribing == {"subscribe", "add", "addFailed", "added"}
Restoring == {"unsubscribe", "unregister", "resubscribe", "giveUp"}
Held == Subscribing \cup Restoring \cup {"dequeue", "redequeue"}
Reporting == {"report", "reported", "reportHere"}
Notifying == {"post", "posted", "deliverHere"}
Places == {"idle", "lock", "deliver"} \cup Held \cup Reporting \cup Notifying
Reasons == AllMethods \cup {"none", "restore"}

QueueTypes ==
    /\ lock \in [Queues -> Actors \cup {Nobody}]
    /\ valid \in [Queues -> BOOLEAN]
    /\ conn \in [Queues -> {"none", "bare", "open", "dangling"}]
    /\ hasSub \in [Queues -> BOOLEAN]
    /\ sub \in [Queues -> 0..MaxSubs]
    /\ lost \in [Queues -> BOOLEAN]

ClientTypes ==
    /\ up \in [Queues -> BOOLEAN]
    /\ callback \in [Queues -> BOOLEAN]
    /\ registered \in [Queues -> BOOLEAN]
    /\ listener \in {Nobody, Listener}
    /\ tid \in BOOLEAN
    /\ last \in 0..MaxSubs

ThreadTypes ==
    /\ at \in [Actors -> Places]
    /\ why \in [Actors -> Reasons]
    /\ on \in [Actors -> Queues \cup {Nobody}]
    /\ code \subseteq {Dispatcher, Watchdog, Listener}
    /\ checking \in Queues \cup {Nobody}
    /\ note \in (Queues \cup {Nobody}) \X (0..MaxSubs)
    /\ fault \in {"none", "null", "deleted"}

(***************************************************************************)
(* The control of the threads.  A thread of the module is in a method only *)
(* when it runs Qore code, except for the watchdog while it restores a     *)
(* subscription and the threads that report, post and deliver.             *)
(***************************************************************************)
Control ==
    /\ \A a \in Actors :
          /\ at[a] \in Held \cup Reporting \cup {"lock"} => on[a] \in Queues
          /\ at[a] \in Reporting => a = Watchdog /\ a \notin code
          /\ at[a] \in Notifying => a = Listener /\ a \notin code
          /\ at[a] = "deliver" => a \in {Dispatcher, Listener} /\ a \notin code
          /\ at[a] \in {"lock", "dequeue", "redequeue"} => a \in Users \cup code
          /\ at[a] \in Subscribing \cup {"dequeue", "redequeue"} => why[a] # "restore"
    /\ Dispatcher \notin code => at[Dispatcher] \in {"idle", "deliver"}

WatchdogControl ==
    /\ checking = Nobody => at[Watchdog] = "idle" /\ Watchdog \notin code
    /\ checking # Nobody /\ Watchdog \notin code =>
          /\ at[Watchdog] \in Restoring \cup Reporting
          /\ on[Watchdog] = checking
          /\ at[Watchdog] \in Restoring => why[Watchdog] = "restore"

ListenerControl ==
    /\ listener = Nobody => at[Listener] = "idle" /\ Listener \notin code
    /\ listener = Listener /\ Listener \notin code =>
          /\ at[Listener] \in Notifying \cup {"deliver"}
          /\ note \in Queues \X (1..MaxSubs)

(***************************************************************************)
(* The lock of a queue has one holder, the thread that is at such a place  *)
(* for that queue.                                                         *)
(***************************************************************************)
Locks == \A q \in Queues, a \in Actors : lock[q] = a <=> on[a] = q /\ at[a] \in Held

(***************************************************************************)
(* What is true of a queue q while the thread a is at each place, and of   *)
(* one that nobody works on.                                               *)
(***************************************************************************)
Whole(q) ==
    \/ /\ hasSub[q] /\ sub[q] # 0 /\ q \in objects /\ registered[q] /\ callback[q]
       /\ valid[q] /\ conn[q] \in {"open", "dangling"}
    \/ ~hasSub[q] /\ sub[q] = 0 /\ q \notin objects /\ ~registered[q] /\ ~callback[q]

Stage(a, q) ==
    /\ at[a] \notin {"giveUp"} => valid[q] /\ conn[q] = "open"
    /\ at[a] \in {"added", "dequeue", "redequeue"} => Whole(q)
    /\ at[a] = "added" => hasSub[q]
    /\ at[a] \in {"subscribe", "resubscribe", "giveUp"} =>
          ~hasSub[q] /\ sub[q] # 0 /\ ~registered[q]
    /\ at[a] \in {"add", "addFailed", "unsubscribe", "unregister"} =>
          hasSub[q] /\ registered[q]
    /\ at[a] \in {"add", "addFailed"} => sub[q] # 0
    /\ at[a] \in {"unsubscribe", "unregister"} => (sub[q] # 0 <=> why[a] = "restore")
    /\ at[a] \in Subscribing \cup Restoring =>
          (callback[q] <=> at[a] \notin {"unregister", "giveUp"})
    /\ at[a] \in Subscribing \ {"added"} => q \notin objects
    /\ at[a] \in {"unsubscribe", "unregister"} => (q \in objects <=> why[a] = "restore")
    /\ at[a] \in {"resubscribe", "giveUp"} => q \in objects

Stages == \A q \in Queues : IF lock[q] = Nobody THEN Whole(q) ELSE Stage(lock[q], q)

(***************************************************************************)
(* The watchdog manager: a queue's caller joins only in add(), and the     *)
(* queue that is checked is one of the round of the thread in the loop.    *)
(***************************************************************************)
Watched ==
    /\ WP!WatchdogInv
    /\ \A q \in Queues : wJoining[q] # NoThread =>
          lock[q] # Nobody /\ at[lock[q]] \in {"added", "addFailed"}
    /\ checking # Nobody => /\ wRunning
                            /\ wpc[wThread] = "check"
                            /\ checking \in snapshot[wThread]

(***************************************************************************)
(* The dispatcher: a poster joins before it goes on, and Qore code runs on *)
(* the dispatch thread only while that makes the callback it has taken; it *)
(* goes on to call onAsyncMessage() for a notification.                    *)
(***************************************************************************)
Delivering ==
    at[Dispatcher] = "deliver" =>
        dRunning /\ dpc[dThread] = "call" /\ cb[dThread].kind = "async"

Dispatched ==
    /\ DP!DispatcherInv
    /\ dJoining[Watchdog] # NoThread => at[Watchdog] \in {"reported", "reportHere"}
    /\ dJoining[Listener] # NoThread => at[Listener] \in {"posted", "deliverHere"}
    /\ Dispatcher \in code => dRunning /\ dpc[dThread] = "call"
    /\ Delivering

Types == QueueTypes /\ ClientTypes /\ ThreadTypes
Controls == Control /\ WatchdogControl /\ ListenerControl
Base == Types /\ Controls /\ Locks /\ Stages

-----------------------------------------------------------------------------
(***************************************************************************)
(* Types.                                                                  *)
(***************************************************************************)
LEMMA ConnectTypes ==
    ASSUME Types, NEW q \in Queues, NEW r \in Outcomes, connectUnlocked(q, r)
    PROVE  /\ valid' \in [Queues -> BOOLEAN]
           /\ up' \in [Queues -> BOOLEAN]
           /\ conn' \in [Queues -> {"none", "bare", "open", "dangling"}]
<1> (r # "gone") \in BOOLEAN /\ (r \in {"open", "bare"}) \in BOOLEAN
    OBVIOUS
<1> (IF r = "gone" THEN "none" ELSE r) \in {"none", "bare", "open", "dangling"}
    BY DEF Outcomes
<1> QED
    BY DEF Types, QueueTypes, ClientTypes, connectUnlocked

LEMMA AcquireTypes ==
    ASSUME Types, Controls, NEW a \in Actors, Acquire(a)
    PROVE  Types'
<1> DEFINE q == on[a]
<1> q \in Queues
    BY DEF Controls, Control, Acquire, lockAndReturn, startSubscription, stopSubscription,
           destructor, getMessage, commitLost, UseDeleted
<1> USE BoundsAssumption DEF Types, QueueTypes, ClientTypes, ThreadTypes, Goto, Return, Unlock
<1>1. CASE lockAndReturn(a)
  <2>1. valid' \in [Queues -> BOOLEAN] /\ up' \in [Queues -> BOOLEAN]
        /\ conn' \in [Queues -> {"none", "bare", "open", "dangling"}]
    BY <1>1, ConnectTypes DEF lockAndReturn
  <2>2. at' \in [Actors -> Places] /\ why' \in [Actors -> Reasons]
        /\ on' \in [Actors -> Queues \cup {Nobody}]
    BY <1>1 DEF lockAndReturn, Places, Reasons
  <2> QED
    BY <1>1, <2>1, <2>2 DEF lockAndReturn, globalVars, clientVars
<1>2. CASE startSubscription(a)
    BY <1>2 DEF startSubscription, checkValidUnlocked, connectUnlocked, inc, Places, Held, Subscribing
<1>3. CASE stopSubscription(a)
    BY <1>3 DEF stopSubscription, Places, Held, Restoring, clientVars, globalVars
<1>4. CASE destructor(a)
    BY <1>4 DEF destructor, Places, Reasons, clientVars, globalVars
<1>5. CASE getMessage(a)
    BY <1>5 DEF getMessage, checkValidUnlocked, connectUnlocked, Places, Held, globalVars
<1>6. CASE commitLost(a)
    BY <1>6 DEF commitLost, Places, Reasons, clientVars, globalVars
<1>7. CASE UseDeleted(a)
    BY <1>7 DEF UseDeleted, queueVars, clientVars, globalVars
<1> QED
    BY <1>1, <1>2, <1>3, <1>4, <1>5, <1>6, <1>7 DEF Acquire

LEMMA HoldingTypes ==
    ASSUME Types, Controls, NEW a \in Actors, Holding(a)
    PROVE  Types'
<1> DEFINE q == on[a]
<1> q \in Queues
    BY DEF Controls, Control, Holding, subscribe, addToWatchdog, addFailed, subscribed,
           unsubscribe, unregister, dequeued, reconnectUnlocked, restoreConnection,
           resubscribe, giveUp, Held, Subscribing, Restoring
<1> USE BoundsAssumption
    DEF Types, QueueTypes, ClientTypes, ThreadTypes, Goto, Return, Unlock,
        clientVars, globalVars, queueVars
<1>0. (count # 1) \in BOOLEAN
    OBVIOUS
<1>1. CASE subscribe(a)
  <2>1. at' \in [Actors -> Places] /\ why' \in [Actors -> Reasons]
        /\ on' \in [Actors -> Queues \cup {Nobody}]
        /\ lock' \in [Queues -> Actors \cup {Nobody}]
    BY <1>1 DEF subscribe, Places, Reasons, Held, Subscribing
  <2>2. hasSub' \in [Queues -> BOOLEAN] /\ registered' \in [Queues -> BOOLEAN]
        /\ callback' \in [Queues -> BOOLEAN]
    BY <1>1 DEF subscribe
  <2>3. sub' \in [Queues -> 0..MaxSubs]
    BY <1>1 DEF subscribe, endSubscriptionUnlocked
  <2>4. tid' = tid \/ tid' = (count # 1)
    BY <1>1 DEF subscribe, endSubscriptionUnlocked, dec
  <2>5. tid' \in BOOLEAN
    BY <2>4, <1>0
  <2> QED
    BY <1>1, <2>1, <2>2, <2>3, <2>5 DEF subscribe
<1>2. CASE addToWatchdog(a)
    BY <1>2 DEF addToWatchdog, Places, Held, Subscribing
<1>3. CASE addFailed(a)
    BY <1>3 DEF addFailed, Places, Held, Restoring
<1>4. CASE subscribed(a)
    BY <1>4 DEF subscribed, Places, Reasons
<1>5. CASE unsubscribe(a)
    BY <1>5 DEF unsubscribe, Places, Held, Restoring
<1>6. CASE unregister(a)
  <2>1. (valid[q] /\ why[a] # "destructor") \in BOOLEAN
    OBVIOUS
  <2> QED
    BY <1>6, <1>0, <2>1 DEF unregister, dec, Places, Reasons
<1>7. CASE dequeued(a)
    BY <1>7 DEF dequeued, Places, Reasons
<1>8. CASE reconnectUnlocked(a)
  <2>1. valid' \in [Queues -> BOOLEAN] /\ up' \in [Queues -> BOOLEAN]
        /\ conn' \in [Queues -> {"none", "bare", "open", "dangling"}]
    BY <1>8, ConnectTypes DEF reconnectUnlocked
  <2>2. at' \in [Actors -> Places] /\ why' \in [Actors -> Reasons]
        /\ on' \in [Actors -> Queues \cup {Nobody}]
        /\ lock' \in [Queues -> Actors \cup {Nobody}]
    BY <1>8 DEF reconnectUnlocked, Places, Reasons, Held, Restoring
  <2> QED
    BY <1>8, <2>1, <2>2 DEF reconnectUnlocked
<1>9. CASE restoreConnection(a)
  <2>1. valid' \in [Queues -> BOOLEAN] /\ up' \in [Queues -> BOOLEAN]
        /\ conn' \in [Queues -> {"none", "bare", "open", "dangling"}]
    BY <1>9, ConnectTypes DEF restoreConnection
  <2> QED
    BY <1>9, <2>1 DEF restoreConnection, Places, Held, Restoring
<1>10. CASE resubscribe(a)
  <2>1. registered' \in [Queues -> BOOLEAN] /\ hasSub' \in [Queues -> BOOLEAN]
        /\ callback' \in [Queues -> BOOLEAN]
    BY <1>10 DEF resubscribe
  <2>2. lock' \in [Queues -> Actors \cup {Nobody}] /\ checking' \in Queues \cup {Nobody}
    BY <1>10 DEF resubscribe
  <2>3. at' \in [Actors -> Places] /\ why' \in [Actors -> Reasons]
        /\ on' \in [Actors -> Queues \cup {Nobody}]
    BY <1>10 DEF resubscribe, Places, Reasons, AllMethods, Held, Restoring
  <2> QED
    BY <1>10, <2>1, <2>2, <2>3 DEF resubscribe
<1>11. CASE giveUp(a)
  <2>1. at' \in [Actors -> Places] /\ why' \in [Actors -> Reasons]
        /\ on' \in [Actors -> Queues \cup {Nobody}]
    BY <1>11 DEF giveUp, Places, Reasons, Reporting
  <2>2. lost' \in [Queues -> BOOLEAN]
    BY <1>11 DEF giveUp
  <2>3. sub' \in [Queues -> 0..MaxSubs] /\ tid' \in BOOLEAN
    BY <1>11, <1>0 DEF giveUp, endSubscriptionUnlocked, dec
  <2> QED
    BY <1>11, <2>1, <2>2, <2>3 DEF giveUp
<1> QED
    BY <1>1, <1>2, <1>3, <1>4, <1>5, <1>6, <1>7, <1>8, <1>9, <1>10, <1>11 DEF Holding

LEMMA ModuleTypes ==
    ASSUME Types, WatchdogStep \/ ListenerStep \/ DispatchStep
    PROVE  Types'
<1> USE DEF Types, QueueTypes, ClientTypes, ThreadTypes, Goto, Return, Places, Reasons,
            queueVars, clientVars, globalVars, threadVars
<1> /\ Watchdog \in Actors /\ Listener \in Actors /\ Dispatcher \in Actors
    BY DEF Actors
<1>1. CASE report
    BY <1>1 DEF report, Reporting
<1>7. CASE reported
    BY <1>7 DEF reported
<1>8. CASE reportHere
    BY <1>8 DEF reportHere, notifySubscriptionLost
<1>2. ASSUME NEW q \in Queues, checkSubscriptionReturns(q) \/ checkDeleted(q)
      PROVE  Types'
    BY <1>2 DEF checkSubscriptionReturns, checkDeleted
<1>3. ASSUME NEW q \in Queues, checkSubscription(q)
      PROVE  Types'
    BY <1>3 DEF checkSubscription, Held, Restoring
<1>4. CASE postNotification \/ ListenerReturns \/ deliverHere
  <2>1. \A x, y : <<x, y>> \in (Queues \cup {Nobody}) \X (0..MaxSubs)
                     <=> x \in Queues \cup {Nobody} /\ y \in 0..MaxSubs
    OBVIOUS
  <2> QED
    BY <1>4, <2>1, BoundsAssumption
       DEF postNotification, ListenerReturns, deliverHere, deliverAsyncMessage, Notifying
<1>5. ASSUME NEW t \in DThreads, DispatchAsync(t) \/ DispatchLost(t) \/ DispatchNothing(t)
      PROVE  Types'
    BY <1>5 DEF DispatchAsync, DispatchLost, DispatchNothing, deliverAsyncMessage,
                notifySubscriptionLost
<1>6. ASSUME NEW a \in {Dispatcher, Listener}, onAsyncMessage(a)
      PROVE  Types'
    BY <1>6 DEF onAsyncMessage
<1> QED
    BY <1>1, <1>2, <1>3, <1>4, <1>5, <1>6, <1>7, <1>8
       DEF WatchdogStep, ListenerStep, DispatchStep

(***************************************************************************)
(* The steps that are made of the program, of the client and of the server *)
(***************************************************************************)
Outside ==
    \/ \E a \in Actors : \/ \E m \in Methods, q \in Queues : Call(a, m, q)
                         \/ CallbackReturns(a)
    \/ \E q \in Queues : postAsyncMessage(q) \/ ConnectionLost(q)

LEMMA OutsideTypes ==
    ASSUME Types, Outside
    PROVE  Types'
<1> USE DEF Types, QueueTypes, ClientTypes, ThreadTypes,
            queueVars, clientVars, globalVars, threadVars
<1>1. ASSUME NEW a \in Actors, NEW m \in Methods, NEW q \in Queues, Call(a, m, q)
      PROVE  Types'
    BY <1>1, BoundsAssumption DEF Call, Places, Reasons
<1>2. \A x, y : <<x, y>> \in (Queues \cup {Nobody}) \X (0..MaxSubs)
                     <=> x \in Queues \cup {Nobody} /\ y \in 0..MaxSubs
    OBVIOUS
<1>3. ASSUME NEW a \in Actors, CallbackReturns(a)
      PROVE  Types'
    BY <1>2, <1>3, BoundsAssumption DEF CallbackReturns
<1>4. ASSUME NEW q \in Queues, postAsyncMessage(q)
      PROVE  Types'
    BY <1>2, <1>4 DEF postAsyncMessage, Places, Notifying, Actors
<1>5. ASSUME NEW q \in Queues, ConnectionLost(q)
      PROVE  Types'
    BY <1>5 DEF ConnectionLost
<1> QED
    BY <1>1, <1>3, <1>4, <1>5 DEF Outside

(***************************************************************************)
(* The steps of the two managers' threads by themselves.                   *)
(***************************************************************************)
Managers ==
    /\ \/ \E t \in WThreads : WatchdogThread(t)
       \/ \E t \in DThreads : DispatchThread(t)
       \/ \E q \in Queues : WatchdogJoin(q)
       \/ \E p \in {Watchdog, Listener} : DispatchJoin(p)

LEMMA ManagersLeave ==
    ASSUME Managers
    PROVE  UNCHANGED <<queueVars, clientVars, globalVars, threadVars, objects>>
BY DEF Managers, WatchdogThread, DispatchThread, WatchdogJoin, DispatchJoin, wVars,
       W!round, W!endRound, W!wake, W!leave, W!end, W!join

LEMMA StepKinds ==
    Step <=> \/ \E a \in Actors : Acquire(a) \/ Holding(a)
             \/ WatchdogStep \/ ListenerStep \/ DispatchStep
             \/ Outside \/ Managers
BY DEF Step, Outside, Managers

LEMMA TypesStep == Types /\ Controls /\ [Step]_vars => Types'
<1> SUFFICES ASSUME Types, Controls, [Step]_vars PROVE Types'
    OBVIOUS
<1>1. CASE Managers
    BY <1>1, ManagersLeave
       DEF Types, QueueTypes, ClientTypes, ThreadTypes,
           queueVars, clientVars, globalVars, threadVars
<1>2. CASE UNCHANGED vars
    BY <1>2
       DEF Types, QueueTypes, ClientTypes, ThreadTypes, vars,
           queueVars, clientVars, globalVars, threadVars
<1> QED
    BY <1>1, <1>2, StepKinds, AcquireTypes, HoldingTypes, ModuleTypes, OutsideTypes

-----------------------------------------------------------------------------
(***************************************************************************)
(* Control.  A step of a method moves its own thread only.                 *)
(***************************************************************************)
SamePlace(a) == at'[a] = at[a] /\ why'[a] = why[a] /\ on'[a] = on[a]

LEMMA CallerMoves ==
    ASSUME Types, Types', Controls, NEW a \in Actors, a \in Users \cup code,
           \A b \in Actors \ {a} : SamePlace(b),
           UNCHANGED <<code, checking, listener, note>>,
           at'[a] \in {"idle", "lock"} \cup Held,
           at'[a] \in Held \cup {"lock"} => on'[a] \in Queues,
           at'[a] \in Subscribing \cup {"dequeue", "redequeue"} => why'[a] # "restore"
    PROVE  Controls'
<1> USE DEF Subscribing, Restoring, Held, Reporting, Notifying
<1>1. a = Dispatcher \/ a = Watchdog \/ a = Listener => a \in code
    BY ActorsAssumption
<1>2. /\ Watchdog \in Actors /\ Listener \in Actors /\ Dispatcher \in Actors
    BY DEF Actors
<1>3. Control'
    BY <1>1, <1>2 DEF Controls, Control, SamePlace
<1>4. WatchdogControl'
  <2>1. checking = Nobody => a # Watchdog
    BY <1>1 DEF Controls, WatchdogControl
  <2>2. Watchdog \notin code => a # Watchdog
    BY <1>1
  <2> QED
    BY <1>2, <2>1, <2>2 DEF Controls, WatchdogControl, SamePlace
<1>5. ListenerControl'
  <2>1. listener = Nobody => a # Listener
    BY <1>1 DEF Controls, ListenerControl
  <2>2. Listener \notin code => a # Listener
    BY <1>1
  <2> QED
    BY <1>2, <2>1, <2>2 DEF Controls, ListenerControl, SamePlace
<1> QED
    BY <1>3, <1>4, <1>5 DEF Controls

LEMMA AcquireControls ==
    ASSUME Types, Types', Controls, NEW a \in Actors, Acquire(a)
    PROVE  Controls'
<1>1. at[a] = "lock"
    BY DEF Acquire, lockAndReturn, startSubscription, stopSubscription,
           destructor, getMessage, commitLost, UseDeleted
<1>2. a \in Users \cup code /\ on[a] \in Queues
    BY <1>1 DEF Controls, Control
<1>3. UNCHANGED <<code, checking, listener, note>>
    BY DEF Acquire, lockAndReturn, startSubscription, stopSubscription,
           destructor, getMessage, commitLost, UseDeleted, clientVars
<1>4. CASE Return(a)
  <2>1. at'[a] = "idle" /\ \A b \in Actors \ {a} : SamePlace(b)
    BY <1>4 DEF Types, ThreadTypes, Return, SamePlace
  <2> QED
    BY <1>2, <1>3, <2>1, CallerMoves DEF Held, Subscribing, Restoring
<1>5. ASSUME NEW l \in {"subscribe", "unsubscribe", "dequeue"}, Goto(a, l),
             l # "unsubscribe" => why[a] # "restore"
      PROVE  Controls'
  <2>1. at'[a] = l /\ UNCHANGED <<why, on>> /\ \A b \in Actors \ {a} : SamePlace(b)
    BY <1>5 DEF Types, ThreadTypes, Goto, SamePlace
  <2> QED
    BY <1>2, <1>3, <1>5, <2>1, CallerMoves DEF Held, Subscribing, Restoring
<1>6. CASE UNCHANGED <<at, why, on>>
    BY <1>1, <1>2, <1>3, <1>6, CallerMoves DEF SamePlace, Held, Subscribing, Restoring
<1>7. CASE lockAndReturn(a) \/ commitLost(a) \/ destructor(a)
    BY <1>4, <1>7 DEF lockAndReturn, commitLost, destructor
<1>8. CASE startSubscription(a) \/ getMessage(a)
    BY <1>5, <1>8 DEF startSubscription, getMessage
<1>9. CASE stopSubscription(a)
    BY <1>5, <1>9 DEF stopSubscription
<1>10. CASE UseDeleted(a)
    BY <1>6, <1>10 DEF UseDeleted
<1> QED
    BY <1>7, <1>8, <1>9, <1>10 DEF Acquire

(***************************************************************************)
(* A holder is a caller, or the watchdog that restores what it checks.     *)
(***************************************************************************)
Restorer(a) ==
    /\ a = Watchdog /\ a \notin code
    /\ checking \in Queues /\ on[a] = checking
    /\ at[a] \in Restoring /\ why[a] = "restore"

LEMMA HolderIs ==
    ASSUME Types, Controls, NEW a \in Actors, at[a] \in Held
    PROVE  /\ on[a] \in Queues
           /\ a \in Users \cup code \/ Restorer(a)
<1> USE DEF Held, Subscribing, Restoring, Reporting, Notifying
<1>1. on[a] \in Queues
    BY DEF Controls, Control
<1>2. a = Dispatcher => a \in code
    BY DEF Controls, Control
<1>3. a = Listener => a \in code
    BY DEF Controls, ListenerControl, Types, ClientTypes
<1>4. a = Watchdog /\ a \notin code => Restorer(a)
    BY DEF Controls, WatchdogControl, Restorer, Types, ThreadTypes
<1> QED
    BY <1>1, <1>2, <1>3, <1>4 DEF Actors

LEMMA HeldPlaces ==
    ASSUME NEW a \in Actors, Holding(a)
    PROVE  /\ at[a] \in Held
           /\ UNCHANGED <<code, listener, note>>
BY DEF Holding, subscribe, addToWatchdog, addFailed, subscribed, unsubscribe, unregister,
       dequeued, reconnectUnlocked, restoreConnection, resubscribe, giveUp, clientVars,
       Held, Subscribing, Restoring

LEMMA CallerHolds ==
    ASSUME Types, Types', Controls, NEW a \in Actors, a \in Users \cup code, Holding(a)
    PROVE  Controls'
<1>1. at[a] \in Held /\ on[a] \in Queues /\ UNCHANGED <<code, listener, note>>
    BY HeldPlaces, HolderIs
<1>2. a = Watchdog => a \in code
    BY ActorsAssumption
<1>3. UNCHANGED checking
    BY <1>2
       DEF Holding, subscribe, addToWatchdog, addFailed, subscribed, unsubscribe, unregister,
           dequeued, reconnectUnlocked, restoreConnection, resubscribe, giveUp
<1>4. CASE Return(a)
  <2>1. at'[a] = "idle" /\ \A b \in Actors \ {a} : SamePlace(b)
    BY <1>4 DEF Types, ThreadTypes, Return, SamePlace
  <2> QED
    BY <1>1, <1>3, <2>1, CallerMoves DEF Held, Subscribing, Restoring
<1>5. ASSUME NEW l \in Held, Goto(a, l),
             l \in Subscribing \cup {"dequeue", "redequeue"} => why[a] # "restore"
      PROVE  Controls'
  <2>1. at'[a] = l /\ UNCHANGED <<why, on>> /\ \A b \in Actors \ {a} : SamePlace(b)
    BY <1>5 DEF Types, ThreadTypes, Goto, SamePlace
  <2> QED
    BY <1>1, <1>3, <1>5, <2>1, CallerMoves
<1>6. ASSUME NEW l \in Held, NEW w \in Reasons,
             at' = [at EXCEPT ![a] = l], why' = [why EXCEPT ![a] = w], UNCHANGED on,
             l \in Subscribing \cup {"dequeue", "redequeue"} => w # "restore"
      PROVE  Controls'
  <2>1. at'[a] = l /\ why'[a] = w /\ \A b \in Actors \ {a} : SamePlace(b)
    BY <1>6 DEF Types, ThreadTypes, SamePlace
  <2> QED
    BY <1>1, <1>3, <1>6, <2>1, CallerMoves
<1> USE DEF Held, Subscribing, Restoring
<1>7. at[a] \in {"subscribe", "add", "addFailed", "added", "dequeue", "redequeue"} => why[a] # "restore"
    BY DEF Controls, Control
<1>8. CASE subscribe(a) \/ addToWatchdog(a) \/ addFailed(a) \/ subscribed(a)
    BY <1>4, <1>5, <1>7, <1>8 DEF subscribe, addToWatchdog, addFailed, subscribed
<1>9. CASE unsubscribe(a) \/ unregister(a) \/ dequeued(a)
    BY <1>4, <1>5, <1>9 DEF unsubscribe, unregister, dequeued
<1>10. CASE reconnectUnlocked(a)
    BY <1>4, <1>5, <1>6, <1>7, <1>10 DEF reconnectUnlocked, Reasons
<1>11. CASE restoreConnection(a)
    BY <1>5, <1>11 DEF restoreConnection
<1>12. CASE resubscribe(a)
    BY <1>2, <1>5, <1>6, <1>12 DEF resubscribe, Reasons, AllMethods
<1>13. CASE giveUp(a)
    BY <1>2, <1>4, <1>13 DEF giveUp
<1> QED
    BY <1>8, <1>9, <1>10, <1>11, <1>12, <1>13 DEF Holding

LEMMA RestorerHolds ==
    ASSUME Types, Types', Controls, NEW a \in Actors, Restorer(a), Holding(a)
    PROVE  Controls'
<1>1. at[a] \in Held /\ on[a] \in Queues /\ UNCHANGED <<code, listener, note>>
    BY HeldPlaces, HolderIs
<1>2. /\ a = Watchdog /\ a \notin code
      /\ checking \in Queues /\ on[a] = checking
      /\ at[a] \in Restoring /\ why[a] = "restore"
      /\ checking # Nobody
    BY ActorsAssumption DEF Restorer
<1>3. \A b \in {Dispatcher, Listener} \cup Users : b # a
    BY <1>2, ActorsAssumption
<1>4. ASSUME NEW l \in {"unregister", "resubscribe", "giveUp", "report"}, Goto(a, l),
             UNCHANGED checking
      PROVE  Controls'
  <2>1. at'[a] = l /\ UNCHANGED <<why, on>> /\ \A b \in Actors \ {a} : SamePlace(b)
    BY <1>4 DEF Types, ThreadTypes, Goto, SamePlace
  <2> USE <1>1, <1>2, <1>3, <1>4, <2>1
      DEF SamePlace, Held, Subscribing, Restoring, Reporting, Notifying
  <2>2. Control' /\ WatchdogControl'
    BY DEF Controls, Control, WatchdogControl, Actors
  <2>3. ListenerControl'
    BY DEF Controls, ListenerControl, Actors
  <2> QED
    BY <2>2, <2>3 DEF Controls
<1>5. CASE Return(a) /\ checking' = Nobody
  <2>1. at'[a] = "idle" /\ \A b \in Actors \ {a} : SamePlace(b)
    BY <1>5 DEF Types, ThreadTypes, Return, SamePlace
  <2> USE <1>1, <1>2, <1>3, <1>5, <2>1
      DEF SamePlace, Held, Subscribing, Restoring, Reporting, Notifying
  <2>2. Control' /\ WatchdogControl'
    BY DEF Controls, Control, WatchdogControl, Actors
  <2>3. ListenerControl'
    BY DEF Controls, ListenerControl, Actors
  <2> QED
    BY <2>2, <2>3 DEF Controls
<1>6. CASE unsubscribe(a)
    BY <1>4, <1>6 DEF unsubscribe
<1>7. CASE restoreConnection(a)
    BY <1>4, <1>7 DEF restoreConnection
<1>8. CASE resubscribe(a)
    BY <1>2, <1>4, <1>5, <1>8 DEF resubscribe
<1>9. CASE giveUp(a)
    BY <1>2, <1>4, <1>9 DEF giveUp
<1> QED
    BY <1>2, <1>6, <1>7, <1>8, <1>9
       DEF Holding, Restoring, subscribe, addToWatchdog, addFailed, subscribed, unregister,
           dequeued, reconnectUnlocked

LEMMA WatchdogControls ==
    ASSUME Types, Types', Controls, WatchdogStep
    PROVE  Controls'
<1> USE ActorsAssumption
    DEF Types, ThreadTypes, ClientTypes, Actors,
        Held, Subscribing, Restoring, Reporting, Notifying
<1>1. CASE report
    BY <1>1 DEF report, Goto, Controls, Control, WatchdogControl, ListenerControl, clientVars
<1>2. CASE reported
    BY <1>2 DEF reported, Return, Controls, Control, WatchdogControl, ListenerControl, clientVars
<1>3. CASE reportHere
    BY <1>3 DEF reportHere, notifySubscriptionLost, Return, Controls, Control,
                WatchdogControl, ListenerControl, clientVars
<1>4. ASSUME NEW q \in Queues, checkSubscription(q)
      PROVE  Controls'
    BY <1>4 DEF checkSubscription, Checks, Controls, Control, WatchdogControl,
                ListenerControl, clientVars
<1>5. ASSUME NEW q \in Queues, checkSubscriptionReturns(q) \/ checkDeleted(q)
      PROVE  Controls'
    BY <1>5 DEF checkSubscriptionReturns, checkDeleted, threadVars, clientVars,
                Controls, Control, WatchdogControl, ListenerControl
<1> QED
    BY <1>1, <1>2, <1>3, <1>4, <1>5 DEF WatchdogStep

LEMMA ListenerControls ==
    ASSUME Types, Types', Controls, ListenerStep
    PROVE  Controls'
<1> USE ActorsAssumption
    DEF Types, ThreadTypes, ClientTypes, Actors,
        Held, Subscribing, Restoring, Reporting, Notifying
<1>1. CASE postNotification
    BY <1>1 DEF postNotification, Goto, Controls, Control, WatchdogControl, ListenerControl, clientVars
<1>2. CASE ListenerReturns
    BY <1>2 DEF ListenerReturns, Return, Controls, Control, WatchdogControl, ListenerControl
<1>3. CASE deliverHere
    BY <1>3 DEF deliverHere, deliverAsyncMessage, Goto, Controls, Control,
                WatchdogControl, ListenerControl, clientVars
<1>4. CASE onAsyncMessage(Listener)
    BY <1>4 DEF onAsyncMessage, Return, Controls, Control,
                WatchdogControl, ListenerControl, clientVars
<1> QED
    BY <1>1, <1>2, <1>3, <1>4 DEF ListenerStep

LEMMA DispatchControls ==
    ASSUME Types, Types', Controls, DispatchStep
    PROVE  Controls'
<1> USE ActorsAssumption
    DEF Types, ThreadTypes, ClientTypes, Actors,
        Held, Subscribing, Restoring, Reporting, Notifying
<1>1. ASSUME NEW t \in DThreads, DispatchLost(t)
      PROVE  Controls'
  <2>1. /\ code' = code \cup {Dispatcher} /\ UNCHANGED <<at, why, on, checking, note, listener>>
        /\ at[Dispatcher] = "idle"
    BY <1>1 DEF DispatchLost, Makes, notifySubscriptionLost, clientVars
  <2> QED
    BY <2>1 DEF Controls, Control, WatchdogControl, ListenerControl
<1>3. ASSUME NEW t \in DThreads, DispatchAsync(t)
      PROVE  Controls'
  <2>1. /\ Dispatcher \notin code /\ Goto(Dispatcher, "deliver")
        /\ UNCHANGED <<code, checking, note, listener>>
    BY <1>3 DEF DispatchAsync, Makes, deliverAsyncMessage, clientVars
  <2> QED
    BY <2>1 DEF Goto, Controls, Control, WatchdogControl, ListenerControl
<1>4. CASE onAsyncMessage(Dispatcher)
    BY <1>4 DEF onAsyncMessage, Return, Controls, Control,
                WatchdogControl, ListenerControl, clientVars
<1>2. ASSUME NEW t \in DThreads, DispatchNothing(t)
      PROVE  Controls'
    BY <1>2 DEF DispatchNothing, threadVars, clientVars,
                Controls, Control, WatchdogControl, ListenerControl
<1> QED
    BY <1>1, <1>2, <1>3, <1>4 DEF DispatchStep

LEMMA OutsideControls ==
    ASSUME Types, Types', Controls, Outside
    PROVE  Controls'
<1> USE ActorsAssumption
    DEF Types, ThreadTypes, ClientTypes, Actors,
        Held, Subscribing, Restoring, Reporting, Notifying
<1>1. ASSUME NEW a \in Actors, NEW m \in Methods, NEW q \in Queues, Call(a, m, q)
      PROVE  Controls'
  <2>1. /\ at[a] = "idle" /\ a \in Users \cup code
        /\ at'[a] = "lock" /\ on'[a] = q
        /\ \A b \in Actors \ {a} : SamePlace(b)
        /\ UNCHANGED <<code, checking, listener, note>>
    BY <1>1 DEF Call, SamePlace, clientVars
  <2> QED
    BY <2>1, CallerMoves
<1>2. ASSUME NEW a \in Actors, CallbackReturns(a)
      PROVE  Controls'
  <2> /\ UNCHANGED <<at, why, on>> /\ at[a] = "idle"
      /\ code' = code \ {a}
    BY <1>2 DEF CallbackReturns
  <2>1. CASE a = Dispatcher /\ UNCHANGED <<checking, note, listener>>
    BY <2>1 DEF Controls, Control, WatchdogControl, ListenerControl
  <2>2. CASE a = Watchdog /\ checking' = Nobody /\ UNCHANGED <<note, listener>>
    BY <2>2 DEF Controls, Control, WatchdogControl, ListenerControl
  <2>3. CASE a = Listener /\ listener' = Nobody /\ UNCHANGED checking
    BY <2>3 DEF Controls, Control, WatchdogControl, ListenerControl
  <2> QED
    BY <1>2, <2>1, <2>2, <2>3 DEF CallbackReturns
<1>3. ASSUME NEW q \in Queues, postAsyncMessage(q)
      PROVE  Controls'
  <2>1. CASE UNCHANGED <<listener, note, at>>
    BY <1>3, <2>1 DEF postAsyncMessage, Controls, Control, WatchdogControl, ListenerControl
  <2>2. CASE /\ sub[q] # 0
             /\ listener' = Listener
             /\ note' = <<q, sub[q]>>
             /\ at' = [at EXCEPT ![Listener] = "post"]
    <3>1. note' \in Queues \X (1..MaxSubs)
      BY <2>2, BoundsAssumption DEF QueueTypes
    <3> QED
      BY <1>3, <2>2, <3>1
         DEF postAsyncMessage, Controls, Control, WatchdogControl, ListenerControl
  <2> QED
    BY <1>3, <2>1, <2>2 DEF postAsyncMessage
<1>4. ASSUME NEW q \in Queues, ConnectionLost(q)
      PROVE  Controls'
    BY <1>4 DEF ConnectionLost, threadVars, Controls, Control, WatchdogControl, ListenerControl
<1> QED
    BY <1>1, <1>2, <1>3, <1>4 DEF Outside

LEMMA ControlsStep == Types /\ Types' /\ Controls /\ [Step]_vars => Controls'
<1> SUFFICES ASSUME Types, Types', Controls, [Step]_vars PROVE Controls'
    OBVIOUS
<1>1. CASE Managers
    BY <1>1, ManagersLeave
       DEF Controls, Control, WatchdogControl, ListenerControl, clientVars, threadVars
<1>2. CASE UNCHANGED vars
    BY <1>2
       DEF Controls, Control, WatchdogControl, ListenerControl, vars, clientVars, threadVars
<1>3. ASSUME NEW a \in Actors, Holding(a) PROVE Controls'
    BY <1>3, HeldPlaces, HolderIs, CallerHolds, RestorerHolds
<1> QED
    BY <1>1, <1>2, <1>3, StepKinds, AcquireControls, WatchdogControls, ListenerControls,
       DispatchControls, OutsideControls

-----------------------------------------------------------------------------
(***************************************************************************)
(* The locks, and what their holders keep.  A step of a method changes the *)
(* subscription of its own queue only.                                     *)
(***************************************************************************)
SameQueue(q) ==
    /\ valid'[q] = valid[q] /\ conn'[q] = conn[q]
    /\ hasSub'[q] = hasSub[q] /\ sub'[q] = sub[q]
    /\ registered'[q] = registered[q] /\ callback'[q] = callback[q]
    /\ q \in objects' <=> q \in objects

LEMMA OwnQueueOnly ==
    ASSUME Types, Types', Locks, Stages,
           NEW a \in Actors, NEW q \in Queues,
           lock[q] \in {Nobody, a}, \A r \in Queues \ {q} : lock[r] # a,
           \A b \in Actors \ {a} : SamePlace(b),
           \A r \in Queues \ {q} : lock'[r] = lock[r] /\ SameQueue(r),
           \/ lock'[q] = a /\ on'[a] = q /\ at'[a] \in Held /\ Stage(a, q)'
           \/ lock'[q] = Nobody /\ at'[a] \notin Held /\ Whole(q)'
    PROVE  Locks' /\ Stages'
<1> USE ActorsAssumption DEF Types, QueueTypes, ThreadTypes
<1>1. a # Nobody
    BY DEF Actors
<1>2. Locks'
  <2> SUFFICES ASSUME NEW r \in Queues, NEW b \in Actors
               PROVE  lock'[r] = b <=> on'[b] = r /\ at'[b] \in Held
    BY DEF Locks
  <2>1. CASE b = a /\ r = q
    BY <1>1, <2>1
  <2>2. CASE b = a /\ r # q
    BY <1>1, <2>2
  <2>3. CASE b # a /\ r # q
    BY <2>3 DEF Locks, SamePlace
  <2>4. CASE b # a /\ r = q
    <3>1. lock[q] # b /\ lock'[q] # b
      BY <2>4 DEF Actors
    <3> QED
      BY <2>4, <3>1 DEF Locks, SamePlace
  <2> QED
    BY <2>1, <2>2, <2>3, <2>4
<1>3. Stages'
  <2> SUFFICES ASSUME NEW r \in Queues
               PROVE  (IF lock[r] = Nobody THEN Whole(r) ELSE Stage(lock[r], r))'
    BY DEF Stages
  <2>1. CASE r = q
    BY <1>1, <2>1 DEF Stage
  <2>2. CASE r # q /\ lock[r] = Nobody
    BY <2>2 DEF Stages, Whole, SameQueue
  <2>3. CASE r # q /\ lock[r] # Nobody
    <3>1. PICK b \in Actors : b = lock[r] /\ b # a
      BY <2>3
    <3>2. lock'[r] = b /\ SameQueue(r) /\ SamePlace(b)
      BY <2>3, <3>1
    <3>3. Stage(b, r)
      BY <2>3, <3>1 DEF Stages
    <3>4. Stage(b, r)'
      BY <3>2, <3>3 DEF Stage, Whole, SameQueue, SamePlace
    <3> QED
      BY <2>3, <3>2, <3>4, <3>1 DEF Stage
  <2> QED
    BY <2>1, <2>2, <2>3
<1> QED
    BY <1>2, <1>3

(***************************************************************************)
(* A step that leaves the locks and the subscriptions alone.               *)
(***************************************************************************)
LEMMA NoQueueChanged ==
    ASSUME Types, Types', Locks, Stages, UNCHANGED lock,
           \A r \in Queues : SameQueue(r),
           \A b \in Actors : SamePlace(b) \/ (at[b] \notin Held /\ at'[b] \notin Held)
    PROVE  Locks' /\ Stages'
<1> USE ActorsAssumption DEF Types, QueueTypes, ThreadTypes
<1>1. Locks'
    BY DEF Locks, SamePlace
<1>2. Stages'
  <2> SUFFICES ASSUME NEW r \in Queues
               PROVE  (IF lock[r] = Nobody THEN Whole(r) ELSE Stage(lock[r], r))'
    BY DEF Stages
  <2>1. CASE lock[r] = Nobody
    BY <2>1 DEF Stages, Whole, SameQueue
  <2>2. CASE lock[r] # Nobody
    <3>1. PICK b \in Actors : b = lock[r]
      BY <2>2
    <3>2. at[b] \in Held /\ SamePlace(b) /\ Stage(b, r)
      BY <2>2, <3>1 DEF Locks, Stages
    <3>3. Stage(b, r)'
      BY <3>2 DEF Stage, Whole, SameQueue, SamePlace
    <3> QED
      BY <2>2, <3>1, <3>3 DEF Stage
  <2> QED
    BY <2>1, <2>2
<1> QED
    BY <1>1, <1>2

LEMMA AcquireLocks ==
    ASSUME Types, Types', Controls, Locks, Stages, NEW a \in Actors, Acquire(a)
    PROVE  Locks' /\ Stages'
<1>1. at[a] = "lock"
    BY DEF Acquire, lockAndReturn, startSubscription, stopSubscription,
           destructor, getMessage, commitLost, UseDeleted
<1>2. PICK q \in Queues : q = on[a]
    BY <1>1 DEF Controls, Control
<1>3. \A r \in Queues : lock[r] # a
    BY <1>1 DEF Locks, Held, Subscribing, Restoring
<1>4. lock[q] = Nobody
    BY <1>2 DEF Acquire, lockAndReturn, startSubscription, stopSubscription,
                destructor, getMessage, commitLost, UseDeleted
<1>5. Whole(q)
    BY <1>2, <1>4 DEF Stages
<1>6. a # Nobody
    BY ActorsAssumption
<1> USE DEF Types, QueueTypes, ClientTypes, ThreadTypes
<1>7. ASSUME Return(a), UNCHANGED <<lock, hasSub, sub, registered, callback, objects>>,
             \A r \in Queues \ {q} : valid'[r] = valid[r] /\ conn'[r] = conn[r],
             Whole(q)'
      PROVE  Locks' /\ Stages'
  <2>1. /\ at'[a] = "idle" /\ \A b \in Actors \ {a} : SamePlace(b)
        /\ \A r \in Queues \ {q} : lock'[r] = lock[r] /\ SameQueue(r)
        /\ lock'[q] = Nobody /\ at'[a] \notin Held
    BY <1>4, <1>7 DEF Return, SamePlace, SameQueue, Held, Subscribing, Restoring
  <2> QED
    BY <1>2, <1>3, <1>4, <1>7, <2>1, OwnQueueOnly
<1>8. ASSUME NEW l \in Held, Goto(a, l), lock' = [lock EXCEPT ![q] = a],
             \A r \in Queues \ {q} : SameQueue(r),
             Stage(a, q)'
      PROVE  Locks' /\ Stages'
  <2>1. /\ at'[a] = l /\ on'[a] = q /\ \A b \in Actors \ {a} : SamePlace(b)
        /\ \A r \in Queues \ {q} : lock'[r] = lock[r]
        /\ lock'[q] = a
    BY <1>2, <1>8 DEF Goto, SamePlace
  <2> QED
    BY <1>2, <1>3, <1>4, <1>8, <2>1, OwnQueueOnly
<1>9. CASE lockAndReturn(a)
  <2>1. /\ Return(a) /\ UNCHANGED <<lock, hasSub, sub, registered, callback, objects>>
        /\ \/ UNCHANGED <<conn, valid>>
           \/ conn[q] = "none" /\ \E r \in Outcomes : connectUnlocked(q, r)
    BY <1>2, <1>9 DEF lockAndReturn, wVars
  <2>2. Whole(q)' /\ \A r \in Queues \ {q} : valid'[r] = valid[r] /\ conn'[r] = conn[r]
    BY <1>2, <1>5, <2>1 DEF Whole, connectUnlocked
  <2> QED
    BY <1>7, <2>1, <2>2
<1>10. CASE commitLost(a)
  <2>1. /\ Return(a) /\ UNCHANGED <<lock, hasSub, sub, registered, callback, objects, valid>>
        /\ conn' = [conn EXCEPT ![q] = "dangling"]
    BY <1>2, <1>10 DEF commitLost, wVars, clientVars
  <2> QED
    BY <1>2, <1>5, <1>7, <2>1 DEF Whole
<1>11. CASE destructor(a)
  <2>1. /\ Return(a) /\ UNCHANGED <<lock, hasSub, sub, registered, callback, objects>>
        /\ ~hasSub[q]
        /\ conn' = [conn EXCEPT ![q] = "none"]
        /\ valid' = [valid EXCEPT ![q] = FALSE]
    BY <1>2, <1>11 DEF destructor, wVars, clientVars
  <2> QED
    BY <1>2, <1>5, <1>7, <2>1 DEF Whole
<1>12. CASE UseDeleted(a)
  <2>1. /\ UNCHANGED lock
        /\ \A r \in Queues : SameQueue(r)
        /\ \A b \in Actors : SamePlace(b)
    BY <1>12 DEF UseDeleted, queueVars, clientVars, wVars, SamePlace, SameQueue
  <2> HIDE DEF Types
  <2> QED
    BY <2>1, NoQueueChanged
<1>13. CASE startSubscription(a)
  <2>1. /\ Goto(a, "subscribe") /\ lock' = [lock EXCEPT ![q] = a]
        /\ sub' = [sub EXCEPT ![q] = last + 1]
        /\ callback' = [callback EXCEPT ![q] = TRUE]
        /\ ~hasSub[q] /\ valid[q] /\ why[a] = "startSubscription"
        /\ UNCHANGED <<hasSub, registered, objects>>
    BY <1>2, <1>13 DEF startSubscription, checkValidUnlocked, wVars
  <2>2. /\ valid'[q] /\ conn'[q] = "open"
        /\ \A r \in Queues \ {q} : valid'[r] = valid[r] /\ conn'[r] = conn[r]
    BY <1>2, <1>13 DEF startSubscription, checkValidUnlocked, connectUnlocked
  <2>3. sub'[q] # 0
    BY <1>2, <2>1, BoundsAssumption
  <2>4. \A r \in Queues \ {q} : SameQueue(r)
    BY <1>2, <2>1, <2>2 DEF SameQueue
  <2>5. Stage(a, q)'
    BY <1>2, <1>5, <2>1, <2>2, <2>3
       DEF Stage, Whole, Goto, Subscribing, Restoring
  <2> QED
    BY <1>8, <2>1, <2>4, <2>5 DEF Held, Subscribing
<1>14. CASE getMessage(a)
  <2>1. /\ Goto(a, "dequeue") /\ lock' = [lock EXCEPT ![q] = a] /\ valid[q]
        /\ conn[q] = "none" \/ conn[q] = "open"
        /\ UNCHANGED <<hasSub, sub, callback, registered, objects>>
    BY <1>2, <1>14 DEF getMessage, checkValidUnlocked, wVars
  <2>2. /\ valid'[q] /\ conn'[q] = "open"
        /\ \A r \in Queues \ {q} : valid'[r] = valid[r] /\ conn'[r] = conn[r]
    BY <1>2, <1>14 DEF getMessage, checkValidUnlocked, connectUnlocked
  <2>4. \A r \in Queues \ {q} : SameQueue(r)
    BY <1>2, <2>1, <2>2 DEF SameQueue
  <2>5. Stage(a, q)'
    BY <1>2, <1>5, <2>1, <2>2 DEF Stage, Whole, Goto, Subscribing, Restoring
  <2> QED
    BY <1>8, <2>1, <2>4, <2>5 DEF Held
<1>15. CASE stopSubscription(a)
  <2>1. /\ Goto(a, "unsubscribe") /\ lock' = [lock EXCEPT ![q] = a]
        /\ sub' = [sub EXCEPT ![q] = 0] /\ objects' = objects \ {q}
        /\ why[a] # "restore" /\ hasSub[q] /\ conn[q] # "dangling"
        /\ UNCHANGED <<valid, conn, hasSub, callback, registered>>
    BY <1>2, <1>15 DEF stopSubscription, W!remove, clientVars
  <2>4. \A r \in Queues \ {q} : SameQueue(r)
    BY <1>2, <2>1 DEF SameQueue
  <2>5. Stage(a, q)'
    BY <1>2, <1>5, <2>1 DEF Stage, Whole, Goto, Subscribing, Restoring
  <2> QED
    BY <1>8, <2>1, <2>4, <2>5 DEF Held, Restoring
<1> QED
    BY <1>9, <1>10, <1>11, <1>12, <1>13, <1>14, <1>15 DEF Acquire

LEMMA HoldingLocks ==
    ASSUME Types, Types', Controls, Locks, Stages, NEW a \in Actors, Holding(a)
    PROVE  Locks' /\ Stages'
<1>1. at[a] \in Held
    BY HeldPlaces
<1>2. PICK q \in Queues : q = on[a]
    BY <1>1, HolderIs
<1>3. lock[q] = a /\ \A r \in Queues \ {q} : lock[r] # a
    BY <1>1, <1>2 DEF Locks
<1>4. Stage(a, q)
    BY <1>3, ActorsAssumption DEF Stages
<1> USE DEF Types, QueueTypes, ClientTypes, ThreadTypes
<1>5. ASSUME Return(a), Unlock(q), \A r \in Queues \ {q} : SameQueue(r), Whole(q)'
      PROVE  Locks' /\ Stages'
  <2>1. /\ at'[a] = "idle" /\ \A b \in Actors \ {a} : SamePlace(b)
        /\ \A r \in Queues \ {q} : lock'[r] = lock[r]
        /\ lock'[q] = Nobody /\ at'[a] \notin Held
    BY <1>5 DEF Return, Unlock, SamePlace, Held, Subscribing, Restoring
  <2> HIDE DEF Types
  <2> QED
    BY <1>3, <1>5, <2>1, OwnQueueOnly
<1>6. ASSUME NEW l \in Held, Goto(a, l), UNCHANGED lock,
             \A r \in Queues \ {q} : SameQueue(r), Stage(a, q)'
      PROVE  Locks' /\ Stages'
  <2>1. /\ at'[a] = l /\ on'[a] = q /\ \A b \in Actors \ {a} : SamePlace(b)
    BY <1>2, <1>6 DEF Goto, SamePlace
  <2> HIDE DEF Types
  <2> QED
    BY <1>3, <1>6, <2>1, OwnQueueOnly
<1>7. ASSUME NEW l \in Held, NEW w \in Reasons, UNCHANGED <<on, lock>>,
             at' = [at EXCEPT ![a] = l], why' = [why EXCEPT ![a] = w],
             \A r \in Queues \ {q} : SameQueue(r), Stage(a, q)'
      PROVE  Locks' /\ Stages'
  <2>1. /\ at'[a] = l /\ on'[a] = q /\ \A b \in Actors \ {a} : SamePlace(b)
    BY <1>2, <1>7 DEF SamePlace
  <2> HIDE DEF Types
  <2> QED
    BY <1>3, <1>7, <2>1, OwnQueueOnly
<1>8. CASE subscribe(a)
  <2>1. CASE /\ registered' = [registered EXCEPT ![q] = TRUE]
             /\ hasSub' = [hasSub EXCEPT ![q] = TRUE]
             /\ Goto(a, "add")
             /\ UNCHANGED <<sub, lock, callback>>
    <3>1. UNCHANGED <<valid, conn, objects>> /\ at[a] = "subscribe"
      BY <1>8 DEF subscribe, wVars
    <3>2. \A r \in Queues \ {q} : SameQueue(r)
      BY <2>1, <3>1 DEF SameQueue
    <3>3. Stage(a, q)'
      BY <1>4, <2>1, <3>1 DEF Stage, Goto, Subscribing, Restoring
    <3> QED
      BY <1>6, <2>1, <3>2, <3>3 DEF Held, Subscribing
  <2>2. CASE /\ callback' = [callback EXCEPT ![q] = FALSE]
             /\ sub' = [sub EXCEPT ![q] = 0]
             /\ Unlock(q)
             /\ Return(a)
             /\ UNCHANGED <<registered, hasSub>>
    <3>1. UNCHANGED <<valid, conn, objects>> /\ at[a] = "subscribe"
      BY <1>8 DEF subscribe, wVars
    <3>2. \A r \in Queues \ {q} : SameQueue(r)
      BY <2>2, <3>1 DEF SameQueue
    <3>3. Whole(q)'
      BY <1>4, <2>2, <3>1 DEF Stage, Whole, Subscribing
    <3> QED
      BY <1>5, <2>2, <3>2, <3>3
  <2> QED
    BY <1>2, <1>8, <2>1, <2>2 DEF subscribe, endSubscriptionUnlocked
<1>9. CASE addToWatchdog(a)
  <2>1. CASE W!add(q) /\ Goto(a, "added")
    <3>1. /\ UNCHANGED <<lock, valid, conn, hasSub, sub, callback, registered>>
          /\ at[a] = "add" /\ objects' = objects \cup {q}
      BY <1>9, <2>1 DEF addToWatchdog, queueVars, clientVars, W!add, W!addRunning, W!addStart
    <3>2. \A r \in Queues \ {q} : SameQueue(r)
      BY <3>1 DEF SameQueue
    <3>3. Stage(a, q)'
      BY <1>4, <2>1, <3>1 DEF Stage, Whole, Goto, Subscribing, Restoring
    <3> QED
      BY <1>6, <2>1, <3>1, <3>2, <3>3 DEF Held, Subscribing
  <2>2. CASE W!addFails(q) /\ Goto(a, "addFailed")
    <3>1. /\ UNCHANGED <<lock, valid, conn, hasSub, sub, callback, registered>>
          /\ at[a] = "add" /\ objects' = objects \ {q}
      BY <1>9, <2>2 DEF addToWatchdog, queueVars, clientVars, W!addFails
    <3>2. \A r \in Queues \ {q} : SameQueue(r)
      BY <3>1 DEF SameQueue
    <3>3. Stage(a, q)'
      BY <1>4, <2>2, <3>1 DEF Stage, Whole, Goto, Subscribing, Restoring
    <3> QED
      BY <1>6, <2>2, <3>1, <3>2, <3>3 DEF Held, Subscribing
  <2> QED
    BY <1>2, <1>9, <2>1, <2>2 DEF addToWatchdog
<1>10. CASE addFailed(a)
  <2>1. /\ UNCHANGED <<lock, valid, conn, hasSub, callback, registered, objects>>
        /\ at[a] = "addFailed" /\ sub' = [sub EXCEPT ![q] = 0]
        /\ Goto(a, "unsubscribe")
    BY <1>2, <1>10 DEF addFailed, clientVars, wVars
  <2>2. \A r \in Queues \ {q} : SameQueue(r)
    BY <2>1 DEF SameQueue
  <2>3. why[a] # "restore"
    BY <2>1 DEF Controls, Control, Subscribing
  <2>4. Stage(a, q)'
    BY <1>4, <2>1, <2>3 DEF Stage, Goto, Subscribing, Restoring
  <2> QED
    BY <1>6, <2>1, <2>2, <2>4 DEF Held, Restoring
<1>11. CASE subscribed(a)
  <2>1. /\ UNCHANGED <<valid, conn, hasSub, sub, callback, registered, objects>>
        /\ at[a] = "added" /\ Unlock(q) /\ Return(a)
    BY <1>2, <1>11 DEF subscribed, clientVars, wVars
  <2>2. Whole(q)' /\ \A r \in Queues \ {q} : SameQueue(r)
    BY <1>4, <2>1 DEF SameQueue, Stage, Whole
  <2> QED
    BY <1>5, <2>1, <2>2
<1>12. CASE unsubscribe(a)
  <2>1. /\ UNCHANGED <<lock, valid, conn, hasSub, sub, registered, objects>>
        /\ at[a] = "unsubscribe" /\ callback' = [callback EXCEPT ![q] = FALSE]
        /\ Goto(a, "unregister")
    BY <1>2, <1>12 DEF unsubscribe, queueVars, wVars
  <2>2. \A r \in Queues \ {q} : SameQueue(r)
    BY <2>1 DEF SameQueue
  <2>3. Stage(a, q)'
    BY <1>4, <2>1 DEF Stage, Goto, Subscribing, Restoring
  <2> QED
    BY <1>6, <2>1, <2>2, <2>3 DEF Held, Restoring
<1>13. CASE unregister(a)
  <2>1. /\ UNCHANGED <<sub, callback, objects>>
        /\ at[a] = "unregister" /\ why[a] # "restore"
        /\ registered' = [registered EXCEPT ![q] = FALSE]
        /\ hasSub' = [hasSub EXCEPT ![q] = FALSE]
        /\ \A r \in Queues \ {q} : valid'[r] = valid[r] /\ conn'[r] = conn[r]
        /\ Unlock(q) /\ Return(a)
    BY <1>2, <1>13 DEF unregister, wVars
  <2>2. \A r \in Queues \ {q} : SameQueue(r)
    BY <2>1 DEF SameQueue
  <2>3. Whole(q)'
    BY <1>4, <2>1 DEF Stage, Whole, Restoring
  <2> QED
    BY <1>5, <2>1, <2>2, <2>3
<1>14. CASE dequeued(a)
  <2>1. /\ UNCHANGED <<valid, conn, hasSub, sub, callback, registered, objects>>
        /\ at[a] \in {"dequeue", "redequeue"} /\ Unlock(q) /\ Return(a)
    BY <1>2, <1>14 DEF dequeued, clientVars, wVars
  <2>2. Whole(q)' /\ \A r \in Queues \ {q} : SameQueue(r)
    BY <1>4, <2>1 DEF SameQueue, Stage, Whole
  <2> QED
    BY <1>5, <2>1, <2>2
<1>15. CASE reconnectUnlocked(a)
  <2>0. /\ UNCHANGED <<hasSub, sub, callback, registered, objects>>
        /\ at[a] \in {"dequeue", "redequeue"}
    BY <1>15 DEF reconnectUnlocked, wVars
  <2>1. CASE /\ hasSub[q]
             /\ at' = [at EXCEPT ![a] = "unsubscribe"]
             /\ why' = [why EXCEPT ![a] = "restore"]
             /\ UNCHANGED <<on, conn, valid, lock>>
    <3>1. \A r \in Queues \ {q} : SameQueue(r)
      BY <2>0, <2>1 DEF SameQueue
    <3>2. Stage(a, q)'
      BY <1>4, <2>0, <2>1 DEF Stage, Whole, Subscribing, Restoring
    <3> QED
      BY <1>7, <2>1, <3>1, <3>2 DEF Held, Restoring, Reasons
  <2>2. ASSUME NEW o \in Outcomes, ~hasSub[q], connectUnlocked(q, o),
               IF o = "open" THEN Goto(a, "redequeue") /\ UNCHANGED lock
                             ELSE Unlock(q) /\ Return(a)
        PROVE  Locks' /\ Stages'
    <3>1. \A r \in Queues \ {q} : SameQueue(r)
      BY <2>0, <2>2 DEF SameQueue, connectUnlocked
    <3>2. CASE o = "open"
      <4>1. Stage(a, q)'
        BY <1>4, <2>0, <2>2, <3>2
           DEF Stage, Whole, Subscribing, Restoring, Goto, connectUnlocked
      <4> QED
        BY <1>6, <2>2, <3>1, <3>2, <4>1 DEF Held
    <3>3. CASE o # "open"
      <4>1. Whole(q)'
        BY <1>4, <2>0, <2>2 DEF Stage, Whole
      <4> QED
        BY <1>5, <2>2, <3>1, <3>3, <4>1
    <3> QED
      BY <3>2, <3>3
  <2> QED
    BY <1>2, <1>15, <2>1, <2>2 DEF reconnectUnlocked
<1>16. CASE restoreConnection(a)
  <2>0. /\ UNCHANGED <<lock, sub, objects>> /\ at[a] = "unregister" /\ why[a] = "restore"
        /\ registered' = [registered EXCEPT ![q] = FALSE]
        /\ hasSub' = [hasSub EXCEPT ![q] = FALSE]
    BY <1>2, <1>16 DEF restoreConnection, wVars
  <2>1. PICK o \in Outcomes :
          /\ connectUnlocked(q, o)
          /\ \/ /\ o = "open"
                /\ callback' = [callback EXCEPT ![q] = TRUE]
                /\ Goto(a, "resubscribe")
             \/ Goto(a, "giveUp") /\ UNCHANGED callback
    BY <1>2, <1>16 DEF restoreConnection
  <2>2. \A r \in Queues \ {q} : SameQueue(r)
    BY <2>0, <2>1 DEF SameQueue, connectUnlocked
  <2>3. CASE /\ o = "open"
             /\ callback' = [callback EXCEPT ![q] = TRUE]
             /\ Goto(a, "resubscribe")
    <3>1. Stage(a, q)'
      BY <1>4, <2>0, <2>1, <2>3 DEF Stage, Goto, connectUnlocked, Subscribing, Restoring
    <3> QED
      BY <1>6, <2>0, <2>2, <2>3, <3>1 DEF Held, Restoring
  <2>4. CASE Goto(a, "giveUp") /\ UNCHANGED callback
    <3>1. Stage(a, q)'
      BY <1>4, <2>0, <2>4 DEF Stage, Goto, Subscribing, Restoring
    <3> QED
      BY <1>6, <2>0, <2>2, <2>4, <3>1 DEF Held, Restoring
  <2> QED
    BY <2>1, <2>3, <2>4
<1>17. CASE resubscribe(a)
  <2>0. /\ UNCHANGED <<valid, conn, sub>> /\ at[a] = "resubscribe"
    BY <1>17 DEF resubscribe
  <2>1. UNCHANGED objects
    BY <1>17 DEF resubscribe, W!checked, wVars
  <2>2. CASE /\ registered' = [registered EXCEPT ![q] = TRUE]
             /\ hasSub' = [hasSub EXCEPT ![q] = TRUE]
             /\ \/ Unlock(q) /\ Return(a)
                \/ /\ at' = [at EXCEPT ![a] = "redequeue"]
                   /\ why' = [why EXCEPT ![a] = "getMessage"]
                   /\ UNCHANGED <<on, lock>>
             /\ UNCHANGED callback
    <3>1. \A r \in Queues \ {q} : SameQueue(r)
      BY <2>0, <2>1, <2>2 DEF SameQueue
    <3>2. Whole(q)'
      BY <1>4, <2>0, <2>1, <2>2 DEF Stage, Whole, Restoring
    <3>3. ASSUME at' = [at EXCEPT ![a] = "redequeue"]
          PROVE  Stage(a, q)'
      BY <1>4, <2>0, <2>1, <2>2, <3>2, <3>3 DEF Stage, Subscribing, Restoring
    <3> QED
      BY <1>5, <1>7, <2>2, <3>1, <3>2, <3>3 DEF Held, Reasons, AllMethods
  <2>3. CASE /\ callback' = [callback EXCEPT ![q] = FALSE]
             /\ Goto(a, "giveUp")
             /\ UNCHANGED <<registered, hasSub, lock>>
    <3>1. \A r \in Queues \ {q} : SameQueue(r)
      BY <2>0, <2>1, <2>3 DEF SameQueue
    <3>2. Stage(a, q)'
      BY <1>4, <2>0, <2>1, <2>3 DEF Stage, Goto, Subscribing, Restoring
    <3> QED
      BY <1>6, <2>3, <3>1, <3>2 DEF Held, Restoring
  <2> QED
    BY <1>2, <1>17, <2>2, <2>3 DEF resubscribe
<1>18. CASE giveUp(a)
  <2>1. /\ UNCHANGED <<valid, conn, hasSub, callback, registered>> /\ at[a] = "giveUp"
        /\ objects' = objects \ {q} /\ sub' = [sub EXCEPT ![q] = 0] /\ Unlock(q)
        /\ Goto(a, "report") \/ Return(a)
    BY <1>2, <1>18 DEF giveUp, W!remove, endSubscriptionUnlocked, clientVars
  <2>2. \A r \in Queues \ {q} : SameQueue(r)
    BY <2>1 DEF SameQueue
  <2>3. Whole(q)'
    BY <1>4, <2>1 DEF Stage, Whole, Restoring
  <2>4. CASE Goto(a, "report")
    <3>1. /\ at'[a] = "report" /\ \A b \in Actors \ {a} : SamePlace(b)
          /\ \A r \in Queues \ {q} : lock'[r] = lock[r]
          /\ lock'[q] = Nobody /\ at'[a] \notin Held
      BY <2>1, <2>4 DEF Goto, Unlock, SamePlace, Held, Subscribing, Restoring
    <3> HIDE DEF Types
    <3> QED
      BY <1>3, <2>2, <2>3, <3>1, OwnQueueOnly
  <2> QED
    BY <1>5, <2>1, <2>2, <2>3, <2>4
<1> QED
    BY <1>8, <1>9, <1>10, <1>11, <1>12, <1>13, <1>14, <1>15, <1>16, <1>17, <1>18 DEF Holding

LEMMA WatchdogLocks ==
    ASSUME Types, Types', Controls, Locks, Stages, WatchdogStep
    PROVE  Locks' /\ Stages'
<1> Watchdog \in Actors
    BY DEF Actors
<1>1. CASE report \/ reported \/ reportHere
  <2>1. /\ UNCHANGED <<lock, valid, conn, hasSub, sub, registered, callback, objects>>
        /\ at[Watchdog] \in Reporting /\ at'[Watchdog] \in Reporting \cup {"idle"}
        /\ \A b \in Actors \ {Watchdog} : SamePlace(b)
    BY <1>1 DEF report, reported, reportHere, notifySubscriptionLost, Goto, Return, Reporting,
                W!checked, queueVars, clientVars, wVars, SamePlace, Types, ThreadTypes
  <2>2. \A r \in Queues : SameQueue(r)
    BY <2>1 DEF SameQueue
  <2>3. at[Watchdog] \notin Held /\ at'[Watchdog] \notin Held
    BY <2>1 DEF Reporting, Held, Subscribing, Restoring
  <2> QED
    BY <2>1, <2>2, <2>3, NoQueueChanged
<1>2. ASSUME NEW q \in Queues, checkSubscriptionReturns(q) \/ checkDeleted(q)
      PROVE  Locks' /\ Stages'
  <2>1. /\ UNCHANGED lock
        /\ \A r \in Queues : SameQueue(r)
        /\ \A b \in Actors : SamePlace(b)
    BY <1>2 DEF checkSubscriptionReturns, checkDeleted, W!checked, queueVars, clientVars,
                threadVars, wVars, SamePlace, SameQueue
  <2> QED
    BY <2>1, NoQueueChanged
<1>3. ASSUME NEW q \in Queues, checkSubscription(q)
      PROVE  Locks' /\ Stages'
  <2>1. /\ UNCHANGED <<valid, conn, hasSub, sub, registered, callback, objects>>
        /\ lock[q] = Nobody /\ hasSub[q] /\ conn[q] = "open" /\ checking = Nobody
    BY <1>3 DEF checkSubscription, Checks, clientVars, wVars
  <2>2. at[Watchdog] = "idle"
    BY <2>1 DEF Controls, WatchdogControl
  <2>3. \A r \in Queues : lock[r] # Watchdog
    BY <2>2 DEF Locks, Held, Subscribing, Restoring
  <2>4. /\ \A b \in Actors \ {Watchdog} : SamePlace(b)
        /\ at'[Watchdog] = "unsubscribe" /\ on'[Watchdog] = q /\ why'[Watchdog] = "restore"
        /\ lock'[q] = Watchdog
        /\ \A r \in Queues \ {q} : lock'[r] = lock[r] /\ SameQueue(r)
    BY <1>3, <2>1 DEF checkSubscription, SamePlace, SameQueue, Types, QueueTypes, ThreadTypes
  <2>5. Whole(q)
    BY <2>1 DEF Stages
  <2>6. Stage(Watchdog, q)'
    BY <2>1, <2>4, <2>5 DEF Stage, Whole, Subscribing, Restoring
  <2> QED
    BY <2>1, <2>3, <2>4, <2>6, OwnQueueOnly DEF Held, Restoring
<1> QED
    BY <1>1, <1>2, <1>3 DEF WatchdogStep

LEMMA OtherLocks ==
    ASSUME Types, Types', Controls, Locks, Stages, ListenerStep \/ DispatchStep \/ Outside
    PROVE  Locks' /\ Stages'
<1>1. UNCHANGED <<lock, valid, conn, hasSub, sub, registered, callback>>
    BY DEF ListenerStep, DispatchStep, Outside, postNotification, ListenerReturns, deliverHere,
           onAsyncMessage, DispatchAsync, DispatchLost, DispatchNothing, Call, CallbackReturns,
           postAsyncMessage, ConnectionLost, notifySubscriptionLost, queueVars, clientVars
<1>2. UNCHANGED objects
    BY DEF ListenerStep, DispatchStep, Outside, postNotification, ListenerReturns, deliverHere,
           onAsyncMessage, DispatchAsync, DispatchLost, DispatchNothing, Call, CallbackReturns,
           postAsyncMessage, ConnectionLost, wVars, W!checked
<1>3. \A r \in Queues : SameQueue(r)
    BY <1>1, <1>2 DEF SameQueue
<1>4. \A b \in Actors : SamePlace(b) \/ (at[b] \notin Held /\ at'[b] \notin Held)
  <2> USE DEF Types, ThreadTypes, SamePlace, Held, Subscribing, Restoring
  <2>1. CASE ListenerStep
    BY <2>1 DEF ListenerStep, postNotification, ListenerReturns, deliverHere,
                deliverAsyncMessage, onAsyncMessage, Goto, Return
  <2>2. CASE DispatchStep
    BY <2>2 DEF DispatchStep, DispatchAsync, DispatchLost, DispatchNothing, threadVars,
                Makes, deliverAsyncMessage, onAsyncMessage, Goto, Return
  <2>3. ASSUME NEW a \in Actors, NEW m \in Methods, NEW q \in Queues, Call(a, m, q)
        PROVE  \A b \in Actors : SamePlace(b) \/ (at[b] \notin Held /\ at'[b] \notin Held)
    BY <2>3 DEF Call
  <2>4. ASSUME NEW q \in Queues, postAsyncMessage(q)
        PROVE  \A b \in Actors : SamePlace(b) \/ (at[b] \notin Held /\ at'[b] \notin Held)
    <3>1. at[Listener] = "idle" /\ Listener \in Actors
      BY <2>4 DEF postAsyncMessage, Controls, ListenerControl, Actors
    <3> QED
      BY <2>4, <3>1 DEF postAsyncMessage
  <2>5. ASSUME NEW a \in Actors, CallbackReturns(a)
        PROVE  \A b \in Actors : SamePlace(b) \/ (at[b] \notin Held /\ at'[b] \notin Held)
    BY <2>5 DEF CallbackReturns
  <2>6. ASSUME NEW q \in Queues, ConnectionLost(q)
        PROVE  \A b \in Actors : SamePlace(b) \/ (at[b] \notin Held /\ at'[b] \notin Held)
    BY <2>6 DEF ConnectionLost, threadVars
  <2> QED
    BY <2>1, <2>2, <2>3, <2>4, <2>5, <2>6 DEF Outside
<1> QED
    BY <1>1, <1>3, <1>4, NoQueueChanged

LEMMA LocksStep ==
    Types /\ Types' /\ Controls /\ Locks /\ Stages /\ [Step]_vars => Locks' /\ Stages'
<1> SUFFICES ASSUME Types, Types', Controls, Locks, Stages, [Step]_vars
             PROVE  Locks' /\ Stages'
    OBVIOUS
<1>1. CASE Managers \/ UNCHANGED vars
  <2>1. UNCHANGED <<queueVars, clientVars, threadVars, objects>>
    BY <1>1, ManagersLeave DEF vars, wVars
  <2>2. /\ UNCHANGED lock
        /\ \A r \in Queues : SameQueue(r)
        /\ \A b \in Actors : SamePlace(b)
    BY <2>1 DEF queueVars, clientVars, threadVars, SameQueue, SamePlace
  <2> QED
    BY <2>2, NoQueueChanged
<1> QED
    BY <1>1, StepKinds, AcquireLocks, HoldingLocks, WatchdogLocks, OtherLocks

LEMMA BaseInit == Init => Base
<1> SUFFICES ASSUME Init PROVE Base
    OBVIOUS
<1> USE ActorsAssumption, BoundsAssumption DEF Init
<1>1. Types
  <2>1. QueueTypes
    BY DEF QueueTypes
  <2>2. ClientTypes
    <3>1. listener \in {Nobody, Listener} /\ last \in 0..MaxSubs
      OBVIOUS
    <3>3. tid = FALSE
      OBVIOUS
    <3>2. /\ up \in [Queues -> BOOLEAN] /\ callback \in [Queues -> BOOLEAN]
          /\ registered \in [Queues -> BOOLEAN]
      OBVIOUS
    <3> QED
      BY <3>1, <3>2, <3>3 DEF ClientTypes
  <2>3. ThreadTypes
    BY DEF ThreadTypes, Places, Reasons
  <2> QED
    BY <2>1, <2>2, <2>3 DEF Types
<1>2. Controls
    BY DEF Controls, Control, WatchdogControl, ListenerControl, Actors,
           Held, Subscribing, Restoring, Reporting, Notifying
<1>3. Locks
    BY DEF Locks, Actors, Held, Subscribing, Restoring
<1>4. Stages
    BY DEF Stages, Whole, W!Init
<1> QED
    BY <1>1, <1>2, <1>3, <1>4 DEF Base

LEMMA BaseStep == Base /\ [Next]_vars => Base'
<1>1. [Next]_vars => [Step]_vars
    BY DEF Next
<1> QED
    BY <1>1, TypesStep, ControlsStep, LocksStep DEF Base

(***************************************************************************)
(* A subscription is complete or it is not there, whenever no thread works *)
(* on its queue: no path of startSubscription(), of the restore or of      *)
(* their failures leaves one part of it behind.                            *)
(***************************************************************************)
THEOREM SubscriptionsAreWhole == Spec => []SubscriptionConsistent
<1>1. Base => SubscriptionConsistent
    BY DEF Base, Types, QueueTypes, ClientTypes, Stages, Whole, SubscriptionConsistent
<1> QED
    BY BaseInit, BaseStep, <1>1, PTL DEF Spec

(***************************************************************************)
(* The client never calls back for a queue that was destroyed, not even    *)
(* while a thread is between two steps of a method.                        *)
(***************************************************************************)
THEOREM RegisteredLive == Spec => []RegisteredIsAlive
<1>1. ASSUME Base PROVE RegisteredIsAlive
  <2> SUFFICES ASSUME NEW q \in Queues, registered[q] PROVE valid[q]
    BY DEF RegisteredIsAlive
  <2>1. CASE lock[q] = Nobody
    BY <1>1, <2>1 DEF Base, Stages, Whole
  <2>2. CASE lock[q] # Nobody
    <3>1. PICK a \in Actors : a = lock[q]
      BY <1>1, <2>2 DEF Base, Types, QueueTypes
    <3> QED
      BY <1>1, <2>2, <3>1 DEF Base, Stages, Stage
  <2> QED
    BY <2>1, <2>2
<1> QED
    BY BaseInit, BaseStep, <1>1, PTL DEF Spec

-----------------------------------------------------------------------------
(***************************************************************************)
(* The holder of a lock stays where it is until its own next step.         *)
(***************************************************************************)
LEMMA HoldersStay ==
    ASSUME Base, [Step]_vars, NEW q \in Queues, NEW a \in Actors, lock[q] = a, ~Holding(a)
    PROVE  lock'[q] = a /\ SamePlace(a)
<1> USE DEF Base, Types, QueueTypes, ThreadTypes, SamePlace
<1>1. at[a] \in Held /\ on[a] = q /\ a # Nobody
    BY ActorsAssumption DEF Locks
<1>2. at[a] \notin {"idle", "lock", "deliver"} \cup Reporting \cup Notifying
    BY <1>1 DEF Held, Subscribing, Restoring, Reporting, Notifying
<1>3. ASSUME NEW b \in Actors, Acquire(b) PROVE lock'[q] = a /\ SamePlace(a)
  <2>1. at[b] = "lock" /\ lock[on[b]] = Nobody
    BY <1>3 DEF Acquire, lockAndReturn, startSubscription, stopSubscription,
                destructor, getMessage, commitLost, UseDeleted
  <2>2. \/ UNCHANGED lock
        \/ lock' = [lock EXCEPT ![on[b]] = b]
    BY <1>3 DEF Acquire, lockAndReturn, startSubscription, stopSubscription,
                destructor, getMessage, commitLost, UseDeleted, queueVars
  <2>3. Return(b) \/ (\E l \in Places : Goto(b, l)) \/ UNCHANGED <<at, why, on>>
    BY <1>3 DEF Acquire, lockAndReturn, startSubscription, stopSubscription,
                destructor, getMessage, commitLost, UseDeleted,
                Places, Held, Subscribing, Restoring
  <2> QED
    BY <1>1, <1>2, <2>1, <2>2, <2>3 DEF Return, Goto
<1>4. ASSUME NEW b \in Actors, Holding(b) PROVE lock'[q] = a /\ SamePlace(a)
  <2>1. b # a
    BY <1>4
  <2>2. on[b] \in Queues /\ lock[on[b]] = b
    BY <1>4, HeldPlaces, HolderIs DEF Locks
  <2>3. UNCHANGED lock \/ Unlock(on[b])
    BY <1>4
       DEF Holding, subscribe, addToWatchdog, addFailed, subscribed, unsubscribe, unregister,
           dequeued, reconnectUnlocked, restoreConnection, resubscribe, giveUp, queueVars
  <2>4. \/ Return(b)
        \/ \E l \in Places : Goto(b, l)
        \/ \E l \in Places, w \in Reasons :
              at' = [at EXCEPT ![b] = l] /\ why' = [why EXCEPT ![b] = w] /\ UNCHANGED on
    BY <1>4
       DEF Holding, subscribe, addToWatchdog, addFailed, subscribed, unsubscribe, unregister,
           dequeued, reconnectUnlocked, restoreConnection, resubscribe, giveUp,
           Places, Held, Subscribing, Restoring, Reporting, Reasons, AllMethods
  <2> QED
    BY <2>1, <2>2, <2>3, <2>4 DEF Return, Goto, Unlock
<1>5. CASE WatchdogStep
  <2>1. CASE report \/ reported \/ reportHere
    BY <1>2, <2>1 DEF report, reported, reportHere, Goto, Return, queueVars, Reporting
  <2>2. ASSUME NEW r \in Queues, checkSubscriptionReturns(r) \/ checkDeleted(r)
        PROVE  lock'[q] = a /\ SamePlace(a)
    BY <2>2 DEF checkSubscriptionReturns, checkDeleted, queueVars, threadVars
  <2>3. ASSUME NEW r \in Queues, checkSubscription(r)
        PROVE  lock'[q] = a /\ SamePlace(a)
    <3>1. at[Watchdog] = "idle" /\ lock[r] = Nobody
      BY <2>3 DEF checkSubscription, Checks, Controls, WatchdogControl
    <3> QED
      BY <1>1, <1>2, <2>3, <3>1 DEF checkSubscription
  <2> QED
    BY <1>5, <2>1, <2>2, <2>3 DEF WatchdogStep
<1>6. CASE ListenerStep \/ DispatchStep
    BY <1>2, <1>6
       DEF ListenerStep, DispatchStep, postNotification, ListenerReturns, deliverHere,
           DispatchAsync, DispatchLost, DispatchNothing, Goto, Return, queueVars, threadVars,
           Makes, deliverAsyncMessage, onAsyncMessage, Notifying
<1>7. CASE Outside
  <2>1. ASSUME NEW b \in Actors, NEW m \in Methods, NEW r \in Queues, Call(b, m, r)
        PROVE  lock'[q] = a /\ SamePlace(a)
    BY <1>2, <2>1 DEF Call, queueVars
  <2>2. ASSUME NEW b \in Actors, CallbackReturns(b)
        PROVE  lock'[q] = a /\ SamePlace(a)
    BY <2>2 DEF CallbackReturns, queueVars
  <2>3. ASSUME NEW r \in Queues, postAsyncMessage(r)
        PROVE  lock'[q] = a /\ SamePlace(a)
    <3>1. at[Listener] = "idle"
      BY <2>3 DEF postAsyncMessage, Controls, ListenerControl
    <3> QED
      BY <1>2, <2>3, <3>1 DEF postAsyncMessage, queueVars
  <2>4. ASSUME NEW r \in Queues, ConnectionLost(r)
        PROVE  lock'[q] = a /\ SamePlace(a)
    BY <2>4 DEF ConnectionLost, queueVars, threadVars
  <2> QED
    BY <1>7, <2>1, <2>2, <2>3, <2>4 DEF Outside
<1>8. CASE Managers
    BY <1>8, ManagersLeave DEF queueVars, threadVars
<1>9. CASE UNCHANGED vars
    BY <1>9 DEF vars, queueVars, threadVars
<1> QED
    BY <1>3, <1>4, <1>5, <1>6, <1>7, <1>8, <1>9, StepKinds

-----------------------------------------------------------------------------
(***************************************************************************)
(* The composition keeps to the protocol of the watchdog manager.          *)
(***************************************************************************)
LEMMA CheckerRuns ==
    ASSUME Base, Watched
    PROVE  /\ wRunning => wThread \in WThreads
           /\ checking # Nobody => /\ wThread \in WThreads
                                   /\ checking \in Queues
                                   /\ wpc[wThread] = "check"
                                   /\ checking \in snapshot[wThread]
BY DEF Watched, WP!WatchdogInv, WP!OneThreadInLoop, Base, Types, ThreadTypes

LEMMA Unjoined ==
    ASSUME Base, Watched, NEW q \in Queues,
           lock[q] = Nobody \/ at[lock[q]] \notin {"added", "addFailed"}
    PROVE  wJoining[q] = NoThread
BY DEF Watched

LEMMA CheckedIsStep ==
    ASSUME NEW t \in WThreads, NEW q \in Queues, W!checked(t, q)
    PROVE  W!Next
<1>1. W!Check(t)
    BY DEF W!Check
<1>2. W!Run(t)
    BY <1>1 DEF W!Run
<1> QED
    BY <1>2 DEF W!Next

LEMMA RemoveIsStep ==
    ASSUME NEW q \in Queues, q \in objects, wJoining[q] = NoThread, W!remove(q)
    PROVE  W!Next
<1>1. W!Remove(q)
    BY DEF W!Remove
<1> QED
    BY <1>1 DEF W!Next

LEMMA StepIsWatchdogStep ==
    ASSUME Base, Watched, [Step]_vars
    PROVE  [W!Next]_(W!vars)
<1>1. ASSUME NEW a \in Actors, Acquire(a) PROVE [W!Next]_(W!vars)
  <2>1. CASE stopSubscription(a)
    <3>1. PICK q \in Queues : q = on[a]
      BY <2>1 DEF stopSubscription, Base, Controls, Control
    <3>2. lock[q] = Nobody /\ hasSub[q] /\ W!remove(q)
      BY <2>1, <3>1 DEF stopSubscription
    <3>3. q \in objects
      BY <3>2 DEF Base, Stages, Whole
    <3> QED
      BY <3>2, <3>3, Unjoined, RemoveIsStep
  <2> QED
    BY <1>1, <2>1
       DEF Acquire, lockAndReturn, startSubscription, destructor, getMessage, commitLost,
           UseDeleted, wVars, W!vars
<1>2. ASSUME NEW a \in Actors, Holding(a) PROVE [W!Next]_(W!vars)
  <2>1. at[a] \in Held
    BY <1>2, HeldPlaces
  <2>2. PICK q \in Queues : q = on[a]
    BY <2>1, HolderIs DEF Base
  <2>3. lock[q] = a /\ lock[q] # Nobody /\ Stage(a, q)
    BY <2>1, <2>2, ActorsAssumption DEF Base, Locks, Stages
  <2>4. CASE addToWatchdog(a)
    <3>1. at[a] = "add" /\ (W!add(q) \/ W!addFails(q))
      BY <2>2, <2>4 DEF addToWatchdog
    <3>2. wJoining[q] = NoThread /\ q \notin objects
      BY <2>3, <3>1, Unjoined DEF Stage, Subscribing
    <3>3. W!Add(q)
      BY <3>1, <3>2 DEF W!Add
    <3> QED
      BY <3>3 DEF W!Next
  <2>5. CASE giveUp(a)
    <3>1. at[a] = "giveUp" /\ W!remove(q)
      BY <2>2, <2>5 DEF giveUp
    <3>2. wJoining[q] = NoThread /\ q \in objects
      BY <2>3, <3>1, Unjoined DEF Stage
    <3> QED
      BY <3>1, <3>2, RemoveIsStep
  <2>6. CASE resubscribe(a)
    <3>1. CASE UNCHANGED wVars
      BY <3>1 DEF wVars, W!vars
    <3>2. CASE checking = q /\ W!checked(wThread, q)
      <4>1. checking # Nobody
        BY <3>2, ActorsAssumption
      <4> QED
        BY <3>2, <4>1, CheckerRuns, CheckedIsStep
    <3> QED
      BY <2>2, <2>6, <3>1, <3>2 DEF resubscribe
  <2> QED
    BY <1>2, <2>4, <2>5, <2>6
       DEF Holding, subscribe, addFailed, subscribed, unsubscribe, unregister, dequeued,
           reconnectUnlocked, restoreConnection, wVars, W!vars
<1>3. CASE WatchdogStep
  <2>1. ASSUME NEW q \in Queues, checkSubscriptionReturns(q)
        PROVE  [W!Next]_(W!vars)
    BY <2>1, CheckerRuns, CheckedIsStep DEF checkSubscriptionReturns, Checks
  <2>2. CASE reported
    <3>1. at[Watchdog] \in Reporting /\ W!checked(wThread, checking)
      BY <2>2 DEF reported, Reporting
    <3>2. checking # Nobody
      BY <3>1 DEF Base, Controls, WatchdogControl, Reporting
    <3> QED
      BY <3>1, <3>2, CheckerRuns, CheckedIsStep
  <2> QED
    BY <1>3, <2>1, <2>2
       DEF WatchdogStep, report, reportHere, checkSubscription, checkDeleted, wVars, W!vars
<1>4. CASE ListenerStep \/ DispatchStep
    BY <1>4
       DEF ListenerStep, DispatchStep, postNotification, ListenerReturns, deliverHere,
           onAsyncMessage, DispatchAsync, DispatchLost, DispatchNothing, wVars, W!vars
<1>5. CASE Outside
  <2>1. ASSUME NEW a \in Actors, CallbackReturns(a), W!checked(wThread, checking), a = Watchdog
        PROVE  [W!Next]_(W!vars)
    <3>1. checking # Nobody
      BY <2>1 DEF CallbackReturns, Base, Controls, WatchdogControl
    <3> QED
      BY <2>1, <3>1, CheckerRuns, CheckedIsStep
  <2> QED
    BY <1>5, <2>1
       DEF Outside, Call, CallbackReturns, postAsyncMessage, ConnectionLost, wVars, W!vars
<1>6. CASE Managers
  <2>1. ASSUME NEW t \in WThreads, WatchdogThread(t)
        PROVE  [W!Next]_(W!vars)
    <3>1. W!Run(t)
      BY <2>1 DEF WatchdogThread, W!Run
    <3> QED
      BY <3>1 DEF W!Next
  <2>2. ASSUME NEW q \in Queues, WatchdogJoin(q)
        PROVE  [W!Next]_(W!vars)
    <3>1. W!Join(q) /\ q \in W!Callers
      BY <2>2 DEF WatchdogJoin, W!Join, W!Callers
    <3> QED
      BY <3>1 DEF W!Next
  <2> QED
    BY <1>6, <2>1, <2>2 DEF Managers, DispatchThread, DispatchJoin, wVars, W!vars
<1>7. CASE UNCHANGED vars
    BY <1>7 DEF vars, wVars, W!vars
<1> QED
    BY <1>1, <1>2, <1>3, <1>4, <1>5, <1>6, <1>7, StepKinds

(***************************************************************************)
(* So its invariant, proved of the manager alone, is kept.                 *)
(***************************************************************************)
LEMMA WatchdogInvKept ==
    ASSUME WP!WatchdogInv, [W!Next]_(W!vars)
    PROVE  WP!WatchdogInv'
<1>1. [WP!Next]_(WP!vars)
    BY DEF W!Next, W!vars, W!Add, W!add, W!addRunning, W!addStart, W!addFails,
           W!reapUnlocked, W!Remove, W!remove, W!Stop, W!stop, W!Join, W!join, W!Callers,
           W!Run, W!round, W!Check, W!checked, W!endRound, W!wake, W!leave, W!end,
           WP!Next, WP!vars, WP!Add, WP!add, WP!addRunning, WP!addStart, WP!addFails,
           WP!reapUnlocked, WP!Remove, WP!remove, WP!Stop, WP!stop, WP!Join, WP!join,
           WP!Callers, WP!Run, WP!round, WP!Check, WP!checked, WP!endRound, WP!wake,
           WP!leave, WP!end
<1> QED
    BY <1>1, WP!NextInv, QueuesAssumption, ThreadsAssumption

(***************************************************************************)
(* Only add() hands out a thread to join, and nothing takes the thread     *)
(* that checks a queue out of its round.                                   *)
(***************************************************************************)
ManagerStep ==
    \/ \E q \in Queues : W!add(q) \/ W!addFails(q) \/ W!remove(q) \/ W!join(q)
    \/ \E t \in WThreads : W!round(t) \/ W!endRound(t) \/ W!wake(t) \/ W!leave(t) \/ W!end(t)
    \/ UNCHANGED wVars

LEMMA CheckStays ==
    ASSUME Base, Watched, checking # Nobody, ManagerStep
    PROVE  /\ wRunning' /\ wThread' = wThread
           /\ wpc'[wThread] = "check"
           /\ snapshot'[wThread] = snapshot[wThread]
<1>1. /\ wRunning /\ wThread \in WThreads
      /\ wpc[wThread] = "check" /\ checking \in snapshot[wThread]
      /\ wpc \in [WThreads -> WP!PC]
      /\ snapshot \in [WThreads -> SUBSET Queues]
      /\ wJoining \in [Queues \cup {Module} -> WThreads \cup {NoThread}]
    BY CheckerRuns DEF Watched, WP!WatchdogInv, WP!TypeOK, WP!Callers
<1>2. ASSUME NEW q \in Queues, W!add(q) \/ W!addFails(q) \/ W!remove(q)
      PROVE  UNCHANGED <<wRunning, wThread, wpc, snapshot>>
    BY <1>1, <1>2 DEF W!add, W!addRunning, W!addStart, W!addFails, W!remove
<1>3. ASSUME NEW q \in Queues, W!join(q)
      PROVE  UNCHANGED <<wRunning, wThread, snapshot>> /\ wpc'[wThread] = "check"
    BY <1>1, <1>3 DEF W!join
<1>4. ASSUME NEW t \in WThreads, W!round(t) \/ W!wake(t) \/ W!end(t) \/ W!endRound(t)
      PROVE  /\ UNCHANGED <<wRunning, wThread>> /\ wpc'[wThread] = "check"
             /\ snapshot'[wThread] = snapshot[wThread]
    BY <1>1, <1>4 DEF W!round, W!wake, W!end, W!endRound
<1>5. ASSUME NEW t \in WThreads, W!leave(t)
      PROVE  FALSE
    BY <1>1, <1>5 DEF W!leave, Watched, WP!WatchdogInv, WP!OneThreadInLoop, WP!InLoop
<1>6. CASE UNCHANGED wVars
    BY <1>1, <1>6 DEF wVars
<1> QED
    BY <1>1, <1>2, <1>3, <1>4, <1>5, <1>6 DEF ManagerStep

LEMMA JoinersWait ==
    ASSUME Base, Base', Watched, [Step]_vars, NEW q \in Queues,
           wJoining'[q] = wJoining[q] \/ wJoining'[q] = NoThread,
           wJoining'[q] # NoThread
    PROVE  lock'[q] # Nobody /\ at'[lock'[q]] \in {"added", "addFailed"}
<1>1. wJoining[q] # NoThread
    OBVIOUS
<1>2. lock[q] # Nobody /\ at[lock[q]] \in {"added", "addFailed"}
    BY <1>1 DEF Watched
<1>3. PICK a \in Actors : a = lock[q] /\ a # Nobody /\ on[a] = q
    BY <1>2, ActorsAssumption DEF Base, Types, QueueTypes, Locks
<1>4. ~Holding(a)
    BY <1>1, <1>2, <1>3
       DEF Holding, subscribe, addToWatchdog, addFailed, subscribed, unsubscribe, unregister,
           dequeued, reconnectUnlocked, restoreConnection, resubscribe, giveUp
<1>5. lock'[q] = a /\ SamePlace(a)
    BY <1>3, <1>4, HoldersStay
<1> QED
    BY <1>2, <1>3, <1>5 DEF SamePlace

LEMMA WatchedStep ==
    ASSUME Base, Base', Watched, [Step]_vars
    PROVE  Watched'
<1>1. WP!WatchdogInv'
    BY StepIsWatchdogStep, WatchdogInvKept DEF Watched
<1>2. wJoining \in [Queues \cup {Module} -> WThreads \cup {NoThread}]
    BY DEF Watched, WP!WatchdogInv, WP!TypeOK, WP!Callers
<1>3. ASSUME ManagerStep, UNCHANGED checking,
             \A q \in Queues : wJoining'[q] = wJoining[q] \/ wJoining'[q] = NoThread
      PROVE  Watched'
    BY <1>1, <1>3, CheckStays, JoinersWait DEF Watched
<1>4. ASSUME NEW q \in Queues, W!checked(wThread, q), checking' = Nobody
      PROVE  Watched'
    BY <1>1, <1>4, JoinersWait DEF Watched, W!checked
<1>5. ASSUME UNCHANGED <<wVars, checking>>
      PROVE  Watched'
    BY <1>3, <1>5 DEF ManagerStep, wVars
<1>6. ASSUME NEW a \in Actors, Acquire(a) PROVE Watched'
  <2>1. CASE stopSubscription(a)
    <3>1. PICK q \in Queues : q = on[a]
      BY <2>1 DEF stopSubscription, Base, Controls, Control
    <3>2. W!remove(q) /\ UNCHANGED checking
      BY <2>1, <3>1 DEF stopSubscription
    <3> QED
      BY <1>3, <3>2 DEF ManagerStep, W!remove
  <2> QED
    BY <1>5, <1>6, <2>1
       DEF Acquire, lockAndReturn, startSubscription, destructor, getMessage, commitLost,
           UseDeleted
<1>7. ASSUME NEW a \in Actors, Holding(a) PROVE Watched'
  <2>1. PICK q \in Queues : q = on[a] /\ lock[q] = a
    BY <1>7, HeldPlaces, HolderIs DEF Base, Locks
  <2>2. CASE addToWatchdog(a)
    <3>1. /\ W!add(q) \/ W!addFails(q)
          /\ at'[a] \in {"added", "addFailed"} /\ UNCHANGED <<lock, checking>>
      BY <2>1, <2>2 DEF addToWatchdog, Goto, queueVars, Base, Types, ThreadTypes
    <3>2. \A r \in Queues \ {q} : wJoining'[r] = wJoining[r]
      BY <1>2, <3>1 DEF W!add, W!addRunning, W!addStart, W!addFails, W!reapUnlocked
    <3>3. lock'[q] = a /\ a # Nobody
      BY <2>1, <3>1, ActorsAssumption
    <3>4. checking' # Nobody => /\ wRunning' /\ wpc'[wThread'] = "check"
                               /\ checking' \in snapshot'[wThread']
      BY <3>1, CheckStays, CheckerRuns DEF ManagerStep
    <3> QED
      BY <1>1, <3>1, <3>2, <3>3, <3>4, JoinersWait DEF Watched
  <2>3. CASE giveUp(a)
    BY <1>3, <2>1, <2>3 DEF giveUp, ManagerStep, W!remove
  <2>4. CASE resubscribe(a)
    BY <1>4, <1>5, <2>1, <2>4 DEF resubscribe
  <2> QED
    BY <1>5, <1>7, <2>2, <2>3, <2>4
       DEF Holding, subscribe, addFailed, subscribed, unsubscribe, unregister, dequeued,
           reconnectUnlocked, restoreConnection
<1>8. CASE WatchdogStep
  <2>1. ASSUME NEW q \in Queues, checkSubscriptionReturns(q)
        PROVE  Watched'
    BY <1>1, <2>1, JoinersWait, ActorsAssumption
       DEF checkSubscriptionReturns, Checks, Watched, W!checked, threadVars
  <2>2. ASSUME NEW q \in Queues, checkSubscription(q)
        PROVE  Watched'
    BY <1>1, <2>2, JoinersWait DEF checkSubscription, Checks, Watched, wVars
  <2>3. CASE reported
    <3>1. at[Watchdog] \in Reporting /\ W!checked(wThread, checking)
      BY <2>3 DEF reported, Reporting
    <3>2. checking \in Queues
      BY <3>1 DEF Base, Controls, WatchdogControl, Reporting, Types, ThreadTypes
    <3>3. PICK q \in Queues : q = checking
      BY <3>2
    <3> QED
      BY <1>4, <2>3, <3>1, <3>3 DEF reported
  <2> QED
    BY <1>5, <1>8, <2>1, <2>2, <2>3 DEF WatchdogStep, report, reportHere, checkDeleted
<1>9. CASE ListenerStep \/ DispatchStep
    BY <1>5, <1>9
       DEF ListenerStep, DispatchStep, postNotification, ListenerReturns, deliverHere,
           onAsyncMessage, DispatchAsync, DispatchLost, DispatchNothing, threadVars
<1>10. CASE Outside
  <2>1. ASSUME NEW a \in Actors, CallbackReturns(a), a = Watchdog, checking' = Nobody,
               W!checked(wThread, checking)
        PROVE  Watched'
    <3>1. PICK q \in Queues : q = checking
      BY <2>1 DEF CallbackReturns, Base, Controls, WatchdogControl, Types, ThreadTypes
    <3> QED
      BY <1>4, <2>1, <3>1
  <2> QED
    BY <1>5, <1>10, <2>1
       DEF Outside, Call, CallbackReturns, postAsyncMessage, ConnectionLost, threadVars
<1>11. CASE Managers
  <2>1. UNCHANGED checking
    BY <1>11, ManagersLeave DEF threadVars
  <2>2. /\ ManagerStep
        /\ \A q \in Queues : wJoining'[q] = wJoining[q] \/ wJoining'[q] = NoThread
    BY <1>2, <1>11
       DEF Managers, WatchdogThread, DispatchThread, WatchdogJoin, DispatchJoin, ManagerStep,
           wVars, W!round, W!endRound, W!wake, W!leave, W!end, W!join
  <2> QED
    BY <1>3, <2>1, <2>2
<1>12. CASE UNCHANGED vars
    BY <1>5, <1>12 DEF vars, threadVars
<1> QED
    BY <1>6, <1>7, <1>8, <1>9, <1>10, <1>11, <1>12, StepKinds

LEMMA WatchedInit == Init => Watched
<1> SUFFICES ASSUME Init PROVE Watched
    OBVIOUS
<1>1. WP!Init
    BY DEF Init, W!Init, WP!Init, W!Callers, WP!Callers
<1>2. WP!WatchdogInv
    BY <1>1, WP!InitInv, QueuesAssumption, ThreadsAssumption
<1>3. \A q \in Queues : wJoining[q] = NoThread
    BY DEF Init, W!Init, W!Callers
<1>4. checking = Nobody
    BY DEF Init
<1> QED
    BY <1>2, <1>3, <1>4 DEF Watched

LEMMA WatchedNext == Base /\ Watched /\ [Next]_vars => Watched'
<1>1. [Next]_vars => [Step]_vars
    BY DEF Next
<1> QED
    BY <1>1, BaseStep, WatchedStep

(***************************************************************************)
(* What threads do to the watchdog, they do in its protocol: a queue is    *)
(* added when it is not watched and removed when it is, and not by a       *)
(* thread that still has another one to join.                              *)
(***************************************************************************)
THEOREM UsesWatchdog == Spec => W!Safe
<1>1. Init => W!Init
    BY DEF Init
<1>2. Base /\ Watched /\ [Next]_vars => [W!Next]_(W!vars)
    BY StepIsWatchdogStep DEF Next
<1> QED
    BY BaseInit, BaseStep, WatchedInit, WatchedNext, <1>1, <1>2, PTL DEF Spec, W!Safe

(***************************************************************************)
(* Every subscription that is not being changed is watched by a thread     *)
(* that was not told to quit.                                              *)
(***************************************************************************)
THEOREM SubscriptionsAreWatched == Spec => []SubscribedIsWatched
<1>1. Base /\ Watched => SubscribedIsWatched
    BY DEF Base, Stages, Whole, Watched, WP!WatchdogInv, WP!WatchedHaveWatchdog,
           SubscribedIsWatched
<1> QED
    BY BaseInit, BaseStep, WatchedInit, WatchedNext, <1>1, PTL DEF Spec

-----------------------------------------------------------------------------
(***************************************************************************)
(* The dispatcher.  Its invariant, proved of the dispatcher alone, is kept *)
(* by what the composition does to it.                                     *)
(***************************************************************************)
Posters == {Watchdog, Listener}

LEMMA PostKeeps ==
    ASSUME DP!DispatcherInv, NEW p \in Posters, NEW c \in Callbacks, dJoining[p] = NoThread,
           D!post(p, c)
    PROVE  DP!DispatcherInv'
<1> USE ThreadsAssumption, CallbacksAssumption DEF Posters
<1>1. CASE D!PostRunning(p, c)
  <2>1. DP!PostRunning(p, c)
    BY <1>1 DEF D!PostRunning, DP!PostRunning
  <2> QED
    BY <2>1, DP!PostRunningInv
<1>2. CASE D!PostStart(p, c)
  <2>1. DP!PostStart(p, c)
    BY <1>2 DEF D!PostStart, DP!PostStart, D!reapUnlocked, DP!reapUnlocked
  <2> QED
    BY <2>1, DP!PostStartInv
<1> QED
    BY <1>1, <1>2 DEF D!post

LEMMA PostFailsKeeps ==
    ASSUME DP!DispatcherInv, NEW p \in Posters, dJoining[p] = NoThread, D!postFails(p)
    PROVE  DP!DispatcherInv'
<1>1. DP!postFails(p)
    BY DEF D!postFails, DP!postFails, D!reapUnlocked, DP!reapUnlocked
<1> QED
    BY <1>1, DP!PostFailsInv, ThreadsAssumption, CallbacksAssumption DEF Posters

LEMMA JoinKeeps ==
    ASSUME DP!DispatcherInv, NEW p \in Posters, D!join(p)
    PROVE  DP!DispatcherInv'
<1>1. DP!join(p)
    BY DEF D!join, DP!join
<1> QED
    BY <1>1, DP!JoinInv, ThreadsAssumption, CallbacksAssumption DEF Posters

LEMMA ThreadKeeps ==
    ASSUME DP!DispatcherInv, NEW t \in DThreads,
           D!take(t) \/ D!made(t) \/ D!leave(t) \/ D!end(t)
    PROVE  DP!DispatcherInv'
<1>1. DP!Run(t)
    BY DEF D!take, D!made, D!leave, D!end,
           DP!Run, DP!take, DP!made, DP!leave, DP!end
<1> QED
    BY <1>1, DP!RunInv, ThreadsAssumption, CallbacksAssumption

LEMMA NothingKeeps ==
    ASSUME DP!DispatcherInv, UNCHANGED dVars
    PROVE  DP!DispatcherInv'
<1>1. [DP!Next]_(DP!vars)
    BY DEF dVars, DP!vars
<1> QED
    BY <1>1, DP!NextInv, ThreadsAssumption, CallbacksAssumption

(***************************************************************************)
(* While the dispatch thread makes a callback, that is not over.           *)
(***************************************************************************)
LEMMA CallStays ==
    ASSUME DP!DispatcherInv, dRunning, dpc[dThread] = "call",
           \/ \E p \in Posters : \/ \E c \in Callbacks : D!post(p, c)
                               \/ D!postFails(p) \/ D!join(p)
           \/ \E t \in DThreads : D!take(t) \/ D!leave(t) \/ D!end(t)
           \/ UNCHANGED dVars
    PROVE  dRunning' /\ dThread' = dThread /\ dpc'[dThread] = "call" /\ cb'[dThread] = cb[dThread]
<1>1. /\ dThread \in DThreads
      /\ dpc \in [DThreads -> DP!PC]
      /\ cb \in [DThreads -> Callbacks \cup {NoCallback}]
      /\ dJoining \in [Posters -> DThreads \cup {NoThread}]
    BY DEF DP!DispatcherInv, DP!TypeOK, DP!OneThreadInLoop, Posters
<1>2. ASSUME NEW p \in Posters, NEW c \in Callbacks, D!post(p, c)
      PROVE  UNCHANGED <<dRunning, dThread, dpc, cb>>
    BY <1>2 DEF D!post, D!PostRunning, D!PostStart
<1>3. ASSUME NEW p \in Posters, D!postFails(p)
      PROVE  UNCHANGED <<dRunning, dThread, dpc, cb>>
    BY <1>3 DEF D!postFails
<1>4. ASSUME NEW p \in Posters, D!join(p)
      PROVE  UNCHANGED <<dRunning, dThread, cb>> /\ dpc'[dThread] = "call"
    BY <1>1, <1>4 DEF D!join
<1>5. ASSUME NEW t \in DThreads, D!take(t) \/ D!end(t)
      PROVE  /\ UNCHANGED <<dRunning, dThread>>
             /\ dpc'[dThread] = "call" /\ cb'[dThread] = cb[dThread]
    BY <1>1, <1>5 DEF D!take, D!end
<1>6. ASSUME NEW t \in DThreads, D!leave(t)
      PROVE  FALSE
    BY <1>1, <1>6 DEF D!leave, DP!DispatcherInv, DP!OneThreadInLoop, DP!InLoop
<1> QED
    BY <1>2, <1>3, <1>4, <1>5, <1>6 DEF dVars

(***************************************************************************)
(* What is posted is a callback of a queue.                                *)
(***************************************************************************)
LEMMA PostedCallbacks ==
    ASSUME Base
    PROVE  /\ at[Watchdog] = "report" => LostCallback(on[Watchdog]) \in Callbacks
           /\ at[Listener] = "post" =>
                 [kind |-> "async", q |-> note[1], sub |-> note[2]] \in Callbacks
<1>1. ASSUME at[Watchdog] = "report" PROVE on[Watchdog] \in Queues
    BY <1>1 DEF Base, Controls, Control, Actors, Reporting
<1>2. ASSUME at[Listener] = "post" PROVE note \in Queues \X (1..MaxSubs)
    BY <1>2, ActorsAssumption
       DEF Base, Controls, Control, ListenerControl, Actors, Notifying, Types, ClientTypes
<1> QED
    BY <1>1, <1>2 DEF LostCallback, Callbacks

(***************************************************************************)
(* A thread goes on to call onAsyncMessage() by the test of the            *)
(* subscription, and stays there until it makes the call.                  *)
(***************************************************************************)
LEMMA DeliveryBegins ==
    ASSUME Base, [Step]_vars, NEW a \in {Dispatcher, Listener},
           at[a] # "deliver", at'[a] = "deliver"
    PROVE  \/ a = Listener /\ deliverHere
           \/ a = Dispatcher /\ \E t \in DThreads : DispatchAsync(t)
<1> USE ActorsAssumption DEF Base, Types, ThreadTypes, Goto, Return
<1> a \in Actors
    BY DEF Actors
<1>1. ASSUME NEW b \in Actors, Acquire(b) \/ Holding(b) PROVE FALSE
  <2>1. \/ Return(b)
        \/ \E l \in Held \cup Reporting : at' = [at EXCEPT ![b] = l]
        \/ UNCHANGED at
    BY <1>1
       DEF Acquire, lockAndReturn, startSubscription, stopSubscription,
           destructor, getMessage, commitLost, UseDeleted,
           Holding, subscribe, addToWatchdog, addFailed, subscribed, unsubscribe, unregister,
           dequeued, reconnectUnlocked, restoreConnection, resubscribe, giveUp,
           Held, Subscribing, Restoring, Reporting
  <2> QED
    BY <2>1 DEF Held, Subscribing, Restoring, Reporting
<1>2. CASE WatchdogStep
    BY <1>2
       DEF WatchdogStep, report, reported, reportHere,
           checkSubscriptionReturns, checkSubscription, checkDeleted, threadVars
<1>3. CASE ListenerStep
    BY <1>3 DEF ListenerStep, postNotification, ListenerReturns, deliverHere,
                deliverAsyncMessage, onAsyncMessage
<1>4. CASE DispatchStep
    BY <1>4 DEF DispatchStep, DispatchAsync, DispatchLost, DispatchNothing,
                deliverAsyncMessage, onAsyncMessage, threadVars
<1>5. CASE Outside
    BY <1>5
       DEF Outside, Call, CallbackReturns, postAsyncMessage, ConnectionLost, threadVars
<1>6. CASE Managers
    BY <1>6, ManagersLeave DEF threadVars
<1>7. CASE UNCHANGED vars
    BY <1>7 DEF vars, threadVars
<1> QED
    BY <1>1, <1>2, <1>3, <1>4, <1>5, <1>6, <1>7, StepKinds

LEMMA DeliveryStays ==
    ASSUME Base, Dispatched, [Step]_vars, at[Dispatcher] = "deliver"
    PROVE  dRunning' /\ dThread' = dThread /\ dpc'[dThread] = "call" /\ cb'[dThread] = cb[dThread]
<1> USE ActorsAssumption DEF Posters
<1>0. Dispatcher \notin code
    BY DEF Base, Controls, Control, Actors
<1>1. \/ \E p \in Posters : \/ \E c \in Callbacks : D!post(p, c)
                            \/ D!postFails(p) \/ D!join(p)
      \/ \E t \in DThreads : D!take(t) \/ D!leave(t) \/ D!end(t)
      \/ UNCHANGED dVars
  <2>1. ASSUME NEW a \in Actors, Acquire(a) \/ Holding(a) PROVE UNCHANGED dVars
    BY <2>1
       DEF Acquire, lockAndReturn, startSubscription, stopSubscription,
           destructor, getMessage, commitLost, UseDeleted,
           Holding, subscribe, addToWatchdog, addFailed, subscribed, unsubscribe, unregister,
           dequeued, reconnectUnlocked, restoreConnection, resubscribe, giveUp
  <2>2. CASE WatchdogStep
    BY <2>2, PostedCallbacks
       DEF WatchdogStep, report, reported, reportHere,
           checkSubscriptionReturns, checkSubscription, checkDeleted
  <2>3. CASE ListenerStep
    BY <2>3, PostedCallbacks
       DEF ListenerStep, postNotification, ListenerReturns, deliverHere, onAsyncMessage
  <2>4. CASE DispatchStep
    BY <2>4 DEF DispatchStep, DispatchAsync, DispatchLost, DispatchNothing, Makes, onAsyncMessage
  <2>5. CASE Outside
    BY <1>0, <2>5
       DEF Outside, Call, CallbackReturns, postAsyncMessage, ConnectionLost
  <2>6. CASE Managers
    BY <2>6
       DEF Managers, WatchdogThread, WatchdogJoin, DispatchThread, DispatchJoin
  <2>7. CASE UNCHANGED vars
    BY <2>7 DEF vars
  <2> QED
    BY <2>1, <2>2, <2>3, <2>4, <2>5, <2>6, <2>7, StepKinds
<1> QED
    BY <1>1, CallStays DEF Dispatched, Delivering

LEMMA DeliveringKept ==
    ASSUME Base, Dispatched, [Step]_vars
    PROVE  Delivering'
<1> SUFFICES ASSUME at'[Dispatcher] = "deliver"
             PROVE  dRunning' /\ dpc'[dThread'] = "call" /\ cb'[dThread'].kind = "async"
    BY DEF Delivering
<1>1. CASE at[Dispatcher] = "deliver"
    BY <1>1, DeliveryStays DEF Dispatched, Delivering
<1>2. CASE at[Dispatcher] # "deliver"
  <2>1. PICK t \in DThreads : DispatchAsync(t)
    BY <1>2, DeliveryBegins, ActorsAssumption
  <2>2. dpc[t] = "call" /\ cb[t].kind = "async" /\ UNCHANGED dVars
    BY <2>1 DEF DispatchAsync, Makes
  <2>3. dRunning /\ t = dThread
    BY <2>2 DEF Dispatched, DP!DispatcherInv, DP!OneThreadInLoop, DP!InLoop
  <2> QED
    BY <2>2, <2>3 DEF dVars
<1> QED
    BY <1>1, <1>2

(***************************************************************************)
(* A thread that reports or posts goes on by itself.                       *)
(***************************************************************************)
LEMMA PostersStay ==
    ASSUME Base, [Step]_vars, NEW p \in Posters, at[p] \in Reporting \cup Notifying,
           ~WatchdogStep, ~ListenerStep
    PROVE  at'[p] = at[p] /\ on'[p] = on[p]
<1> USE ActorsAssumption DEF Base, Types, ThreadTypes, Posters
<1> p \in Actors
    BY DEF Actors
<1>1. at[p] \notin {"idle", "lock"} \cup Held
    BY DEF Held, Subscribing, Restoring, Reporting, Notifying
<1>2. ASSUME NEW b \in Actors, Acquire(b) \/ Holding(b) PROVE at'[p] = at[p] /\ on'[p] = on[p]
  <2>1. at[b] \in {"lock"} \cup Held
    BY <1>2, HeldPlaces
       DEF Acquire, lockAndReturn, startSubscription, stopSubscription,
           destructor, getMessage, commitLost, UseDeleted
  <2>2. \/ Return(b)
        \/ (\E l \in Places : at' = [at EXCEPT ![b] = l]) /\ UNCHANGED on
        \/ UNCHANGED <<at, on>>
    BY <1>2
       DEF Acquire, lockAndReturn, startSubscription, stopSubscription,
           destructor, getMessage, commitLost, UseDeleted, Goto,
           Holding, subscribe, addToWatchdog, addFailed, subscribed, unsubscribe, unregister,
           dequeued, reconnectUnlocked, restoreConnection, resubscribe, giveUp,
           Places, Held, Subscribing, Restoring, Reporting
  <2> QED
    BY <1>1, <2>1, <2>2 DEF Return
<1>3. CASE DispatchStep
    BY <1>3 DEF DispatchStep, DispatchAsync, DispatchLost, DispatchNothing, threadVars,
                deliverAsyncMessage, onAsyncMessage, Goto, Return
<1>4. CASE Outside
  <2>1. ASSUME NEW q \in Queues, postAsyncMessage(q)
        PROVE  at'[p] = at[p] /\ on'[p] = on[p]
    BY <1>1, <2>1 DEF postAsyncMessage, Controls, ListenerControl
  <2>2. ASSUME NEW a \in Actors, NEW m \in Methods, NEW q \in Queues, Call(a, m, q)
        PROVE  at'[p] = at[p] /\ on'[p] = on[p]
    BY <1>1, <2>2 DEF Call
  <2> QED
    BY <1>4, <2>1, <2>2 DEF Outside, CallbackReturns, ConnectionLost, threadVars
<1>5. CASE Managers
    BY <1>5, ManagersLeave DEF threadVars
<1>6. CASE UNCHANGED vars
    BY <1>6 DEF vars, threadVars
<1> QED
    BY <1>2, <1>3, <1>4, <1>5, <1>6, StepKinds

LEMMA PostersWait ==
    ASSUME Base, Dispatched, [Step]_vars, NEW p \in Posters,
           ~WatchdogStep, ~ListenerStep,
           dJoining'[p] = dJoining[p] \/ dJoining'[p] = NoThread,
           dJoining'[p] # NoThread
    PROVE  /\ p = Watchdog => at'[p] \in {"reported", "reportHere"}
           /\ p = Listener => at'[p] \in {"posted", "deliverHere"}
<1>1. dJoining[p] # NoThread
    OBVIOUS
<1>2. /\ p = Watchdog => at[p] \in {"reported", "reportHere"}
      /\ p = Listener => at[p] \in {"posted", "deliverHere"}
    BY <1>1 DEF Dispatched
<1>3. at[p] \in Reporting \cup Notifying
    BY <1>2 DEF Posters, Reporting, Notifying
<1>4. at'[p] = at[p]
    BY <1>3, PostersStay
<1> QED
    BY <1>2, <1>4

LEMMA WatchdogDispatched ==
    ASSUME Base, Base', Dispatched, WatchdogStep
    PROVE  Dispatched'
<1> USE ActorsAssumption DEF Posters
<1>00. Delivering'
    BY StepKinds, DeliveringKept
<1>0. /\ Watchdog \in Actors /\ Listener \in Actors
      /\ dJoining \in [Posters -> DThreads \cup {NoThread}]
      /\ at \in [Actors -> Places]
    BY DEF Actors, Dispatched, DP!DispatcherInv, DP!TypeOK, Base, Types, ThreadTypes
<1>1. CASE report
  <2>1. PICK q \in Queues : q = on[Watchdog]
    BY <1>1 DEF report, Base, Controls, Control, Actors, Reporting
  <2>2. LostCallback(q) \in Callbacks
    BY DEF LostCallback, Callbacks
  <2>3. dJoining[Watchdog] = NoThread
    BY <1>1 DEF report, Dispatched
  <2>4. at'[Watchdog] \in {"reported", "reportHere"} /\ at'[Listener] = at[Listener]
        /\ UNCHANGED code
    BY <1>0, <1>1 DEF report, Goto
  <2>5. D!post(Watchdog, LostCallback(q)) \/ D!postFails(Watchdog)
    BY <1>1, <2>1 DEF report
  <2>6. DP!DispatcherInv'
    BY <2>2, <2>3, <2>5, PostKeeps, PostFailsKeeps DEF Dispatched
  <2>7. dJoining'[Listener] = dJoining[Listener]
    BY <1>0, <2>5 DEF D!post, D!PostRunning, D!PostStart, D!postFails, D!reapUnlocked
  <2>8. Dispatcher \in code' => dRunning' /\ dpc'[dThread'] = "call"
    BY <2>2, <2>4, <2>5, CallStays DEF Dispatched
  <2> QED
    BY <1>00, <2>4, <2>6, <2>7, <2>8 DEF Dispatched
<1>2. CASE reported \/ reportHere
  <2>1. /\ UNCHANGED dVars /\ dJoining[Watchdog] = NoThread
        /\ at'[Listener] = at[Listener]
        /\ Dispatcher \in code' => Dispatcher \in code
    BY <1>0, <1>2 DEF reported, reportHere, notifySubscriptionLost, Return
  <2> QED
    BY <1>00, <2>1, NothingKeeps DEF Dispatched, dVars
<1>3. ASSUME NEW q \in Queues,
             checkSubscriptionReturns(q) \/ checkSubscription(q) \/ checkDeleted(q)
      PROVE  Dispatched'
  <2>1. UNCHANGED <<dVars, code>> /\ at'[Listener] = at[Listener]
    BY <1>0, <1>3 DEF checkSubscriptionReturns, checkSubscription, checkDeleted, threadVars
  <2>2. at'[Watchdog] = at[Watchdog] \/ dJoining[Watchdog] = NoThread
    <3>1. checking = Nobody
      BY <1>3 DEF checkSubscriptionReturns, checkSubscription, checkDeleted, Checks
    <3>2. at[Watchdog] = "idle"
      BY <3>1 DEF Base, Controls, WatchdogControl
    <3> QED
      BY <3>2 DEF Dispatched
  <2> QED
    BY <1>00, <2>1, <2>2, NothingKeeps DEF Dispatched, dVars
<1> QED
    BY <1>1, <1>2, <1>3 DEF WatchdogStep

LEMMA ListenerDispatched ==
    ASSUME Base, Base', Dispatched, ListenerStep
    PROVE  Dispatched'
<1> USE ActorsAssumption DEF Posters
<1>00. Delivering'
    BY StepKinds, DeliveringKept
<1>0. /\ Watchdog \in Actors /\ Listener \in Actors
      /\ dJoining \in [Posters -> DThreads \cup {NoThread}]
      /\ at \in [Actors -> Places]
    BY DEF Actors, Dispatched, DP!DispatcherInv, DP!TypeOK, Base, Types, ThreadTypes
<1>1. CASE postNotification
  <2>1. note \in Queues \X (1..MaxSubs)
    <3>1. at[Listener] \in Notifying /\ at[Listener] # "idle"
      BY <1>1 DEF postNotification, Notifying
    <3>2. listener # Nobody /\ Listener \notin code
      BY <1>0, <3>1 DEF Base, Controls, Control, ListenerControl
    <3> QED
      BY <3>2 DEF Base, Controls, ListenerControl, Types, ClientTypes
  <2>2. PICK c \in Callbacks : c = [kind |-> "async", q |-> note[1], sub |-> note[2]]
    BY <2>1 DEF Callbacks
  <2>3. dJoining[Listener] = NoThread
    BY <1>1 DEF postNotification, Dispatched
  <2>4. at'[Listener] \in {"posted", "deliverHere"} /\ at'[Watchdog] = at[Watchdog]
        /\ UNCHANGED code
    BY <1>0, <1>1 DEF postNotification, Goto
  <2>5. D!post(Listener, c) \/ D!postFails(Listener)
    BY <1>1, <2>2 DEF postNotification
  <2>6. DP!DispatcherInv'
    BY <2>2, <2>3, <2>5, PostKeeps, PostFailsKeeps DEF Dispatched
  <2>7. dJoining'[Watchdog] = dJoining[Watchdog]
    BY <1>0, <2>5 DEF D!post, D!PostRunning, D!PostStart, D!postFails, D!reapUnlocked
  <2>8. Dispatcher \in code' => dRunning' /\ dpc'[dThread'] = "call"
    BY <2>2, <2>4, <2>5, CallStays DEF Dispatched
  <2> QED
    BY <1>00, <2>4, <2>6, <2>7, <2>8 DEF Dispatched
<1>2. CASE ListenerReturns \/ deliverHere \/ onAsyncMessage(Listener)
  <2>1. /\ UNCHANGED dVars /\ dJoining[Listener] = NoThread
        /\ at'[Watchdog] = at[Watchdog]
        /\ Dispatcher \in code' => Dispatcher \in code
    BY <1>0, <1>2 DEF ListenerReturns, deliverHere, deliverAsyncMessage, onAsyncMessage,
                      Goto, Return, Dispatched
  <2> QED
    BY <1>00, <2>1, NothingKeeps DEF Dispatched, dVars
<1> QED
    BY <1>1, <1>2 DEF ListenerStep

LEMMA DispatchedStep ==
    ASSUME Base, Base', Dispatched, [Step]_vars
    PROVE  Dispatched'
<1> USE ActorsAssumption
<1>00. Delivering'
    BY DeliveringKept
<1>0. CASE WatchdogStep \/ ListenerStep
    BY <1>0, WatchdogDispatched, ListenerDispatched
<1>1. ASSUME ~WatchdogStep, ~ListenerStep, DP!DispatcherInv',
             \A p \in Posters : dJoining'[p] = dJoining[p] \/ dJoining'[p] = NoThread,
             Dispatcher \in code' => dRunning' /\ dpc'[dThread'] = "call"
      PROVE  Dispatched'
    BY <1>00, <1>1, PostersWait DEF Dispatched, Posters
<1>2. ASSUME ~WatchdogStep, ~ListenerStep, UNCHANGED dVars,
             Dispatcher \in code' => Dispatcher \in code
      PROVE  Dispatched'
    BY <1>1, <1>2, NothingKeeps DEF Dispatched, dVars
<1> SUFFICES ASSUME ~WatchdogStep, ~ListenerStep PROVE Dispatched'
    BY <1>0
<1>3. ASSUME NEW a \in Actors, Acquire(a) \/ Holding(a) PROVE Dispatched'
  <2>1. UNCHANGED <<dVars, code>>
    BY <1>3
       DEF Acquire, lockAndReturn, startSubscription, stopSubscription,
           destructor, getMessage, commitLost, UseDeleted,
           Holding, subscribe, addToWatchdog, addFailed, subscribed, unsubscribe, unregister,
           dequeued, reconnectUnlocked, restoreConnection, resubscribe, giveUp
  <2> QED
    BY <1>2, <2>1
<1>4. ASSUME NEW t \in DThreads, DispatchAsync(t) \/ DispatchLost(t)
      PROVE  Dispatched'
  <2>1. UNCHANGED dVars /\ dpc[t] = "call"
    BY <1>4 DEF DispatchAsync, DispatchLost, Makes
  <2>2. dRunning /\ t = dThread
    BY <2>1 DEF Dispatched, DP!DispatcherInv, DP!OneThreadInLoop, DP!InLoop
  <2> QED
    BY <1>1, <2>1, <2>2, NothingKeeps DEF Dispatched, dVars
<1>5. ASSUME NEW t \in DThreads, D!made(t), Dispatcher \notin code'
      PROVE  Dispatched'
    BY <1>1, <1>5, ThreadKeeps DEF Dispatched, D!made
<1>10. CASE onAsyncMessage(Dispatcher)
  <2>1. UNCHANGED dVars /\ dRunning /\ dpc[dThread] = "call"
    BY <1>10 DEF onAsyncMessage, Dispatched, Delivering
  <2> QED
    BY <1>1, <2>1, NothingKeeps DEF Dispatched, dVars
<1>6. CASE DispatchStep
    BY <1>4, <1>5, <1>6, <1>10 DEF DispatchStep, DispatchNothing, Makes, threadVars
<1>7. CASE Outside
  <2>1. ASSUME NEW a \in Actors, CallbackReturns(a), a = Dispatcher, D!made(dThread)
        PROVE  Dispatched'
    <3>1. Dispatcher \in code /\ Dispatcher \notin code'
      BY <2>1 DEF CallbackReturns
    <3>2. dThread \in DThreads
      BY <3>1 DEF Dispatched, DP!DispatcherInv, DP!OneThreadInLoop
    <3> QED
      BY <1>5, <2>1, <3>1, <3>2
  <2>2. ASSUME NEW a \in Actors, CallbackReturns(a), UNCHANGED dVars
        PROVE  Dispatched'
    BY <1>2, <2>2 DEF CallbackReturns
  <2> QED
    BY <1>2, <1>7, <2>1, <2>2
       DEF Outside, Call, CallbackReturns, postAsyncMessage, ConnectionLost, threadVars
<1>8. CASE Managers
  <2>1. UNCHANGED code
    BY <1>8, ManagersLeave DEF threadVars
  <2>2. ASSUME NEW t \in DThreads, DispatchThread(t)
        PROVE  Dispatched'
    <3>1. DP!DispatcherInv'
      BY <2>2, ThreadKeeps DEF DispatchThread, Dispatched
    <3>2. UNCHANGED dJoining
      BY <2>2 DEF DispatchThread, D!take, D!leave, D!end
    <3>3. Dispatcher \in code' => dRunning' /\ dpc'[dThread'] = "call"
      BY <2>1, <2>2, CallStays DEF DispatchThread, Dispatched
    <3> QED
      BY <1>1, <3>1, <3>2, <3>3
  <2>3. ASSUME NEW p \in Posters, DispatchJoin(p)
        PROVE  Dispatched'
    <3>1. DP!DispatcherInv'
      BY <2>3, JoinKeeps DEF DispatchJoin, Dispatched
    <3>2. dJoining \in [Posters -> DThreads \cup {NoThread}]
      BY DEF Dispatched, DP!DispatcherInv, DP!TypeOK, Posters
    <3>3. \A r \in Posters : dJoining'[r] = dJoining[r] \/ dJoining'[r] = NoThread
      BY <2>3, <3>2 DEF DispatchJoin, D!join
    <3>4. Dispatcher \in code' => dRunning' /\ dpc'[dThread'] = "call"
      BY <2>1, <2>3, CallStays DEF DispatchJoin, Dispatched
    <3> QED
      BY <1>1, <3>1, <3>3, <3>4
  <2> QED
    BY <1>2, <1>8, <2>1, <2>2, <2>3 DEF Managers, WatchdogThread, WatchdogJoin, Posters
<1>9. CASE UNCHANGED vars
    BY <1>2, <1>9 DEF vars, threadVars
<1> QED
    BY <1>3, <1>6, <1>7, <1>8, <1>9, StepKinds

LEMMA DispatchedInit == Init => Dispatched
<1> SUFFICES ASSUME Init PROVE Dispatched
    OBVIOUS
<1>1. DP!Init
    BY DEF Init, D!Init, DP!Init
<1>2. DP!DispatcherInv
    BY <1>1, DP!InitInv, ThreadsAssumption, CallbacksAssumption
<1>3. dJoining[Watchdog] = NoThread /\ dJoining[Listener] = NoThread /\ code = {}
      /\ at[Dispatcher] = "idle"
    BY DEF Init, D!Init, Actors
<1> QED
    BY <1>2, <1>3 DEF Dispatched, Delivering

LEMMA DispatchedNext == Base /\ Dispatched /\ [Next]_vars => Dispatched'
<1>1. [Next]_vars => [Step]_vars
    BY DEF Next
<1> QED
    BY <1>1, BaseStep, DispatchedStep

(***************************************************************************)
(* The notification thread and the watchdog use the dispatcher as post()   *)
(* requires, however their calls and the dispatch thread interleave: one   *)
(* thread makes the callbacks, every thread is joined once, a queued       *)
(* callback is served, and nobody who posts waits for Qore code.           *)
(***************************************************************************)
THEOREM UsesDispatcher ==
    Spec => [](/\ D!OneThreadInLoop
               /\ D!EveryThreadJoinedOnce
               /\ D!QueuedIsServed
               /\ D!PostersNeverWaitForCallbacks)
<1>1. Dispatched => /\ D!OneThreadInLoop
                    /\ D!EveryThreadJoinedOnce
                    /\ D!QueuedIsServed
                    /\ D!PostersNeverWaitForCallbacks
    BY DEF Dispatched, DP!DispatcherInv, DP!OneThreadInLoop, DP!EveryThreadJoinedOnce,
           DP!QueuedIsServed, DP!PostersNeverWaitForCallbacks, DP!InLoop,
           D!OneThreadInLoop, D!EveryThreadJoinedOnce,
           D!QueuedIsServed, D!PostersNeverWaitForCallbacks, D!InLoop
<1> QED
    BY BaseInit, BaseStep, DispatchedInit, DispatchedNext, <1>1, PTL DEF Spec

(***************************************************************************)
(* So the callbacks of all queues are made one at a time, in the order in  *)
(* which they were posted, each exactly once.                              *)
(***************************************************************************)
CQ == INSTANCE CallbackQueue WITH pending <- queue, making <- D!Making

LEMMA PostersRefine ==
    ASSUME Dispatched, NEW p \in Posters,
           (\E c \in Callbacks : D!post(p, c)) \/ D!postFails(p) \/ D!join(p)
    PROVE  CQ!Accept \/ UNCHANGED CQ!vars
<1> USE DEF CQ!vars, D!Making
<1>0. /\ dpc \in [DThreads -> DP!PC]
      /\ dJoining \in [Posters -> DThreads \cup {NoThread}]
      /\ dRunning => dThread \in DThreads /\ dpc[dThread] \in {"loop", "call"}
    BY DEF Dispatched, DP!DispatcherInv, DP!TypeOK, DP!OneThreadInLoop, DP!InLoop, Posters
<1>1. ASSUME NEW c \in Callbacks, D!PostRunning(p, c)
      PROVE  CQ!Accept
    BY <1>1 DEF D!PostRunning, CQ!Accept
<1>2. ASSUME NEW c \in Callbacks, D!PostStart(p, c)
      PROVE  CQ!Accept
  <2>1. D!Making = NoCallback
    BY <1>2 DEF D!PostStart
  <2>2. dpc'[dThread'] = "loop"
    BY <1>0, <1>2 DEF D!PostStart
  <2> QED
    BY <1>2, <2>1, <2>2 DEF D!PostStart, CQ!Accept
<1>3. CASE D!postFails(p)
    BY <1>3 DEF D!postFails
<1>4. CASE D!join(p)
  <2>1. dJoining[p] \in DThreads /\ dpc[dJoining[p]] = "ended"
    BY <1>0, <1>4 DEF D!join
  <2>2. dRunning => dpc'[dThread] = dpc[dThread]
    BY <1>0, <1>4, <2>1 DEF D!join
  <2> QED
    BY <1>4, <2>2 DEF D!join
<1> QED
    BY <1>1, <1>2, <1>3, <1>4 DEF D!post

LEMMA ThreadRefines ==
    ASSUME Dispatched, NEW t \in DThreads,
           D!take(t) \/ D!made(t) \/ D!leave(t) \/ D!end(t)
    PROVE  [CQ!Next]_(CQ!vars)
<1> USE DEF CQ!Next, CQ!vars, D!Making
<1>0. /\ dpc \in [DThreads -> DP!PC] /\ cb \in [DThreads -> Callbacks \cup {NoCallback}]
      /\ cb[t] = NoCallback <=> dpc[t] # "call"
      /\ dpc[t] \in {"loop", "call"} => dRunning /\ t = dThread
      /\ dRunning => dThread \in DThreads /\ dpc[dThread] \in {"loop", "call"}
    BY DEF Dispatched, DP!DispatcherInv, DP!TypeOK, DP!OneThreadInLoop, DP!InLoop
<1>1. CASE D!take(t)
    BY <1>0, <1>1 DEF D!take, CQ!Begin
<1>2. CASE D!made(t)
    BY <1>0, <1>2 DEF D!made, CQ!End
<1>3. CASE D!leave(t)
    BY <1>0, <1>3 DEF D!leave
<1>4. CASE D!end(t)
  <2>1. dRunning => t # dThread
    BY <1>0, <1>4 DEF D!end
  <2> QED
    BY <1>0, <1>4, <2>1 DEF D!end
<1> QED
    BY <1>1, <1>2, <1>3, <1>4

LEMMA StepRefines ==
    ASSUME Base, Dispatched, [Step]_vars
    PROVE  [CQ!Next]_(CQ!vars)
<1> USE DEF CQ!Next
<1>1. ASSUME UNCHANGED dVars PROVE UNCHANGED CQ!vars
    BY <1>1 DEF dVars, CQ!vars, D!Making
<1>2. ASSUME NEW a \in Actors, Acquire(a) \/ Holding(a) PROVE UNCHANGED dVars
    BY <1>2
       DEF Acquire, lockAndReturn, startSubscription, stopSubscription,
           destructor, getMessage, commitLost, UseDeleted,
           Holding, subscribe, addToWatchdog, addFailed, subscribed, unsubscribe, unregister,
           dequeued, reconnectUnlocked, restoreConnection, resubscribe, giveUp
<1>3. CASE WatchdogStep
  <2>1. CASE report
    BY <2>1, PostedCallbacks, PostersRefine DEF report, Posters
  <2> QED
    BY <1>1, <1>3, <2>1
       DEF WatchdogStep, reported, reportHere,
           checkSubscriptionReturns, checkSubscription, checkDeleted
<1>4. CASE ListenerStep
  <2>1. CASE postNotification
    BY <2>1, PostedCallbacks, PostersRefine DEF postNotification, Posters
  <2> QED
    BY <1>1, <1>4, <2>1 DEF ListenerStep, ListenerReturns, deliverHere, onAsyncMessage
<1>5. CASE DispatchStep
  <2>1. ASSUME NEW t \in DThreads, DispatchNothing(t)
        PROVE  [CQ!Next]_(CQ!vars)
    BY <2>1, ThreadRefines DEF DispatchNothing
  <2> QED
    BY <1>1, <1>5, <2>1 DEF DispatchStep, DispatchAsync, DispatchLost, onAsyncMessage
<1>6. CASE Outside
  <2>1. ASSUME NEW a \in Actors, CallbackReturns(a), a = Dispatcher, D!made(dThread)
        PROVE  [CQ!Next]_(CQ!vars)
    <3>1. dThread \in DThreads
      BY <2>1 DEF CallbackReturns, Dispatched, DP!DispatcherInv, DP!OneThreadInLoop
    <3> QED
      BY <2>1, <3>1, ThreadRefines
  <2> QED
    BY <1>1, <1>6, <2>1
       DEF Outside, Call, CallbackReturns, postAsyncMessage, ConnectionLost
<1>7. CASE Managers
  <2>1. ASSUME NEW t \in DThreads, DispatchThread(t)
        PROVE  [CQ!Next]_(CQ!vars)
    BY <2>1, ThreadRefines DEF DispatchThread
  <2>2. ASSUME NEW p \in Posters, DispatchJoin(p)
        PROVE  [CQ!Next]_(CQ!vars)
    BY <2>2, PostersRefine DEF DispatchJoin
  <2> QED
    BY <1>1, <1>7, <2>1, <2>2 DEF Managers, WatchdogThread, WatchdogJoin, Posters
<1>8. CASE UNCHANGED vars
    BY <1>1, <1>8 DEF vars
<1> QED
    BY <1>1, <1>2, <1>3, <1>4, <1>5, <1>6, <1>7, <1>8, StepKinds

(***************************************************************************)
(* The callbacks that the listener and the watchdog post are made one at a *)
(* time, in order, each once, with all that happens to the queues, and the *)
(* calls that the callbacks themselves make, in between.                   *)
(***************************************************************************)
THEOREM CallbacksInOrder == Spec => CQ!Safe
<1>1. Init => CQ!Init
    BY DEF Init, D!Init, CQ!Init, D!Making
<1>2. Base /\ Dispatched /\ [Next]_vars => [CQ!Next]_(CQ!vars)
    BY StepRefines DEF Next
<1> QED
    BY BaseInit, BaseStep, DispatchedInit, DispatchedNext, <1>1, <1>2, PTL
       DEF Spec, CQ!Safe

(***************************************************************************)
(* Qore code starts to run on the dispatch thread only for the callback    *)
(* that the one thread in the loop has taken.                              *)
(***************************************************************************)
LEMMA CodeIsDispatched ==
    ASSUME Base, Dispatched, [Step]_vars, Dispatcher \in code' \ code
    PROVE  onAsyncMessage(Dispatcher) \/ \E t \in DThreads : DispatchLost(t)
<1> USE ActorsAssumption
<1>1. ASSUME NEW a \in Actors, Acquire(a) \/ Holding(a) PROVE UNCHANGED code
    BY <1>1
       DEF Acquire, lockAndReturn, startSubscription, stopSubscription,
           destructor, getMessage, commitLost, UseDeleted,
           Holding, subscribe, addToWatchdog, addFailed, subscribed, unsubscribe, unregister,
           dequeued, reconnectUnlocked, restoreConnection, resubscribe, giveUp
<1>2. CASE WatchdogStep
    BY <1>2
       DEF WatchdogStep, report, reported, reportHere, notifySubscriptionLost,
           checkSubscriptionReturns, checkSubscription, checkDeleted, threadVars
<1>3. CASE ListenerStep
    BY <1>3
       DEF ListenerStep, postNotification, ListenerReturns, deliverHere, onAsyncMessage
<1>4. CASE DispatchStep
    BY <1>4 DEF DispatchStep, DispatchAsync, DispatchNothing, threadVars
<1>5. CASE Outside
    BY <1>5
       DEF Outside, Call, CallbackReturns, postAsyncMessage, ConnectionLost, threadVars
<1>6. CASE Managers
    BY <1>6, ManagersLeave DEF threadVars
<1>7. CASE UNCHANGED vars
    BY <1>7 DEF vars, threadVars
<1> QED
    BY <1>1, <1>2, <1>3, <1>4, <1>5, <1>6, <1>7, StepKinds

LEMMA TakenCallback ==
    ASSUME Dispatched, NEW t \in DThreads, dpc[t] = "call"
    PROVE  cb[t] \in Callbacks /\ t = dThread /\ dRunning
BY DEF Dispatched, DP!DispatcherInv, DP!TypeOK, DP!OneThreadInLoop, DP!InLoop

LEMMA SubscribedIsWhole ==
    ASSUME Base, NEW q \in Queues, NEW s \in 1..MaxSubs, sub[q] = s
    PROVE  hasSub[q] \/ lock[q] # Nobody
<1>1. sub[q] # 0
    BY BoundsAssumption
<1> QED
    BY <1>1 DEF Base, Stages, Whole

(***************************************************************************)
(* While a thread is about to call onAsyncMessage(), the notification that *)
(* it delivers is the same one.                                            *)
(***************************************************************************)
LEMMA DeliveryIsTheSame ==
    ASSUME Base, Dispatched, [Step]_vars, NEW a \in {Dispatcher, Listener},
           at[a] = "deliver", NEW q \in Queues, NEW s \in 1..MaxSubs, Delivers(a, q, s)'
    PROVE  Delivers(a, q, s)
<1> USE ActorsAssumption
<1>1. CASE a = Dispatcher
  <2>1. dThread' = dThread /\ cb'[dThread] = cb[dThread]
    BY <1>1, DeliveryStays
  <2> QED
    BY <1>1, <2>1 DEF Delivers
<1>2. CASE a = Listener
  <2>1. Listener \notin code /\ listener # Nobody
    BY <1>2 DEF Base, Controls, Control, ListenerControl, Actors
  <2>2. UNCHANGED note
    <3>1. ASSUME NEW b \in Actors, Acquire(b) \/ Holding(b) PROVE UNCHANGED note
      BY <3>1
         DEF Acquire, lockAndReturn, startSubscription, stopSubscription,
             destructor, getMessage, commitLost, UseDeleted,
             Holding, subscribe, addToWatchdog, addFailed, subscribed, unsubscribe, unregister,
             dequeued, reconnectUnlocked, restoreConnection, resubscribe, giveUp
    <3>2. CASE WatchdogStep \/ ListenerStep \/ DispatchStep
      BY <1>2, <3>2
         DEF WatchdogStep, report, reported, reportHere, notifySubscriptionLost,
             checkSubscriptionReturns, checkSubscription, checkDeleted, threadVars,
             ListenerStep, postNotification, ListenerReturns, deliverHere, onAsyncMessage,
             DispatchStep, DispatchAsync, DispatchLost, DispatchNothing
    <3>3. CASE Outside
      BY <2>1, <3>3
         DEF Outside, Call, CallbackReturns, postAsyncMessage, ConnectionLost, threadVars
    <3>4. CASE Managers
      BY <3>4, ManagersLeave DEF threadVars
    <3>5. CASE UNCHANGED vars
      BY <3>5 DEF vars, threadVars
    <3> QED
      BY <3>1, <3>2, <3>3, <3>4, <3>5, StepKinds
  <2> QED
    BY <1>2, <2>2 DEF Delivers
<1> QED
    BY <1>1, <1>2

(***************************************************************************)
(* A thread goes on to call onAsyncMessage() for the subscription that the *)
(* notification was for, while that is active, and for no other.           *)
(***************************************************************************)
THEOREM NoDeliveryBegins == Spec => NoDeliveryBeginsAfterStop
<1>1. ASSUME Base, Dispatched, [Next]_vars
      PROVE  [\A a \in {Dispatcher, Listener}, q \in Queues, s \in 1..MaxSubs :
                 ~Delivers(a, q, s) /\ Delivers(a, q, s)' =>
                     sub[q] = s /\ (hasSub[q] \/ lock[q] # Nobody)]_vars
  <2> SUFFICES ASSUME NEW a \in {Dispatcher, Listener}, NEW q \in Queues, NEW s \in 1..MaxSubs,
                      ~Delivers(a, q, s), Delivers(a, q, s)'
               PROVE  sub[q] = s /\ (hasSub[q] \/ lock[q] # Nobody)
    OBVIOUS
  <2> USE <1>1, ActorsAssumption
  <2>1. [Step]_vars
    BY DEF Next
  <2>2. at[a] # "deliver" /\ at'[a] = "deliver"
    BY <2>1, DeliveryIsTheSame DEF Delivers
  <2>3. CASE a = Listener /\ deliverHere
    <3>1. note' = <<q, s>> /\ note' = note /\ sub[note[1]] = note[2]
      BY <2>3 DEF Delivers, deliverHere, deliverAsyncMessage
    <3> QED
      BY <3>1, SubscribedIsWhole
  <2>4. ASSUME NEW t \in DThreads, DispatchAsync(t), a = Dispatcher
        PROVE  sub[q] = s
    <3>1. t = dThread /\ UNCHANGED dVars /\ sub[cb[t].q] = cb[t].sub
      BY <2>4, TakenCallback DEF DispatchAsync, Makes, deliverAsyncMessage
    <3> QED
      BY <2>4, <3>1 DEF Delivers, dVars
  <2> QED
    BY <2>1, <2>2, <2>3, <2>4, DeliveryBegins, SubscribedIsWhole
<1> QED
    BY BaseInit, BaseStep, DispatchedInit, DispatchedNext, <1>1, PTL
       DEF Spec, NoDeliveryBeginsAfterStop

-----------------------------------------------------------------------------
(***************************************************************************)
(* The report of a loss.  A callback that was posted stays queued until it *)
(* is taken, and taken until Qore code runs or there is nothing to report. *)
(***************************************************************************)
LEMMA QueueMoves ==
    ASSUME Base, [Step]_vars
    PROVE  \/ \E c \in Callbacks : queue' = Append(queue, c) /\ UNCHANGED <<cb, code>>
           \/ \E t \in DThreads : D!take(t) /\ UNCHANGED code
           \/ \E t \in DThreads : DispatchNothing(t)
           \/ UNCHANGED queue /\ (UNCHANGED cb \/ Dispatcher \in code)
<1> USE DEF dVars
<1>1. ASSUME NEW a \in Actors, Acquire(a) \/ Holding(a) PROVE UNCHANGED dVars
    BY <1>1
       DEF Acquire, lockAndReturn, startSubscription, stopSubscription,
           destructor, getMessage, commitLost, UseDeleted,
           Holding, subscribe, addToWatchdog, addFailed, subscribed, unsubscribe, unregister,
           dequeued, reconnectUnlocked, restoreConnection, resubscribe, giveUp
<1>2. CASE WatchdogStep
    BY <1>2, PostedCallbacks
       DEF WatchdogStep, report, reported, reportHere, D!post, D!PostRunning, D!PostStart,
           D!postFails, checkSubscriptionReturns, checkSubscription, checkDeleted
<1>3. CASE ListenerStep
    BY <1>3, PostedCallbacks
       DEF ListenerStep, postNotification, D!post, D!PostRunning, D!PostStart,
           D!postFails, ListenerReturns, deliverHere, onAsyncMessage
<1>4. CASE DispatchStep
    BY <1>4 DEF DispatchStep, DispatchAsync, DispatchLost, onAsyncMessage
<1>5. CASE Outside
    BY <1>5
       DEF Outside, Call, CallbackReturns, D!made, postAsyncMessage, ConnectionLost
<1>6. CASE Managers
    BY <1>6
       DEF Managers, WatchdogThread, WatchdogJoin, DispatchThread, D!leave, D!end,
           DispatchJoin, D!join, threadVars
<1>7. CASE UNCHANGED vars
    BY <1>7 DEF vars
<1> QED
    BY <1>1, <1>2, <1>3, <1>4, <1>5, <1>6, <1>7, StepKinds

(***************************************************************************)
(* A loss is recorded by the watchdog that goes on to report it.           *)
(***************************************************************************)
LEMMA LossIsRecorded ==
    ASSUME Base, [Step]_vars, NEW q \in Queues, ~lost[q], lost'[q]
    PROVE  at'[Watchdog] = "report" /\ on'[Watchdog] = q
<1> USE DEF Base, Types, QueueTypes, queueVars
<1>1. ASSUME NEW a \in Actors, giveUp(a)
      PROVE  at'[Watchdog] = "report" /\ on'[Watchdog] = q
    BY <1>1 DEF giveUp, Goto, ThreadTypes
<1>2. ASSUME NEW a \in Actors, Acquire(a) \/ Holding(a), ~giveUp(a) PROVE UNCHANGED lost
    BY <1>2
       DEF Acquire, lockAndReturn, startSubscription, stopSubscription,
           destructor, getMessage, commitLost, UseDeleted,
           Holding, subscribe, addToWatchdog, addFailed, subscribed, unsubscribe, unregister,
           dequeued, reconnectUnlocked, restoreConnection, resubscribe
<1>3. CASE WatchdogStep \/ ListenerStep \/ DispatchStep
    BY <1>3
       DEF WatchdogStep, report, reported, reportHere, notifySubscriptionLost,
           checkSubscriptionReturns, checkSubscription, checkDeleted,
           ListenerStep, postNotification, ListenerReturns, deliverHere, onAsyncMessage,
           DispatchStep, DispatchAsync, DispatchLost, DispatchNothing
<1>4. CASE Outside
    BY <1>4 DEF Outside, Call, CallbackReturns, postAsyncMessage, ConnectionLost
<1>5. CASE Managers
    BY <1>5, ManagersLeave
<1>6. CASE UNCHANGED vars
    BY <1>6 DEF vars
<1> QED
    BY <1>1, <1>2, <1>3, <1>4, <1>5, <1>6, StepKinds

(***************************************************************************)
(* Who will report the loss of a queue: the queued callback, the callback  *)
(* that was taken and has not started, or the watchdog.                    *)
(***************************************************************************)
Queued(q) == \E i \in DOMAIN queue : queue[i] = LostCallback(q)
Taken(q) == \E t \in DThreads : cb[t] = LostCallback(q) /\ Dispatcher \notin code
Detected(q) == at[Watchdog] \in {"report", "reportHere"} /\ on[Watchdog] = q

LEMMA QueuedIsReported ==
    ASSUME Base, Dispatched, [Step]_vars, NEW q \in Queues, Queued(q)
    PROVE  Queued(q)' \/ Taken(q)'
<1>1. queue \in Seq(Callbacks) /\ cb \in [DThreads -> Callbacks \cup {NoCallback}]
    BY DEF Dispatched, DP!DispatcherInv, DP!TypeOK
<1>2. PICK i \in DOMAIN queue : queue[i] = LostCallback(q)
    BY DEF Queued
<1>3. ASSUME NEW c \in Callbacks, queue' = Append(queue, c) PROVE Queued(q)'
  <2>1. i \in DOMAIN queue' /\ queue'[i] = queue[i]
    BY <1>1, <1>2, <1>3
  <2> QED
    BY <1>2, <2>1 DEF Queued, LostCallback
<1>4. ASSUME NEW t \in DThreads, D!take(t), UNCHANGED code PROVE Queued(q)' \/ Taken(q)'
  <2>1. CASE i = 1
    <3>1. cb'[t] = LostCallback(q)'
      BY <1>1, <1>2, <1>4, <2>1 DEF D!take, LostCallback
    <3>2. Dispatcher \notin code
      BY <1>4 DEF D!take, Dispatched, DP!DispatcherInv, DP!OneThreadInLoop, DP!InLoop
    <3> QED
      BY <1>4, <3>1, <3>2 DEF Taken
  <2>2. CASE i # 1
    <3>1. i - 1 \in DOMAIN Tail(queue) /\ Tail(queue)[i - 1] = queue[i]
      BY <1>1, <1>2, <2>2
    <3> QED
      BY <1>2, <1>4, <3>1 DEF D!take, Queued, LostCallback
  <2> QED
    BY <2>1, <2>2
<1>5. ASSUME UNCHANGED queue PROVE Queued(q)'
    BY <1>2, <1>5 DEF Queued, LostCallback
<1> QED
    BY <1>3, <1>4, <1>5, QueueMoves DEF DispatchNothing, D!made

LEMMA TakenIsReported ==
    ASSUME Base, Dispatched, [Step]_vars, NEW q \in Queues, Taken(q), lost[q], lost'[q]
    PROVE  Taken(q)'
<1>1. /\ cb \in [DThreads -> Callbacks \cup {NoCallback}]
      /\ \A t \in DThreads : cb[t] = NoCallback <=> dpc[t] # "call"
    BY DEF Dispatched, DP!DispatcherInv, DP!TypeOK
<1>2. PICK t \in DThreads : cb[t] = LostCallback(q) /\ Dispatcher \notin code
    BY DEF Taken
<1>3. cb[t].kind = "lost" /\ cb[t].q = q /\ LostCallback(q) \in Callbacks
    BY <1>2 DEF LostCallback, Callbacks
<1>4. dpc[t] = "call" /\ dThread = t
    BY <1>1, <1>2, <1>3, CallbacksAssumption, TakenCallback
<1>5. Dispatcher \notin code'
  <2> SUFFICES ASSUME Dispatcher \in code' PROVE FALSE
    OBVIOUS
  <2>1. CASE onAsyncMessage(Dispatcher)
    BY <1>3, <1>4, <1>2, <2>1 DEF onAsyncMessage, Dispatched, Delivering
  <2>2. ASSUME NEW u \in DThreads, DispatchLost(u)
        PROVE  FALSE
    <3>1. u = t
      BY <1>4, <2>2, TakenCallback DEF DispatchLost, Makes
    <3> QED
      BY <1>3, <2>2, <3>1
         DEF DispatchLost, notifySubscriptionLost, Base, Types, QueueTypes
  <2> QED
    BY <1>2, <2>1, <2>2, CodeIsDispatched
<1>6. cb'[t] = cb[t]
  <2>1. ASSUME NEW u \in DThreads, D!take(u) PROVE cb'[t] = cb[t]
    BY <1>1, <1>4, <2>1 DEF D!take
  <2>2. ASSUME NEW u \in DThreads, DispatchNothing(u) PROVE FALSE
    <3>1. u = t
      BY <1>4, <2>2, TakenCallback DEF DispatchNothing, Makes
    <3> QED
      BY <1>3, <2>2, <3>1 DEF DispatchNothing
  <2> QED
    BY <1>2, <2>1, <2>2, QueueMoves
<1> QED
    BY <1>2, <1>5, <1>6 DEF Taken, LostCallback

LEMMA DetectedIsReported ==
    ASSUME Base, Dispatched, [Step]_vars, NEW q \in Queues, Detected(q), lost[q], lost'[q]
    PROVE  Detected(q)' \/ Queued(q)'
<1> USE ActorsAssumption DEF Detected
<1>0. /\ at \in [Actors -> Places] /\ on \in [Actors -> Queues \cup {Nobody}]
      /\ Watchdog \in Actors /\ Listener \in Actors
    BY DEF Base, Types, ThreadTypes, Actors
<1>1. CASE report
  <2>1. queue \in Seq(Callbacks) /\ LostCallback(q) \in Callbacks
    BY DEF Dispatched, DP!DispatcherInv, DP!TypeOK, LostCallback, Callbacks
  <2>2. CASE D!post(Watchdog, LostCallback(q))
    <3>1. queue' = Append(queue, LostCallback(q))
      BY <2>2 DEF D!post, D!PostRunning, D!PostStart
    <3>2. Len(queue) + 1 \in DOMAIN queue' /\ queue'[Len(queue) + 1] = LostCallback(q)
      BY <2>1, <3>1
    <3> QED
      BY <3>2 DEF Queued, LostCallback
  <2>3. CASE Goto(Watchdog, "reportHere")
    BY <1>0, <2>3 DEF Goto
  <2> QED
    BY <1>1, <2>2, <2>3 DEF report
<1>2. CASE WatchdogStep /\ ~report
  <2>1. checking # Nobody
    BY DEF Base, Controls, WatchdogControl
  <2> QED
    BY <1>2, <2>1
       DEF WatchdogStep, reported, reportHere, notifySubscriptionLost, Base, Types, QueueTypes,
           checkSubscriptionReturns, checkSubscription, checkDeleted, Checks
<1>3. CASE ListenerStep
    BY <1>0, <1>3
       DEF ListenerStep, postNotification, ListenerReturns, deliverHere,
           deliverAsyncMessage, onAsyncMessage, Goto, Return
<1>4. CASE ~WatchdogStep /\ ~ListenerStep
    BY <1>4, PostersStay DEF Posters, Reporting
<1> QED
    BY <1>1, <1>2, <1>3, <1>4

(***************************************************************************)
(* A loss that was not reported always has somebody who will report it.    *)
(***************************************************************************)
THEOREM LossesAreReported == Spec => []LossHasReporter
<1>1. Init => LossHasReporter
    BY DEF Init, LossHasReporter
<1>2. ASSUME Base, Dispatched, LossHasReporter, [Next]_vars
      PROVE  LossHasReporter'
  <2>1. ASSUME NEW q \in Queues, lost'[q]
        PROVE  Queued(q)' \/ Taken(q)' \/ Detected(q)'
    <3>1. [Step]_vars
      BY <1>2 DEF Next
    <3>2. CASE ~lost[q]
      BY <1>2, <2>1, <3>1, <3>2, LossIsRecorded DEF Detected
    <3>3. CASE lost[q]
      <4>1. Queued(q) \/ Taken(q) \/ Detected(q)
        BY <1>2, <3>3 DEF LossHasReporter, Queued, Taken, Detected
      <4> QED
        BY <1>2, <2>1, <3>1, <3>3, <4>1,
           QueuedIsReported, TakenIsReported, DetectedIsReported
    <3> QED
      BY <3>2, <3>3
  <2> QED
    BY <2>1 DEF LossHasReporter, Queued, Taken, Detected
<1> QED
    BY BaseInit, BaseStep, DispatchedInit, DispatchedNext, <1>1, <1>2, PTL DEF Spec

-----------------------------------------------------------------------------
(***************************************************************************)
(* The count of the callback thread ID: the queues that count are those    *)
(* with an identifier, and those whose holder ends the subscription.       *)
(***************************************************************************)
Ends(q) == /\ lock[q] # Nobody
           /\ at[lock[q]] \in {"unsubscribe", "unregister"}
           /\ why[lock[q]] # "restore"
Counted(q) == sub[q] # 0 \/ Ends(q)

LEMMA EndingIs == Base => \A q \in Queues : Ending(q) <=> Ends(q)
<1> SUFFICES ASSUME Base, NEW q \in Queues PROVE Ending(q) <=> Ends(q)
    OBVIOUS
<1>1. ASSUME NEW a \in Actors, on[a] = q, at[a] \in {"unsubscribe", "unregister"}
      PROVE  lock[q] = a /\ lock[q] # Nobody
    BY <1>1, ActorsAssumption DEF Base, Locks, Held, Restoring
<1>2. ASSUME lock[q] # Nobody
      PROVE  lock[q] \in Actors /\ on[lock[q]] = q
    BY <1>2 DEF Base, Types, QueueTypes, Locks
<1> QED
    BY <1>1, <1>2 DEF Ending, Ends

SameCount(r) == Counted(r)' <=> Counted(r)

(***************************************************************************)
(* A method changes the part of its own queue only, and what it does to    *)
(* the count goes with what becomes of its queue.                          *)
(***************************************************************************)
Counts ==
    \/ UNCHANGED <<count, tid>> /\ \A r \in Queues : SameCount(r)
    \/ \E q \in Queues : /\ inc /\ ~Counted(q) /\ Counted(q)'
                         /\ \A r \in Queues \ {q} : SameCount(r)
    \/ \E q \in Queues : /\ dec /\ Counted(q) /\ ~Counted(q)'
                         /\ \A r \in Queues \ {q} : SameCount(r)

LEMMA OthersCount ==
    ASSUME Base, NEW a \in Actors, NEW q \in Queues, on[a] = q,
           lock' = lock \/ lock' = [lock EXCEPT ![q] = a] \/ Unlock(q),
           sub' = sub \/ \E n : sub' = [sub EXCEPT ![q] = n],
           \/ UNCHANGED <<at, why>>
           \/ Return(a)
           \/ \E l : Goto(a, l)
           \/ \E l, w : at' = [at EXCEPT ![a] = l] /\ why' = [why EXCEPT ![a] = w]
    PROVE  \A r \in Queues \ {q} : SameCount(r)
<1> USE DEF Base, Types, QueueTypes, ThreadTypes
<1> SUFFICES ASSUME NEW r \in Queues, r # q PROVE SameCount(r)
    OBVIOUS
<1>1. lock'[r] = lock[r]
    BY DEF Unlock
<1>2. sub'[r] = sub[r]
    OBVIOUS
<1>3. lock[r] # Nobody => lock[r] \in Actors /\ lock[r] # a
    BY DEF Locks
<1>4. \A b \in Actors \ {a} : at'[b] = at[b] /\ why'[b] = why[b]
    BY DEF Return, Goto
<1> QED
    BY <1>1, <1>2, <1>3, <1>4 DEF SameCount, Counted, Ends

LEMMA AcquireCounts ==
    ASSUME Base, NEW a \in Actors, Acquire(a)
    PROVE  Counts
<1> USE DEF Base, Types, QueueTypes, ClientTypes, ThreadTypes, SameCount
<1>1. PICK q \in Queues : q = on[a]
    BY DEF Acquire, lockAndReturn, startSubscription, stopSubscription, destructor,
           getMessage, commitLost, UseDeleted, Controls, Control
<1>2. lock[q] = Nobody /\ ~Ends(q) /\ at[a] = "lock" /\ a # Nobody
    BY <1>1, ActorsAssumption
       DEF Acquire, lockAndReturn, startSubscription, stopSubscription, destructor,
           getMessage, commitLost, UseDeleted, Ends
<1>3. Whole(q)
    BY <1>2 DEF Stages
<1>4. CASE startSubscription(a)
  <2>1. /\ inc /\ Goto(a, "subscribe") /\ lock' = [lock EXCEPT ![q] = a]
        /\ ~hasSub[q] /\ sub' = [sub EXCEPT ![q] = last + 1]
    BY <1>1, <1>4 DEF startSubscription
  <2>2. \A r \in Queues \ {q} : SameCount(r)
    BY <1>1, <2>1, OthersCount
  <2>3. ~Counted(q)
    BY <1>2, <1>3, <2>1 DEF Counted, Whole
  <2>4. last + 1 # 0
    BY BoundsAssumption
  <2>5. Counted(q)'
    BY <2>1, <2>4 DEF Counted
  <2> QED
    BY <2>1, <2>2, <2>3, <2>5 DEF Counts
<1>5. CASE stopSubscription(a)
  <2>1. /\ Goto(a, "unsubscribe") /\ lock' = [lock EXCEPT ![q] = a]
        /\ hasSub[q] /\ sub' = [sub EXCEPT ![q] = 0] /\ why[a] # "restore"
        /\ UNCHANGED <<count, tid>>
    BY <1>1, <1>5 DEF stopSubscription, globalVars
  <2>2. \A r \in Queues \ {q} : SameCount(r)
    BY <1>1, <2>1, OthersCount
  <2>3. Counted(q)
    BY <1>3, <2>1 DEF Counted, Whole
  <2>4. Counted(q)'
    BY <1>2, <2>1 DEF Counted, Ends, Goto
  <2> QED
    BY <2>1, <2>2, <2>3, <2>4 DEF Counts
<1>6. CASE getMessage(a)
  <2>1. /\ Goto(a, "dequeue") /\ lock' = [lock EXCEPT ![q] = a]
        /\ UNCHANGED <<sub, count, tid>>
    BY <1>1, <1>6 DEF getMessage, globalVars
  <2>2. \A r \in Queues \ {q} : SameCount(r)
    BY <1>1, <2>1, OthersCount
  <2>3. ~Ends(q)'
    BY <2>1 DEF Ends, Goto
  <2>4. SameCount(q)
    BY <1>2, <2>1, <2>3 DEF Counted
  <2> QED
    BY <2>1, <2>2, <2>4 DEF Counts
<1>7. CASE lockAndReturn(a) \/ destructor(a) \/ commitLost(a) \/ UseDeleted(a)
  <2>1. /\ Return(a) \/ UNCHANGED <<at, why>>
        /\ UNCHANGED <<lock, sub, count, tid>>
    BY <1>7
       DEF lockAndReturn, destructor, commitLost, UseDeleted, globalVars, queueVars
  <2>2. \A r \in Queues \ {q} : SameCount(r)
    BY <1>1, <2>1, OthersCount
  <2>3. SameCount(q)
    BY <1>2, <2>1 DEF Counted, Ends
  <2> QED
    BY <2>1, <2>2, <2>3 DEF Counts
<1> QED
    BY <1>4, <1>5, <1>6, <1>7 DEF Acquire

LEMMA HoldingCounts ==
    ASSUME Base, NEW a \in Actors, Holding(a)
    PROVE  Counts
<1> USE DEF Base, Types, QueueTypes, ClientTypes, ThreadTypes, SameCount
<1>1. PICK q \in Queues : q = on[a]
    BY HeldPlaces, HolderIs
<1>2. lock[q] = a /\ a # Nobody
    BY <1>1, HeldPlaces, ActorsAssumption DEF Locks
<1>3. Stage(a, q)
    BY <1>2 DEF Stages
<1>4. ASSUME UNCHANGED <<sub, count, tid>>, lock' = lock \/ Unlock(q),
             \/ UNCHANGED <<at, why>>
             \/ Return(a)
             \/ \E l : Goto(a, l)
             \/ \E l, w : at' = [at EXCEPT ![a] = l] /\ why' = [why EXCEPT ![a] = w],
             Ends(q)' <=> Ends(q)
      PROVE  Counts
  <2>1. \A r \in Queues \ {q} : SameCount(r)
    BY <1>1, <1>4, OthersCount
  <2>2. SameCount(q)
    BY <1>4 DEF Counted
  <2> QED
    BY <1>4, <2>1, <2>2 DEF Counts
<1>5. ASSUME dec, Unlock(q), Return(a) \/ Goto(a, "report"),
             UNCHANGED sub \/ sub' = [sub EXCEPT ![q] = 0], Counted(q), ~(sub'[q] # 0)
      PROVE  Counts
  <2>1. \A r \in Queues \ {q} : SameCount(r)
    BY <1>1, <1>5, OthersCount
  <2>2. ~Counted(q)'
    BY <1>5 DEF Counted, Ends, Unlock
  <2> QED
    BY <1>5, <2>1, <2>2 DEF Counts
<1>6. ASSUME NEW l, Goto(a, l), UNCHANGED lock,
             l \notin {"unsubscribe", "unregister"},
             at[a] \notin {"unsubscribe", "unregister"} \/ why[a] = "restore"
      PROVE  Ends(q)' <=> Ends(q)
    BY <1>2, <1>6 DEF Ends, Goto
<1>7. ASSUME Return(a), Unlock(q),
             at[a] \notin {"unsubscribe", "unregister"} \/ why[a] = "restore"
      PROVE  Ends(q)' <=> Ends(q)
    BY <1>2, <1>7 DEF Ends, Return, Unlock
<1>8. CASE subscribe(a)
  <2>1. CASE Goto(a, "add") /\ UNCHANGED <<sub, count, tid, lock>>
    BY <1>4, <1>6, <1>8, <2>1 DEF subscribe
  <2>2. CASE endSubscriptionUnlocked(q) /\ Unlock(q) /\ Return(a)
    <3>1. Counted(q)
      BY <1>3, <1>8 DEF subscribe, Stage, Counted
    <3> QED
      BY <1>5, <2>2, <3>1 DEF endSubscriptionUnlocked
  <2> QED
    BY <1>1, <1>8, <2>1, <2>2 DEF subscribe
<1>9. CASE addToWatchdog(a)
  <2>1. /\ Goto(a, "added") \/ Goto(a, "addFailed")
        /\ UNCHANGED <<sub, count, tid, lock>> /\ at[a] = "add"
    BY <1>9 DEF addToWatchdog, globalVars, queueVars
  <2> QED
    BY <1>4, <1>6, <2>1
<1>10. CASE addFailed(a)
  <2>1. /\ Goto(a, "unsubscribe") /\ UNCHANGED <<count, tid, lock>> /\ at[a] = "addFailed"
        /\ sub' = [sub EXCEPT ![q] = 0]
    BY <1>1, <1>10 DEF addFailed, globalVars
  <2>2. \A r \in Queues \ {q} : SameCount(r)
    BY <1>1, <2>1, OthersCount
  <2>3. Counted(q)
    BY <1>3, <2>1 DEF Counted, Stage
  <2>4. why[a] # "restore"
    BY <2>1 DEF Controls, Control, Subscribing
  <2>5. Counted(q)'
    BY <1>2, <2>1, <2>4 DEF Counted, Ends, Goto
  <2> QED
    BY <2>1, <2>2, <2>3, <2>5 DEF Counts
<1>11. CASE subscribed(a) \/ dequeued(a)
  <2>1. /\ Return(a) /\ Unlock(q) /\ UNCHANGED <<sub, count, tid>>
        /\ at[a] \notin {"unsubscribe", "unregister"}
    BY <1>1, <1>11 DEF subscribed, dequeued, globalVars
  <2> QED
    BY <1>4, <1>7, <2>1
<1>12. CASE unsubscribe(a)
  <2>1. /\ Goto(a, "unregister") /\ UNCHANGED <<sub, count, tid, lock>>
        /\ at[a] = "unsubscribe"
    BY <1>12 DEF unsubscribe, globalVars, queueVars
  <2>2. Ends(q)' <=> Ends(q)
    BY <1>2, <2>1 DEF Ends, Goto
  <2> QED
    BY <1>4, <2>1, <2>2
<1>13. CASE unregister(a)
  <2>1. /\ dec /\ Unlock(q) /\ Return(a) /\ UNCHANGED sub
        /\ at[a] = "unregister" /\ why[a] # "restore"
    BY <1>1, <1>13 DEF unregister
  <2>2. Counted(q) /\ ~(sub[q] # 0)
    BY <1>2, <1>3, <2>1 DEF Counted, Ends, Stage
  <2> QED
    BY <1>5, <2>1, <2>2
<1>14. CASE reconnectUnlocked(a)
  <2>1. UNCHANGED <<sub, count, tid>> /\ at[a] \in {"dequeue", "redequeue"}
    BY <1>14 DEF reconnectUnlocked, globalVars
  <2>2. CASE /\ at' = [at EXCEPT ![a] = "unsubscribe"]
             /\ why' = [why EXCEPT ![a] = "restore"]
             /\ UNCHANGED lock
    <3>1. Ends(q)' <=> Ends(q)
      BY <1>2, <2>1, <2>2 DEF Ends
    <3> QED
      BY <1>4, <2>1, <2>2, <3>1
  <2>3. CASE Goto(a, "redequeue") /\ UNCHANGED lock
    BY <1>4, <1>6, <2>1, <2>3
  <2>4. CASE Unlock(q) /\ Return(a)
    BY <1>4, <1>7, <2>1, <2>4
  <2> QED
    BY <1>1, <1>14, <2>2, <2>3, <2>4 DEF reconnectUnlocked
<1>15. CASE restoreConnection(a)
  <2>1. /\ UNCHANGED <<sub, lock, count, tid>> /\ why[a] = "restore"
        /\ Goto(a, "resubscribe") \/ Goto(a, "giveUp")
    BY <1>15 DEF restoreConnection, globalVars
  <2> QED
    BY <1>4, <1>6, <2>1
<1>16. CASE resubscribe(a)
  <2>1. UNCHANGED <<sub, count, tid>> /\ at[a] = "resubscribe"
    BY <1>16 DEF resubscribe, globalVars
  <2>2. CASE /\ at' = [at EXCEPT ![a] = "redequeue"]
             /\ why' = [why EXCEPT ![a] = "getMessage"]
             /\ UNCHANGED lock
    <3>1. Ends(q)' <=> Ends(q)
      BY <1>2, <2>1, <2>2 DEF Ends
    <3> QED
      BY <1>4, <2>1, <2>2, <3>1
  <2>3. CASE Goto(a, "giveUp") /\ UNCHANGED lock
    BY <1>4, <1>6, <2>1, <2>3
  <2>4. CASE Unlock(q) /\ Return(a)
    BY <1>4, <1>7, <2>1, <2>4
  <2> QED
    BY <1>1, <1>16, <2>2, <2>3, <2>4 DEF resubscribe
<1>17. CASE giveUp(a)
  <2>1. /\ endSubscriptionUnlocked(q) /\ Unlock(q) /\ at[a] = "giveUp"
        /\ Goto(a, "report") \/ Return(a)
    BY <1>1, <1>17 DEF giveUp
  <2>2. Counted(q)
    BY <1>3, <2>1 DEF Counted, Stage
  <2> QED
    BY <1>5, <2>1, <2>2 DEF endSubscriptionUnlocked
<1> QED
    BY <1>8, <1>9, <1>10, <1>11, <1>12, <1>13, <1>14, <1>15, <1>16, <1>17 DEF Holding

(***************************************************************************)
(* Whatever else happens, the holders of the locks stay where they are,    *)
(* and the watchdog takes the lock of a queue to restore it.               *)
(***************************************************************************)
LEMMA RestCounts ==
    ASSUME Base, [Step]_vars, \A a \in Actors : ~Acquire(a) /\ ~Holding(a)
    PROVE  Counts
<1> USE DEF queueVars, globalVars, threadVars
<1>1. /\ UNCHANGED <<sub, count, tid>>
      /\ \/ UNCHANGED lock
         \/ \E q \in Queues : checkSubscription(q)
  <2>1. CASE WatchdogStep
    BY <2>1
       DEF WatchdogStep, report, reported, reportHere,
           checkSubscriptionReturns, checkSubscription, checkDeleted
  <2>2. CASE ListenerStep \/ DispatchStep
    BY <2>2
       DEF ListenerStep, postNotification, ListenerReturns, deliverHere, onAsyncMessage,
           DispatchStep, DispatchAsync, DispatchLost, DispatchNothing
  <2>3. CASE Outside
    BY <2>3 DEF Outside, Call, CallbackReturns, postAsyncMessage, ConnectionLost
  <2>4. CASE Managers
    BY <2>4, ManagersLeave
  <2>5. CASE UNCHANGED vars
    BY <2>5 DEF vars
  <2> QED
    BY <2>1, <2>2, <2>3, <2>4, <2>5, StepKinds
<1>2. ASSUME NEW r \in Queues PROVE SameCount(r)
  <2>1. CASE lock[r] = Nobody
    <3>1. ~Ends(r)
      BY <2>1 DEF Ends
    <3>2. CASE UNCHANGED lock
      BY <1>1, <2>1, <3>2 DEF SameCount, Counted, Ends
    <3>3. ASSUME NEW q \in Queues, checkSubscription(q) PROVE ~Ends(r)'
      BY <2>1, <3>3
         DEF checkSubscription, Ends, Base, Types, QueueTypes, ThreadTypes, Actors
    <3> QED
      BY <1>1, <3>1, <3>2, <3>3 DEF SameCount, Counted
  <2>2. CASE lock[r] # Nobody
    <3>1. PICK a \in Actors : lock[r] = a
      BY <2>2 DEF Base, Types, QueueTypes
    <3>2. lock'[r] = a /\ SamePlace(a)
      BY <3>1, HoldersStay
    <3> QED
      BY <1>1, <3>1, <3>2 DEF SameCount, Counted, Ends, SamePlace
  <2> QED
    BY <2>1, <2>2
<1> QED
    BY <1>1, <1>2 DEF Counts

CountIs == /\ count = Cardinality({q \in Queues : Counted(q)})
           /\ tid <=> count > 0

LEMMA CountIsKept ==
    ASSUME CountIs, Counts
    PROVE  CountIs'
<1> DEFINE S == {q \in Queues : Counted(q)}
           Z == {q \in Queues : Counted(q)'}
<1>1. IsFiniteSet(S) /\ Cardinality(S) \in Nat
    BY QueuesAssumption, FS_Subset, FS_CardinalityType
<1>2. S' = Z /\ count = Cardinality(S)
    BY DEF CountIs
<1>3. CASE UNCHANGED <<count, tid>> /\ \A r \in Queues : SameCount(r)
  <2>1. Z = S
    BY <1>3 DEF SameCount
  <2> QED
    BY <1>2, <1>3, <2>1 DEF CountIs
<1>4. ASSUME NEW q \in Queues, inc, ~Counted(q), Counted(q)',
             \A r \in Queues \ {q} : SameCount(r)
      PROVE  CountIs'
  <2>1. Z = S \cup {q} /\ q \notin S
    BY <1>4 DEF SameCount
  <2>2. Cardinality(S \cup {q}) = Cardinality(S) + 1
    BY <1>1, <2>1, FS_AddElement
  <2>3. Cardinality(Z) = Cardinality(S) + 1
    BY <2>1, <2>2
  <2>4. count' = count + 1 /\ tid' = TRUE
    BY <1>4 DEF inc
  <2> HIDE DEF S, Z
  <2>5. count' = Cardinality(Z) /\ count' > 0
    BY <1>1, <1>2, <2>3, <2>4
  <2> QED
    BY <2>4, <2>5 DEF CountIs, Z
<1>5. ASSUME NEW q \in Queues, dec, Counted(q), ~Counted(q)',
             \A r \in Queues \ {q} : SameCount(r)
      PROVE  CountIs'
  <2>1. Z = S \ {q} /\ q \in S
    BY <1>5 DEF SameCount
  <2>2. Cardinality(S \ {q}) = Cardinality(S) - 1 /\ Cardinality(S \ {q}) \in Nat
    BY <1>1, <2>1, FS_RemoveElement, FS_CardinalityType
  <2>3. Cardinality(Z) = Cardinality(S) - 1 /\ Cardinality(Z) \in Nat
    BY <2>1, <2>2
  <2>4. count' = count - 1 /\ tid' = (count # 1)
    BY <1>5 DEF dec
  <2> HIDE DEF S, Z
  <2>5. count' = Cardinality(Z) /\ count' \in Nat /\ count \in Nat
    BY <1>1, <1>2, <2>3, <2>4
  <2>6. count # 1 <=> count' > 0
    BY <2>4, <2>5
  <2> QED
    BY <2>4, <2>5, <2>6 DEF CountIs, Z
<1> QED
    BY <1>3, <1>4, <1>5 DEF Counts

LEMMA CountIsInit == Init => CountIs
<1> SUFFICES ASSUME Init PROVE CountIs
    OBVIOUS
<1>1. {q \in Queues : Counted(q)} = {}
    BY DEF Init, Counted, Ends
<1>2. Cardinality({q \in Queues : Counted(q)}) = 0
    BY <1>1, FS_EmptySet
<1>3. count = 0 /\ tid = FALSE
    BY DEF Init
<1> QED
    BY <1>2, <1>3 DEF CountIs

LEMMA CountIsNext == Base /\ CountIs /\ [Next]_vars => CountIs'
<1>1. [Next]_vars => [Step]_vars
    BY DEF Next
<1> QED
    BY <1>1, CountIsKept, AcquireCounts, HoldingCounts, RestCounts

LEMMA CountOf == Base /\ CountIs => CallbackThreadCount
<1> SUFFICES ASSUME Base, CountIs PROVE CallbackThreadCount
    OBVIOUS
<1>1. {q \in Queues : sub[q] # 0 \/ Ending(q)} = {q \in Queues : Counted(q)}
    BY EndingIs DEF Counted
<1> QED
    BY <1>1 DEF CallbackThreadCount, CountIs

(***************************************************************************)
(* The thread ID of the notification thread is reserved exactly while a    *)
(* subscription needs it: every path that ends one releases it once.       *)
(***************************************************************************)
THEOREM ThreadIdIsCounted == Spec => []CallbackThreadCount
BY BaseInit, BaseStep, CountIsInit, CountIsNext, CountOf, PTL DEF Spec

(***************************************************************************)
(* The types; the count is no larger than the number of queues, and a lock *)
(* is held for the queue that its holder works on.                         *)
(***************************************************************************)
THEOREM TypeCorrect == Spec => []TypeOK
<1>1. ASSUME Base, CountIs PROVE TypeOK
  <2>1. count \in 0..Cardinality(Queues)
    <3> DEFINE S == {q \in Queues : Counted(q)}
    <3>1. /\ Cardinality(S) <= Cardinality(Queues)
          /\ Cardinality(S) \in Nat /\ Cardinality(Queues) \in Nat
      BY QueuesAssumption, FS_Subset, FS_CardinalityType
    <3> QED
      BY <1>1, <3>1 DEF CountIs
  <2>2. \A q \in Queues : lock[q] # Nobody => on[lock[q]] = q
    BY <1>1 DEF Base, Locks, Types, QueueTypes
  <2> QED
    BY <1>1, <2>1, <2>2 DEF TypeOK, Base, Types, QueueTypes, ClientTypes, ThreadTypes
<1> QED
    BY BaseInit, BaseStep, CountIsInit, CountIsNext, <1>1, PTL DEF Spec

=============================================================================
