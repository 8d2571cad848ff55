--------------------------- MODULE AQSubscription ---------------------------
(***************************************************************************)
(* The subscriptions of AQQueue objects (class AQQueuePriv), composed with *)
(* the watchdog manager (AQSubscriptionManager) and the callback           *)
(* dispatcher (AQCallbackDispatcher).                                      *)
(*                                                                         *)
(* Threads of the program call the methods of queues.  The notification    *)
(* thread of the Oracle client hands notifications to the dispatcher.  The *)
(* watchdog restores the subscriptions of lost connections, or ends them   *)
(* and has the loss reported.  The dispatcher calls onAsyncMessage() and   *)
(* onSubscriptionLost(), Qore code that may call any method again.         *)
(*                                                                         *)
(* A method holds the lock of its queue from its first to its last step.   *)
(* It is split where another thread can see the difference: where it       *)
(* waits for a lock of the Oracle client, joins a thread, or blocks on the *)
(* server.  The Oracle client is modelled from how the code uses it: it    *)
(* calls back while it holds the lock of its notification listener, which  *)
(* it also takes to register and to unregister a subscription.             *)
(***************************************************************************)
EXTENDS Naturals, Sequences, FiniteSets

CONSTANTS
    Queues,         \* the AQQueue objects
    Users,          \* threads of the program
    Dispatcher,     \* the dispatch thread, as a caller of methods
    Watchdog,       \* the watchdog thread, as a caller of methods
    Listener,       \* the notification thread of the Oracle client
    Nobody,         \* no thread holds the lock
    Module,         \* the caller of stop(); not used here
    WThreads,       \* identifiers of watchdog threads
    DThreads,       \* identifiers of dispatch threads
    NoThread,       \* no thread
    NoCallback,     \* no callback
    Methods,        \* the methods that Qore code calls, of AllMethods
    MaxSubs,        \* bound: the subscriptions that are started
    MaxQueue,       \* bound: the queued callbacks
    CreateFails     \* TRUE if threads cannot always be created

AllMethods == {"startSubscription", "stopSubscription", "getMessage", "post", "commit",
               "destructor"}

ASSUME BoundsAssumption ==
    /\ Methods \subseteq AllMethods
    /\ MaxSubs \in Nat /\ MaxQueue \in Nat /\ CreateFails \in BOOLEAN

Actors == Users \cup {Dispatcher, Watchdog, Listener}

Callbacks ==
    [kind : {"async"}, q : Queues, sub : 1..MaxSubs]
      \cup [kind : {"lost"}, q : Queues, sub : {0}]

ASSUME ActorsAssumption ==
    /\ Nobody \notin Actors \cup Queues
    /\ Users \cap {Dispatcher, Watchdog, Listener} = {}
    /\ Dispatcher # Watchdog /\ Dispatcher # Listener /\ Watchdog # Listener
ASSUME QueuesAssumption == IsFiniteSet(Queues) /\ Module \notin Queues
ASSUME ThreadsAssumption == NoThread \notin WThreads \cup DThreads
ASSUME CallbacksAssumption == NoCallback \notin Callbacks

VARIABLES
    \* AQQueuePriv
    lock,           \* who holds the lock of each queue
    valid,          \* the object was not destroyed
    conn,           \* m_conn: "none", "bare" (without m_typeInfo), "open", or
                    \* "dangling" (the object it points to was deleted)
    hasSub,         \* m_hasSubscription
    sub,            \* m_subscription
    lost,           \* m_lost is set: a loss has not been reported yet
    \* the Oracle client and the server
    up,             \* the connection works
    callback,       \* dequeue->callback is set
    registered,     \* the client calls back for the queue
    listener,       \* who holds the lock of the notification listener
    \* process-wide state of the module
    count,          \* AQCallbackThreadManager::count
    tid,            \* AQCallbackThreadManager::tid is reserved
    last,           \* aq_last_subscription
    \* the threads
    at,             \* where each actor is in a method
    why,            \* the method it is in
    on,             \* the queue it works on
    code,           \* the system threads that are in Qore code (a callback)
    checking,       \* the queue that the watchdog checks
    note,           \* the queue and subscription that the listener notifies
    fault,          \* a null pointer was called or a deleted object was used
    \* AQSubscriptionManager and AQCallbackDispatcher
    objects, wStarted, wRunning, wQuit, wThread, wpc, snapshot, wJoining,
    queue, dStarted, dRunning, dThread, dpc, cb, dJoining

queueVars == <<lock, valid, conn, hasSub, sub, lost>>
clientVars == <<up, callback, registered, listener>>
globalVars == <<count, tid, last>>
threadVars == <<at, why, on, code, checking, note, fault>>
wVars == <<objects, wStarted, wRunning, wQuit, wThread, wpc, snapshot, wJoining>>
dVars == <<queue, dStarted, dRunning, dThread, dpc, cb, dJoining>>

vars == <<queueVars, clientVars, globalVars, threadVars, wVars, dVars>>

W == INSTANCE AQSubscriptionManager WITH
        started <- wStarted, running <- wRunning, quit <- wQuit,
        thread <- wThread, pc <- wpc, joining <- wJoining,
        Threads <- WThreads, stopped <- FALSE

D == INSTANCE AQCallbackDispatcher WITH
        started <- dStarted, running <- dRunning, thread <- dThread,
        pc <- dpc, joining <- dJoining, Threads <- DThreads,
        Posters <- {Watchdog, Listener}, stopped <- FALSE

(***************************************************************************)
(* After a fault nothing is known of the process any more.                 *)
(***************************************************************************)
alive == fault = "none"

(***************************************************************************)
(* The queues have been constructed and are connected.                     *)
(***************************************************************************)
Init ==
    /\ lock = [q \in Queues |-> Nobody]
    /\ valid = [q \in Queues |-> TRUE]
    /\ conn = [q \in Queues |-> "open"]
    /\ hasSub = [q \in Queues |-> FALSE]
    /\ sub = [q \in Queues |-> 0]
    /\ lost = [q \in Queues |-> FALSE]
    /\ up = [q \in Queues |-> TRUE]
    /\ callback = [q \in Queues |-> FALSE]
    /\ registered = [q \in Queues |-> FALSE]
    /\ listener = Nobody
    /\ count = 0 /\ tid = FALSE /\ last = 0
    /\ at = [a \in Actors |-> "idle"]
    /\ why = [a \in Actors |-> "none"]
    /\ on = [a \in Actors |-> Nobody]
    /\ code = {}
    /\ checking = Nobody
    /\ note = <<Nobody, 0>>
    /\ fault = "none"
    /\ W!Init
    /\ D!Init

-----------------------------------------------------------------------------
(***************************************************************************)
(* AQCallbackThreadManager: the thread ID is reserved for the first        *)
(* subscription and released with the last one.                            *)
(***************************************************************************)
inc == /\ tid' = TRUE
       /\ count' = count + 1

dec == /\ count' = count - 1
       /\ tid' = (count # 1)

(***************************************************************************)
(* The control of actor a: the next step of its method, or its return.     *)
(***************************************************************************)
Goto(a, l) == /\ at' = [at EXCEPT ![a] = l]
              /\ UNCHANGED <<why, on>>

Return(a) == /\ at' = [at EXCEPT ![a] = "idle"]
             /\ why' = [why EXCEPT ![a] = "none"]
             /\ on' = [on EXCEPT ![a] = Nobody]

Unlock(q) == lock' = [lock EXCEPT ![q] = Nobody]

(***************************************************************************)
(* disconnectUnlocked() without a subscription, then connectUnlocked():    *)
(* the datasource cannot be opened ("none"), the session cannot be marked  *)
(* ("bare"), the type of the queue cannot be found and the object is       *)
(* destroyed ("gone"), or the queue is connected ("open").                 *)
(***************************************************************************)
connectUnlocked(q, r) ==
    /\ conn' = [conn EXCEPT ![q] = IF r = "gone" THEN "none" ELSE r]
    /\ valid' = [valid EXCEPT ![q] = r # "gone"]
    /\ up' = [up EXCEPT ![q] = r \in {"open", "bare"}]

Outcomes == {"open", "bare", "none", "gone"}

(***************************************************************************)
(* A method can go on if the object was not destroyed and is connected, if *)
(* need be now.                                                            *)
(***************************************************************************)
checkValidUnlocked(q) ==
    /\ valid[q]
    /\ \/ conn[q] = "open" /\ UNCHANGED <<conn, valid, up>>
       \/ conn[q] = "none" /\ connectUnlocked(q, "open")

(***************************************************************************)
(* endSubscriptionUnlocked()                                               *)
(***************************************************************************)
endSubscriptionUnlocked(q) ==
    /\ sub' = [sub EXCEPT ![q] = 0]
    /\ dec

-----------------------------------------------------------------------------
(***************************************************************************)
(* Qore code calls a method.                                               *)
(***************************************************************************)
Call(a, m, q) ==
    /\ at[a] = "idle"
    /\ a \in Users \cup code
    /\ at' = [at EXCEPT ![a] = "lock"]
    /\ why' = [why EXCEPT ![a] = m]
    /\ on' = [on EXCEPT ![a] = q]
    /\ UNCHANGED <<queueVars, clientVars, globalVars, code, checking, note, fault, wVars, dVars>>

(***************************************************************************)
(* A method that cannot go on returns, after it has connected a queue that *)
(* is not connected or has failed to.  post() does nothing else to this    *)
(* state, nor do commit() and rollback() ("commit") if the connection      *)
(* works.                                                                  *)
(***************************************************************************)
lockAndReturn(a) ==
    LET q == on[a] IN
    /\ at[a] = "lock"
    /\ lock[q] = Nobody
    /\ \/ ~valid[q] /\ UNCHANGED <<conn, valid, up>>
       \/ /\ valid[q] /\ conn[q] = "none" /\ why[a] # "destructor"
          /\ \E r \in Outcomes : connectUnlocked(q, r)
       \/ /\ valid[q] /\ conn[q] # "none"
          /\ \/ why[a] = "startSubscription" /\ (conn[q] # "dangling" \/ hasSub[q])
             \/ why[a] = "stopSubscription" /\ ~hasSub[q]
             \/ why[a] \in {"getMessage", "post"} /\ conn[q] # "dangling"
             \/ why[a] = "commit" /\ conn[q] # "dangling" /\ up[q]
          /\ UNCHANGED <<conn, valid, up>>
    /\ Return(a)
    /\ UNCHANGED <<lock, hasSub, sub, lost, callback, registered, listener,
                   globalVars, code, checking, note, fault, wVars, dVars>>

(***************************************************************************)
(* commit() and rollback() on a lost connection: handleError() closes the  *)
(* datasource, which deletes the connection, and m_conn is left as it was. *)
(***************************************************************************)
commitLost(a) ==
    LET q == on[a] IN
    /\ at[a] = "lock" /\ why[a] = "commit"
    /\ lock[q] = Nobody /\ valid[q]
    /\ conn[q] \in {"open", "bare"} /\ ~up[q]
    /\ conn' = [conn EXCEPT ![q] = "dangling"]
    /\ Return(a)
    /\ UNCHANGED <<lock, valid, hasSub, sub, lost, clientVars, globalVars, code,
                   checking, note, fault, wVars, dVars>>

(***************************************************************************)
(* A method uses the connection that was deleted: nothing is said of what  *)
(* follows.                                                                *)
(***************************************************************************)
UseDeleted(a) ==
    LET q == on[a] IN
    /\ at[a] = "lock"
    /\ lock[q] = Nobody /\ valid[q] /\ conn[q] = "dangling"
    /\ why[a] = "startSubscription" => ~hasSub[q]
    /\ why[a] = "stopSubscription" => hasSub[q]
    /\ fault' = "deleted"
    /\ UNCHANGED <<queueVars, clientVars, globalVars, at, why, on, code, checking,
                   note, wVars, dVars>>

(***************************************************************************)
(* startSubscription(): everything the first notification needs is set     *)
(* before the subscription is registered.                                  *)
(***************************************************************************)
startSubscription(a) ==
    LET q == on[a] IN
    /\ at[a] = "lock" /\ why[a] = "startSubscription"
    /\ lock[q] = Nobody
    /\ checkValidUnlocked(q)
    /\ ~hasSub[q]
    /\ last < MaxSubs
    /\ lock' = [lock EXCEPT ![q] = a]
    /\ inc
    /\ last' = last + 1
    /\ sub' = [sub EXCEPT ![q] = last + 1]
    /\ callback' = [callback EXCEPT ![q] = TRUE]
    /\ Goto(a, "subscribe")
    /\ UNCHANGED <<hasSub, lost, registered, listener, code, checking, note,
                   fault, wVars, dVars>>

(***************************************************************************)
(* OCI_DequeueSubscribe(): the client takes the lock of its listener.      *)
(* A failed call leaves no registration and no callback.                   *)
(***************************************************************************)
subscribe(a) ==
    LET q == on[a] IN
    /\ at[a] = "subscribe"
    /\ listener \in {Nobody, a}
    /\ \/ /\ up[q]
          /\ registered' = [registered EXCEPT ![q] = TRUE]
          /\ hasSub' = [hasSub EXCEPT ![q] = TRUE]
          /\ Goto(a, "add")
          /\ UNCHANGED <<sub, count, tid, lock, callback>>
       \/ /\ callback' = [callback EXCEPT ![q] = FALSE]
          /\ endSubscriptionUnlocked(q)
          /\ Unlock(q)
          /\ Return(a)
          /\ UNCHANGED <<registered, hasSub>>
    /\ UNCHANGED <<valid, conn, lost, up, listener, last, code, checking,
                   note, fault, wVars, dVars>>

\* mutation: the subscription is kept although it is not watched
addToWatchdog_Keeps(a) ==
    LET q == on[a] IN
    /\ at[a] = "add"
    /\ W!add(q) \/ (CreateFails /\ W!addFails(q))
    /\ Goto(a, "added")
    /\ UNCHANGED <<queueVars, clientVars, globalVars, code, checking, note,
                   fault, dVars>>

(***************************************************************************)
(* The queue is added to the watchdog, if a thread is in its loop or can   *)
(* be created; either way add() joins the last thread that has left it.    *)
(***************************************************************************)
addToWatchdog(a) ==
    LET q == on[a] IN
    /\ at[a] = "add"
    /\ \/ W!add(q) /\ Goto(a, "added")
       \/ CreateFails /\ W!addFails(q) /\ Goto(a, "addFailed")
    /\ UNCHANGED <<queueVars, clientVars, globalVars, code, checking, note,
                   fault, dVars>>

(***************************************************************************)
(* add() has failed: the subscription is stopped again.                    *)
(***************************************************************************)
addFailed(a) ==
    LET q == on[a] IN
    /\ at[a] = "addFailed"
    /\ wJoining[q] = NoThread
    /\ sub' = [sub EXCEPT ![q] = 0]
    /\ Goto(a, "unsubscribe")
    /\ UNCHANGED <<lock, valid, conn, hasSub, lost, clientVars, globalVars,
                   code, checking, note, fault, wVars, dVars>>

subscribed(a) ==
    LET q == on[a] IN
    /\ at[a] = "added"
    /\ wJoining[q] = NoThread
    /\ Unlock(q)
    /\ Return(a)
    /\ UNCHANGED <<valid, conn, hasSub, sub, lost, clientVars, globalVars,
                   code, checking, note, fault, wVars, dVars>>

(***************************************************************************)
(* stopSubscription(), and the destructor of a queue with a subscription:  *)
(* the queue is no longer watched, and no notification that was queued is  *)
(* delivered from here on.                                                 *)
(***************************************************************************)
stopSubscription(a) ==
    LET q == on[a] IN
    /\ at[a] = "lock" /\ why[a] \in {"stopSubscription", "destructor"}
    /\ lock[q] = Nobody /\ valid[q] /\ hasSub[q] /\ conn[q] # "dangling"
    /\ lock' = [lock EXCEPT ![q] = a]
    /\ W!remove(q)
    /\ sub' = [sub EXCEPT ![q] = 0]
    /\ Goto(a, "unsubscribe")
    /\ UNCHANGED <<valid, conn, hasSub, lost, clientVars, globalVars, code,
                   checking, note, fault, dVars>>

\* mutation: the subscription is not stopped first
destructor_NoStop(a) ==
    LET q == on[a] IN
    /\ at[a] = "lock" /\ why[a] = "destructor"
    /\ lock[q] = Nobody /\ valid[q]
    /\ valid' = [valid EXCEPT ![q] = FALSE]
    /\ conn' = [conn EXCEPT ![q] = "none"]
    /\ Return(a)
    /\ UNCHANGED <<lock, hasSub, sub, lost, clientVars, globalVars, code,
                   checking, note, fault, wVars, dVars>>

destructor(a) ==
    LET q == on[a] IN
    /\ at[a] = "lock" /\ why[a] = "destructor"
    /\ lock[q] = Nobody /\ valid[q] /\ ~hasSub[q] /\ conn[q] # "dangling"
    /\ valid' = [valid EXCEPT ![q] = FALSE]
    /\ conn' = [conn EXCEPT ![q] = "none"]
    /\ Return(a)
    /\ UNCHANGED <<lock, hasSub, sub, lost, clientVars, globalVars, code,
                   checking, note, fault, wVars, dVars>>

(***************************************************************************)
(* OCI_DequeueUnsubscribe() clears the callback ...                        *)
(***************************************************************************)
unsubscribe(a) ==
    LET q == on[a] IN
    /\ at[a] = "unsubscribe"
    /\ callback' = [callback EXCEPT ![q] = FALSE]
    /\ Goto(a, "unregister")
    /\ UNCHANGED <<queueVars, up, registered, listener, globalVars, code,
                   checking, note, fault, wVars, dVars>>

\* mutation: the method returns with the lock
unregister_KeepsLock(a) ==
    LET q == on[a] IN
    /\ at[a] = "unregister" /\ why[a] # "restore"
    /\ listener \in {Nobody, a}
    /\ registered' = [registered EXCEPT ![q] = FALSE]
    /\ hasSub' = [hasSub EXCEPT ![q] = FALSE]
    /\ dec
    /\ Return(a)
    /\ UNCHANGED <<lock, valid, conn, sub, lost, up, callback, listener, last,
                   code, checking, note, fault, wVars, dVars>>

(***************************************************************************)
(* ... and has the client unregister the subscription, under the lock of   *)
(* its listener; the subscription is over.                                 *)
(***************************************************************************)
unregister(a) ==
    LET q == on[a] IN
    /\ at[a] = "unregister" /\ why[a] # "restore"
    /\ listener \in {Nobody, a}
    /\ registered' = [registered EXCEPT ![q] = FALSE]
    /\ hasSub' = [hasSub EXCEPT ![q] = FALSE]
    /\ dec
    /\ valid' = [valid EXCEPT ![q] = @ /\ why[a] # "destructor"]
    /\ conn' = [conn EXCEPT ![q] = IF why[a] = "destructor" THEN "none" ELSE @]
    /\ Unlock(q)
    /\ Return(a)
    /\ UNCHANGED <<sub, lost, up, callback, listener, last, code, checking,
                   note, fault, wVars, dVars>>

-----------------------------------------------------------------------------
(***************************************************************************)
(* getMessage() holds the lock while it waits on the server.               *)
(***************************************************************************)
getMessage(a) ==
    LET q == on[a] IN
    /\ at[a] = "lock" /\ why[a] = "getMessage"
    /\ lock[q] = Nobody
    /\ checkValidUnlocked(q)
    /\ lock' = [lock EXCEPT ![q] = a]
    /\ Goto(a, "dequeue")
    /\ UNCHANGED <<hasSub, sub, lost, callback, registered, listener,
                   globalVars, code, checking, note, fault, wVars, dVars>>

\* mutation: the method returns with the lock
dequeued_KeepsLock(a) ==
    LET q == on[a] IN
    /\ at[a] \in {"dequeue", "redequeue"}
    /\ up[q]
    /\ Return(a)
    /\ UNCHANGED <<queueVars, clientVars, globalVars, code, checking, note,
                   fault, wVars, dVars>>

(***************************************************************************)
(* OCI_DequeueGet() on a connection that works: a message, nothing or an   *)
(* error is returned.                                                      *)
(***************************************************************************)
dequeued(a) ==
    LET q == on[a] IN
    /\ at[a] \in {"dequeue", "redequeue"}
    /\ up[q]
    /\ Unlock(q)
    /\ Return(a)
    /\ UNCHANGED <<valid, conn, hasSub, sub, lost, clientVars, globalVars,
                   code, checking, note, fault, wVars, dVars>>

(***************************************************************************)
(* The connection is lost (reconnectUnlocked()): with a subscription that  *)
(* is restored too, without one the queue is connected again.  The dequeue *)
(* is repeated with a new handle, on which the wait time is not set        *)
(* ("redequeue").                                                          *)
(***************************************************************************)
reconnectUnlocked(a) ==
    LET q == on[a] IN
    /\ at[a] \in {"dequeue", "redequeue"}
    /\ ~up[q]
    /\ \/ /\ hasSub[q]
          /\ at' = [at EXCEPT ![a] = "unsubscribe"]
          /\ why' = [why EXCEPT ![a] = "restore"]
          /\ UNCHANGED <<on, conn, valid, up, lock>>
       \/ /\ ~hasSub[q]
          /\ \E r \in Outcomes :
                /\ connectUnlocked(q, r)
                /\ IF r = "open" THEN Goto(a, "redequeue") /\ UNCHANGED lock
                                 ELSE Unlock(q) /\ Return(a)
    /\ UNCHANGED <<hasSub, sub, lost, callback, registered, listener,
                   globalVars, code, checking, note, fault, wVars, dVars>>

(***************************************************************************)
(* reconnectSubscriptionUnlocked(): the subscription is stopped but keeps  *)
(* its identifier and its callback thread ID; the queue is disconnected    *)
(* and connected ...                                                       *)
(***************************************************************************)
restoreConnection(a) ==
    LET q == on[a] IN
    /\ at[a] = "unregister" /\ why[a] = "restore"
    /\ listener \in {Nobody, a}
    /\ registered' = [registered EXCEPT ![q] = FALSE]
    /\ hasSub' = [hasSub EXCEPT ![q] = FALSE]
    /\ \E r \in Outcomes :
          /\ connectUnlocked(q, r)
          /\ \/ /\ r = "open"
                /\ callback' = [callback EXCEPT ![q] = TRUE]
                /\ Goto(a, "resubscribe")
             \/ Goto(a, "giveUp") /\ UNCHANGED callback
    /\ UNCHANGED <<lock, sub, lost, listener, globalVars, code, checking,
                   note, fault, wVars, dVars>>

(***************************************************************************)
(* ... and the subscription is registered again.                           *)
(***************************************************************************)
resubscribe(a) ==
    LET q == on[a] IN
    /\ at[a] = "resubscribe"
    /\ listener \in {Nobody, a}
    /\ \/ /\ up[q]
          /\ registered' = [registered EXCEPT ![q] = TRUE]
          /\ hasSub' = [hasSub EXCEPT ![q] = TRUE]
          /\ IF checking = q /\ a = Watchdog /\ a \notin code
             THEN /\ Unlock(q)
                  /\ Return(a)
                  /\ checking' = Nobody
                  /\ W!checked(wThread, q)
             ELSE /\ at' = [at EXCEPT ![a] = "redequeue"]
                  /\ why' = [why EXCEPT ![a] = "getMessage"]
                  /\ UNCHANGED <<on, lock, checking, wVars>>
          /\ UNCHANGED callback
       \/ /\ callback' = [callback EXCEPT ![q] = FALSE]
          /\ Goto(a, "giveUp")
          /\ UNCHANGED <<registered, hasSub, lock, checking, wVars>>
    /\ UNCHANGED <<valid, conn, sub, lost, up, listener, globalVars, code,
                   note, fault, dVars>>

\* mutation: the callback thread ID is not released
giveUp_KeepsThreadId(a) ==
    LET q == on[a] IN
    /\ at[a] = "giveUp"
    /\ W!remove(q)
    /\ sub' = [sub EXCEPT ![q] = 0]
    /\ IF a = Watchdog /\ a \notin code
       THEN /\ lost' = [lost EXCEPT ![q] = TRUE]
            /\ Goto(a, "report")
       ELSE Return(a) /\ UNCHANGED lost
    /\ Unlock(q)
    /\ UNCHANGED <<valid, conn, hasSub, clientVars, globalVars, code, checking,
                   note, fault, dVars>>

(***************************************************************************)
(* The subscription cannot be restored.  getMessage() raises its error;    *)
(* the watchdog goes on to report the loss.                                *)
(***************************************************************************)
giveUp(a) ==
    LET q == on[a] IN
    /\ at[a] = "giveUp"
    /\ W!remove(q)
    /\ endSubscriptionUnlocked(q)
    /\ IF a = Watchdog /\ a \notin code
       THEN /\ lost' = [lost EXCEPT ![q] = TRUE]
            /\ Goto(a, "report")
       ELSE Return(a) /\ UNCHANGED lost
    /\ Unlock(q)
    /\ UNCHANGED <<valid, conn, hasSub, clientVars, last, code, checking,
                   note, fault, dVars>>

-----------------------------------------------------------------------------
(***************************************************************************)
(* The watchdog thread.  A queue that another thread uses is not checked,  *)
(* nor is one without a subscription or with a connection that answers.    *)
(***************************************************************************)
Checks(q) == /\ wRunning /\ wpc[wThread] = "check" /\ q \in snapshot[wThread]
             /\ checking = Nobody

checkSubscriptionReturns(q) ==
    /\ Checks(q)
    /\ \/ lock[q] # Nobody \/ ~valid[q] \/ ~hasSub[q] \/ conn[q] = "none"
       \/ conn[q] = "open" /\ up[q]
    /\ W!checked(wThread, q)
    /\ UNCHANGED <<queueVars, clientVars, globalVars, threadVars, dVars>>

checkSubscription(q) ==
    /\ Checks(q)
    /\ lock[q] = Nobody /\ valid[q] /\ hasSub[q] /\ conn[q] = "open" /\ ~up[q]
    /\ lock' = [lock EXCEPT ![q] = Watchdog]
    /\ checking' = q
    /\ at' = [at EXCEPT ![Watchdog] = "unsubscribe"]
    /\ why' = [why EXCEPT ![Watchdog] = "restore"]
    /\ on' = [on EXCEPT ![Watchdog] = q]
    /\ UNCHANGED <<valid, conn, hasSub, sub, lost, clientVars, globalVars,
                   code, note, fault, wVars, dVars>>

(***************************************************************************)
(* The ping uses the connection that commit() has deleted.                 *)
(***************************************************************************)
checkDeleted(q) ==
    /\ Checks(q)
    /\ lock[q] = Nobody /\ valid[q] /\ hasSub[q] /\ conn[q] = "dangling"
    /\ fault' = "deleted"
    /\ UNCHANGED <<queueVars, clientVars, globalVars, at, why, on, code, checking,
                   note, wVars, dVars>>

(***************************************************************************)
(* The loss is reported on the dispatch thread or, if that cannot be       *)
(* started, by the watchdog itself.                                        *)
(***************************************************************************)
LostCallback(q) == [kind |-> "lost", q |-> q, sub |-> 0]

\* mutation: a loss that cannot be posted is forgotten
report_IgnoresFailure ==
    /\ at[Watchdog] = "report"
    /\ \/ D!post(Watchdog, LostCallback(on[Watchdog]))
       \/ CreateFails /\ D!postFails(Watchdog)
    /\ Goto(Watchdog, "reported")
    /\ UNCHANGED <<queueVars, clientVars, globalVars, code, checking, note,
                   fault, wVars>>

report ==
    /\ at[Watchdog] = "report"
    /\ \/ /\ D!post(Watchdog, LostCallback(on[Watchdog]))
          /\ Goto(Watchdog, "reported")
       \/ /\ CreateFails
          /\ D!postFails(Watchdog)
          /\ Goto(Watchdog, "reportHere")
    /\ UNCHANGED <<queueVars, clientVars, globalVars, code, checking, note,
                   fault, wVars>>

reported ==
    /\ at[Watchdog] \in {"reported", "reportHere"}
    /\ dJoining[Watchdog] = NoThread
    /\ at[Watchdog] = "reportHere" => ~lost[on[Watchdog]]
    /\ W!checked(wThread, checking)
    /\ checking' = Nobody
    /\ Return(Watchdog)
    /\ UNCHANGED <<queueVars, clientVars, globalVars, code, note, fault, dVars>>

(***************************************************************************)
(* notifySubscriptionLost() takes the loss, so that it is reported once,   *)
(* and calls onSubscriptionLost().                                         *)
(***************************************************************************)
notifySubscriptionLost(a, q) ==
    /\ lost[q]
    /\ lost' = [lost EXCEPT ![q] = FALSE]
    /\ code' = code \cup {a}

reportHere ==
    /\ at[Watchdog] = "reportHere"
    /\ dJoining[Watchdog] = NoThread
    /\ notifySubscriptionLost(Watchdog, on[Watchdog])
    /\ Return(Watchdog)
    /\ UNCHANGED <<lock, valid, conn, hasSub, sub, clientVars, globalVars,
                   checking, note, fault, wVars, dVars>>

WatchdogThread(t) ==
    /\ W!round(t) \/ W!endRound(t) \/ W!wake(t) \/ W!leave(t) \/ W!end(t)
    /\ UNCHANGED <<queueVars, clientVars, globalVars, threadVars, dVars>>

WatchdogJoin(q) ==
    /\ W!join(q)
    /\ UNCHANGED <<queueVars, clientVars, globalVars, threadVars, dVars>>

-----------------------------------------------------------------------------
(***************************************************************************)
(* The notification thread of the Oracle client calls back through the     *)
(* pointer in the dequeue handle (OCI_ProcNotifyMessages()), and           *)
(* postAsyncMessage() reads the subscription without the queue's lock.     *)
(***************************************************************************)
postAsyncMessage(q) ==
    /\ registered[q]
    /\ listener = Nobody
    /\ Len(queue) < MaxQueue
    /\ IF callback[q]
       THEN /\ sub[q] # 0
            /\ listener' = Listener
            /\ note' = <<q, sub[q]>>
            /\ at' = [at EXCEPT ![Listener] = "post"]
            /\ UNCHANGED fault
       ELSE fault' = "null" /\ UNCHANGED <<listener, note, at>>
    /\ UNCHANGED <<queueVars, up, callback, registered, globalVars, why, on,
                   code, checking, wVars, dVars>>

(***************************************************************************)
(* The notification is queued for the dispatch thread; if that cannot be   *)
(* started, the callback is made here.                                     *)
(***************************************************************************)
postNotification ==
    /\ at[Listener] = "post"
    /\ \/ /\ D!post(Listener, [kind |-> "async", q |-> note[1], sub |-> note[2]])
          /\ Goto(Listener, "posted")
       \/ /\ CreateFails
          /\ D!postFails(Listener)
          /\ Goto(Listener, "deliverHere")
    /\ UNCHANGED <<queueVars, clientVars, globalVars, code, checking, note,
                   fault, wVars>>

ListenerReturns ==
    /\ at[Listener] \in {"posted", "deliverHere"}
    /\ dJoining[Listener] = NoThread
    /\ at[Listener] = "deliverHere" => sub[note[1]] # note[2]
    /\ listener' = Nobody
    /\ note' = <<Nobody, 0>>
    /\ Return(Listener)
    /\ UNCHANGED <<queueVars, up, callback, registered, globalVars, code,
                   checking, fault, wVars, dVars>>

\* mutation: the subscription is not compared
deliverAsyncMessage_NoTest(a, q, s) == Goto(a, "deliver")

(***************************************************************************)
(* deliverAsyncMessage() goes on if the subscription is still the one the  *)
(* notification was queued for.  This test is made under m_sandbox_lock,   *)
(* which is released before onAsyncMessage() is called.                    *)
(***************************************************************************)
deliverAsyncMessage(a, q, s) ==
    /\ sub[q] = s
    /\ Goto(a, "deliver")

onAsyncMessage(a) ==
    /\ at[a] = "deliver"
    /\ code' = code \cup {a}
    /\ Return(a)
    /\ UNCHANGED <<queueVars, clientVars, globalVars, checking, note, fault,
                   wVars, dVars>>

deliverHere ==
    /\ at[Listener] = "deliverHere"
    /\ dJoining[Listener] = NoThread
    /\ deliverAsyncMessage(Listener, note[1], note[2])
    /\ UNCHANGED <<queueVars, clientVars, globalVars, code, checking, note, fault,
                   wVars, dVars>>

-----------------------------------------------------------------------------
(***************************************************************************)
(* The dispatch thread makes the callback that it has taken.               *)
(***************************************************************************)
Makes(t) == dpc[t] = "call" /\ Dispatcher \notin code /\ at[Dispatcher] = "idle"

DispatchAsync(t) ==
    /\ Makes(t)
    /\ cb[t].kind = "async"
    /\ deliverAsyncMessage(Dispatcher, cb[t].q, cb[t].sub)
    /\ UNCHANGED <<queueVars, clientVars, globalVars, code, checking,
                   note, fault, wVars, dVars>>

DispatchLost(t) ==
    /\ Makes(t)
    /\ cb[t].kind = "lost"
    /\ notifySubscriptionLost(Dispatcher, cb[t].q)
    /\ UNCHANGED <<lock, valid, conn, hasSub, sub, clientVars, globalVars, at,
                   why, on, checking, note, fault, wVars, dVars>>

DispatchNothing(t) ==
    /\ Makes(t)
    /\ IF cb[t].kind = "async" THEN sub[cb[t].q] # cb[t].sub ELSE ~lost[cb[t].q]
    /\ D!made(t)
    /\ UNCHANGED <<queueVars, clientVars, globalVars, threadVars, wVars>>

DispatchThread(t) ==
    /\ D!take(t) \/ D!leave(t) \/ D!end(t)
    /\ UNCHANGED <<queueVars, clientVars, globalVars, threadVars, wVars>>

DispatchJoin(p) ==
    /\ D!join(p)
    /\ UNCHANGED <<queueVars, clientVars, globalVars, threadVars, wVars>>

(***************************************************************************)
(* The Qore code of a callback returns to the thread that called it.       *)
(***************************************************************************)
CallbackReturns(a) ==
    /\ a \in code /\ at[a] = "idle"
    /\ code' = code \ {a}
    /\ \/ /\ a = Dispatcher
          /\ D!made(dThread)
          /\ UNCHANGED <<checking, note, listener, wVars>>
       \/ /\ a = Watchdog
          /\ W!checked(wThread, checking)
          /\ checking' = Nobody
          /\ UNCHANGED <<note, listener, dVars>>
       \/ /\ a = Listener
          /\ listener' = Nobody
          /\ note' = <<Nobody, 0>>
          /\ UNCHANGED <<checking, wVars, dVars>>
    /\ UNCHANGED <<queueVars, up, callback, registered, globalVars, at, why,
                   on, fault>>

(***************************************************************************)
(* The connection of a queue breaks.                                       *)
(***************************************************************************)
ConnectionLost(q) ==
    /\ conn[q] \in {"open", "bare"} /\ up[q]
    /\ up' = [up EXCEPT ![q] = FALSE]
    /\ UNCHANGED <<queueVars, callback, registered, listener, globalVars,
                   threadVars, wVars, dVars>>

-----------------------------------------------------------------------------
(***************************************************************************)
(* A step of a method that has been called: `Acquire` takes the lock of    *)
(* the queue, `Holding` is made with it.                                   *)
(***************************************************************************)
Acquire(a) == \/ lockAndReturn(a) \/ startSubscription(a) \/ stopSubscription(a)
              \/ destructor(a) \/ getMessage(a) \/ commitLost(a) \/ UseDeleted(a)

Holding(a) == \/ subscribe(a) \/ addToWatchdog(a) \/ addFailed(a) \/ subscribed(a)
              \/ unsubscribe(a) \/ unregister(a)
              \/ dequeued(a) \/ reconnectUnlocked(a)
              \/ restoreConnection(a) \/ resubscribe(a) \/ giveUp(a)

Registers(a) == subscribe(a) \/ unregister(a) \/ restoreConnection(a) \/ resubscribe(a)

WatchdogStep == \/ report \/ reported \/ reportHere
                \/ \E q \in Queues : \/ checkSubscriptionReturns(q) \/ checkSubscription(q)
                                   \/ checkDeleted(q)

ListenerStep == \/ postNotification \/ ListenerReturns \/ deliverHere
                \/ onAsyncMessage(Listener)

DispatchStep == \/ \E t \in DThreads : DispatchAsync(t) \/ DispatchLost(t) \/ DispatchNothing(t)
                \/ onAsyncMessage(Dispatcher)

Step == \/ \E a \in Actors : \/ \E m \in Methods, q \in Queues : Call(a, m, q)
                             \/ Acquire(a) \/ Holding(a) \/ CallbackReturns(a)
        \/ WatchdogStep \/ ListenerStep \/ DispatchStep
        \/ \E t \in WThreads : WatchdogThread(t)
        \/ \E t \in DThreads : DispatchThread(t)
        \/ \E q \in Queues : WatchdogJoin(q) \/ postAsyncMessage(q) \/ ConnectionLost(q)
        \/ \E p \in {Watchdog, Listener} : DispatchJoin(p)

Next == alive /\ Step

Spec == Init /\ [][Next]_vars

(***************************************************************************)
(* The threads that call Qore code: the dispatch thread, and those that    *)
(* make a callback themselves when it cannot be started.                   *)
(***************************************************************************)
Callers == IF CreateFails THEN {Dispatcher, Watchdog, Listener} ELSE {Dispatcher}

(***************************************************************************)
(* Every thread that can run does run, a waiter gets the lock of a queue   *)
(* or of the client's listener at last, a dequeue returns at its time      *)
(* limit or, if it has lost the limit, with a message, its connection is   *)
(* not lost again every time before it returns, and the Qore code of a     *)
(* callback returns.  Nothing else is assumed of the program, the server   *)
(* or the network.  Only the holder of a queue's lock registers for it or  *)
(* dequeues from it, so that one condition for each queue is enough.       *)
(***************************************************************************)
Fairness ==
    /\ \A a \in Users \cup Callers : SF_vars(alive /\ Acquire(a))
    /\ \A a \in Callers : SF_vars(alive /\ CallbackReturns(a))
    /\ \A q \in Queues :
          /\ SF_vars(alive /\ \E a \in Actors : on[a] = q /\ Registers(a))
          /\ SF_vars(alive /\ \E a \in Actors : on[a] = q /\ dequeued(a))
    /\ \A a \in Users : WF_vars(alive /\ Holding(a))
    /\ WF_vars(alive /\ (Holding(Dispatcher) \/ DispatchStep))
    /\ WF_vars(alive /\ (Holding(Watchdog) \/ WatchdogStep))
    /\ WF_vars(alive /\ (Holding(Listener) \/ ListenerStep))
    /\ \A t \in WThreads : WF_vars(alive /\ WatchdogThread(t))
    /\ \A t \in DThreads : WF_vars(alive /\ DispatchThread(t))
    /\ WF_vars(alive /\ \E q \in Queues : WatchdogJoin(q))
    /\ WF_vars(alive /\ \E p \in {Watchdog, Listener} : DispatchJoin(p))

FairSpec == Spec /\ Fairness

-----------------------------------------------------------------------------
(***************************************************************************)
(* The types; an actor is in a method exactly while it has a queue to work *)
(* on, and holds a queue's lock only for that queue.                       *)
(***************************************************************************)
TypeOK ==
    /\ lock \in [Queues -> Actors \cup {Nobody}]
    /\ valid \in [Queues -> BOOLEAN]
    /\ conn \in [Queues -> {"none", "bare", "open", "dangling"}]
    /\ hasSub \in [Queues -> BOOLEAN]
    /\ sub \in [Queues -> 0..MaxSubs]
    /\ lost \in [Queues -> BOOLEAN]
    /\ up \in [Queues -> BOOLEAN]
    /\ callback \in [Queues -> BOOLEAN]
    /\ registered \in [Queues -> BOOLEAN]
    /\ listener \in {Nobody, Listener}
    /\ count \in 0..Cardinality(Queues)
    /\ tid \in BOOLEAN
    /\ last \in 0..MaxSubs
    /\ on \in [Actors -> Queues \cup {Nobody}]
    /\ code \subseteq {Dispatcher, Watchdog, Listener}
    /\ checking \in Queues \cup {Nobody}
    /\ fault \in {"none", "null", "deleted"}
    /\ \A q \in Queues : lock[q] # Nobody => on[lock[q]] = q

(***************************************************************************)
(* A subscription is complete or it is not there: whenever no thread works *)
(* on a queue, the flag, the identifier, the entry in the watchdog, the    *)
(* registration with the client and its callback agree, and a subscribed   *)
(* queue is connected.  Every path of startSubscription(), the restore and *)
(* the failures of both must keep them together.                           *)
(***************************************************************************)
SubscriptionConsistent ==
    \A q \in Queues : lock[q] = Nobody =>
        /\ hasSub[q] <=> sub[q] # 0
        /\ hasSub[q] <=> q \in objects
        /\ hasSub[q] <=> registered[q]
        /\ hasSub[q] <=> callback[q]
        /\ hasSub[q] => valid[q] /\ conn[q] \in {"open", "dangling"}

(***************************************************************************)
(* The thread ID for the notification thread is reserved exactly while a   *)
(* subscription needs it: the count is the number of subscriptions that    *)
(* have not been ended, also while they are restored.                      *)
(***************************************************************************)
Ending(q) == \E a \in Actors : /\ on[a] = q /\ why[a] # "restore"
                               /\ at[a] \in {"unsubscribe", "unregister"}

CallbackThreadCount ==
    /\ count = Cardinality({q \in Queues : sub[q] # 0 \/ Ending(q)})
    /\ tid <=> count > 0

(***************************************************************************)
(* The client has no registration for a queue that was destroyed, so it    *)
(* never calls back into freed memory.                                     *)
(***************************************************************************)
RegisteredIsAlive == \A q \in Queues : registered[q] => valid[q]

(***************************************************************************)
(* Every subscription that is not being changed is watched: the watchdog   *)
(* thread is in its loop and stays there.                                  *)
(***************************************************************************)
SubscribedIsWatched ==
    \A q \in Queues : lock[q] = Nobody /\ hasSub[q] => wRunning /\ ~wQuit

(***************************************************************************)
(* A loss that was not reported yet always has somebody who will report    *)
(* it, even when the subscription was restarted and lost again meanwhile.  *)
(***************************************************************************)
LossHasReporter ==
    \A q \in Queues : lost[q] =>
        \/ \E i \in DOMAIN queue : queue[i] = LostCallback(q)
        \/ \E t \in DThreads : cb[t] = LostCallback(q) /\ Dispatcher \notin code
        \/ at[Watchdog] \in {"report", "reportHere"} /\ on[Watchdog] = q

(***************************************************************************)
(* Thread a is about to call onAsyncMessage() for subscription s of q.     *)
(***************************************************************************)
Delivers(a, q, s) ==
    /\ at[a] = "deliver"
    /\ IF a = Listener THEN note = <<q, s>>
                       ELSE cb[dThread].q = q /\ cb[dThread].sub = s

(***************************************************************************)
(* No delivery begins for a subscription that was stopped, or for an       *)
(* earlier subscription of a queue that has been started again: a thread   *)
(* that goes on to call onAsyncMessage() does so while the subscription of *)
(* the notification is active.  A delivery that has begun is not held      *)
(* back (see NoDeliveryAfterStop).                                         *)
(***************************************************************************)
NoDeliveryBeginsAfterStop ==
    [][\A a \in {Dispatcher, Listener}, q \in Queues, s \in 1..MaxSubs :
          ~Delivers(a, q, s) /\ Delivers(a, q, s)' =>
              sub[q] = s /\ (hasSub[q] \/ lock[q] # Nobody)]_vars

(***************************************************************************)
(* "No notification of the subscription that has not been delivered yet is *)
(* delivered once the subscription is stopped" (stopSubscription()).  Does *)
(* not hold: the subscription can be stopped between the test of           *)
(* deliverAsyncMessage() and its call of onAsyncMessage().                 *)
(***************************************************************************)
NoDeliveryAfterStop ==
    [][\A a \in {Dispatcher, Listener}, q \in Queues, s \in 1..MaxSubs :
          Delivers(a, q, s) /\ a \in code' \ code => sub[q] = s \/ Ending(q)]_vars

(***************************************************************************)
(* A loss is reported at last.                                             *)
(***************************************************************************)
LossIsReported == \A q \in Queues : lost[q] ~> ~lost[q] \/ ~alive

(***************************************************************************)
(* The client's notification thread has made a callback itself, under the  *)
(* lock of its listener, and the callback waits for the lock of a queue    *)
(* whose holder waits for the listener: neither goes on again.             *)
(***************************************************************************)
ListenerCycle ==
    /\ Listener \in code /\ at[Listener] = "lock"
    /\ \E a \in Actors \ {Listener} : /\ lock[on[Listener]] = a
                                   /\ at[a] \in {"subscribe", "unregister", "resubscribe"}

(***************************************************************************)
(* No thread of the program, and no callback, waits forever in a method:   *)
(* the locks of the queues, the managers and the client, and the joins of  *)
(* threads, form no cycle but that one (see NoListenerCycle).              *)
(***************************************************************************)
CallsReturn ==
    \A a \in Actors : at[a] = "lock" ~> at[a] = "idle" \/ ~alive \/ ListenerCycle

-----------------------------------------------------------------------------
(***************************************************************************)
(* What the documentation says and the code does not do.                   *)
(***************************************************************************)
\* A method returns: not when onAsyncMessage(), called on the notification
\* thread because the dispatch thread cannot be started, waits for a queue
\* whose lock is held by a thread that registers or unregisters with the client.
NoListenerCycle == ~ListenerCycle

\* "Both callbacks are called on a background callback thread of the module,
\* one at a time": not when the thread cannot be started.
CallbacksOnCallbackThread == code \subseteq {Dispatcher}

\* A notification that arrives while a subscription is stopped is dropped by
\* postAsyncMessage(): not when OCI_DequeueUnsubscribe() has cleared the
\* callback pointer and the client still has the registration.
NoNullCallback == fault # "null"

\* "closing it deletes this object and frees the handles' environment, which
\* the statements would then use": a connection is not closed under its user.
\* commit() and rollback() of a queue do not guard against it.
ConnectionNotDeleted == fault # "deleted"

\* "NOTHING if no message was available in the timeout period": getMessage()
\* does not set the wait time again when it was connected again.
WaitTimeIsKept == \A a \in Actors : at[a] # "redequeue"

\* "when a subscription cannot be restored, onSubscriptionLost() is called":
\* not when it is getMessage() that tries to restore it.
UnrestoredIsReported ==
    [][\A q \in Queues :
          (\E a \in Actors : on[a] = q /\ at[a] = "giveUp") /\ sub'[q] = 0 => lost'[q]]_vars
=============================================================================
