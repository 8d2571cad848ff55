----------------------------- MODULE ThreadCalls -----------------------------
(***************************************************************************)
(* The round trips that threads make on a connection they share one after  *)
(* another (a Datasource or a DatasourcePool): the session attributes of   *)
(* the calling thread are set on the session before each of them           *)
(* (applyThreadSessionInfo()), and a cancellation by another thread breaks *)
(* the round trip, and no other (QoreOracleCancelHelper).                  *)
(*                                                                         *)
(* The datasource has one user at a time.  A cancellation copies the       *)
(* callback that is registered for its thread and calls the copy later,    *)
(* at any time.                                                            *)
(***************************************************************************)
EXTENDS Naturals, FiniteSets

CONSTANTS
    Threads,   \* the threads that use the datasource
    NoThread,  \* the datasource is not in use
    NAttrs,    \* ORA_SA_COUNT
    Values,    \* the values of an attribute
    Empty,     \* the value of an attribute that is not set
    MaxTrips   \* bound on the number of round trips

ASSUME ThreadAssumption == NoThread \notin Threads
ASSUME AttrAssumption == NAttrs \in Nat /\ Empty \in Values
ASSUME TripAssumption == MaxTrips \in Nat

VARIABLES
    info,       \* ora_thread_session_info of each thread
    user,       \* the thread that uses the datasource
    pc, stage,  \* its next step, and which execution of its call it is
    index,      \* the next attribute in applyThreadSessionInfo()
    known, cached, \* session_info_known and session_attr
    attrs,      \* the attributes of the OCI session
    open,       \* the handles of the connection exist
    trip,       \* the number of the last QoreOracleCancelHelper
    armed,      \* the helpers whose state has svc
    registered, \* the helpers that are registered with their thread
    cancelled,  \* the threads that were interrupted
    copies,     \* the callbacks that an interrupt has copied and not called
    breaking,   \* the callbacks in OCIBreak(), with the lock of their state
    broken      \* the round trip was broken

session == <<known, cached, attrs, open>>
helpers == <<trip, armed, registered>>
interrupts == <<cancelled, copies, breaking, broken>>
position == <<user, pc, stage, index>>
vars == <<info, user, pc, stage, index, known, cached, attrs, open, trip, armed,
          registered, cancelled, copies, breaking, broken>>

Attrs == 1..NAttrs
Trips == 1..MaxTrips
None == [i \in Attrs |-> Empty]

Init ==
    /\ info = [t \in Threads |-> None]
    /\ user = NoThread /\ pc = "idle" /\ stage = "call" /\ index = 1
    /\ known = FALSE /\ cached = None /\ attrs = None /\ open = TRUE
    /\ trip = 0 /\ armed = {} /\ registered = {}
    /\ cancelled = {} /\ copies = {} /\ breaking = {} /\ broken = FALSE

-----------------------------------------------------------------------------
(***************************************************************************)
(* setThreadSessionInfo(), and the end of a thread's session information.  *)
(***************************************************************************)
ora_set_thread_session_info(t) ==
    /\ user # t
    /\ \E v \in [Attrs -> Values] : info' = [info EXCEPT ![t] = v]
    /\ UNCHANGED <<position, session, helpers, interrupts>>

(***************************************************************************)
(* A thread gets the datasource for a statement, a commit or a rollback;   *)
(* a connection that was closed is opened again.                           *)
(***************************************************************************)
enter(t) ==
    /\ user = NoThread
    /\ user' = t
    /\ IF open
       THEN stage' = "call" /\ pc' = "check" /\ UNCHANGED session
       ELSE /\ stage' = "logon" /\ pc' = "check" /\ open' = TRUE
            /\ known' = FALSE /\ attrs' = None /\ UNCHANGED cached
    /\ index' = 1
    /\ UNCHANGED <<info, helpers, interrupts>>

(***************************************************************************)
(* qore_check_cancel() before the round trip.  A logon that is cancelled   *)
(* leaves the datasource closed.                                           *)
(***************************************************************************)
check ==
    /\ pc = "check"
    /\ pc' = IF user \in cancelled THEN "return" ELSE "apply"
    /\ open' = (open /\ (stage = "logon" => user \notin cancelled))
    /\ index' = 1
    /\ UNCHANGED <<info, user, stage, known, cached, attrs, helpers, interrupts>>

value(i) == info[user][i]

\* mutation: an attribute that could not be set stays in the cache
applyThreadSessionInfo_KeepsCache ==
    /\ pc = "apply" /\ index \in Attrs
    /\ \/ /\ IF known /\ cached[index] = value(index)
             THEN UNCHANGED session
             ELSE /\ attrs' = [attrs EXCEPT ![index] = value(index)]
                  /\ cached' = [cached EXCEPT ![index] = value(index)]
                  /\ UNCHANGED <<known, open>>
          /\ index' = index + 1
          /\ UNCHANGED pc
       \/ /\ ~(known /\ cached[index] = value(index))
          /\ attrs' \in {attrs, [attrs EXCEPT ![index] = value(index)]}
          /\ pc' = "return"
          /\ UNCHANGED <<known, cached, open, index>>
    /\ UNCHANGED <<info, user, stage, helpers, interrupts>>

(***************************************************************************)
(* One attribute of the loop in applyThreadSessionInfo(): it is set unless *)
(* the session is known to have it.  After an error it can be set or not.  *)
(***************************************************************************)
applyThreadSessionInfo ==
    /\ pc = "apply" /\ index \in Attrs
    /\ \/ /\ IF known /\ cached[index] = value(index)
             THEN UNCHANGED session
             ELSE /\ attrs' = [attrs EXCEPT ![index] = value(index)]
                  /\ cached' = [cached EXCEPT ![index] = value(index)]
                  /\ UNCHANGED <<known, open>>
          /\ index' = index + 1
          /\ UNCHANGED pc
       \/ /\ ~(known /\ cached[index] = value(index))
          /\ attrs' \in {attrs, [attrs EXCEPT ![index] = value(index)]}
          /\ known' = FALSE
          /\ pc' = "return"
          /\ UNCHANGED <<cached, open, index>>
    /\ UNCHANGED <<info, user, stage, helpers, interrupts>>

\* mutation: the state has no handles when the callback is registered
registerCancelCallback_Unarmed ==
    /\ pc = "apply" /\ index = NAttrs + 1 /\ trip < MaxTrips
    /\ known' = TRUE
    /\ trip' = trip + 1 /\ registered' = registered \cup {trip + 1}
    /\ broken' = FALSE /\ pc' = "trip"
    /\ UNCHANGED <<info, user, stage, index, cached, attrs, open, armed, cancelled,
                   copies, breaking>>

(***************************************************************************)
(* The end of the loop; then QoreOracleCancelHelper registers a callback   *)
(* with the thread, and the round trip begins.                             *)
(***************************************************************************)
registerCancelCallback ==
    /\ pc = "apply" /\ index = NAttrs + 1 /\ trip < MaxTrips
    /\ known' = TRUE
    /\ trip' = trip + 1
    /\ armed' = armed \cup {trip + 1}
    /\ registered' = registered \cup {trip + 1}
    /\ broken' = FALSE
    /\ pc' = "trip"
    /\ UNCHANGED <<info, user, stage, index, cached, attrs, open, cancelled, copies,
                   breaking>>

(***************************************************************************)
(* The server answers.                                                     *)
(***************************************************************************)
answer ==
    /\ pc = "trip"
    /\ pc' = "answered"
    /\ UNCHANGED <<info, user, stage, index, session, helpers, interrupts>>

(***************************************************************************)
(* A round trip that was broken ends with an error.                        *)
(***************************************************************************)
brokenOff ==
    /\ pc = "trip" /\ broken
    /\ pc' = "answered"
    /\ UNCHANGED <<info, user, stage, index, session, helpers, interrupts>>

\* mutation: the callback stays registered, and its state has its handles
unregisterCancelCallback_Never ==
    /\ pc = "answered"
    /\ pc' = "checkerr"
    /\ UNCHANGED <<info, user, stage, index, session, helpers, interrupts>>

(***************************************************************************)
(* ~QoreOracleCancelHelper(): the callback is not registered any more.     *)
(***************************************************************************)
unregisterCancelCallback ==
    /\ pc = "answered"
    /\ registered' = registered \ {trip}
    /\ pc' = "release"
    /\ UNCHANGED <<info, user, stage, index, session, trip, armed, interrupts>>

\* mutation: copies of the callback keep their handles
releaseState_KeepsHandles ==
    /\ pc = "release"
    /\ pc' = "checkerr"
    /\ UNCHANGED <<info, user, stage, index, session, helpers, interrupts>>

(***************************************************************************)
(* ~QoreOracleCancelHelper(): it waits for a break in progress (the lock), *)
(* and later copies of the callback find no handles.                       *)
(***************************************************************************)
releaseState ==
    /\ pc = "release" /\ trip \notin breaking
    /\ armed' = armed \ {trip}
    /\ pc' = "checkerr"
    /\ UNCHANGED <<info, user, stage, index, session, trip, registered, interrupts>>

(***************************************************************************)
(* The result of the round trip.  A lost connection is made again; logon() *)
(* then executes a statement of its own, and the call is executed again or *)
(* has raised an exception.  A loss that a call does not recover from      *)
(* closes the connection, which frees its handles.                         *)
(***************************************************************************)
checkerr ==
    /\ pc = "checkerr"
    /\ \/ pc' = "return" /\ UNCHANGED <<stage, index, session>>
       \/ /\ stage = "call" /\ stage' = "logon"
          /\ known' = FALSE /\ attrs' = None /\ index' = 1 /\ pc' = "check"
          /\ UNCHANGED <<cached, open>>
       \/ /\ stage = "logon" /\ stage' = "retry"
          /\ pc' = "check"
          /\ UNCHANGED <<index, session>>
       \/ /\ pc' = "return"
          /\ open' = FALSE
          /\ UNCHANGED <<stage, index, known, cached, attrs>>
    /\ UNCHANGED <<info, user, helpers, interrupts>>

(***************************************************************************)
(* The call ends; an interrupted thread has had its exception.             *)
(***************************************************************************)
leave ==
    /\ pc = "return"
    /\ user' = NoThread /\ pc' = "idle" /\ stage' = "call" /\ index' = 1
    /\ cancelled' = cancelled \ {user}
    /\ UNCHANGED <<info, session, helpers, copies, breaking, broken>>

-----------------------------------------------------------------------------
(***************************************************************************)
(* A thread is interrupted: the callback registered for it is copied.      *)
(***************************************************************************)
interrupt(t) ==
    /\ t \notin cancelled
    /\ cancelled' = cancelled \cup {t}
    /\ copies' = IF user = t THEN copies \cup registered ELSE copies
    /\ UNCHANGED <<info, position, session, helpers, breaking, broken>>

(***************************************************************************)
(* A copy of the callback is called: it takes the lock of its state, and   *)
(* breaks the round trip only if the state still has its handles.          *)
(***************************************************************************)
cancelCallback(n) ==
    /\ n \in copies
    /\ copies' = copies \ {n}
    /\ breaking' = IF n \in armed THEN breaking \cup {n} ELSE breaking
    /\ UNCHANGED <<info, position, session, helpers, cancelled, broken>>

OCIBreak(n) ==
    /\ n \in breaking
    /\ breaking' = breaking \ {n}
    /\ broken' = (broken \/ pc = "trip")
    /\ UNCHANGED <<info, position, session, helpers, cancelled, copies>>

Caller ==
    \/ check \/ applyThreadSessionInfo \/ registerCancelCallback \/ brokenOff
    \/ unregisterCancelCallback \/ releaseState \/ checkerr \/ leave

Canceller == \E n \in Trips : cancelCallback(n) \/ OCIBreak(n)

Next ==
    \/ \E t \in Threads : ora_set_thread_session_info(t) \/ enter(t) \/ interrupt(t)
    \/ Caller \/ answer \/ Canceller

(***************************************************************************)
(* Threads run, and so do callbacks that an interrupt has copied; nothing  *)
(* is assumed of the server, which may never answer.                       *)
(***************************************************************************)
Spec == Init /\ [][Next]_vars /\ WF_vars(Caller) /\ WF_vars(Canceller)

-----------------------------------------------------------------------------
(***************************************************************************)
(* Type invariant.                                                         *)
(***************************************************************************)
TypeOK ==
    /\ info \in [Threads -> [Attrs -> Values]]
    /\ user \in Threads \cup {NoThread}
    /\ pc \in {"idle", "check", "apply", "trip", "answered", "release", "checkerr",
               "return"}
    /\ stage \in {"call", "logon", "retry"}
    /\ index \in 1..(NAttrs + 1)
    /\ known \in BOOLEAN /\ open \in BOOLEAN /\ broken \in BOOLEAN
    /\ cached \in [Attrs -> Values] /\ attrs \in [Attrs -> Values]
    /\ trip \in 0..MaxTrips
    /\ armed \subseteq Trips /\ registered \subseteq Trips
    /\ copies \subseteq Trips /\ breaking \subseteq Trips
    /\ cancelled \subseteq Threads

(***************************************************************************)
(* A round trip carries the session attributes of the thread that makes    *)
(* it: none is left by another thread, lost with an old session, or stale  *)
(* after an error (applyThreadSessionInfo()).                              *)
(***************************************************************************)
OwnAttributes == pc = "trip" => attrs = info[user]

(***************************************************************************)
(* OCIBreak() is called only while the helper of its round trip exists:    *)
(* never in a later round trip, which may be another thread's, and never   *)
(* with the handles of a connection that was closed.                       *)
(***************************************************************************)
BreaksItsTrip ==
    \A n \in breaking : n = trip /\ open /\ pc \in {"trip", "answered", "release"}

(***************************************************************************)
(* A round trip is broken only if its thread was interrupted.              *)
(***************************************************************************)
OnlyInterruptedAreBroken == pc = "trip" /\ broken => user \in cancelled

(***************************************************************************)
(* A thread that is interrupted during a round trip gets out of it, even   *)
(* if the server never answers.                                            *)
(***************************************************************************)
InterruptEndsTrip == pc = "trip" /\ user \in cancelled /\ trip \in copies ~> pc = "checkerr"

=============================================================================
