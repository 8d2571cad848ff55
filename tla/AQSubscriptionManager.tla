----------------------- MODULE AQSubscriptionManager -----------------------
(***************************************************************************)
(* The manager of the subscription watchdog (class AQSubscriptionManager). *)
(*                                                                         *)
(* A queue with a subscription is added, and removed when its subscription *)
(* ends.  While queues are watched, a thread of the module checks each of  *)
(* them, waits for 25 seconds and starts again.  When the last queue is    *)
(* removed the thread is told to quit; when a queue is added later, either *)
(* the thread is still in its loop and is told not to quit after all, or a *)
(* new thread is started and the old one is joined without the lock.       *)
(*                                                                         *)
(* add(), remove() and stop() hold the lock for their whole body, so each  *)
(* is one step.  The thread holds the lock from the end of one round of    *)
(* checks to the snapshot of the next, except while it waits.              *)
(***************************************************************************)
EXTENDS Naturals, FiniteSets

CONSTANTS
    Queues,     \* the AQQueue objects; a queue's own lock serialises its calls
    Module,     \* the caller of stop(): the deletion of the module
    Threads,    \* identifiers of watchdog threads, reused after a join
    NoThread    \* no thread

ASSUME NoThreadAssumption == NoThread \notin Threads
ASSUME ModuleAssumption == Module \notin Queues

VARIABLES
    objects,    \* the watched queues
    started,    \* the thread must be joined
    running,    \* the thread is in its loop
    quit,       \* the thread is told to leave its loop
    thread,     \* the handle of the last thread that was started
    pc,         \* where each thread is
    snapshot,   \* the queues that each thread still has to check in its round
    joining,    \* the thread that each caller joins, outside the lock
    stopped     \* stop() was called: the module is deleted

vars == <<objects, started, running, quit, thread, pc, snapshot, joining, stopped>>

Callers == Queues \cup {Module}

(***************************************************************************)
(* "none": not created or joined; "test": at the test of the loop;         *)
(* "check": checks the queues of its snapshot without the lock; "wait":    *)
(* waits for the condition; "exit": has left its loop; "ended": can be     *)
(* joined.                                                                 *)
(***************************************************************************)
PC == {"none", "test", "check", "wait", "exit", "ended"}
InLoop == {"test", "check", "wait"}

Init ==
    /\ objects = {}
    /\ started = FALSE
    /\ running = FALSE
    /\ quit = FALSE
    /\ thread = NoThread
    /\ pc = [t \in Threads |-> "none"]
    /\ snapshot = [t \in Threads |-> {}]
    /\ joining = [c \in Callers |-> NoThread]
    /\ stopped = FALSE

-----------------------------------------------------------------------------
(***************************************************************************)
(* The handle of a thread that has left its loop is given to the joiner of *)
(* the caller.                                                             *)
(***************************************************************************)
reapUnlocked(o) ==
    joining' = IF started THEN [joining EXCEPT ![o] = thread] ELSE joining

\* mutation: a thread that was told to quit is not told to go on
addRunning_KeepsQuit(o) ==
    /\ running
    /\ objects' = objects \cup {o}
    /\ UNCHANGED <<started, running, quit, thread, pc, snapshot, joining>>

(***************************************************************************)
(* add() when a thread is in its loop, even one that was told to quit.     *)
(***************************************************************************)
addRunning(o) ==
    /\ running
    /\ objects' = objects \cup {o}
    /\ quit' = FALSE
    /\ UNCHANGED <<started, running, thread, pc, snapshot, joining>>

\* mutation: a thread is started although one is in its loop
addStart_Always(o) ==
    /\ objects' = objects \cup {o}
    /\ quit' = FALSE
    /\ \E t \in Threads :
          /\ pc[t] = "none"
          /\ thread' = t
          /\ pc' = [pc EXCEPT ![t] = "test"]
    /\ started' = TRUE
    /\ running' = TRUE
    /\ UNCHANGED <<snapshot, joining>>

(***************************************************************************)
(* add() starts a new thread.                                              *)
(***************************************************************************)
addStart(o) ==
    /\ ~running
    /\ objects' = objects \cup {o}
    /\ quit' = FALSE
    /\ reapUnlocked(o)
    /\ \E t \in Threads :
          /\ pc[t] = "none"
          /\ thread' = t
          /\ pc' = [pc EXCEPT ![t] = "test"]
    /\ started' = TRUE
    /\ running' = TRUE
    /\ UNCHANGED snapshot

add(o) == addRunning(o) \/ addStart(o)

(***************************************************************************)
(* add() fails: the thread cannot be created, and the queue is taken out   *)
(* of the set again.                                                       *)
(***************************************************************************)
addFails(o) ==
    /\ ~running
    /\ objects' = objects \ {o}
    /\ quit' = FALSE
    /\ reapUnlocked(o)
    /\ started' = FALSE
    /\ UNCHANGED <<running, thread, pc, snapshot>>

\* mutation: quit is set without a look at what is still watched
remove_AlwaysQuits(o) ==
    /\ objects' = objects \ {o}
    /\ quit' = TRUE
    /\ UNCHANGED <<started, running, thread, pc, snapshot, joining>>

(***************************************************************************)
(* remove() of a queue that is watched; the last one tells the thread to   *)
(* quit and wakes it.                                                      *)
(***************************************************************************)
remove(o) ==
    /\ objects' = objects \ {o}
    /\ quit' = (quit \/ objects = {o})
    /\ UNCHANGED <<started, running, thread, pc, snapshot, joining>>

\* mutation: stop() joins the thread without telling it to quit
stop_NoQuit ==
    /\ joining' = IF started THEN [joining EXCEPT ![Module] = thread] ELSE joining
    /\ started' = FALSE
    /\ stopped' = TRUE
    /\ UNCHANGED <<objects, running, quit, thread, pc, snapshot>>

(***************************************************************************)
(* stop(): the thread is told to quit and joined.                          *)
(***************************************************************************)
stop ==
    /\ quit' = TRUE
    /\ joining' = IF started THEN [joining EXCEPT ![Module] = thread] ELSE joining
    /\ started' = FALSE
    /\ stopped' = TRUE
    /\ UNCHANGED <<objects, running, thread, pc, snapshot>>

(***************************************************************************)
(* The joiner of add() and stop() joins a thread that has ended.           *)
(***************************************************************************)
join(c) ==
    /\ joining[c] # NoThread
    /\ pc[joining[c]] = "ended"
    /\ pc' = [pc EXCEPT ![joining[c]] = "none"]
    /\ joining' = [joining EXCEPT ![c] = NoThread]
    /\ UNCHANGED <<objects, started, running, quit, thread, snapshot>>

-----------------------------------------------------------------------------
(***************************************************************************)
(* run(): a round starts with a copy of the set, or with nothing when      *)
(* there is no memory for the copy, and goes on without the lock.          *)
(***************************************************************************)
round(t) ==
    /\ pc[t] = "test"
    /\ ~quit
    /\ \E s \in {objects, {}} : snapshot' = [snapshot EXCEPT ![t] = s]
    /\ pc' = [pc EXCEPT ![t] = "check"]
    /\ UNCHANGED <<objects, started, running, quit, thread, joining>>

(***************************************************************************)
(* checkSubscription() of one queue of the snapshot has returned (what it  *)
(* does to the queue is in AQSubscription).                                *)
(***************************************************************************)
checked(t, o) ==
    /\ pc[t] = "check"
    /\ o \in snapshot[t]
    /\ snapshot' = [snapshot EXCEPT ![t] = @ \ {o}]
    /\ UNCHANGED <<objects, started, running, quit, thread, pc, joining>>

(***************************************************************************)
(* After the last queue the lock is taken again; the thread waits unless   *)
(* it was told to quit in the meantime.                                    *)
(***************************************************************************)
endRound(t) ==
    /\ pc[t] = "check"
    /\ snapshot[t] = {}
    /\ pc' = [pc EXCEPT ![t] = IF quit THEN "test" ELSE "wait"]
    /\ UNCHANGED <<objects, started, running, quit, thread, snapshot, joining>>

(***************************************************************************)
(* The wait ends: after 25 seconds, when signaled, or spuriously.          *)
(***************************************************************************)
wake(t) ==
    /\ pc[t] = "wait"
    /\ pc' = [pc EXCEPT ![t] = "test"]
    /\ UNCHANGED <<objects, started, running, quit, thread, snapshot, joining>>

(***************************************************************************)
(* The loop is left and the flag is reset under the lock.                  *)
(***************************************************************************)
leave(t) ==
    /\ pc[t] = "test"
    /\ quit
    /\ running' = FALSE
    /\ pc' = [pc EXCEPT ![t] = "exit"]
    /\ UNCHANGED <<objects, started, quit, thread, snapshot, joining>>

(***************************************************************************)
(* The thread deregisters from the library and ends.                       *)
(***************************************************************************)
end(t) ==
    /\ pc[t] = "exit"
    /\ pc' = [pc EXCEPT ![t] = "ended"]
    /\ UNCHANGED <<objects, started, running, quit, thread, snapshot, joining>>

-----------------------------------------------------------------------------
(***************************************************************************)
(* The clients: a queue is added when its subscription starts, if it is    *)
(* not watched, and removed when its subscription ends.  When the module   *)
(* is deleted no program is left that could start a subscription.          *)
(***************************************************************************)
Add(o) == /\ ~stopped /\ o \notin objects /\ joining[o] = NoThread
          /\ add(o) \/ addFails(o)
          /\ UNCHANGED stopped

Remove(o) == /\ o \in objects /\ joining[o] = NoThread
             /\ remove(o)
             /\ UNCHANGED stopped

Stop == /\ ~stopped
        /\ \A o \in Queues : joining[o] = NoThread
        /\ stop

Join(c) == join(c) /\ UNCHANGED stopped

Check(t) == \E o \in Queues : checked(t, o)

Run(t) == /\ round(t) \/ Check(t) \/ endRound(t) \/ wake(t) \/ leave(t) \/ end(t)
          /\ UNCHANGED stopped

Next == \/ \E o \in Queues : Add(o) \/ Remove(o)
        \/ Stop
        \/ \E c \in Callers : Join(c)
        \/ \E t \in Threads : Run(t)

(***************************************************************************)
(* The watchdog thread runs, its timed wait ends and checkSubscription()   *)
(* returns (it never waits for a queue's lock).  A copy of the set cannot  *)
(* fail forever.                                                           *)
(***************************************************************************)
Fairness ==
    /\ \A t \in Threads : WF_vars(Run(t))
    /\ \A t \in Threads : SF_vars(round(t) /\ snapshot'[t] = objects /\ UNCHANGED stopped)
    /\ \A c \in Callers : WF_vars(Join(c))

Safe == Init /\ [][Next]_vars

Spec == Safe /\ Fairness

-----------------------------------------------------------------------------
(***************************************************************************)
(* The types; only a thread that is in a round has queues to check.        *)
(***************************************************************************)
TypeOK ==
    /\ objects \subseteq Queues
    /\ started \in BOOLEAN
    /\ running \in BOOLEAN
    /\ quit \in BOOLEAN
    /\ thread \in Threads \cup {NoThread}
    /\ pc \in [Threads -> PC]
    /\ snapshot \in [Threads -> SUBSET Queues]
    /\ joining \in [Callers -> Threads \cup {NoThread}]
    /\ stopped \in BOOLEAN
    /\ \A t \in Threads : pc[t] # "check" => snapshot[t] = {}

(***************************************************************************)
(* At most one watchdog thread is in its loop, and `running` says exactly  *)
(* when: two watchdogs would ping and restore a subscription twice.        *)
(***************************************************************************)
OneThreadInLoop ==
    /\ \A t \in Threads : pc[t] \in InLoop => running /\ t = thread
    /\ running => thread \in Threads /\ pc[thread] \in InLoop

(***************************************************************************)
(* Every watched queue has a watchdog that goes on: a thread is in its     *)
(* loop and is not told to quit.  (An earlier version of the module no     *)
(* longer watched a subscription that was started after all earlier ones   *)
(* had been stopped.)                                                      *)
(***************************************************************************)
WatchedHaveWatchdog == objects # {} /\ ~stopped => running /\ ~quit

(***************************************************************************)
(* Every watchdog thread is joined exactly once: its handle is kept, or    *)
(* exactly one joiner has it.                                              *)
(***************************************************************************)
EveryThreadJoinedOnce ==
    /\ \A t \in Threads :
          pc[t] # "none" => (started /\ t = thread) \/ \E c \in Callers : joining[c] = t
    /\ started => /\ thread \in Threads
                  /\ pc[thread] # "none"
                  /\ \A c \in Callers : joining[c] # thread
    /\ \A c \in Callers : joining[c] # NoThread =>
          /\ pc[joining[c]] # "none"
          /\ \A d \in Callers : joining[d] = joining[c] => d = c

(***************************************************************************)
(* add(), which runs under the lock of a queue, only waits for a thread    *)
(* that has left its loop and so does not check that queue any more; only  *)
(* stop() waits for a round to end.                                        *)
(***************************************************************************)
AddersJoinOnlyFinishedThreads ==
    \A o \in Queues : joining[o] # NoThread => pc[joining[o]] \in {"exit", "ended"}

(***************************************************************************)
(* When stop() has returned there is no watchdog thread left, as the       *)
(* destructor of the manager asserts.                                      *)
(***************************************************************************)
StopIsClean ==
    stopped /\ (\A c \in Callers : joining[c] = NoThread) =>
        /\ ~running
        /\ \A t \in Threads : pc[t] = "none"

(***************************************************************************)
(* A queue that stays watched is checked again and again.                  *)
(***************************************************************************)
WatchedAreChecked ==
    \A o \in Queues :
        []<>(o \notin objects \/ stopped \/ \E t \in Threads : o \in snapshot[t])

(***************************************************************************)
(* stop() and add() return, and a watchdog without queues ends.            *)
(***************************************************************************)
ThreadsEnd ==
    /\ \A c \in Callers : joining[c] # NoThread ~> joining[c] = NoThread
    /\ []<>(running => objects # {} /\ ~stopped)
=============================================================================
