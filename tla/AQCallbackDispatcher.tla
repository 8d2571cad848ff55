------------------------ MODULE AQCallbackDispatcher ------------------------
(***************************************************************************)
(* The dispatcher of the AQQueue callbacks (class AQCallbackDispatcher).   *)
(*                                                                         *)
(* Other threads post callbacks; one thread of the module makes them.  The *)
(* thread lives only while callbacks are queued: it leaves its loop when   *)
(* the queue is empty, and the next post starts a new one and joins the    *)
(* finished one after it has released the dispatcher's lock.               *)
(*                                                                         *)
(* The lock is held for the whole body of post() and stop(), and from one  *)
(* callback to the next in run(), so each of those sections is one step.   *)
(* pthread_join() is made without the lock and is a step of its own.       *)
(***************************************************************************)
EXTENDS Naturals, Sequences, FiniteSets

CONSTANTS
    Posters,    \* the threads that post callbacks and that delete the module
    Threads,    \* identifiers of the dispatcher's threads, reused after a join
    NoThread,   \* no thread
    Callbacks,  \* the callbacks
    NoCallback, \* no callback
    MaxQueue    \* bound: the entries of the queue there is memory for

ASSUME NoThreadAssumption == NoThread \notin Threads
ASSUME NoCallbackAssumption == NoCallback \notin Callbacks

VARIABLES
    queue,      \* the queued callbacks
    started,    \* the thread must be joined
    running,    \* the thread is in its loop
    thread,     \* the handle of the last thread that was started
    pc,         \* where each thread is
    cb,         \* the callback that each thread has taken
    joining,    \* the thread that each poster joins, outside the lock
    stopped     \* stop() was called: the module is deleted, nothing is posted

vars == <<queue, started, running, thread, pc, cb, joining, stopped>>

(***************************************************************************)
(* "none": not created or joined; "loop": holds the lock or waits for it,  *)
(* at the test of the loop; "call": makes a callback without the lock;     *)
(* "exit": has left the loop; "ended": can be joined.                      *)
(***************************************************************************)
PC == {"none", "loop", "call", "exit", "ended"}
InLoop == {"loop", "call"}

Init ==
    /\ queue = << >>
    /\ started = FALSE
    /\ running = FALSE
    /\ thread = NoThread
    /\ pc = [t \in Threads |-> "none"]
    /\ cb = [t \in Threads |-> NoCallback]
    /\ joining = [p \in Posters |-> NoThread]
    /\ stopped = FALSE

-----------------------------------------------------------------------------
\* mutation: the finished thread is forgotten
reapUnlocked_Forgets(p) == UNCHANGED joining

(***************************************************************************)
(* The handle of a thread that has left its loop is given to the joiner of *)
(* the caller.                                                             *)
(***************************************************************************)
reapUnlocked(p) ==
    joining' = IF started THEN [joining EXCEPT ![p] = thread] ELSE joining

(***************************************************************************)
(* post() returns 0 and a thread is in its loop.                           *)
(***************************************************************************)
PostRunning(p, c) ==
    /\ running
    /\ queue' = Append(queue, c)
    /\ UNCHANGED <<started, running, thread, pc, cb, joining>>

(***************************************************************************)
(* post() returns 0 after it has started a new thread.                     *)
(***************************************************************************)
PostStart(p, c) ==
    /\ ~running
    /\ reapUnlocked(p)
    /\ \E t \in Threads :
          /\ pc[t] = "none"
          /\ thread' = t
          /\ pc' = [pc EXCEPT ![t] = "loop"]
    /\ queue' = Append(queue, c)
    /\ started' = TRUE
    /\ running' = TRUE
    /\ UNCHANGED cb

post(p, c) == PostRunning(p, c) \/ PostStart(p, c)

(***************************************************************************)
(* post() returns -1: there is no memory for the entry, or a new thread    *)
(* cannot be created (the finished one is joined all the same).            *)
(***************************************************************************)
postFails(p) ==
    /\ \/ UNCHANGED <<started, joining>>
       \/ ~running /\ reapUnlocked(p) /\ started' = FALSE
    /\ UNCHANGED <<queue, running, thread, pc, cb>>

(***************************************************************************)
(* The end of post() and stop(): the joiner joins a thread that has ended. *)
(***************************************************************************)
join(p) ==
    /\ joining[p] # NoThread
    /\ pc[joining[p]] = "ended"
    /\ pc' = [pc EXCEPT ![joining[p]] = "none"]
    /\ joining' = [joining EXCEPT ![p] = NoThread]
    /\ UNCHANGED <<queue, started, running, thread, cb>>

(***************************************************************************)
(* stop(): the thread is joined wherever it is.                            *)
(***************************************************************************)
stop(p) ==
    /\ joining' = IF started THEN [joining EXCEPT ![p] = thread] ELSE joining
    /\ started' = FALSE
    /\ stopped' = TRUE
    /\ UNCHANGED <<queue, running, thread, pc, cb>>

\* mutation: the newest callback is taken
take_Newest(t) ==
    /\ pc[t] = "loop"
    /\ queue # << >>
    /\ cb' = [cb EXCEPT ![t] = queue[Len(queue)]]
    /\ queue' = SubSeq(queue, 1, Len(queue) - 1)
    /\ pc' = [pc EXCEPT ![t] = "call"]
    /\ UNCHANGED <<started, running, thread, joining>>

(***************************************************************************)
(* run(): the front of the queue is taken and the lock released ...        *)
(***************************************************************************)
take(t) ==
    /\ pc[t] = "loop"
    /\ queue # << >>
    /\ cb' = [cb EXCEPT ![t] = Head(queue)]
    /\ queue' = Tail(queue)
    /\ pc' = [pc EXCEPT ![t] = "call"]
    /\ UNCHANGED <<started, running, thread, joining>>

(***************************************************************************)
(* ... the callback returns and the lock is taken again ...                *)
(***************************************************************************)
made(t) ==
    /\ pc[t] = "call"
    /\ cb' = [cb EXCEPT ![t] = NoCallback]
    /\ pc' = [pc EXCEPT ![t] = "loop"]
    /\ UNCHANGED <<queue, started, running, thread, joining>>

\* mutation: the queue is not tested again under the lock
leave_NoTest(t) ==
    /\ pc[t] = "loop"
    /\ running' = FALSE
    /\ pc' = [pc EXCEPT ![t] = "exit"]
    /\ UNCHANGED <<queue, started, thread, cb, joining>>

\* mutation: the joiner holds the lock that the thread needs to leave its loop
leave_JoinerHoldsLock(t) ==
    /\ pc[t] = "loop"
    /\ queue = << >>
    /\ \A p \in Posters : joining[p] = NoThread
    /\ running' = FALSE
    /\ pc' = [pc EXCEPT ![t] = "exit"]
    /\ UNCHANGED <<queue, started, thread, cb, joining>>

(***************************************************************************)
(* ... and the loop is left, under the lock, when the queue is empty.      *)
(***************************************************************************)
leave(t) ==
    /\ pc[t] = "loop"
    /\ queue = << >>
    /\ running' = FALSE
    /\ pc' = [pc EXCEPT ![t] = "exit"]
    /\ UNCHANGED <<queue, started, thread, cb, joining>>

(***************************************************************************)
(* The thread deregisters from the library and ends.                       *)
(***************************************************************************)
end(t) ==
    /\ pc[t] = "exit"
    /\ pc' = [pc EXCEPT ![t] = "ended"]
    /\ UNCHANGED <<queue, started, running, thread, cb, joining>>

-----------------------------------------------------------------------------
(***************************************************************************)
(* The posters are in the program until the module is deleted; a poster    *)
(* does not return from post() before its join.                            *)
(***************************************************************************)
Post(p) == /\ ~stopped
           /\ joining[p] = NoThread
           /\ Len(queue) < MaxQueue
           /\ \E c \in Callbacks : post(p, c)
           /\ UNCHANGED stopped

PostFails(p) == /\ ~stopped
                /\ joining[p] = NoThread
                /\ postFails(p)
                /\ UNCHANGED stopped

Stop(p) == ~stopped /\ joining[p] = NoThread /\ stop(p)

Join(p) == join(p) /\ UNCHANGED stopped

Run(t) == (take(t) \/ made(t) \/ leave(t) \/ end(t)) /\ UNCHANGED stopped

Next == \/ \E p \in Posters : Post(p) \/ PostFails(p) \/ Stop(p) \/ Join(p)
        \/ \E t \in Threads : Run(t)

(***************************************************************************)
(* A thread that can run does run, and the Qore code of a callback returns *)
(* (an onAsyncMessage() that never returns stops all callbacks).  Nothing  *)
(* is assumed of the posters.                                              *)
(***************************************************************************)
Fairness == /\ \A t \in Threads : WF_vars(Run(t))
            /\ \A p \in Posters : WF_vars(Join(p))

Safe == Init /\ [][Next]_vars

Spec == Safe /\ Fairness

-----------------------------------------------------------------------------
(***************************************************************************)
(* The types; a thread has a callback exactly while it makes it.           *)
(***************************************************************************)
TypeOK ==
    /\ queue \in Seq(Callbacks)
    /\ started \in BOOLEAN
    /\ running \in BOOLEAN
    /\ thread \in Threads \cup {NoThread}
    /\ pc \in [Threads -> PC]
    /\ cb \in [Threads -> Callbacks \cup {NoCallback}]
    /\ joining \in [Posters -> Threads \cup {NoThread}]
    /\ stopped \in BOOLEAN
    /\ \A t \in Threads : cb[t] = NoCallback <=> pc[t] # "call"

(***************************************************************************)
(* The flag `running` is exact: it is set if and only if a thread is in    *)
(* the loop, and then that thread is the one whose handle is kept, so no   *)
(* second thread can be making callbacks at the same time.                 *)
(***************************************************************************)
OneThreadInLoop ==
    /\ \A t \in Threads : pc[t] \in InLoop => running /\ t = thread
    /\ running => thread \in Threads /\ pc[thread] \in InLoop

(***************************************************************************)
(* Every thread that was created is joined exactly once: its handle is     *)
(* either kept to be joined later or in the hands of exactly one joiner.   *)
(***************************************************************************)
EveryThreadJoinedOnce ==
    /\ \A t \in Threads :
          pc[t] # "none" => (started /\ t = thread) \/ \E p \in Posters : joining[p] = t
    /\ started => /\ thread \in Threads
                  /\ pc[thread] # "none"
                  /\ \A p \in Posters : joining[p] # thread
    /\ \A p \in Posters : joining[p] # NoThread =>
          /\ pc[joining[p]] # "none"
          /\ \A r \in Posters : joining[r] = joining[p] => r = p

(***************************************************************************)
(* No callback is left behind: while one is queued a thread is in the      *)
(* loop, so it cannot have decided to leave before the callback was posted *)
(* with the poster relying on it.                                          *)
(***************************************************************************)
QueuedIsServed == queue # << >> => running

(***************************************************************************)
(* post() never waits for callbacks: it only joins a thread that has left  *)
(* its loop (the notification thread of the Oracle client posts while it   *)
(* holds a lock of the client, which a callback may need).  Only stop()    *)
(* waits for the queued callbacks.                                         *)
(***************************************************************************)
PostersNeverWaitForCallbacks ==
    \A p \in Posters :
        joining[p] # NoThread /\ pc[joining[p]] \in InLoop => stopped

(***************************************************************************)
(* stop() returns: the join that it makes is not waited for forever.       *)
(***************************************************************************)
StopReturns ==
    stopped ~> \A p \in Posters : joining[p] = NoThread

(***************************************************************************)
(* The dispatcher implements the queue of callbacks that its clients rely  *)
(* on: one at a time, in order, each exactly once (and, with the fairness  *)
(* above, every accepted callback is made).                                *)
(***************************************************************************)
Making == IF running /\ pc[thread] = "call" THEN cb[thread] ELSE NoCallback

CQ == INSTANCE CallbackQueue WITH pending <- queue, making <- Making

Implements == CQ!Spec
=============================================================================
