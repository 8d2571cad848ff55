-------------------- MODULE AQSubscriptionManagerProofs --------------------
(***************************************************************************)
(* The watchdog of the subscriptions, for any number of queues and         *)
(* threads: one thread serves the watched queues, none is leaked or joined *)
(* twice, and nothing is left of it once the module is deleted.            *)
(***************************************************************************)
EXTENDS AQSubscriptionManager, TLAPS

(***************************************************************************)
(* The inductive invariant.  That a thread given to add() has left its     *)
(* loop follows from OneThreadInLoop, which needs EveryThreadJoinedOnce    *)
(* for the identifier that a new thread takes.                             *)
(***************************************************************************)
WatchdogInv ==
    /\ TypeOK
    /\ OneThreadInLoop
    /\ WatchedHaveWatchdog
    /\ EveryThreadJoinedOnce
    /\ AddersJoinOnlyFinishedThreads
    /\ stopped => ~started /\ quit
    /\ ~stopped => joining[Module] = NoThread

LEMMA InitInv == Init => WatchdogInv
<1> SUFFICES ASSUME Init PROVE WatchdogInv
    OBVIOUS
<1> USE NoThreadAssumption DEF Init, PC, InLoop
<1>1. TypeOK
    BY DEF TypeOK
<1>2. OneThreadInLoop /\ EveryThreadJoinedOnce
    BY DEF OneThreadInLoop, EveryThreadJoinedOnce
<1>3. WatchedHaveWatchdog /\ AddersJoinOnlyFinishedThreads
    BY DEF WatchedHaveWatchdog, AddersJoinOnlyFinishedThreads, Callers
<1> QED
    BY <1>1, <1>2, <1>3 DEF WatchdogInv, Callers

-----------------------------------------------------------------------------
(***************************************************************************)
(* add()                                                                   *)
(***************************************************************************)
LEMMA AddRunningInv ==
    ASSUME WatchdogInv, NEW o \in Queues, ~stopped, addRunning(o), UNCHANGED stopped
    PROVE  WatchdogInv'
BY DEF WatchdogInv, addRunning, TypeOK, OneThreadInLoop, WatchedHaveWatchdog,
       EveryThreadJoinedOnce, AddersJoinOnlyFinishedThreads, PC, InLoop

LEMMA AddStartInv ==
    ASSUME WatchdogInv, NEW o \in Queues, ~stopped, joining[o] = NoThread,
           addStart(o), UNCHANGED stopped
    PROVE  WatchdogInv'
<1> PICK t \in Threads : /\ pc[t] = "none"
                         /\ thread' = t
                         /\ pc' = [pc EXCEPT ![t] = "test"]
    BY DEF addStart
<1> USE DEF PC, InLoop, Callers
<1>1. TypeOK'
    BY DEF WatchdogInv, TypeOK, addStart, reapUnlocked
<1>2. OneThreadInLoop'
    BY DEF WatchdogInv, TypeOK, OneThreadInLoop, addStart
<1>3. EveryThreadJoinedOnce'
    BY NoThreadAssumption
       DEF WatchdogInv, TypeOK, EveryThreadJoinedOnce, addStart, reapUnlocked
<1>4. AddersJoinOnlyFinishedThreads'
    BY NoThreadAssumption
       DEF WatchdogInv, TypeOK, OneThreadInLoop, EveryThreadJoinedOnce,
           AddersJoinOnlyFinishedThreads, addStart, reapUnlocked
<1>5. joining'[Module] = joining[Module]
    BY ModuleAssumption DEF WatchdogInv, TypeOK, addStart, reapUnlocked
<1> QED
    BY <1>1, <1>2, <1>3, <1>4, <1>5 DEF WatchdogInv, WatchedHaveWatchdog, addStart

(***************************************************************************)
(* A queue is added without a thread in the loop only if none was watched, *)
(* so that a failure leaves none behind.                                   *)
(***************************************************************************)
LEMMA AddFailsInv ==
    ASSUME WatchdogInv, NEW o \in Queues, ~stopped, joining[o] = NoThread,
           addFails(o), UNCHANGED stopped
    PROVE  WatchdogInv'
<1> USE DEF PC, InLoop, Callers
<1>1. TypeOK'
    BY DEF WatchdogInv, TypeOK, addFails, reapUnlocked
<1>2. OneThreadInLoop'
    BY DEF WatchdogInv, TypeOK, OneThreadInLoop, addFails
<1>3. EveryThreadJoinedOnce'
    BY NoThreadAssumption
       DEF WatchdogInv, TypeOK, EveryThreadJoinedOnce, addFails, reapUnlocked
<1>4. AddersJoinOnlyFinishedThreads'
    BY NoThreadAssumption
       DEF WatchdogInv, TypeOK, OneThreadInLoop, EveryThreadJoinedOnce,
           AddersJoinOnlyFinishedThreads, addFails, reapUnlocked
<1>5. WatchedHaveWatchdog'
    BY DEF WatchdogInv, WatchedHaveWatchdog, addFails
<1>6. joining'[Module] = joining[Module]
    BY ModuleAssumption DEF WatchdogInv, TypeOK, addFails, reapUnlocked
<1> QED
    BY <1>1, <1>2, <1>3, <1>4, <1>5, <1>6 DEF WatchdogInv, addFails

-----------------------------------------------------------------------------
(***************************************************************************)
(* remove(), stop() and the joins                                          *)
(***************************************************************************)
LEMMA RemoveInv ==
    ASSUME WatchdogInv, NEW o \in Queues, o \in objects, remove(o), UNCHANGED stopped
    PROVE  WatchdogInv'
BY DEF WatchdogInv, remove, TypeOK, OneThreadInLoop, WatchedHaveWatchdog,
       EveryThreadJoinedOnce, AddersJoinOnlyFinishedThreads, PC, InLoop

LEMMA StopInv ==
    ASSUME WatchdogInv, ~stopped, joining[Module] = NoThread, stop
    PROVE  WatchdogInv'
<1> USE DEF PC, InLoop, Callers
<1>1. TypeOK'
    BY DEF WatchdogInv, TypeOK, stop
<1>2. OneThreadInLoop'
    BY DEF WatchdogInv, TypeOK, OneThreadInLoop, stop
<1>3. EveryThreadJoinedOnce'
    BY NoThreadAssumption DEF WatchdogInv, TypeOK, EveryThreadJoinedOnce, stop
<1>4. AddersJoinOnlyFinishedThreads'
    BY ModuleAssumption DEF WatchdogInv, TypeOK, AddersJoinOnlyFinishedThreads, stop
<1> QED
    BY <1>1, <1>2, <1>3, <1>4 DEF WatchdogInv, WatchedHaveWatchdog, stop

LEMMA JoinInv ==
    ASSUME WatchdogInv, NEW c \in Callers, join(c), UNCHANGED stopped
    PROVE  WatchdogInv'
<1> USE DEF PC, InLoop, Callers
<1> joining[c] \in Threads
    BY DEF WatchdogInv, TypeOK, join
<1>1. TypeOK'
    BY DEF WatchdogInv, TypeOK, join
<1>2. OneThreadInLoop'
    BY DEF WatchdogInv, TypeOK, OneThreadInLoop, join
<1>3. EveryThreadJoinedOnce'
    BY NoThreadAssumption DEF WatchdogInv, TypeOK, EveryThreadJoinedOnce, join
<1>4. AddersJoinOnlyFinishedThreads'
    BY NoThreadAssumption
       DEF WatchdogInv, TypeOK, EveryThreadJoinedOnce, AddersJoinOnlyFinishedThreads, join
<1> QED
    BY <1>1, <1>2, <1>3, <1>4 DEF WatchdogInv, WatchedHaveWatchdog, join

-----------------------------------------------------------------------------
(***************************************************************************)
(* The steps of a thread leave the handles and the watched queues alone.   *)
(***************************************************************************)
LEMMA RunInv ==
    ASSUME WatchdogInv, NEW t \in Threads, Run(t)
    PROVE  WatchdogInv'
<1> USE NoThreadAssumption DEF PC, InLoop
<1> UNCHANGED <<stopped, objects, started, quit, thread, joining>>
    BY DEF Run, Check, round, checked, endRound, wake, leave, end
<1>1. CASE round(t)
    BY <1>1
       DEF WatchdogInv, TypeOK, OneThreadInLoop, WatchedHaveWatchdog,
           EveryThreadJoinedOnce, AddersJoinOnlyFinishedThreads, round
<1>2. CASE Check(t)
    BY <1>2
       DEF WatchdogInv, TypeOK, OneThreadInLoop, WatchedHaveWatchdog,
           EveryThreadJoinedOnce, AddersJoinOnlyFinishedThreads, Check, checked
<1>3. CASE endRound(t)
    BY <1>3
       DEF WatchdogInv, TypeOK, OneThreadInLoop, WatchedHaveWatchdog,
           EveryThreadJoinedOnce, AddersJoinOnlyFinishedThreads, endRound
<1>4. CASE wake(t)
    BY <1>4
       DEF WatchdogInv, TypeOK, OneThreadInLoop, WatchedHaveWatchdog,
           EveryThreadJoinedOnce, AddersJoinOnlyFinishedThreads, wake
<1>5. CASE leave(t)
  <2> USE <1>5 DEF leave
  <2>1. TypeOK' /\ OneThreadInLoop'
    BY DEF WatchdogInv, TypeOK, OneThreadInLoop
  <2>2. WatchedHaveWatchdog' /\ AddersJoinOnlyFinishedThreads'
    BY DEF WatchdogInv, TypeOK, WatchedHaveWatchdog, AddersJoinOnlyFinishedThreads, Callers
  <2>3. EveryThreadJoinedOnce'
    BY DEF WatchdogInv, TypeOK, EveryThreadJoinedOnce
  <2> QED
    BY <2>1, <2>2, <2>3 DEF WatchdogInv
<1>6. CASE end(t)
    BY <1>6
       DEF WatchdogInv, TypeOK, OneThreadInLoop, WatchedHaveWatchdog,
           EveryThreadJoinedOnce, AddersJoinOnlyFinishedThreads, end
<1> QED
    BY <1>1, <1>2, <1>3, <1>4, <1>5, <1>6 DEF Run

LEMMA NextInv == WatchdogInv /\ [Next]_vars => WatchdogInv'
<1> SUFFICES ASSUME WatchdogInv, [Next]_vars PROVE WatchdogInv'
    OBVIOUS
<1>1. ASSUME NEW o \in Queues, Add(o) PROVE WatchdogInv'
    BY <1>1, AddRunningInv, AddStartInv, AddFailsInv DEF Add, add
<1>2. ASSUME NEW o \in Queues, Remove(o) PROVE WatchdogInv'
    BY <1>2, RemoveInv DEF Remove
<1>3. CASE Stop
    BY <1>3, StopInv DEF Stop, WatchdogInv
<1>4. ASSUME NEW c \in Callers, Join(c) PROVE WatchdogInv'
    BY <1>4, JoinInv DEF Join
<1>5. ASSUME NEW t \in Threads, Run(t) PROVE WatchdogInv'
    BY <1>5, RunInv
<1>6. CASE UNCHANGED vars
    BY <1>6
       DEF WatchdogInv, TypeOK, OneThreadInLoop, WatchedHaveWatchdog,
           EveryThreadJoinedOnce, AddersJoinOnlyFinishedThreads, vars
<1> QED
    BY <1>1, <1>2, <1>3, <1>4, <1>5, <1>6 DEF Next

(***************************************************************************)
(* At most one watchdog thread is in its loop, and `running` says exactly  *)
(* when.                                                                   *)
(***************************************************************************)
THEOREM OneThread == Safe => []OneThreadInLoop
<1>1. WatchdogInv => OneThreadInLoop
    BY DEF WatchdogInv
<1> QED
    BY InitInv, NextInv, <1>1, PTL DEF Safe

(***************************************************************************)
(* While a queue is watched a thread is in its loop and is not told to     *)
(* quit, however add() and remove() interleave with its rounds.            *)
(***************************************************************************)
THEOREM WatchedAreServed == Safe => []WatchedHaveWatchdog
<1>1. WatchdogInv => WatchedHaveWatchdog
    BY DEF WatchdogInv
<1> QED
    BY InitInv, NextInv, <1>1, PTL DEF Safe

(***************************************************************************)
(* Every thread that add() creates is joined once, by one joiner.          *)
(***************************************************************************)
THEOREM ThreadsAreJoined == Safe => []EveryThreadJoinedOnce
<1>1. WatchdogInv => EveryThreadJoinedOnce
    BY DEF WatchdogInv
<1> QED
    BY InitInv, NextInv, <1>1, PTL DEF Safe

(***************************************************************************)
(* add(), called with a queue's lock, joins only a thread that cannot want *)
(* that lock any more.                                                     *)
(***************************************************************************)
THEOREM AddersDoNotWaitForChecks == Safe => []AddersJoinOnlyFinishedThreads
<1>1. WatchdogInv => AddersJoinOnlyFinishedThreads
    BY DEF WatchdogInv
<1> QED
    BY InitInv, NextInv, <1>1, PTL DEF Safe

(***************************************************************************)
(* Once stop() has returned no watchdog thread exists.                     *)
(***************************************************************************)
THEOREM NothingLeftAfterStop == Safe => []StopIsClean
<1>1. WatchdogInv => StopIsClean
    BY NoThreadAssumption
       DEF WatchdogInv, TypeOK, OneThreadInLoop, EveryThreadJoinedOnce, StopIsClean, InLoop
<1> QED
    BY InitInv, NextInv, <1>1, PTL DEF Safe
=============================================================================
