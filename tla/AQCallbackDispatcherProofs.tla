--------------------- MODULE AQCallbackDispatcherProofs ---------------------
(***************************************************************************)
(* The dispatcher of the AQQueue callbacks, for any number of posters,     *)
(* threads and callbacks: the bookkeeping of its threads is exact, and it  *)
(* implements the queue of callbacks that its clients rely on.             *)
(***************************************************************************)
EXTENDS AQCallbackDispatcher, TLAPS

(***************************************************************************)
(* The inductive invariant.  OneThreadInLoop and EveryThreadJoinedOnce     *)
(* need each other: a new thread may take an identifier only if no handle  *)
(* to it is left, and a handle is given away only by a thread that is not  *)
(* in its loop (or by stop()).                                             *)
(***************************************************************************)
DispatcherInv ==
    /\ TypeOK
    /\ OneThreadInLoop
    /\ EveryThreadJoinedOnce
    /\ QueuedIsServed
    /\ PostersNeverWaitForCallbacks
    /\ ~stopped => (running => started)

LEMMA InitInv == Init => DispatcherInv
<1> SUFFICES ASSUME Init PROVE DispatcherInv
    OBVIOUS
<1> USE NoThreadAssumption, NoCallbackAssumption DEF Init, PC, InLoop
<1>1. TypeOK
  <2>1. \A t \in Threads : cb[t] = NoCallback /\ pc[t] = "none"
    OBVIOUS
  <2>2. queue \in Seq(Callbacks)
    OBVIOUS
  <2>3. pc \in [Threads -> PC] /\ cb \in [Threads -> Callbacks \cup {NoCallback}]
    OBVIOUS
  <2> QED
    BY <2>1, <2>2, <2>3 DEF TypeOK
<1>2. OneThreadInLoop /\ EveryThreadJoinedOnce
    BY DEF OneThreadInLoop, EveryThreadJoinedOnce
<1>3. QueuedIsServed /\ PostersNeverWaitForCallbacks
    BY DEF QueuedIsServed, PostersNeverWaitForCallbacks
<1> QED
    BY <1>1, <1>2, <1>3 DEF DispatcherInv

(***************************************************************************)
(* A post accepted by a running thread only lengthens the queue.           *)
(***************************************************************************)
LEMMA PostRunningInv ==
    ASSUME DispatcherInv, NEW p \in Posters, NEW c \in Callbacks,
           PostRunning(p, c), UNCHANGED stopped
    PROVE  DispatcherInv'
BY DEF DispatcherInv, PostRunning, TypeOK, OneThreadInLoop,
       EveryThreadJoinedOnce, QueuedIsServed, PostersNeverWaitForCallbacks,
       PC, InLoop

LEMMA PostStartInv ==
    ASSUME DispatcherInv, NEW p \in Posters, NEW c \in Callbacks,
           joining[p] = NoThread, ~stopped, PostStart(p, c), UNCHANGED stopped
    PROVE  DispatcherInv'
<1> PICK t \in Threads : /\ pc[t] = "none"
                         /\ thread' = t
                         /\ pc' = [pc EXCEPT ![t] = "loop"]
    BY DEF PostStart
<1> USE DEF PC, InLoop
<1>1. TypeOK'
    BY DEF DispatcherInv, TypeOK, PostStart, reapUnlocked
<1>2. OneThreadInLoop'
    BY DEF DispatcherInv, TypeOK, OneThreadInLoop, PostStart
<1>3. EveryThreadJoinedOnce'
    BY NoThreadAssumption
       DEF DispatcherInv, TypeOK, EveryThreadJoinedOnce, PostStart, reapUnlocked
<1>4. PostersNeverWaitForCallbacks'
    BY NoThreadAssumption
       DEF DispatcherInv, TypeOK, PostersNeverWaitForCallbacks,
           EveryThreadJoinedOnce, OneThreadInLoop, PostStart, reapUnlocked
<1> QED
    BY <1>1, <1>2, <1>3, <1>4 DEF DispatcherInv, QueuedIsServed, PostStart

LEMMA PostFailsInv ==
    ASSUME DispatcherInv, NEW p \in Posters,
           joining[p] = NoThread, ~stopped, postFails(p), UNCHANGED stopped
    PROVE  DispatcherInv'
<1> USE DEF PC, InLoop
<1>1. TypeOK'
    BY DEF DispatcherInv, TypeOK, postFails, reapUnlocked
<1>2. OneThreadInLoop'
    BY DEF DispatcherInv, TypeOK, OneThreadInLoop, postFails
<1>3. EveryThreadJoinedOnce'
    BY NoThreadAssumption
       DEF DispatcherInv, TypeOK, EveryThreadJoinedOnce, postFails, reapUnlocked
<1>4. PostersNeverWaitForCallbacks'
    BY NoThreadAssumption
       DEF DispatcherInv, TypeOK, PostersNeverWaitForCallbacks,
           EveryThreadJoinedOnce, OneThreadInLoop, postFails, reapUnlocked
<1> QED
    BY <1>1, <1>2, <1>3, <1>4 DEF DispatcherInv, QueuedIsServed, postFails

LEMMA StopInv ==
    ASSUME DispatcherInv, NEW p \in Posters,
           joining[p] = NoThread, stop(p)
    PROVE  DispatcherInv'
<1> USE DEF PC, InLoop
<1>1. TypeOK'
    BY DEF DispatcherInv, TypeOK, stop
<1>2. OneThreadInLoop'
    BY DEF DispatcherInv, TypeOK, OneThreadInLoop, stop
<1>3. EveryThreadJoinedOnce'
    BY NoThreadAssumption
       DEF DispatcherInv, TypeOK, EveryThreadJoinedOnce, stop
<1> QED
    BY <1>1, <1>2, <1>3
       DEF DispatcherInv, QueuedIsServed, PostersNeverWaitForCallbacks, stop

LEMMA JoinInv ==
    ASSUME DispatcherInv, NEW p \in Posters, join(p), UNCHANGED stopped
    PROVE  DispatcherInv'
<1> USE DEF PC, InLoop
<1> joining[p] \in Threads
    BY DEF DispatcherInv, TypeOK, join
<1>1. TypeOK'
    BY DEF DispatcherInv, TypeOK, join
<1>2. OneThreadInLoop'
    BY DEF DispatcherInv, TypeOK, OneThreadInLoop, join
<1>3. EveryThreadJoinedOnce'
    BY NoThreadAssumption
       DEF DispatcherInv, TypeOK, EveryThreadJoinedOnce, join
<1>4. PostersNeverWaitForCallbacks'
    BY NoThreadAssumption
       DEF DispatcherInv, TypeOK, PostersNeverWaitForCallbacks,
           EveryThreadJoinedOnce, join
<1> QED
    BY <1>1, <1>2, <1>3, <1>4 DEF DispatcherInv, QueuedIsServed, join

(***************************************************************************)
(* The steps of a thread leave the handles alone.                          *)
(***************************************************************************)
LEMMA RunInv ==
    ASSUME DispatcherInv, NEW t \in Threads, Run(t)
    PROVE  DispatcherInv'
<1> USE NoThreadAssumption, NoCallbackAssumption DEF PC, InLoop
<1> UNCHANGED stopped
    BY DEF Run
<1>1. CASE take(t)
  <2>1. Head(queue) \in Callbacks /\ Tail(queue) \in Seq(Callbacks)
    BY <1>1 DEF DispatcherInv, TypeOK, take
  <2> QED
    BY <1>1, <2>1
       DEF DispatcherInv, TypeOK, OneThreadInLoop, EveryThreadJoinedOnce,
           QueuedIsServed, PostersNeverWaitForCallbacks, take
<1>2. CASE made(t)
    BY <1>2
       DEF DispatcherInv, TypeOK, OneThreadInLoop, EveryThreadJoinedOnce,
           QueuedIsServed, PostersNeverWaitForCallbacks, made
<1>3. CASE leave(t)
    BY <1>3
       DEF DispatcherInv, TypeOK, OneThreadInLoop, EveryThreadJoinedOnce,
           QueuedIsServed, PostersNeverWaitForCallbacks, leave
<1>4. CASE end(t)
    BY <1>4
       DEF DispatcherInv, TypeOK, OneThreadInLoop, EveryThreadJoinedOnce,
           QueuedIsServed, PostersNeverWaitForCallbacks, end
<1> QED
    BY <1>1, <1>2, <1>3, <1>4 DEF Run

LEMMA NextInv == DispatcherInv /\ [Next]_vars => DispatcherInv'
<1> SUFFICES ASSUME DispatcherInv, [Next]_vars PROVE DispatcherInv'
    OBVIOUS
<1>1. ASSUME NEW p \in Posters, Post(p) PROVE DispatcherInv'
    BY <1>1, PostRunningInv, PostStartInv DEF Post, post
<1>2. ASSUME NEW p \in Posters, PostFails(p) PROVE DispatcherInv'
    BY <1>2, PostFailsInv DEF PostFails
<1>3. ASSUME NEW p \in Posters, Stop(p) PROVE DispatcherInv'
    BY <1>3, StopInv DEF Stop
<1>4. ASSUME NEW p \in Posters, Join(p) PROVE DispatcherInv'
    BY <1>4, JoinInv DEF Join
<1>5. ASSUME NEW t \in Threads, Run(t) PROVE DispatcherInv'
    BY <1>5, RunInv
<1>6. CASE UNCHANGED vars
    BY <1>6
       DEF DispatcherInv, TypeOK, OneThreadInLoop, EveryThreadJoinedOnce,
           QueuedIsServed, PostersNeverWaitForCallbacks, vars
<1> QED
    BY <1>1, <1>2, <1>3, <1>4, <1>5, <1>6 DEF Next

(***************************************************************************)
(* In every behaviour of the dispatcher the types are right.               *)
(***************************************************************************)
THEOREM TypeCorrect == Safe => []TypeOK
<1>1. DispatcherInv => TypeOK
    BY DEF DispatcherInv
<1> QED
    BY InitInv, NextInv, <1>1, PTL DEF Safe

(***************************************************************************)
(* At most one thread is in the loop of run(), and `running` says exactly  *)
(* when.                                                                   *)
(***************************************************************************)
THEOREM OneThread == Safe => []OneThreadInLoop
<1>1. DispatcherInv => OneThreadInLoop
    BY DEF DispatcherInv
<1> QED
    BY InitInv, NextInv, <1>1, PTL DEF Safe

(***************************************************************************)
(* Every thread that post() creates is joined once, by one joiner.         *)
(***************************************************************************)
THEOREM ThreadsAreJoined == Safe => []EveryThreadJoinedOnce
<1>1. DispatcherInv => EveryThreadJoinedOnce
    BY DEF DispatcherInv
<1> QED
    BY InitInv, NextInv, <1>1, PTL DEF Safe

(***************************************************************************)
(* While a callback is queued a thread is in the loop.                     *)
(***************************************************************************)
THEOREM NothingLeftBehind == Safe => []QueuedIsServed
<1>1. DispatcherInv => QueuedIsServed
    BY DEF DispatcherInv
<1> QED
    BY InitInv, NextInv, <1>1, PTL DEF Safe

-----------------------------------------------------------------------------
(***************************************************************************)
(* The refinement.  A thread that has taken a callback is the abstract     *)
(* maker; by DispatcherInv there is no other.                              *)
(***************************************************************************)
LEMMA MakingOf ==
    ASSUME DispatcherInv, NEW t \in Threads, pc[t] \in InLoop
    PROVE  Making = IF pc[t] = "call" THEN cb[t] ELSE NoCallback
BY DEF DispatcherInv, OneThreadInLoop, Making

LEMMA StepRefines ==
    ASSUME DispatcherInv, DispatcherInv', Next
    PROVE  [CQ!Next]_(CQ!vars)
<1> USE DEF CQ!Next, CQ!vars
<1>1. ASSUME NEW p \in Posters, NEW c \in Callbacks, post(p, c)
      PROVE  CQ!Accept
  <2>1. CASE PostRunning(p, c)
    BY <2>1 DEF PostRunning, CQ!Accept, Making
  <2>2. CASE PostStart(p, c)
    <3>1. Making = NoCallback
      BY <2>2 DEF PostStart, Making
    <3>2. PICK t \in Threads : thread' = t /\ pc' = [pc EXCEPT ![t] = "loop"]
      BY <2>2 DEF PostStart
    <3>3. pc'[thread'] # "call"
      BY <3>2 DEF DispatcherInv, TypeOK
    <3>4. Making' = NoCallback
      BY <3>3 DEF Making
    <3> QED
      BY <2>2, <3>1, <3>4 DEF PostStart, CQ!Accept
  <2> QED
    BY <1>1, <2>1, <2>2 DEF post
<1>2. ASSUME NEW p \in Posters, PostFails(p) \/ Stop(p) PROVE UNCHANGED CQ!vars
    BY <1>2 DEF PostFails, postFails, Stop, stop, Making
<1>3. ASSUME NEW p \in Posters, join(p) PROVE UNCHANGED CQ!vars
  <2>1. joining[p] \in Threads /\ pc[joining[p]] = "ended"
    BY <1>3 DEF join, DispatcherInv, TypeOK
  <2>2. running => thread # joining[p]
    BY <2>1 DEF DispatcherInv, OneThreadInLoop, InLoop
  <2>3. running => pc'[thread] = pc[thread]
    BY <1>3, <2>1, <2>2 DEF join, DispatcherInv, TypeOK, OneThreadInLoop
  <2> QED
    BY <1>3, <2>3 DEF join, Making
<1>4. ASSUME NEW t \in Threads, take(t) PROVE CQ!Begin
  <2>1. Making = NoCallback
    BY <1>4, MakingOf DEF take, InLoop
  <2>2. running /\ thread = t /\ cb'[t] = Head(queue) /\ pc'[t] = "call"
    BY <1>4 DEF take, DispatcherInv, TypeOK, OneThreadInLoop, InLoop
  <2>3. Making' = Head(queue)
    BY <1>4, <2>2 DEF take, Making
  <2> QED
    BY <1>4, <2>1, <2>3 DEF take, CQ!Begin
<1>5. ASSUME NEW t \in Threads, made(t) PROVE CQ!End
  <2>1. Making = cb[t] /\ cb[t] # NoCallback
    BY <1>5, MakingOf DEF made, InLoop, DispatcherInv, TypeOK
  <2>2. running /\ thread = t /\ pc'[t] = "loop"
    BY <1>5 DEF made, DispatcherInv, TypeOK, OneThreadInLoop, InLoop
  <2>3. Making' = NoCallback
    BY <1>5, <2>2 DEF made, Making
  <2> QED
    BY <1>5, <2>1, <2>3 DEF made, CQ!End
<1>6. ASSUME NEW t \in Threads, leave(t) PROVE UNCHANGED CQ!vars
  <2>1. Making = NoCallback
    BY <1>6, MakingOf DEF leave, InLoop
  <2>2. Making' = NoCallback
    BY <1>6 DEF leave, Making
  <2> QED
    BY <1>6, <2>1, <2>2 DEF leave
<1>7. ASSUME NEW t \in Threads, end(t) PROVE UNCHANGED CQ!vars
  <2>1. running => thread # t
    BY <1>7 DEF end, DispatcherInv, OneThreadInLoop, InLoop
  <2>2. running => pc'[thread] = pc[thread]
    BY <1>7, <2>1 DEF end, DispatcherInv, TypeOK, OneThreadInLoop
  <2> QED
    BY <1>7, <2>2 DEF end, Making
<1> QED
    BY <1>1, <1>2, <1>3, <1>4, <1>5, <1>6, <1>7 DEF Next, Post, Join, Run

(***************************************************************************)
(* The safety part of Implements: callbacks are made one at a time, in the *)
(* order of the posts, each exactly once, however threads come and go.     *)
(***************************************************************************)
THEOREM RefinesCallbackQueue == Safe => CQ!Safe
<1>1. Init => CQ!Init
    BY DEF Init, CQ!Init, Making
<1>2. DispatcherInv /\ DispatcherInv' /\ [Next]_vars => [CQ!Next]_(CQ!vars)
  <2>1. CASE UNCHANGED vars
    BY <2>1 DEF vars, CQ!vars, Making
  <2> QED
    BY <2>1, StepRefines
<1> QED
    BY <1>1, <1>2, InitInv, NextInv, PTL DEF Safe, CQ!Safe
=============================================================================
