------------------------- MODULE ThreadCallsProofs -------------------------
(***************************************************************************)
(* Proofs about ThreadCalls, for any number of threads, attributes, values *)
(* and round trips.                                                        *)
(***************************************************************************)
EXTENDS ThreadCalls, TLAPS

(***************************************************************************)
(* The control of a call: somebody uses the datasource, and the connection *)
(* is open from the test for an interruption to the result.                *)
(***************************************************************************)
CallInv ==
    /\ pc = "idle" <=> user = NoThread
    /\ pc \in {"check", "apply", "trip", "answered", "release", "checkerr"} => open

(***************************************************************************)
(* The cache is right while it is said to be known, and the attributes     *)
(* before index are those of the thread.                                   *)
(***************************************************************************)
CacheInv ==
    /\ known => \A i \in Attrs : cached[i] = attrs[i]
    /\ pc = "apply" => \A i \in Attrs : i < index =>
           attrs[i] = info[user][i] /\ cached[i] = attrs[i]
    /\ pc = "trip" => \A i \in Attrs : attrs[i] = info[user][i]

(***************************************************************************)
(* Only the helper of the current round trip is registered or has handles, *)
(* and a break is in progress only for one that has.                       *)
(***************************************************************************)
HelperInv ==
    /\ armed \subseteq {trip} /\ registered \subseteq {trip}
    /\ armed # {} => pc \in {"trip", "answered", "release"}
    /\ registered # {} => pc \in {"trip", "answered"}
    /\ breaking \subseteq armed
    /\ \A n \in copies : n <= trip

(***************************************************************************)
(* What can break the current round trip comes from an interruption of its *)
(* thread.                                                                 *)
(***************************************************************************)
BreakInv ==
    pc = "trip" /\ (broken \/ trip \in copies \/ trip \in breaking) => user \in cancelled

IInv == TypeOK /\ CallInv /\ CacheInv /\ HelperInv /\ BreakInv

LEMMA InitTypes == Init => TypeOK
<1>1. None \in [Attrs -> Values]
    BY AttrAssumption DEF None
<1>2. 1 \in 1..(NAttrs + 1) /\ 0 \in 0..MaxTrips
    BY AttrAssumption, TripAssumption
<1> QED
    BY <1>1, <1>2 DEF Init, TypeOK

LEMMA InitInv == Init => IInv
<1>1. SUFFICES ASSUME Init PROVE IInv
    OBVIOUS
<1>2. TypeOK
    BY <1>1, InitTypes
<1>3. CallInv /\ CacheInv
    BY <1>1 DEF Init, CallInv, CacheInv, None
<1>4. HelperInv /\ BreakInv
    BY <1>1 DEF Init, HelperInv, BreakInv
<1> QED
    BY <1>2, <1>3, <1>4 DEF IInv

-----------------------------------------------------------------------------
(***************************************************************************)
(* The steps of the thread that uses the datasource.                       *)
(***************************************************************************)
LEMMA SetInfo ==
    ASSUME IInv, NEW t \in Threads, ora_set_thread_session_info(t)
    PROVE  IInv'
<1> USE DEF ora_set_thread_session_info, position, session, helpers, interrupts
<1>1. PICK v \in [Attrs -> Values] : info' = [info EXCEPT ![t] = v]
    OBVIOUS
<1>2. TypeOK'
    BY <1>1 DEF IInv, TypeOK
<1>3. user \in Threads => info'[user] = info[user]
    BY <1>1 DEF IInv, TypeOK
<1>4. CallInv' /\ HelperInv' /\ BreakInv'
    BY DEF IInv, CallInv, HelperInv, BreakInv
<1>5. CacheInv'
    BY <1>3, ThreadAssumption DEF IInv, CallInv, CacheInv, TypeOK
<1> QED
    BY <1>2, <1>4, <1>5 DEF IInv

LEMMA Enter ==
    ASSUME IInv, NEW t \in Threads, enter(t)
    PROVE  IInv'
<1> USE DEF enter, session, helpers, interrupts
<1>0. None \in [Attrs -> Values] /\ 1 \in 1..(NAttrs + 1)
    BY AttrAssumption DEF None
<1>1. TypeOK'
    BY <1>0 DEF IInv, TypeOK
<1>2. CallInv' /\ BreakInv'
    BY ThreadAssumption DEF IInv, CallInv, BreakInv
<1>3. CacheInv'
    BY DEF IInv, CallInv, CacheInv
<1>4. HelperInv'
    BY DEF IInv, CallInv, HelperInv
<1> QED
    BY <1>1, <1>2, <1>3, <1>4 DEF IInv

LEMMA Check ==
    ASSUME IInv, check
    PROVE  IInv'
<1> USE DEF check, helpers, interrupts
<1>1. TypeOK'
    BY AttrAssumption DEF IInv, TypeOK
<1>2. CallInv' /\ BreakInv'
    BY DEF IInv, CallInv, BreakInv
<1>3. CacheInv'
    BY DEF IInv, CacheInv, Attrs
<1>4. HelperInv'
    BY DEF IInv, HelperInv
<1> QED
    BY <1>1, <1>2, <1>3, <1>4 DEF IInv

LEMMA Apply ==
    ASSUME IInv, applyThreadSessionInfo
    PROVE  IInv'
<1> USE DEF applyThreadSessionInfo, session, helpers, interrupts, value
<1>0. user \in Threads /\ value(index) \in Values /\ index \in Attrs
    BY DEF IInv, CallInv, TypeOK
<1>1. attrs' \in [Attrs -> Values] /\ cached' \in [Attrs -> Values]
    BY <1>0 DEF IInv, TypeOK
<1>2. index + 1 \in 1..(NAttrs + 1)
    BY <1>0, AttrAssumption DEF Attrs
<1> HIDE DEF value
<1>6. TypeOK'
    BY <1>1, <1>2 DEF IInv, TypeOK
<1>3. CallInv' /\ BreakInv'
    BY DEF IInv, CallInv, BreakInv
<1>4. CacheInv'
  <2>1. CASE known /\ cached[index] = value(index) /\ index' = index + 1
    BY <1>0, <2>1, AttrAssumption DEF IInv, TypeOK, CacheInv, Attrs, value
  <2>2. CASE /\ ~(known /\ cached[index] = value(index))
             /\ attrs' = [attrs EXCEPT ![index] = value(index)]
             /\ cached' = [cached EXCEPT ![index] = value(index)]
             /\ known' = known /\ index' = index + 1
    BY <1>0, <2>2, AttrAssumption DEF IInv, TypeOK, CacheInv, Attrs, value
  <2>3. CASE known' = FALSE /\ pc' = "return"
    BY <2>3 DEF CacheInv
  <2> QED
    BY <2>1, <2>2, <2>3
<1>5. HelperInv'
    BY DEF IInv, HelperInv
<1> QED
    BY <1>3, <1>4, <1>5, <1>6 DEF IInv

LEMMA Register ==
    ASSUME IInv, registerCancelCallback
    PROVE  IInv'
<1> USE DEF registerCancelCallback
<1>0. trip + 1 \in Trips /\ trip + 1 \in 0..MaxTrips
    BY TripAssumption DEF IInv, TypeOK, Trips
<1>1. TypeOK'
    BY <1>0 DEF IInv, TypeOK
<1>2. CallInv'
    BY DEF IInv, CallInv
<1>3. CacheInv'
    BY AttrAssumption DEF IInv, TypeOK, CacheInv, Attrs
<1>4. HelperInv'
    BY TripAssumption DEF IInv, TypeOK, HelperInv, Trips
<1>5. BreakInv'
    BY TripAssumption DEF IInv, TypeOK, HelperInv, BreakInv, Trips
<1> QED
    BY <1>1, <1>2, <1>3, <1>4, <1>5 DEF IInv

LEMMA EndTrip ==
    ASSUME IInv, answer \/ brokenOff \/ unregisterCancelCallback \/ releaseState
    PROVE  IInv'
<1> USE DEF answer, brokenOff, unregisterCancelCallback, releaseState, session,
            helpers, interrupts
<1>1. TypeOK'
    BY DEF IInv, TypeOK
<1>2. CallInv' /\ CacheInv' /\ BreakInv'
    BY DEF IInv, CallInv, CacheInv, BreakInv
<1>3. HelperInv'
    BY DEF IInv, HelperInv
<1> QED
    BY <1>1, <1>2, <1>3 DEF IInv

LEMMA Result ==
    ASSUME IInv, checkerr \/ leave
    PROVE  IInv'
<1> USE DEF checkerr, leave, session, helpers, interrupts
<1>0. None \in [Attrs -> Values] /\ 1 \in 1..(NAttrs + 1)
    BY AttrAssumption DEF None
<1>1. TypeOK'
    BY <1>0 DEF IInv, TypeOK
<1>2. CallInv' /\ BreakInv'
    BY DEF IInv, CallInv, BreakInv
<1>3. CacheInv'
    BY DEF IInv, CacheInv
<1>4. HelperInv'
    BY DEF IInv, HelperInv
<1> QED
    BY <1>1, <1>2, <1>3, <1>4 DEF IInv

-----------------------------------------------------------------------------
(***************************************************************************)
(* The steps of an interruption.                                           *)
(***************************************************************************)
LEMMA Interrupt ==
    ASSUME IInv, NEW t \in Threads, interrupt(t)
    PROVE  IInv'
<1> USE DEF interrupt, position, session, helpers
<1>1. TypeOK'
    BY DEF IInv, TypeOK
<1>2. CallInv' /\ CacheInv'
    BY DEF IInv, CallInv, CacheInv
<1>3. HelperInv'
    BY TripAssumption DEF IInv, TypeOK, HelperInv, Trips
<1>4. BreakInv'
    BY DEF IInv, BreakInv
<1> QED
    BY <1>1, <1>2, <1>3, <1>4 DEF IInv

LEMMA Cancel ==
    ASSUME IInv, Canceller
    PROVE  IInv'
<1>1. PICK n \in Trips : cancelCallback(n) \/ OCIBreak(n)
    BY DEF Canceller
<1> USE DEF cancelCallback, OCIBreak, position, session, helpers
<1>2. TypeOK'
    BY <1>1 DEF IInv, TypeOK
<1>3. CallInv' /\ CacheInv'
    BY <1>1 DEF IInv, CallInv, CacheInv
<1>4. HelperInv'
    BY <1>1 DEF IInv, HelperInv
<1>5. BreakInv'
    BY <1>1 DEF IInv, HelperInv, BreakInv
<1> QED
    BY <1>2, <1>3, <1>4, <1>5 DEF IInv

LEMMA Stutter == IInv /\ UNCHANGED vars => IInv'
BY DEF vars, IInv, TypeOK, CallInv, CacheInv, HelperInv, BreakInv

LEMMA NextInv == IInv /\ [Next]_vars => IInv'
<1>1. ASSUME IInv, NEW t \in Threads,
             ora_set_thread_session_info(t) \/ enter(t) \/ interrupt(t)
      PROVE  IInv'
    BY <1>1, SetInfo, Enter, Interrupt
<1>2. ASSUME IInv, Caller \/ answer PROVE IInv'
    BY <1>2, Check, Apply, Register, EndTrip, Result DEF Caller
<1> QED
    BY <1>1, <1>2, Cancel, Stutter DEF Next

(***************************************************************************)
(* The invariant of the connection, its helpers and its interruptions.     *)
(***************************************************************************)
THEOREM Invariant == Spec => []IInv
BY InitInv, NextInv, PTL DEF Spec

(***************************************************************************)
(* Every round trip carries the attributes of its thread                   *)
(* (applyThreadSessionInfo()).                                             *)
(***************************************************************************)
THEOREM AttributesAreOwn == Spec => []OwnAttributes
<1>1. IInv => OwnAttributes
  <2>1. SUFFICES ASSUME IInv, pc = "trip" PROVE attrs = info[user]
    BY DEF OwnAttributes
  <2>2. attrs \in [Attrs -> Values] /\ info[user] \in [Attrs -> Values]
    BY <2>1 DEF IInv, TypeOK, CallInv
  <2> QED
    BY <2>1, <2>2 DEF IInv, CacheInv
<1> QED
    BY <1>1, Invariant, PTL

(***************************************************************************)
(* OCIBreak() is called only in the round trip it is meant for, and with   *)
(* handles that exist (~QoreOracleCancelHelper()).                         *)
(***************************************************************************)
THEOREM BreaksAreInTime == Spec => []BreaksItsTrip
<1>1. IInv => BreaksItsTrip
    BY DEF IInv, CallInv, HelperInv, BreaksItsTrip
<1> QED
    BY <1>1, Invariant, PTL

(***************************************************************************)
(* No round trip is broken whose thread was not interrupted.               *)
(***************************************************************************)
THEOREM BreaksAreMeant == Spec => []OnlyInterruptedAreBroken
<1>1. IInv => OnlyInterruptedAreBroken
    BY DEF IInv, BreakInv, OnlyInterruptedAreBroken
<1> QED
    BY <1>1, Invariant, PTL
=============================================================================
