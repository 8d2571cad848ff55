--------------------------- MODULE BulkLoadProofs ---------------------------
(***************************************************************************)
(* Proofs about BulkLoad: a load sends every row once, reports its end     *)
(* once, leaves nothing behind, and implements AtomicLoad, for every size  *)
(* of the load, of its blocks and of the column array.                     *)
(***************************************************************************)
EXTENDS BulkLoad, TLAPS

Beginning == {"initialize", "prepare", "setup", "discard"}
Loading == {"chunk", "convert", "load", "next", "account"}

(***************************************************************************)
(* What the step of a call says of the handles and of the context.         *)
(***************************************************************************)
Control ==
    /\ pc \in Loading => load
    /\ load => pc \in Loading \cup {"idle"}
    /\ load \/ pc = "terminate" =>
          /\ handles = Handles /\ prepared
          /\ context = "open" \/ (context = "gone" /\ failed)
    /\ pc \in {"initialize", "prepare"} => handles = {} /\ ~prepared /\ context = "none"
    /\ pc = "setup" => handles = {"ctx"} /\ prepared /\ context = "open"
    /\ pc = "discard" => IF prepared THEN "ctx" \in handles /\ context = "open"
                                     ELSE context = "none"
    /\ pc = "report" => ~prepared /\ context \notin {"none", "open"}
    /\ pc = "idle" /\ ~load => handles = {} /\ ~prepared /\ context # "open"
    /\ context \in {"left", "late"} => ~load /\ pc \in {"report", "idle"}
    /\ context = "left" => result # "ok" /\ (pc = "report" => ~clean)
    /\ ~misused

(***************************************************************************)
(* The rows lo + 1 .. hi, each of them once.                               *)
(***************************************************************************)
Between(lo, hi) == [r \in Rows |-> IF lo < r /\ r <= hi THEN 1 ELSE 0]

(***************************************************************************)
(* What has been sent, and what is in the stream, at each step of a block. *)
(***************************************************************************)
Sent ==
    /\ pc \in Beginning => given = 0 /\ staged = NoRows /\ buf = NoRows /\ ~used /\ ~failed
    /\ pc \in Loading =>
          /\ ~failed /\ 0 < count /\ given + count <= MaxGiven /\ offset <= count
          /\ pc # "account" => offset < count
    /\ pc \in {"idle", "chunk"} /\ load /\ ~failed /\ ~used => buf = NoRows
    /\ load /\ pc = "idle" /\ ~failed => staged = Whole(given)
    /\ pc = "chunk" => staged = Whole(given + offset)
    /\ pc \in {"convert", "load"} =>
          /\ staged = Whole(given + offset + rowOffset)
          /\ rowOffset < chunkRows
          /\ \A s \in Slots : s < chunkRows => array[s] = given + offset + s + 1
    /\ pc = "convert" => buf = NoRows
    /\ pc = "load" =>
          /\ rowOffset < nextOffset /\ nextOffset <= chunkRows
          /\ buf = Between(given + offset + rowOffset, given + offset + nextOffset)
    /\ pc = "next" => staged = Whole(given + offset + chunkRows)
    /\ pc = "account" => used /\ offset = count /\ staged = Whole(given + count)
    /\ pc = "terminate" /\ ~failed => staged = Whole(given)

(***************************************************************************)
(* What is visible and what the observer was told.                         *)
(***************************************************************************)
Reported ==
    /\ load \/ pc \in Beginning =>
          ~asked /\ visible = NoRows /\ ends = 0 /\ result = "none" /\ ~outcome
    /\ pc \in Beginning => ~started
    /\ load \/ pc \in {"terminate", "report"} =>
          started = observed /\ ends = 0 /\ result = "none" /\ ~outcome
    /\ pc = "terminate" => visible = NoRows /\ (success => asked /\ ~failed)
    /\ pc = "report" => visible = NoRows \/ visible = Whole(given)
    /\ pc = "report" /\ success => visible = Whole(given)
    /\ pc = "idle" /\ ~load => ends = IF result # "none" /\ observed THEN 1 ELSE 0
    /\ outcome => visible = Whole(given)
    /\ context = "late" => asked /\ visible = NoRows /\ staged = Whole(given)

IInv == TypeOK /\ Control /\ Sent /\ Reported

-----------------------------------------------------------------------------
(***************************************************************************)
(* Operators of the model.                                                 *)
(***************************************************************************)
LEMMA RowCountType ==
    ASSUME NEW b \in Blocks
    PROVE  rowCount(b) \in 0..(MaxLength + 1)
<1>1. PICK K \in SUBSET (Columns \cup {OtherKey}) : b \in [K -> 0..Scalar]
  BY DEF Blocks
<1>2. CASE Lists(b) = {}
  BY <1>2, SizeAssumption DEF rowCount
<1>3. CASE Lists(b) # {}
  <2>1. (CHOOSE c \in Lists(b) : TRUE) \in Lists(b)
    BY <1>3
  <2>2. b[CHOOSE c \in Lists(b) : TRUE] \in 0..Scalar
    BY <1>1, <2>1 DEF Lists
  <2> QED
    BY <1>3, <2>2 DEF rowCount, Scalar
<1> QED
  BY <1>2, <1>3

LEMMA ChunkIsNotEmpty ==
    ASSUME TypeOK, offset < count
    PROVE  /\ chunkRows \in 1..MaxRows
           /\ offset + chunkRows <= count
BY SizeAssumption DEF TypeOK, CounterTypes, chunkRows

LEMMA RowSets ==
    /\ NoRows \in [Rows -> Nat]
    /\ Whole(0) = NoRows
    /\ \A f \in [Rows -> Nat] : Plus(NoRows, f) = f
    /\ \A f, g \in [Rows -> Nat] : Plus(f, g) \in [Rows -> Nat]
    /\ \A n \in Nat : Whole(n) \in [Rows -> Nat]
    /\ \A m, n \in Nat : Between(m, n) \in [Rows -> Nat]
    /\ \A m, n \in Nat : m <= n => Plus(Whole(m), Between(m, n)) = Whole(n)
BY SizeAssumption DEF Rows, NoRows, Whole, Plus, Between

LEMMA EntriesType ==
    ASSUME NEW lo, NEW hi
    PROVE  Entries(lo, hi) \in [Rows -> Nat]
BY DEF Entries

(***************************************************************************)
(* What is converted of a chunk are the rows after those that are loaded.  *)
(***************************************************************************)
LEMMA EntriesAreTheNextRows ==
    ASSUME TypeOK, offset < count,
           \A s \in Slots : s < chunkRows => array[s] = given + offset + s + 1,
           NEW lo \in Nat, NEW hi \in lo..chunkRows
    PROVE  Entries(lo, hi) = Between(given + offset + lo, given + offset + hi)
<1>1. chunkRows \in 1..MaxRows
  BY ChunkIsNotEmpty
<1>2. ASSUME NEW r \in Rows
      PROVE  (\E s \in lo..(hi - 1) : array[s] = r)
                <=> given + offset + lo < r /\ r <= given + offset + hi
  <2>1. \A s \in lo..(hi - 1) : s \in Slots /\ array[s] = given + offset + s + 1
    BY <1>1, SizeAssumption DEF Slots
  <2>2. ASSUME given + offset + lo < r, r <= given + offset + hi
        PROVE  \E s \in lo..(hi - 1) : array[s] = r
    <3>1. r - given - offset - 1 \in lo..(hi - 1)
      BY <2>2, <1>1, SizeAssumption DEF TypeOK, CounterTypes, Rows
    <3>2. array[r - given - offset - 1] = given + offset + (r - given - offset - 1) + 1
      BY <3>1, <2>1
    <3> QED
      BY <3>1, <3>2, SizeAssumption DEF TypeOK, CounterTypes, Rows
  <2>3. ASSUME NEW s \in lo..(hi - 1), array[s] = r
        PROVE  given + offset + lo < r /\ r <= given + offset + hi
    BY <2>1, <2>3, <1>1, SizeAssumption DEF TypeOK, CounterTypes
  <2> QED
    BY <2>2, <2>3
<1> QED
  BY <1>2 DEF Entries, Between

(***************************************************************************)
(* Every step keeps the types of the flags.                                *)
(***************************************************************************)
LEMMA FlagStep == FlagTypes /\ [Next]_vars => FlagTypes'
<1> SUFFICES ASSUME FlagTypes, [Next]_vars
             PROVE  FlagTypes'
  OBVIOUS
<1> USE DEF state, stream, cursor, oci, ending, app, observer
<1>1. CASE bulkLoadBegin
  BY <1>1 DEF FlagTypes, bulkLoadBegin
<1>2. CASE bulkLoadRows
  BY <1>2 DEF FlagTypes, bulkLoadRows, setError
<1>3. CASE bulkLoadEnd
  BY <1>3 DEF FlagTypes, bulkLoadEnd
<1>4. CASE describe /\ ~lose
  BY <1>4 DEF FlagTypes, describe
<1>5. CASE prepare /\ ~lose
  <2>1. UNCHANGED <<load, used, started, ok, observed, success,
                   clean, failed, asked, outcome, misused, fault>>
    BY <1>5 DEF prepare
  <2>2. prepared' \in BOOLEAN
    BY <1>5 DEF FlagTypes, prepare
  <2> QED
    BY <2>1, <2>2 DEF FlagTypes
<1>6. CASE setup
  <2>1. UNCHANGED <<prepared, used, ok, observed, success, clean,
                   failed, asked, outcome, misused, fault>>
    BY <1>6 DEF setup
  <2>2. load' \in BOOLEAN /\ started' \in BOOLEAN
    BY <1>6 DEF FlagTypes, setup
  <2> QED
    BY <2>1, <2>2 DEF FlagTypes
<1>7. CASE discard
  BY <1>7 DEF FlagTypes, discard, OCIDirPathAbort
<1>8. CASE fillChunk
  <2>1. UNCHANGED <<load, prepared, used, started, observed,
                   success, clean, asked, outcome, fault>>
    BY <1>8 DEF fillChunk, setError, filled
  <2>2. ok' \in BOOLEAN /\ failed' \in BOOLEAN /\ misused' \in BOOLEAN
    BY <1>8 DEF FlagTypes, fillChunk, setError, filled
  <2> QED
    BY <2>1, <2>2 DEF FlagTypes
<1>9. CASE convert
  <2>1. UNCHANGED <<load, prepared, used, started, observed,
                   success, clean, asked, outcome, misused, fault>>
    BY <1>9 DEF convert, setError
  <2>2. ok' \in BOOLEAN /\ failed' \in BOOLEAN
    BY <1>9 DEF FlagTypes, convert, setError
  <2> QED
    BY <2>1, <2>2 DEF FlagTypes
<1>10. CASE loadStream /\ ~lose
  <2>1. UNCHANGED <<load, prepared, used, started, observed,
                   success, clean, asked, outcome, misused, fault>>
    BY <1>10 DEF loadStream, setError, dropSession
  <2>2. ok' \in BOOLEAN /\ failed' \in BOOLEAN
    BY <1>10 DEF FlagTypes, loadStream, setError, dropSession
  <2> QED
    BY <2>1, <2>2 DEF FlagTypes
<1>11. CASE nextChunk
  BY <1>11 DEF FlagTypes, nextChunk
<1>12. CASE accountBlock
  <2>1. UNCHANGED <<load, prepared, used, started, observed,
                   success, clean, asked, outcome, misused, fault>>
    BY <1>12 DEF accountBlock, setError, addBytes
  <2>2. ok' \in BOOLEAN /\ failed' \in BOOLEAN
    BY <1>12 DEF FlagTypes, accountBlock, setError, addBytes
  <2> QED
    BY <2>1, <2>2 DEF FlagTypes
<1>13. CASE terminate /\ ~lose
  <2>1. UNCHANGED <<load, used, started, ok, observed, failed,
                   asked, outcome, fault>>
    BY <1>13 DEF terminate, OCIDirPathFinish, OCIDirPathAbort,
       finishTimesOut, dropSession
  <2>2. prepared' \in BOOLEAN /\ success' \in BOOLEAN /\ clean' \in BOOLEAN /\ misused' \in BOOLEAN
    BY <1>13 DEF FlagTypes, terminate, OCIDirPathFinish, OCIDirPathAbort,
       finishTimesOut, dropSession
  <2> QED
    BY <2>1, <2>2 DEF FlagTypes
<1>14. CASE finishStream
  BY <1>14 DEF FlagTypes, finishStream
<1>15. CASE lose
  BY <1>15 DEF FlagTypes, lose
<1>16. CASE UNCHANGED vars
  BY <1>16 DEF FlagTypes, vars
<1>17. CASE finishLate
  BY <1>17 DEF FlagTypes, finishLate
<1> QED
  BY <1>1, <1>2, <1>3, <1>4, <1>5, <1>6, <1>7, <1>8, <1>9, <1>10, <1>11,
     <1>12, <1>13, <1>14, <1>15, <1>16, <1>17 DEF Next, Driver, undefined

(***************************************************************************)
(* Every step keeps the types of the program counter, of the handles,      *)
(* of the context and of the result.                                       *)
(***************************************************************************)
LEMMA StateStep == StateTypes /\ [Next]_vars => StateTypes'
<1> SUFFICES ASSUME StateTypes, [Next]_vars
             PROVE  StateTypes'
  OBVIOUS
<1> USE DEF state, stream, cursor, oci, ending, app, observer
<1>1. CASE bulkLoadBegin
  BY <1>1 DEF StateTypes, bulkLoadBegin
<1>2. CASE bulkLoadRows
  BY <1>2 DEF StateTypes, bulkLoadRows, setError
<1>3. CASE bulkLoadEnd
  BY <1>3 DEF StateTypes, bulkLoadEnd
<1>4. CASE describe /\ ~lose
  BY <1>4 DEF StateTypes, describe
<1>5. CASE prepare /\ ~lose
  <2>1. handles' \subseteq Handles
    BY <1>5 DEF Handles, prepare
  <2>2. pc' \in {"idle", "setup", "discard"}
    BY <1>5 DEF prepare
  <2>3. context' \in {context, "open"} /\ result' = result
    BY <1>5 DEF prepare
  <2> QED
    BY <2>1, <2>2, <2>3 DEF StateTypes
<1>6. CASE setup
  <2>1. handles' \subseteq Handles
    BY <1>6 DEF Handles, setup
  <2>2. pc' \in {"idle", "setup", "discard"}
    BY <1>6 DEF setup
  <2>3. context' \in {context, "open"} /\ result' = result
    BY <1>6 DEF setup
  <2> QED
    BY <2>1, <2>2, <2>3 DEF StateTypes
<1>7. CASE discard
  BY <1>7 DEF StateTypes, discard, OCIDirPathAbort
<1>8. CASE fillChunk
  BY <1>8 DEF StateTypes, fillChunk, setError, filled
<1>9. CASE convert
  BY <1>9 DEF StateTypes, convert, setError
<1>10. CASE loadStream /\ ~lose
  BY <1>10 DEF StateTypes, loadStream, setError, dropSession
<1>11. CASE nextChunk
  BY <1>11 DEF StateTypes, nextChunk
<1>12. CASE accountBlock
  BY <1>12 DEF StateTypes, accountBlock, setError, addBytes
<1>13. CASE terminate /\ ~lose
  BY <1>13 DEF StateTypes, terminate, OCIDirPathFinish, OCIDirPathAbort,
     finishTimesOut, dropSession
<1>14. CASE finishStream
  BY <1>14 DEF StateTypes, finishStream
<1>15. CASE lose
  BY <1>15 DEF StateTypes, lose
<1>16. CASE UNCHANGED vars
  BY <1>16 DEF StateTypes, vars
<1>17. CASE finishLate
  BY <1>17 DEF StateTypes, finishLate
<1> QED
  BY <1>1, <1>2, <1>3, <1>4, <1>5, <1>6, <1>7, <1>8, <1>9, <1>10, <1>11,
     <1>12, <1>13, <1>14, <1>15, <1>16, <1>17 DEF Next, Driver, undefined

(***************************************************************************)
(* Every step keeps the ranges of the counters.                            *)
(***************************************************************************)
LEMMA CounterStep == TypeOK /\ Sent /\ [Next]_vars => CounterTypes'
<1> SUFFICES ASSUME TypeOK, Sent, [Next]_vars
             PROVE  CounterTypes'
  OBVIOUS
<1> USE DEF state, stream, cursor, oci, ending, app, observer
<1>1. CASE bulkLoadBegin
  BY <1>1, SizeAssumption, BytesAssumption DEF CounterTypes, TypeOK,
     bulkLoadBegin
<1>2. CASE bulkLoadRows
  <2>1. UNCHANGED <<consumed, reported, rowOffset, nextOffset, given, ends>>
    BY <1>2 DEF bulkLoadRows, setError
  <2>2. PICK b \in Blocks : \/ count' = rowCount(b) /\ offset' = 0
                            \/ UNCHANGED <<count, offset>>
    BY <1>2 DEF bulkLoadRows
  <2>3. count' \in 0..(MaxLength + 1) /\ offset' \in 0..(MaxLength + 1)
    BY <2>2, RowCountType, SizeAssumption DEF TypeOK, CounterTypes
  <2> QED
    BY <2>1, <2>3 DEF TypeOK, CounterTypes
<1>3. CASE bulkLoadEnd
  BY <1>3 DEF CounterTypes, TypeOK, bulkLoadEnd
<1>4. CASE describe /\ ~lose
  BY <1>4 DEF CounterTypes, TypeOK, describe
<1>5. CASE prepare /\ ~lose
  BY <1>5 DEF CounterTypes, TypeOK, prepare
<1>6. CASE setup
  BY <1>6 DEF CounterTypes, TypeOK, setup
<1>7. CASE discard
  BY <1>7 DEF CounterTypes, TypeOK, discard, OCIDirPathAbort
<1>8. CASE fillChunk
  <2>1. UNCHANGED <<consumed, reported, count, offset, given, ends>>
    BY <1>8 DEF fillChunk, setError
  <2>2. rowOffset' = 0 /\ nextOffset' = 0
    BY <1>8 DEF fillChunk
  <2> QED
    BY <2>1, <2>2, SizeAssumption DEF TypeOK, CounterTypes
<1>9. CASE convert
  <2>1. UNCHANGED <<consumed, reported, count, offset, rowOffset, given, ends>>
    BY <1>9 DEF convert, setError
  <2>2. chunkRows \in 1..MaxRows
    BY <1>9, ChunkIsNotEmpty DEF convert, Sent, Loading
  <2>3. nextOffset' = nextOffset \/ nextOffset' \in (rowOffset + 1)..chunkRows
    BY <1>9 DEF convert
  <2>4. nextOffset' \in 0..MaxRows
    BY <2>2, <2>3, SizeAssumption DEF CounterTypes, TypeOK
  <2> QED
    BY <2>1, <2>4 DEF CounterTypes, TypeOK
<1>10. CASE loadStream /\ ~lose
  BY <1>10 DEF CounterTypes, TypeOK, loadStream, setError, dropSession
<1>11. CASE nextChunk
  <2>1. UNCHANGED <<consumed, reported, count, rowOffset, nextOffset, given, ends>>
    BY <1>11 DEF nextChunk
  <2>2. chunkRows \in 1..MaxRows /\ offset + chunkRows <= count
    BY <1>11, ChunkIsNotEmpty DEF nextChunk, Sent, Loading
  <2>3. offset' \in 0..(MaxLength + 1)
    BY <1>11, <2>2, SizeAssumption DEF nextChunk, CounterTypes, TypeOK
  <2> QED
    BY <2>1, <2>3 DEF CounterTypes, TypeOK
<1>12. CASE accountBlock
  <2>1. UNCHANGED <<count, offset, rowOffset, nextOffset, ends>>
    BY <1>12 DEF accountBlock
  <2>2. given' = given \/ given' = given + count
    BY <1>12 DEF accountBlock
  <2>3. given' \in 0..MaxGiven
    BY <1>12, <2>2, SizeAssumption DEF accountBlock, Sent, Loading, CounterTypes, TypeOK
  <2>4. \/ UNCHANGED <<consumed, reported>>
        \/ /\ count <= MaxBytes - consumed /\ consumed' = consumed + count
           /\ reported' = reported \/ reported' = consumed + count
    BY <1>12 DEF accountBlock, addBytes, setError
  <2>5. consumed' \in 0..MaxBytes /\ reported' \in 0..MaxBytes
    BY <2>4, BytesAssumption DEF CounterTypes, TypeOK
  <2> QED
    BY <2>1, <2>3, <2>5 DEF CounterTypes, TypeOK
<1>13. CASE terminate /\ ~lose
  BY <1>13 DEF CounterTypes, TypeOK, terminate, OCIDirPathFinish,
     OCIDirPathAbort, finishTimesOut, dropSession
<1>14. CASE finishStream
  BY <1>14 DEF CounterTypes, TypeOK, finishStream
<1>15. CASE lose
  BY <1>15 DEF CounterTypes, TypeOK, lose
<1>16. CASE UNCHANGED vars
  BY <1>16 DEF CounterTypes, TypeOK, vars
<1>17. CASE finishLate
  BY <1>17 DEF CounterTypes, TypeOK, finishLate
<1> QED
  BY <1>1, <1>2, <1>3, <1>4, <1>5, <1>6, <1>7, <1>8, <1>9, <1>10, <1>11,
     <1>12, <1>13, <1>14, <1>15, <1>16, <1>17 DEF Next, Driver, undefined

(***************************************************************************)
(* Every step keeps the types of the column array, of the stream, and of   *)
(* what was sent and is visible.                                           *)
(***************************************************************************)
LEMMA RowStep == TypeOK /\ Sent /\ [Next]_vars => RowTypes'
<1> SUFFICES ASSUME TypeOK, Sent, [Next]_vars
             PROVE  RowTypes'
  OBVIOUS
<1> USE DEF state, stream, cursor, oci, ending, app, observer
<1>1. CASE bulkLoadBegin
  <2>1. array' \in [Slots -> 0..MaxGiven]
    BY <1>1, SizeAssumption DEF bulkLoadBegin
  <2> QED
    BY <1>1, <2>1, RowSets DEF bulkLoadBegin, RowTypes
<1>2. CASE bulkLoadRows
  BY <1>2 DEF RowTypes, TypeOK, bulkLoadRows, setError
<1>3. CASE bulkLoadEnd
  BY <1>3 DEF RowTypes, TypeOK, bulkLoadEnd
<1>4. CASE describe /\ ~lose
  BY <1>4 DEF RowTypes, TypeOK, describe
<1>5. CASE prepare /\ ~lose
  BY <1>5 DEF RowTypes, TypeOK, prepare
<1>6. CASE setup
  BY <1>6 DEF RowTypes, TypeOK, setup
<1>7. CASE discard
  BY <1>7, RowSets DEF RowTypes, TypeOK, discard, OCIDirPathAbort
<1>8. CASE fillChunk
  <2>1. chunkRows \in 1..MaxRows /\ offset + chunkRows <= count
    BY <1>8, ChunkIsNotEmpty DEF fillChunk, Sent, Loading
  <2>2. given + count <= MaxGiven /\ offset \in Nat /\ count \in Nat /\ given \in Nat
    BY <1>8, SizeAssumption DEF fillChunk, Sent, Loading, TypeOK, CounterTypes
  <2>3. ASSUME NEW n \in 0..chunkRows
        PROVE  filled(n) \in [Slots -> 0..MaxGiven]
    BY <2>1, <2>2, <2>3, SizeAssumption DEF filled, Slots, TypeOK, RowTypes
  <2>4. PICK n \in 0..chunkRows : array' = filled(n)
    BY <1>8, <2>1, SizeAssumption DEF fillChunk
  <2>5. buf' = NoRows \/ buf' = buf
    BY <1>8 DEF fillChunk
  <2>6. UNCHANGED <<staged, visible>>
    BY <1>8 DEF fillChunk
  <2> QED
    BY <2>3, <2>4, <2>5, <2>6, RowSets DEF TypeOK, RowTypes
<1>9. CASE convert
  <2>1. PICK n : buf' = Plus(buf, Entries(rowOffset, n))
    BY <1>9 DEF convert
  <2>2. buf' \in [Rows -> Nat]
    BY <2>1, RowSets, EntriesType DEF TypeOK, RowTypes
  <2>3. UNCHANGED <<array, staged, visible>>
    BY <1>9 DEF convert
  <2> QED
    BY <2>2, <2>3 DEF TypeOK, RowTypes
<1>10. CASE loadStream /\ ~lose
  <2>1. staged' = staged \/ staged' = Plus(staged, buf) \/ staged' = NoRows
    BY <1>10 DEF loadStream, dropSession
  <2>2. Plus(staged, buf) \in [Rows -> Nat] /\ staged \in [Rows -> Nat]
    BY RowSets DEF TypeOK, RowTypes
  <2>3. staged' \in [Rows -> Nat]
    BY <2>1, <2>2, RowSets
  <2>4. buf' = buf \/ buf' = NoRows
    BY <1>10 DEF loadStream
  <2>5. UNCHANGED <<array, visible>>
    BY <1>10 DEF loadStream
  <2> QED
    BY <2>3, <2>4, <2>5, RowSets DEF TypeOK, RowTypes
<1>11. CASE nextChunk
  BY <1>11 DEF RowTypes, TypeOK, nextChunk
<1>12. CASE accountBlock
  BY <1>12 DEF RowTypes, TypeOK, accountBlock, setError, addBytes
<1>13. CASE terminate /\ ~lose
  BY <1>13, RowSets DEF RowTypes, TypeOK, terminate, OCIDirPathFinish,
     OCIDirPathAbort, finishTimesOut, dropSession
<1>14. CASE finishStream
  BY <1>14 DEF RowTypes, TypeOK, finishStream
<1>15. CASE lose
  BY <1>15 DEF RowTypes, TypeOK, lose
<1>16. CASE UNCHANGED vars
  BY <1>16 DEF RowTypes, TypeOK, vars
<1>17. CASE finishLate
  BY <1>17, RowSets DEF RowTypes, TypeOK, finishLate
<1> QED
  BY <1>1, <1>2, <1>3, <1>4, <1>5, <1>6, <1>7, <1>8, <1>9, <1>10, <1>11,
     <1>12, <1>13, <1>14, <1>15, <1>16, <1>17 DEF Next, Driver, undefined

(***************************************************************************)
(* Every step keeps what is said of the handles and of the context.        *)
(***************************************************************************)
LEMMA ControlStep == IInv /\ [Next]_vars => Control'
<1> SUFFICES ASSUME IInv, [Next]_vars
             PROVE  Control'
  OBVIOUS
<1> USE DEF state, stream, cursor, oci, ending, app, observer
<1>1. CASE bulkLoadBegin
  BY <1>1 DEF IInv, Control, Reported, TypeOK, FlagTypes, StateTypes,
     Loading, Handles, bulkLoadBegin
<1>2. CASE bulkLoadRows
  BY <1>2 DEF IInv, Control, Reported, TypeOK, FlagTypes, StateTypes,
     Loading, Handles, bulkLoadRows, setError
<1>3. CASE bulkLoadEnd
  BY <1>3 DEF IInv, Control, Reported, TypeOK, FlagTypes, StateTypes,
     Loading, Handles, bulkLoadEnd
<1>4. CASE describe /\ ~lose
  <2>1. pc' \in {"prepare", "discard"} /\ pc = "initialize"
    BY <1>4 DEF describe
  <2>2. UNCHANGED <<load, handles, prepared, context, failed, misused>>
    BY <1>4 DEF describe
  <2> QED
    BY <2>1, <2>2 DEF IInv, Control, Loading
<1>5. CASE prepare /\ ~lose
  BY <1>5 DEF IInv, Control, Reported, TypeOK, FlagTypes, StateTypes,
     Loading, Handles, prepare
<1>6. CASE setup
  <2>1. UNCHANGED <<prepared, context, misused>> /\ prepared /\ context = "open" /\ ~misused
    BY <1>6 DEF setup, IInv, Control
  <2>2. ~load
    BY <1>6 DEF setup, IInv, Control, Loading
  <2>3. CASE pc' = "idle"
    <3>1. load' /\ handles' = Handles
      BY <1>6, <2>3 DEF setup
    <3> QED
      BY <2>1, <2>3, <3>1 DEF Control, Loading
  <2>4. CASE pc' = "discard"
    <3>1. ~load' /\ "ctx" \in handles'
      BY <1>6, <2>2, <2>4 DEF setup, Handles
    <3> QED
      BY <2>1, <2>4, <3>1 DEF Control, Loading
  <2>5. pc' \in {"idle", "discard"}
    BY <1>6 DEF setup
  <2> QED
    BY <2>3, <2>4, <2>5
<1>7. CASE discard
  <2>1. pc = "discard" /\ ~load /\ result = "none" /\ ~misused
    BY <1>7 DEF discard, IInv, Control, Reported, Loading, Beginning
  <2>2. ~load' /\ result' = "none" /\ handles' = {} /\ ~prepared' /\ pc' = "idle"
    BY <1>7, <2>1 DEF discard
  <2>3. context' \notin {"open", "late"} /\ ~misused'
    BY <1>7, <2>1 DEF discard, OCIDirPathAbort, IInv, Control
  <2> QED
    BY <2>2, <2>3 DEF Control, Loading
<1>8. CASE fillChunk
  BY <1>8 DEF IInv, Control, Reported, TypeOK, FlagTypes, StateTypes,
     Loading, Handles, fillChunk, setError, filled
<1>9. CASE convert
  BY <1>9 DEF IInv, Control, Reported, TypeOK, FlagTypes, StateTypes,
     Loading, Handles, convert, setError
<1>10. CASE loadStream /\ ~lose
  <2>1. UNCHANGED <<load, handles, prepared, misused>> /\ pc = "load" /\ load
    BY <1>10 DEF loadStream, IInv, Control, Loading
  <2>2. pc' \in {"convert", "next", "idle"}
    BY <1>10 DEF loadStream, setError
  <2>3. \/ UNCHANGED <<context, failed>>
        \/ failed' /\ context' \in {context, "gone"}
    BY <1>10 DEF loadStream, setError, dropSession
  <2>4. context \notin {"left", "late"}
    BY <2>1 DEF IInv, Control
  <2> QED
    BY <2>1, <2>2, <2>3, <2>4 DEF IInv, Control, Loading
<1>11. CASE nextChunk
  BY <1>11 DEF IInv, Control, Reported, TypeOK, FlagTypes, StateTypes,
     Loading, Handles, nextChunk
<1>12. CASE accountBlock
  BY <1>12 DEF IInv, Control, Reported, TypeOK, FlagTypes, StateTypes,
     Loading, Handles, accountBlock, setError, addBytes
<1>13. CASE terminate /\ ~lose
  BY <1>13 DEF IInv, Control, Reported, TypeOK, FlagTypes, StateTypes,
     Loading, Handles, terminate, OCIDirPathFinish, OCIDirPathAbort,
     finishTimesOut, dropSession
<1>14. CASE finishStream
  BY <1>14 DEF IInv, Control, Reported, TypeOK, FlagTypes, StateTypes,
     Loading, Handles, finishStream
<1>15. CASE lose
  BY <1>15 DEF IInv, Control, Reported, TypeOK, FlagTypes, StateTypes,
     Loading, Handles, lose
<1>16. CASE UNCHANGED vars
  BY <1>16 DEF IInv, Control, Reported, TypeOK, FlagTypes, StateTypes,
     Loading, Handles, vars
<1>17. CASE finishLate
  BY <1>17 DEF IInv, Control, Reported, TypeOK, FlagTypes, StateTypes,
     Loading, Handles, finishLate
<1> QED
  BY <1>1, <1>2, <1>3, <1>4, <1>5, <1>6, <1>7, <1>8, <1>9, <1>10, <1>11,
     <1>12, <1>13, <1>14, <1>15, <1>16, <1>17 DEF Next, Driver, undefined

(***************************************************************************)
(* Every step keeps what is said of the rows that were sent.               *)
(***************************************************************************)
LEMMA SentStep == IInv /\ [Next]_vars => Sent'
<1> SUFFICES ASSUME IInv, [Next]_vars
             PROVE  Sent'
  OBVIOUS
<1> USE DEF state, stream, cursor, oci, ending, app, observer
<1>0. ASSUME pc' = "idle", failed' PROVE Sent'
  BY <1>0 DEF Sent, Loading, Beginning
<1>1. CASE bulkLoadBegin
  BY <1>1, RowSets DEF IInv, Sent, Control, TypeOK, FlagTypes, StateTypes,
     CounterTypes, Loading, Beginning, bulkLoadBegin
<1>2. CASE bulkLoadRows
  <2>1. CASE pc' = "chunk"
    <3>1. PICK b \in Blocks : /\ rowCount(b) > 0 /\ given + rowCount(b) <= MaxGiven
                              /\ count' = rowCount(b) /\ offset' = 0
      BY <1>2, <2>1 DEF bulkLoadRows, setError
    <3>2. UNCHANGED <<load, used, buf, staged, given, failed>> /\ load /\ ~failed /\ pc = "idle"
      BY <1>2, <2>1 DEF bulkLoadRows, setError
    <3>3. given + 0 = given
      BY DEF IInv, TypeOK, CounterTypes
    <3> QED
      BY <2>1, <3>1, <3>2, <3>3, RowCountType DEF IInv, Sent, Loading, Beginning
  <2> QED
    BY <1>2, <2>1, <1>0 DEF bulkLoadRows, setError
<1>3. CASE bulkLoadEnd
  BY <1>3, RowSets DEF IInv, Sent, Control, TypeOK, FlagTypes, StateTypes,
     CounterTypes, Loading, Beginning, bulkLoadEnd
<1>4. CASE describe /\ ~lose
  BY <1>4, RowSets DEF IInv, Sent, Control, TypeOK, FlagTypes, StateTypes,
     CounterTypes, Loading, Beginning, describe
<1>5. CASE prepare /\ ~lose
  BY <1>5, RowSets DEF IInv, Sent, Control, TypeOK, FlagTypes, StateTypes,
     CounterTypes, Loading, Beginning, prepare
<1>6. CASE setup
  BY <1>6, RowSets DEF IInv, Sent, Control, TypeOK, FlagTypes, StateTypes,
     CounterTypes, Loading, Beginning, setup
<1>7. CASE discard
  BY <1>7, RowSets DEF IInv, Sent, Control, TypeOK, FlagTypes, StateTypes,
     CounterTypes, Loading, Beginning, discard, OCIDirPathAbort
<1>8. CASE fillChunk
  <2>1. CASE pc' = "convert"
    <3>1. /\ UNCHANGED <<load, used, staged, given, failed, count, offset>>
          /\ rowOffset' = 0 /\ array' = filled(chunkRows)
          /\ buf' = IF used THEN NoRows ELSE buf
      BY <1>8, <2>1 DEF fillChunk, setError
    <3>2. chunkRows' = chunkRows /\ chunkRows \in 1..MaxRows /\ offset < count
      BY <1>8, <3>1, ChunkIsNotEmpty DEF fillChunk, IInv, Sent, Loading, chunkRows
    <3>3. buf' = NoRows
      BY <1>8, <3>1 DEF fillChunk, IInv, Sent, Control, Loading
    <3>4. \A s \in Slots : s < chunkRows' => array'[s] = given' + offset' + s + 1
      BY <3>1, <3>2 DEF filled
    <3>5. staged' = Whole(given' + offset' + rowOffset') /\ rowOffset' < chunkRows'
      <4>1. given + offset + 0 = given + offset
        BY DEF IInv, TypeOK, CounterTypes
      <4> QED
        BY <1>8, <3>1, <3>2, <4>1, SizeAssumption DEF fillChunk, IInv, Sent
    <3>6. /\ ~failed /\ 0 < count /\ given + count <= MaxGiven /\ offset <= count
      BY <1>8 DEF fillChunk, IInv, Sent, Loading
    <3> QED
      BY <2>1, <3>1, <3>2, <3>3, <3>4, <3>5, <3>6 DEF Sent, Loading, Beginning
  <2> QED
    BY <1>8, <2>1, <1>0 DEF fillChunk, setError
<1>9. CASE convert
  <2>1. CASE pc' = "load"
    <3>1. PICK n \in (rowOffset + 1)..chunkRows :
             nextOffset' = n /\ buf' = Plus(buf, Entries(rowOffset, n))
      BY <1>9, <2>1 DEF convert, setError
    <3>2. UNCHANGED <<load, used, staged, given, failed, count, offset, rowOffset, array>>
      BY <1>9, <2>1 DEF convert, setError
    <3>3. chunkRows' = chunkRows /\ chunkRows \in 1..MaxRows /\ offset < count
      BY <1>9, <3>2, ChunkIsNotEmpty DEF convert, IInv, Sent, Loading, chunkRows
    <3>4. /\ staged = Whole(given + offset + rowOffset) /\ rowOffset < chunkRows
          /\ \A s \in Slots : s < chunkRows => array[s] = given + offset + s + 1
          /\ buf = NoRows
          /\ ~failed /\ 0 < count /\ given + count <= MaxGiven /\ offset <= count
      BY <1>9 DEF convert, IInv, Sent, Loading
    <3>5. rowOffset \in Nat /\ n \in rowOffset..chunkRows /\ rowOffset < n /\ n <= chunkRows
      BY <3>1, <3>3, SizeAssumption DEF IInv, TypeOK, CounterTypes
    <3>6. Entries(rowOffset, n) = Between(given + offset + rowOffset, given + offset + n)
      BY <3>3, <3>4, <3>5, EntriesAreTheNextRows DEF IInv
    <3>7. buf' = Between(given + offset + rowOffset, given + offset + n)
      BY <3>1, <3>4, <3>6, RowSets, EntriesType
    <3>8. rowOffset' < nextOffset' /\ nextOffset' <= chunkRows'
      BY <3>1, <3>2, <3>3, <3>5
    <3> QED
      BY <2>1, <3>1, <3>2, <3>3, <3>4, <3>7, <3>8 DEF Sent, Loading, Beginning
  <2> QED
    BY <1>9, <2>1, <1>0 DEF convert, setError
<1>10. CASE loadStream /\ ~lose
  <2>1. CASE pc' # "idle"
    <3>1. /\ staged' = Plus(staged, buf) /\ rowOffset' = nextOffset
          /\ IF nextOffset < chunkRows THEN buf' = NoRows /\ pc' = "convert"
                                       ELSE UNCHANGED buf /\ pc' = "next"
          /\ UNCHANGED <<load, used, given, failed, count, offset, nextOffset, array>>
      BY <1>10, <2>1 DEF loadStream, setError
    <3>2. chunkRows' = chunkRows /\ chunkRows \in 1..MaxRows /\ offset < count
      BY <1>10, <3>1, ChunkIsNotEmpty DEF loadStream, IInv, Sent, Loading, chunkRows
    <3>3. /\ staged = Whole(given + offset + rowOffset)
          /\ buf = Between(given + offset + rowOffset, given + offset + nextOffset)
          /\ rowOffset < nextOffset /\ nextOffset <= chunkRows
          /\ \A s \in Slots : s < chunkRows => array[s] = given + offset + s + 1
          /\ ~failed /\ 0 < count /\ given + count <= MaxGiven /\ offset <= count
      BY <1>10 DEF loadStream, IInv, Sent, Loading
    <3>4. /\ given + offset + rowOffset \in Nat /\ given + offset + nextOffset \in Nat
          /\ given + offset + rowOffset <= given + offset + nextOffset
          /\ nextOffset \in Nat
      BY <3>3, SizeAssumption DEF IInv, TypeOK, CounterTypes
    <3>5. staged' = Whole(given + offset + nextOffset)
      BY <3>1, <3>3, <3>4, RowSets
    <3>6. CASE nextOffset < chunkRows
      BY <3>1, <3>2, <3>3, <3>5, <3>6 DEF Sent, Loading, Beginning
    <3>7. CASE ~(nextOffset < chunkRows)
      <4>1. nextOffset = chunkRows
        BY <3>2, <3>3, <3>4, <3>7, SizeAssumption
      <4> QED
        BY <3>1, <3>2, <3>3, <3>5, <3>7, <4>1 DEF Sent, Loading, Beginning
    <3> QED
      BY <3>6, <3>7
  <2>2. CASE pc' = "idle"
    <3>1. failed'
      BY <1>10, <2>2 DEF loadStream, setError
    <3> QED
      BY <2>2, <3>1, <1>0
  <2> QED
    BY <2>1, <2>2
<1>11. CASE nextChunk
  <2>1. /\ UNCHANGED <<load, staged, given, failed, count>>
        /\ used' /\ offset' = offset + chunkRows
        /\ pc' = IF offset + chunkRows < count THEN "chunk" ELSE "account"
    BY <1>11 DEF nextChunk
  <2>2. /\ staged = Whole(given + offset + chunkRows)
        /\ ~failed /\ 0 < count /\ given + count <= MaxGiven /\ offset < count
    BY <1>11 DEF nextChunk, IInv, Sent, Loading
  <2>3. chunkRows \in 1..MaxRows /\ offset + chunkRows <= count
    BY <2>2, ChunkIsNotEmpty DEF IInv
  <2>4. given + offset + chunkRows = given + (offset + chunkRows)
    BY <2>3, SizeAssumption DEF IInv, TypeOK, CounterTypes
  <2>5. CASE offset + chunkRows < count
    BY <2>1, <2>2, <2>3, <2>4, <2>5 DEF Sent, Loading, Beginning
  <2>6. CASE ~(offset + chunkRows < count)
    <3>1. offset + chunkRows = count
      BY <2>3, <2>6, SizeAssumption DEF IInv, TypeOK, CounterTypes
    <3>2. count <= count
      BY DEF IInv, TypeOK, CounterTypes
    <3> QED
      BY <2>1, <2>2, <2>4, <2>6, <3>1, <3>2 DEF Sent, Loading, Beginning
  <2> QED
    BY <2>5, <2>6
<1>12. CASE accountBlock
  <2>1. UNCHANGED <<load, used, staged, buf>> /\ pc' = "idle" /\ load
    BY <1>12 DEF accountBlock, setError, addBytes, IInv, Control, Loading
  <2>2. CASE ~failed'
    <3>1. given' = given + count /\ staged = Whole(given + count)
      BY <1>12, <2>2 DEF accountBlock, setError, addBytes, IInv, Sent
    <3>2. used
      BY <1>12 DEF accountBlock, IInv, Sent
    <3> QED
      BY <2>1, <3>1, <3>2 DEF Sent, Loading, Beginning
  <2> QED
    BY <2>1, <2>2, <1>0
<1>13. CASE terminate /\ ~lose
  BY <1>13, RowSets DEF IInv, Sent, Control, TypeOK, FlagTypes, StateTypes,
     CounterTypes, Loading, Beginning, terminate, OCIDirPathFinish,
     OCIDirPathAbort, finishTimesOut, dropSession
<1>14. CASE finishStream
  BY <1>14, RowSets DEF IInv, Sent, Control, TypeOK, FlagTypes, StateTypes,
     CounterTypes, Loading, Beginning, finishStream
<1>15. CASE lose
  BY <1>15 DEF IInv, Sent, Control, TypeOK, FlagTypes, StateTypes,
     CounterTypes, Loading, Beginning, lose, chunkRows
<1>16. CASE UNCHANGED vars
  BY <1>16 DEF IInv, Sent, Control, TypeOK, FlagTypes, StateTypes,
     CounterTypes, Loading, Beginning, vars, chunkRows
<1>17. CASE finishLate
  BY <1>17 DEF IInv, Sent, Control, TypeOK, FlagTypes, StateTypes,
     CounterTypes, Loading, Beginning, chunkRows, finishLate
<1> QED
  BY <1>1, <1>2, <1>3, <1>4, <1>5, <1>6, <1>7, <1>8, <1>9, <1>10, <1>11,
     <1>12, <1>13, <1>14, <1>15, <1>16, <1>17 DEF Next, Driver, undefined

(***************************************************************************)
(* Every step keeps what is said of the table and of the observer.         *)
(***************************************************************************)
LEMMA ReportedStep == IInv /\ [Next]_vars => Reported'
<1> SUFFICES ASSUME IInv, [Next]_vars
             PROVE  Reported'
  OBVIOUS
<1> USE DEF state, stream, cursor, oci, ending, app, observer
<1>1. CASE bulkLoadBegin
  BY <1>1 DEF IInv, Reported, Control, Sent, TypeOK, FlagTypes, StateTypes,
     Loading, Beginning, bulkLoadBegin
<1>2. CASE bulkLoadRows
  BY <1>2 DEF IInv, Reported, Control, Sent, TypeOK, FlagTypes, StateTypes,
     Loading, Beginning, bulkLoadRows, setError
<1>3. CASE bulkLoadEnd
  BY <1>3 DEF IInv, Reported, Control, Sent, TypeOK, FlagTypes, StateTypes,
     Loading, Beginning, bulkLoadEnd
<1>4. CASE describe /\ ~lose
  BY <1>4 DEF IInv, Reported, Control, Sent, TypeOK, FlagTypes, StateTypes,
     Loading, Beginning, describe
<1>5. CASE prepare /\ ~lose
  BY <1>5 DEF IInv, Reported, Control, Sent, TypeOK, FlagTypes, StateTypes,
     Loading, Beginning, prepare
<1>6. CASE setup
  BY <1>6 DEF IInv, Reported, Control, Sent, TypeOK, FlagTypes, StateTypes,
     Loading, Beginning, setup
<1>7. CASE discard
  BY <1>7 DEF IInv, Reported, Control, Sent, TypeOK, FlagTypes, StateTypes,
     Loading, Beginning, discard, OCIDirPathAbort
<1>8. CASE fillChunk
  BY <1>8 DEF IInv, Reported, Control, Sent, TypeOK, FlagTypes, StateTypes,
     Loading, Beginning, fillChunk, setError, filled
<1>9. CASE convert
  BY <1>9 DEF IInv, Reported, Control, Sent, TypeOK, FlagTypes, StateTypes,
     Loading, Beginning, convert, setError
<1>10. CASE loadStream /\ ~lose
  <2>1. /\ UNCHANGED <<load, asked, visible, ends, result, outcome, started, observed, given>>
        /\ pc = "load" /\ load
    BY <1>10 DEF loadStream, setError, IInv, Control, Loading
  <2>2. pc' \in {"convert", "next", "idle"}
    BY <1>10 DEF loadStream, setError
  <2>3. context' # "late"
    BY <1>10 DEF loadStream, setError, dropSession, IInv, Control
  <2> QED
    BY <2>1, <2>2, <2>3 DEF IInv, Reported, Beginning
<1>11. CASE nextChunk
  BY <1>11 DEF IInv, Reported, Control, Sent, TypeOK, FlagTypes,
     StateTypes, Loading, Beginning, nextChunk
<1>12. CASE accountBlock
  BY <1>12 DEF IInv, Reported, Control, Sent, TypeOK, FlagTypes,
     StateTypes, Loading, Beginning, accountBlock, setError, addBytes
<1>13. CASE terminate /\ ~lose
  BY <1>13 DEF IInv, Reported, Control, Sent, TypeOK, FlagTypes,
     StateTypes, Loading, Beginning, terminate, OCIDirPathFinish,
     OCIDirPathAbort, finishTimesOut, dropSession
<1>14. CASE finishStream
  BY <1>14 DEF IInv, Reported, Control, Sent, TypeOK, FlagTypes,
     StateTypes, Loading, Beginning, finishStream
<1>15. CASE lose
  BY <1>15 DEF IInv, Reported, Control, Sent, TypeOK, FlagTypes,
     StateTypes, Loading, Beginning, lose
<1>16. CASE UNCHANGED vars
  BY <1>16 DEF IInv, Reported, Control, Sent, TypeOK, FlagTypes,
     StateTypes, Loading, Beginning, vars
<1>17. CASE finishLate
  BY <1>17 DEF IInv, Reported, Control, Sent, TypeOK, FlagTypes,
     StateTypes, Loading, Beginning, finishLate
<1> QED
  BY <1>1, <1>2, <1>3, <1>4, <1>5, <1>6, <1>7, <1>8, <1>9, <1>10, <1>11,
     <1>12, <1>13, <1>14, <1>15, <1>16, <1>17 DEF Next, Driver, undefined

-----------------------------------------------------------------------------
LEMMA InvHolds == Spec => []IInv
<1>1. Init => IInv
  <2>1. Init => TypeOK
    <3>1. Init => FlagTypes /\ StateTypes
      BY DEF Init, FlagTypes, StateTypes
    <3>2. Init => CounterTypes /\ array \in [Slots -> 0..MaxGiven]
      BY SizeAssumption, BytesAssumption DEF Init, CounterTypes
    <3> QED
      BY <3>1, <3>2, RowSets DEF Init, TypeOK, RowTypes
  <2> QED
    BY <2>1, RowSets DEF Init, IInv, Control, Sent, Reported, Loading, Beginning
<1>2. IInv /\ [Next]_vars => IInv'
  BY FlagStep, StateStep, CounterStep, RowStep, ControlStep, SentStep, ReportedStep
     DEF IInv, TypeOK
<1> QED
  BY <1>1, <1>2, PTL DEF Spec

(***************************************************************************)
(* Every variable of a load keeps its type, and every counter of rows and  *)
(* of bytes its range.                                                     *)
(***************************************************************************)
THEOREM Types == Spec => []TypeOK
<1>1. IInv => TypeOK
  BY DEF IInv
<1> QED
  BY <1>1, InvHolds, PTL

(***************************************************************************)
(* Between the blocks of a load in which no call has failed, each row that *)
(* was given has been sent exactly once, however the blocks are cut into   *)
(* chunks and the chunks into pieces.                                      *)
(***************************************************************************)
THEOREM RowsAreSentOnce == Spec => []SentOnce
<1>1. IInv => SentOnce
  BY DEF IInv, Sent, SentOnce
<1> QED
  BY <1>1, InvHolds, PTL

(***************************************************************************)
(* The observer of a load hears of one end, and of a success only if the   *)
(* rows are in the table.                                                  *)
(***************************************************************************)
THEOREM OneEnd == Spec => []StreamEndsOnce
<1>1. IInv => StreamEndsOnce
  BY DEF IInv, Reported, StreamEndsOnce
<1> QED
  BY <1>1, InvHolds, PTL

(***************************************************************************)
(* Whatever step of a load fails, no handle outlives it, OCI was told to   *)
(* end its context, which stays open in the session only if the abort      *)
(* failed and then never with success, and no handle is used that is not   *)
(* there.                                                                  *)
(***************************************************************************)
THEOREM CleanedUp == Spec => []NothingLeftBehind
<1>1. IInv => NothingLeftBehind
  BY DEF IInv, Control, NothingLeftBehind
<1> QED
  BY <1>1, InvHolds, PTL

(***************************************************************************)
(* A load implements AtomicLoad: every step of it begins a load, accepts a *)
(* block, asks for the end, makes all the rows visible, or changes none of *)
(* that.                                                                   *)
(***************************************************************************)
THEOREM LoadIsAtomic == Spec => IsAtomic
<1> USE DEF Atomic!NoRows, Atomic!Rows, Atomic!Whole, NoRows, Rows, Whole
<1>1. Init => Atomic!Init
  BY DEF Init, Atomic!Init
<1>2. IInv /\ [Next]_vars => [Atomic!Next]_<<given, asked, visible>>
  <2> SUFFICES ASSUME IInv, [Next]_vars
               PROVE  Atomic!Next \/ UNCHANGED <<given, asked, visible>>
    OBVIOUS
  <2> USE DEF state, stream, cursor, oci, ending, app, observer
  <2>1. CASE bulkLoadBegin
    BY <2>1 DEF bulkLoadBegin, Atomic!Next, Atomic!Begin
  <2>2. CASE bulkLoadRows
    BY <2>2 DEF bulkLoadRows
  <2>3. CASE bulkLoadEnd
    <3>1. asked = FALSE
      BY <2>3 DEF bulkLoadEnd, IInv, Reported, TypeOK, FlagTypes
    <3>2. UNCHANGED <<given, visible>> /\ (asked' = TRUE \/ asked' = FALSE)
      BY <2>3 DEF bulkLoadEnd
    <3> QED
      BY <3>1, <3>2 DEF Atomic!Next, Atomic!Ask
  <2>4. CASE accountBlock
    <3>1. CASE given' = given
      BY <2>4, <3>1 DEF accountBlock
    <3>2. CASE given' = given + count
      <4>1. count \in 1..(MaxGiven - given)
        BY <2>4, SizeAssumption DEF accountBlock, IInv, Sent, Loading, TypeOK, CounterTypes
      <4>2. ~asked
        BY <2>4 DEF accountBlock, IInv, Control, Reported, Loading
      <4> QED
        BY <2>4, <3>2, <4>1, <4>2 DEF accountBlock, Atomic!Next, Atomic!Accept
    <3> QED
      BY <2>4, <3>1, <3>2 DEF accountBlock
  <2>5. CASE terminate /\ ~lose
    <3>1. visible = NoRows /\ (success => asked /\ staged = Whole(given))
      BY <2>5 DEF terminate, IInv, Reported, Sent
    <3>2. UNCHANGED <<given, asked>>
      BY <2>5 DEF terminate
    <3>3. visible' = visible \/ (success /\ visible' = staged)
      BY <2>5 DEF terminate, OCIDirPathFinish, OCIDirPathAbort, finishTimesOut
    <3> QED
      BY <3>1, <3>2, <3>3 DEF Atomic!Next, Atomic!Finish
  <2>6. CASE lose
    BY <2>6 DEF lose
  <2>11. CASE finishLate
    <3>1. asked /\ visible = NoRows /\ visible' = Whole(given)
      BY <2>11 DEF finishLate, IInv, Reported
    <3> QED
      BY <2>11, <3>1 DEF finishLate, Atomic!Next, Atomic!Finish
  <2>7. CASE describe \/ prepare \/ setup \/ discard
    BY <2>6, <2>7 DEF describe, prepare, setup, discard, OCIDirPathAbort
  <2>8. CASE fillChunk \/ convert \/ nextChunk \/ finishStream
    BY <2>8 DEF fillChunk, convert, nextChunk, finishStream
  <2>9. CASE loadStream
    BY <2>6, <2>9 DEF loadStream
  <2>10. CASE UNCHANGED vars
    BY <2>10 DEF vars
  <2> QED
    BY <2>1, <2>2, <2>3, <2>4, <2>5, <2>6, <2>7, <2>8, <2>9, <2>10, <2>11
       DEF Next, Driver, undefined
<1> QED
  BY <1>1, <1>2, InvHolds, PTL DEF Spec, IsAtomic, Atomic!Spec

=============================================================================
