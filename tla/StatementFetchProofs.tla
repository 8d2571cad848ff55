------------------------ MODULE StatementFetchProofs ------------------------
(***************************************************************************)
(* Proofs about StatementFetch: no row is left behind, the calls implement *)
(* Cursor, and the builders of a columnar result hold the rows that were   *)
(* fetched, for every result, limit and select list.                       *)
(***************************************************************************)
EXTENDS StatementFetch, WellFoundedInduction, FiniteSetTheorems, TLAPS

(***************************************************************************)
(* The result, and the flags of the statement.                             *)
(***************************************************************************)
ResultInv ==
    /\ data \in Seq(Classes)
    /\ cursor \in 0..Len(data)
    /\ fetch_warned \in BOOLEAN
    /\ fetch_complete => Idle /\ cursor = Len(data)
    /\ fetch_warned => fetch_complete

(***************************************************************************)
(* A call that is running is a record of all its parts.                    *)
(***************************************************************************)
CallParts ==
    call = [op |-> call.op, rows |-> call.rows, from |-> call.from, n |-> call.n,
            value |-> call.value, failed |-> call.failed, more |-> call.more]

(***************************************************************************)
(* Where a call that is running has got to: until it fails it has taken    *)
(* the n rows that follow the row at which it began, and its loop ends     *)
(* only at its limit or at the end of the result.                          *)
(***************************************************************************)
CallInv ==
    /\ call.op \in Blocks \cup {"none", "selectRow"}
    /\ ~Idle =>
          /\ CallParts
          /\ call.rows \in Int /\ call.from \in 0..cursor /\ call.n \in Nat
          /\ call.failed \in BOOLEAN /\ call.more \in BOOLEAN
          /\ ~call.failed => cursor = call.from + call.n
    /\ call.op \in Blocks =>
          /\ call.rows \in Limits \cup {-1}
          /\ call.more => below(call.n)
          /\ ~call.more /\ ~call.failed => cursor = Len(data) \/ ~below(call.n)
          /\ call.rows > 0 => call.n <= call.rows
    /\ call.op = "selectRow" => ~call.failed /\ call.n \in {0, 1} /\ call.from = 0

CursorInv == ResultInv /\ CallInv

-----------------------------------------------------------------------------
(***************************************************************************)
(* A result that Init allows.                                              *)
(***************************************************************************)
LEMMA DataType == \A d \in BoundedSeq(Classes, MaxRows) : d \in Seq(Classes)
BY SizeAssumption DEF BoundedSeq, SeqOf

(***************************************************************************)
(* Every step keeps the cursor and its calls in order.                     *)
(***************************************************************************)
LEMMA CursorStep == CursorInv /\ [Next]_vars => CursorInv'
<1> SUFFICES ASSUME CursorInv, [Next]_vars
             PROVE  CursorInv'
  OBVIOUS
<1> USE SizeAssumption DEF CursorInv, ResultInv, CallInv, Blocks, Idle, NoCall, flags
<1>0. Len(data) \in Nat /\ 0 \in 0..Len(data)
  OBVIOUS
<1>1. CASE exec
  <2>1. UNCHANGED <<data, call>> /\ cursor' = 0 /\ ~fetch_complete' /\ fetch_warned' = FALSE /\ Idle
    BY <1>1 DEF exec, open
  <2> QED
    BY <1>0, <2>1
<1>2. CASE define
  BY <1>2 DEF define, CallParts, below
<1>3. ASSUME NEW op \in Blocks, NEW rows \in Limits, beginFetch(op, rows)
      PROVE  CursorInv'
  <2>1. CASE UNCHANGED call
    <3>1. UNCHANGED <<data, cursor, fetch_complete>> /\ Idle
      BY <1>3 DEF beginFetch
    <3>2. UNCHANGED fetch_warned \/ (fetch_complete /\ fetch_warned' = TRUE)
      BY <1>3 DEF beginFetch
    <3>3. fetch_warned' \in BOOLEAN /\ (fetch_warned' => fetch_complete)
      <4>1. CASE UNCHANGED fetch_warned
        BY <4>1
      <4>2. CASE fetch_complete /\ fetch_warned' = TRUE
        BY <4>2
      <4> QED
        BY <3>2, <4>1, <4>2
    <3> QED
      BY <2>1, <3>1, <3>3
  <2>2. CASE call' # call
    <3>1. PICK v : call' = newCall(op, rows, v)
      BY <1>3, <2>2 DEF beginFetch
    <3>2. UNCHANGED <<data, cursor, fetch_complete, fetch_warned>> /\ ~fetch_complete
      BY <1>3, <2>2 DEF beginFetch
    <3>3. rows \in Int
      OBVIOUS
    <3> QED
      BY <3>1, <3>2, <3>3 DEF newCall, CallParts, below
  <2> QED
    BY <2>1, <2>2
<1>4. ASSUME NEW op \in Blocks, NEW columns \in BOOLEAN, execWithPrologue(op, columns)
      PROVE  CursorInv'
  <2>1. PICK v : call' = [op |-> op, rows |-> -1, from |-> 0, n |-> 0, value |-> v,
                          failed |-> FALSE, more |-> TRUE]
    BY <1>4 DEF execWithPrologue, newCall
  <2>2. UNCHANGED data /\ cursor' = 0 /\ fetch_complete' = FALSE /\ fetch_warned' = FALSE
    BY <1>4 DEF execWithPrologue, open
  <2> QED
    <3>1. ResultInv'
      BY <1>0, <2>1, <2>2
    <3>2. call'.op = op /\ CallParts'
      BY <2>1 DEF CallParts
    <3> QED
      BY <1>0, <2>1, <2>2, <3>1, <3>2 DEF below
<1>5. CASE selectRow
  <2>1. call' = [op |-> "selectRow", rows |-> 1, from |-> 0, n |-> 0, value |-> <<>>,
                failed |-> FALSE, more |-> TRUE]
    BY <1>5 DEF selectRow, newCall
  <2>2. UNCHANGED data /\ cursor' = 0 /\ fetch_complete' = FALSE /\ fetch_warned' = FALSE
    BY <1>5 DEF selectRow, open
  <2> QED
    <3>1. ResultInv'
      BY <1>0, <2>1, <2>2
    <3>2. call'.op = "selectRow" /\ CallParts'
      BY <2>1 DEF CallParts
    <3> QED
      BY <1>0, <2>1, <2>2, <3>1, <3>2 DEF below
<1>6. CASE fetchLoop
  <2>1. /\ call.op \in Blocks /\ call.more /\ below(call.n) /\ CallParts
        /\ UNCHANGED <<data, fetch_complete, fetch_warned>> /\ ~fetch_complete
    BY <1>6 DEF fetchLoop
  <2>2. CASE /\ fetchOk /\ ~call.failed
             /\ call' = [call EXCEPT !.value = pushRow(@, cursor'), !.n = @ + 1,
                                     !.more = below(call.n + 1)]
    <3>1. cursor' = cursor + 1 /\ cursor' \in 0..Len(data)
      BY <1>0, <2>2 DEF fetchOk
    <3>2. PICK b \in BOOLEAN :
             /\ call' = [op |-> call.op, rows |-> call.rows, from |-> call.from,
                         n |-> call.n + 1, value |-> pushRow(call.value, cursor'),
                         failed |-> FALSE, more |-> b]
             /\ b <=> below(call.n + 1)
      <4> DEFINE b == below(call.n + 1)
      <4>1. b \in BOOLEAN
        BY DEF below
      <4>2. call' = [call EXCEPT !.value = pushRow(@, cursor'), !.n = @ + 1, !.more = b]
        BY <2>2
      <4>3. call' = [op |-> call.op, rows |-> call.rows, from |-> call.from,
                     n |-> call.n + 1, value |-> pushRow(call.value, cursor'),
                     failed |-> FALSE, more |-> b]
        <5> HIDE DEF b
        <5> QED
          BY <2>1, <2>2, <4>2 DEF CallParts
      <4> QED
        BY <4>1, <4>3
    <3>3. ResultInv'
      BY <1>0, <2>1, <3>1, <3>2
    <3>4. call'.op = call.op /\ CallParts'
      BY <3>2 DEF CallParts
    <3> QED
      BY <1>0, <2>1, <2>2, <3>1, <3>2, <3>3, <3>4 DEF below
  <2>3. CASE fetchOk /\ fetchRowFails
    <3>1. cursor' = cursor + 1 /\ cursor' \in 0..Len(data)
      BY <1>0, <2>3 DEF fetchOk
    <3>2. PICK m \in {call.n, call.n + 1}, b \in BOOLEAN :
             /\ call' = [op |-> call.op, rows |-> call.rows, from |-> call.from, n |-> m,
                         value |-> call.value, failed |-> TRUE, more |-> b]
             /\ b => below(m)
             /\ m = call.n => ~b
      <4>1. CASE call' = [call EXCEPT !.failed = TRUE, !.more = FALSE]
        <5>1. call' = [op |-> call.op, rows |-> call.rows, from |-> call.from, n |-> call.n,
                       value |-> call.value, failed |-> TRUE, more |-> FALSE]
          BY <2>1, <4>1 DEF CallParts
        <5> QED
          BY <5>1
      <4>2. CASE call' = [call EXCEPT !.failed = TRUE, !.n = @ + 1,
                             !.more = call.op = "fetchColumns" /\ below(call.n + 1)]
        <5> DEFINE b == call.op = "fetchColumns" /\ below(call.n + 1)
        <5>1. b \in BOOLEAN
          BY DEF below
        <5>2. call' = [call EXCEPT !.failed = TRUE, !.n = @ + 1, !.more = b]
          BY <4>2
        <5>3. call' = [op |-> call.op, rows |-> call.rows, from |-> call.from,
                       n |-> call.n + 1, value |-> call.value, failed |-> TRUE, more |-> b]
          <6> HIDE DEF b
          <6> QED
            BY <2>1, <5>2 DEF CallParts
        <5>4. call.n + 1 # call.n
          BY <2>1
        <5> QED
          BY <5>1, <5>3, <5>4
      <4> QED
        BY <2>3, <4>1, <4>2 DEF fetchRowFails
    <3>3. ResultInv'
      BY <1>0, <2>1, <3>1, <3>2
    <3>4. call'.op = call.op /\ CallParts'
      BY <3>2 DEF CallParts
    <3> QED
      BY <1>0, <2>1, <3>1, <3>2, <3>3, <3>4 DEF below
  <2>4. CASE noData /\ call' = [call EXCEPT !.more = FALSE]
    BY <2>1, <2>4 DEF noData, CallParts, below
  <2>5. CASE fetchFails /\ call' = [call EXCEPT !.failed = TRUE, !.more = FALSE]
    BY <2>1, <2>5 DEF fetchFails, CallParts, below
  <2> QED
    BY <1>6, <2>2, <2>3, <2>4, <2>5 DEF fetchLoop
<1>7. CASE finishCall
  <2>1. call' = NoCall /\ UNCHANGED <<data, cursor, fetch_warned>>
    BY <1>7 DEF finishCall, endCall
  <2>2. fetch_complete' => cursor = Len(data)
    BY <1>7 DEF finishCall, complete, below
  <2>3. fetch_warned => fetch_complete'
    BY <1>7 DEF finishCall, complete
  <2> QED
    BY <2>1, <2>2, <2>3
<1>8. CASE fetchSingleRow
  <2>1. /\ call.op = "selectRow" /\ CallParts
        /\ UNCHANGED <<data, fetch_complete, fetch_warned>> /\ ~fetch_complete
    BY <1>8 DEF fetchSingleRow
  <2>2. CASE fetchOk /\ call.n = 0 /\ call' = [call EXCEPT !.n = 1, !.value = rowHash(cursor')]
    <3>1. cursor' = cursor + 1 /\ cursor' \in 0..Len(data)
      BY <1>0, <2>2 DEF fetchOk
    <3>2. call' = [op |-> "selectRow", rows |-> call.rows, from |-> call.from, n |-> 1,
                   value |-> rowHash(cursor'), failed |-> call.failed, more |-> call.more]
      BY <2>1, <2>2 DEF CallParts
    <3> QED
      <4>1. ResultInv'
        BY <1>0, <2>1, <3>1, <3>2
      <4>2. call'.op = "selectRow" /\ CallParts'
        BY <3>2 DEF CallParts
      <4>3. /\ call'.rows = call.rows /\ call'.from = 0 /\ call'.n = 1
            /\ call'.failed = FALSE /\ call'.more = call.more
        BY <2>1, <3>2
      <4>4. cursor = 0 /\ cursor' = 1 /\ call.rows \in Int /\ call.more \in BOOLEAN
        BY <1>0, <2>1, <2>2, <3>1
      <4>5. ~call'.failed /\ call'.failed \in BOOLEAN /\ call'.more \in BOOLEAN
        BY <4>3, <4>4
      <4>6. /\ call'.rows \in Int /\ call'.from \in 0..cursor' /\ call'.n \in Nat
            /\ cursor' = call'.from + call'.n
        BY <4>3, <4>4
      <4>7. call'.n \in {0, 1} /\ call'.op \notin Blocks
        BY <4>2, <4>3
      <4> QED
        BY <4>1, <4>2, <4>3, <4>5, <4>6, <4>7
  <2>3. CASE call' = NoCall
    BY <1>8, <2>1, <2>3 DEF fetchSingleRow, fetchOk, noData, fetchFails
  <2> QED
    BY <1>8, <2>2, <2>3 DEF fetchSingleRow, endCall
<1>9. CASE next
  <2>1. UNCHANGED <<data, fetch_complete, fetch_warned, call>> /\ Idle
    BY <1>9 DEF next
  <2>2. cursor' = cursor \/ (cursor < Len(data) /\ cursor' = cursor + 1)
    BY <1>9 DEF next, fetchOk, noData, fetchFails
  <2> QED
    BY <1>0, <2>1, <2>2
<1>10. CASE fetchRow
  BY <1>10 DEF fetchRow
<1>11. CASE close
  BY <1>11 DEF close
<1>12. CASE UNCHANGED vars
  BY <1>12 DEF vars, CallParts, below
<1> QED
  BY <1>1, <1>2, <1>3, <1>4, <1>5, <1>6, <1>7, <1>8, <1>9, <1>10, <1>11, <1>12 DEF Next

LEMMA CursorInvHolds == Spec => []CursorInv
<1>1. Init => CursorInv
  <2> SUFFICES ASSUME Init PROVE CursorInv
    OBVIOUS
  <2>1. data \in Seq(Classes) /\ Len(data) \in Nat
    BY DataType DEF Init
  <2>2. call.op = "none" /\ cursor = 0
    BY DEF Init, NoCall
  <2>3. ~fetch_complete /\ ~fetch_warned /\ fetch_warned \in BOOLEAN
    BY DEF Init
  <2> QED
    BY <2>1, <2>2, <2>3 DEF CursorInv, ResultInv, CallInv, Idle, Blocks
<1> QED
  BY <1>1, CursorStep, PTL DEF Spec

(***************************************************************************)
(* Once fetch_complete stops every further fetch, no row is left behind,   *)
(* in whatever order next() and the block fetches were called and with     *)
(* whatever limits.                                                        *)
(***************************************************************************)
THEOREM EndIsTheEnd == Spec => []NoRowLeftBehind
<1>1. CursorInv => NoRowLeftBehind
  BY DEF CursorInv, ResultInv, NoRowLeftBehind
<1> QED
  BY <1>1, CursorInvHolds, PTL

(***************************************************************************)
(* The calls of a statement implement Cursor, if fetchRow() is not called  *)
(* after an empty first block (what it then reads is undefined): no row is *)
(* skipped, repeated or withheld without an exception.                     *)
(***************************************************************************)
THEOREM CallsAreACursor ==
    ASSUME ~EmptyReads
    PROVE  Spec => IsCursor
<1>1. Init => AsCursor!Init
  BY DataType DEF Init, AsCursor!Init, AsCursor!None, AsCursor!Answer, NoAnswer, Answer,
     Idle, NoCall, Position, GivenRows
<1>2. CursorInv /\ [Next]_vars =>
         [AsCursor!Next]_<<Len(data), Position, fetch_warned, GivenRows>>
  <2> SUFFICES ASSUME CursorInv, [Next]_vars
               PROVE  AsCursor!Next \/ UNCHANGED <<Len(data), Position, fetch_warned, GivenRows>>
    OBVIOUS
  <2> DEFINE Failure == out' = Failed /\ Position' \in Position..Len(data)
                        /\ UNCHANGED <<data, fetch_warned>>
  <2>a. Failure => AsCursor!Next
    BY DEF Failed, Answer, GivenRows, AsCursor!Next, AsCursor!Fail, AsCursor!Failed
  <2>b. ASSUME NEW n \in AskedRows, NEW k \in 0..(Len(data) - Position),
               IF n = 0 THEN Position + k = Len(data)
                        ELSE k <= n /\ (k < n => Position + k = Len(data)),
               Position' = Position + k,
               NEW o, NEW v, out' = Answer(o, Position, k, v), o \notin {"failed", "refused"},
               fetch_warned' \in {fetch_warned, fetch_warned \/ k = 0}, UNCHANGED data
        PROVE  AsCursor!Next
    BY <2>b DEF Answer, GivenRows, AsCursor!Next, AsCursor!Deliver, AsCursor!Answer
  <2>c. 0 \in AskedRows /\ 1 \in AskedRows
    BY SizeAssumption DEF AskedRows
  <2>d. Len(data) \in Nat
    BY DEF CursorInv, ResultInv
  <2>e. ASSUME UNCHANGED data, Position' = 0, fetch_warned' = FALSE, out' = NoAnswer
        PROVE  AsCursor!Next
    BY <2>e DEF NoAnswer, Answer, GivenRows, AsCursor!Next, AsCursor!Open, AsCursor!None,
       AsCursor!Answer
  <2>f. ASSUME UNCHANGED <<data, Position, fetch_warned, out>>
        PROVE  UNCHANGED <<Len(data), Position, fetch_warned, GivenRows>>
    BY <2>f DEF GivenRows
  <2>g. Idle => Position = cursor
    BY DEF Position
  <2>h. Position \in 0..cursor /\ cursor \in 0..Len(data) /\ cursor \in Nat
    BY <2>d DEF Position, CursorInv, ResultInv, CallInv
  <2> HIDE DEF Failure
  <2>1. CASE exec
    <3>1. Position' = 0 /\ fetch_warned' = FALSE /\ UNCHANGED data /\ out' = NoAnswer
      BY <2>1 DEF exec, open, Position, Idle
    <3> QED
      BY <3>1, <2>e
  <2>2. CASE define
    <3>1. UNCHANGED <<data, Position, fetch_warned>>
      BY <2>2 DEF define, Position, flags, Idle
    <3>2. out' = out \/ out' = Failed
      BY <2>2 DEF define
    <3>3. Position \in Position..Len(data)
      BY <2>d, <2>h
    <3> QED
      BY <3>1, <3>2, <3>3, <2>a, <2>f DEF Failure
  <2>3. ASSUME NEW op \in Blocks, NEW rows \in Limits, beginFetch(op, rows)
        PROVE  AsCursor!Next \/ UNCHANGED <<Len(data), Position, fetch_warned, GivenRows>>
    <3>1. UNCHANGED <<data, cursor>> /\ Idle
      BY <2>3 DEF beginFetch
    <3>2. Position = cursor /\ Position' = cursor
      BY <2>3, <3>1 DEF beginFetch, Position, newCall, Idle, Blocks
    <3>3. CASE fetch_warned /\ out' = Refused /\ UNCHANGED fetch_warned
      <4>1. cursor = Len(data)
        BY <3>3 DEF CursorInv, ResultInv
      <4> QED
        BY <3>1, <3>2, <3>3, <4>1 DEF Refused, Answer, GivenRows, AsCursor!Next,
           AsCursor!Refuse, AsCursor!Refused
    <3>4. CASE fetch_complete /\ fetch_warned' = TRUE /\ out' = Answer(op, cursor, 0, <<>>)
      <4>1. cursor = Len(data) /\ 0 \in 0..(Len(data) - Position) /\ Position + 0 = Len(data)
        BY <2>d, <2>h, <3>2, <3>4 DEF CursorInv, ResultInv
      <4>2. op \notin {"failed", "refused"}
        BY DEF Blocks
      <4>3. fetch_warned' \in {fetch_warned, fetch_warned \/ 0 = 0}
        BY <3>4
      <4>4. Position' = Position + 0
        BY <2>h, <3>2
      <4> QED
        BY <2>b, <2>c, <3>1, <3>2, <3>4, <4>1, <4>2, <4>3, <4>4
    <3>5. CASE UNCHANGED fetch_warned /\ out' \in {out, Failed}
      <4>1. Position \in Position..Len(data)
        BY <2>d, <2>h
      <4> QED
        BY <3>1, <3>2, <3>5, <4>1, <2>a, <2>f DEF Failure
    <3> QED
      BY <2>3, <3>3, <3>4, <3>5 DEF beginFetch
  <2>4. ASSUME NEW op \in Blocks, NEW columns \in BOOLEAN, execWithPrologue(op, columns)
        PROVE  AsCursor!Next
    <3>1. fetch_warned' = FALSE /\ UNCHANGED data /\ out' = NoAnswer
      BY <2>4 DEF execWithPrologue, open
    <3>2. PICK v : call' = [newCall(op, -1, v) EXCEPT !.from = 0]
      BY <2>4 DEF execWithPrologue
    <3>3. Position' = 0
      BY <3>2 DEF newCall, Position, Idle, Blocks
    <3> QED
      BY <3>1, <3>3, <2>e
  <2>5. CASE selectRow
    <3>1. fetch_warned' = FALSE /\ UNCHANGED data /\ out' = NoAnswer
      BY <2>5 DEF selectRow, open
    <3>2. Position' = 0
      BY <2>5 DEF selectRow, newCall, Position, Idle
    <3> QED
      BY <3>1, <3>2, <2>e
  <2>6. CASE fetchLoop
    <3>1. UNCHANGED <<data, fetch_warned, out>>
      BY <2>6 DEF fetchLoop
    <3>2. call.op \in Blocks /\ CallParts
      BY <2>6 DEF fetchLoop, CursorInv, CallInv, Blocks, Idle
    <3>3. call'.op = call.op /\ call'.from = call.from
      BY <2>6, <3>2 DEF fetchLoop, fetchRowFails, CallParts
    <3>4. Position' = Position
      BY <3>2, <3>3 DEF Position, Idle, Blocks
    <3> QED
      BY <3>1, <3>4, <2>f
  <2>7. CASE finishCall
    <3>1. UNCHANGED <<data, fetch_warned, cursor>> /\ Position' = cursor /\ Position = call.from
      BY <2>7 DEF finishCall, endCall, NoCall, Position, Idle, Blocks
    <3>2. CASE out' = Failed
      <4>1. cursor \in Position..Len(data)
        BY <2>d, <2>h
      <4> QED
        BY <3>1, <3>2, <4>1, <2>a DEF Failure
    <3>3. CASE ~call.failed /\ out' = Answer(call.op, call.from, call.n, result)
      <4>1. /\ call.rows \in Limits \cup {-1} /\ call.rows \in Int /\ call.n \in Nat
            /\ cursor = call.from + call.n /\ call.from \in 0..cursor
            /\ cursor = Len(data) \/ ~below(call.n)
            /\ call.rows > 0 => call.n <= call.rows
        BY <2>7, <3>3 DEF finishCall, CursorInv, CallInv, Blocks, Idle
      <4> DEFINE n == IF call.rows < 0 THEN 0 ELSE call.rows
      <4>2. n \in AskedRows
        <5>1. CASE call.rows \in Limits
          BY <5>1 DEF AskedRows
        <5>2. CASE call.rows = -1
          BY <5>2, <2>c
        <5> QED
          BY <4>1, <5>1, <5>2
      <4>3. call.n \in 0..(Len(data) - Position) /\ Position' = Position + call.n
        BY <2>d, <2>h, <3>1, <4>1
      <4>4. IF n = 0 THEN Position + call.n = Len(data)
                     ELSE call.n <= n /\ (call.n < n => Position + call.n = Len(data))
        BY <2>d, <2>h, <3>1, <4>1 DEF below
      <4>5. call.op \notin {"failed", "refused"}
        BY <2>7 DEF finishCall, Blocks
      <4>6. fetch_warned' \in {fetch_warned, fetch_warned \/ call.n = 0}
        BY <3>1
      <4> HIDE DEF n
      <4> QED
        BY <2>b, <3>1, <3>3, <4>2, <4>3, <4>4, <4>5, <4>6
    <3> QED
      BY <2>7, <3>2, <3>3 DEF finishCall
  <2>8. CASE fetchSingleRow
    <3>1. /\ UNCHANGED <<data, fetch_warned>> /\ Position = 0
          /\ call.op = "selectRow" /\ CallParts /\ call.n \in {0, 1} /\ cursor = call.n
      BY <2>8, <2>h DEF fetchSingleRow, CursorInv, CallInv, Position, Idle
    <3>2. CASE call' = [call EXCEPT !.n = 1, !.value = rowHash(cursor')] /\ UNCHANGED out
      <4>1. call'.op = call.op /\ call'.from = call.from
        BY <3>1, <3>2 DEF CallParts
      <4>2. Position' = Position
        BY <3>1, <4>1 DEF Position, Idle
      <4> QED
        BY <3>1, <3>2, <4>2, <2>f
    <3>3. CASE out' = Failed /\ call' = NoCall
      <4>1. cursor' = cursor \/ (cursor < Len(data) /\ cursor' = cursor + 1)
        BY <2>8 DEF fetchSingleRow, fetchOk, fetchFails, noData
      <4>2. Position' = cursor'
        BY <3>3 DEF Position, Idle, NoCall
      <4>3. Position' \in Position..Len(data)
        BY <2>d, <2>h, <4>1, <4>2
      <4> QED
        BY <3>1, <3>3, <4>3, <2>a DEF Failure
    <3>4. CASE noData /\ out' = Answer("selectRow", 0, call.n, call.value) /\ call' = NoCall
      <4>1. Position' = cursor /\ cursor = Len(data)
        BY <3>4 DEF noData, Position, Idle, NoCall
      <4>2. call.n \in 0..(Len(data) - Position) /\ Position' = Position + call.n
        BY <2>d, <3>1, <4>1
      <4>3. call.n <= 1 /\ (call.n < 1 => Position + call.n = Len(data))
        BY <3>1, <4>1
      <4>4. fetch_warned' \in {fetch_warned, fetch_warned \/ call.n = 0}
        BY <3>1
      <4> QED
        BY <2>b, <2>c, <3>1, <3>4, <4>2, <4>3, <4>4
    <3> QED
      BY <2>8, <3>2, <3>3, <3>4 DEF fetchSingleRow, endCall
  <2>9. CASE next
    <3>1. UNCHANGED <<data, fetch_warned, call>> /\ Position = cursor /\ Position' = cursor'
      BY <2>9 DEF next, Position, Idle
    <3>2. CASE fetchOk /\ out' = Answer("next", cursor, 1, TRUE)
      <4>1. 1 \in 0..(Len(data) - Position) /\ Position' = Position + 1 /\ 1 <= 1 /\ ~(1 < 1)
        BY <2>d, <2>h, <3>1, <3>2 DEF fetchOk
      <4>2. fetch_warned' \in {fetch_warned, fetch_warned \/ 1 = 0}
        BY <3>1
      <4>3. PICK v : out' = Answer("next", Position, 1, v)
        BY <3>1, <3>2
      <4> QED
        BY <2>b, <2>c, <3>1, <4>1, <4>2, <4>3
    <3>3. CASE noData /\ out' = Answer("next", cursor, 0, FALSE)
      <4>1. /\ 0 \in 0..(Len(data) - Position) /\ Position' = Position + 0
            /\ Position + 0 = Len(data)
        BY <2>d, <2>h, <3>1, <3>3 DEF noData
      <4>2. fetch_warned' \in {fetch_warned, fetch_warned \/ 0 = 0}
        BY <3>1
      <4>3. PICK v : out' = Answer("next", Position, 0, v)
        BY <3>1, <3>3
      <4> QED
        BY <2>b, <2>c, <3>1, <4>1, <4>2, <4>3
    <3>4. CASE fetchFails /\ out' = Failed
      <4>1. Position' \in Position..Len(data)
        BY <2>d, <2>h, <3>1, <3>4 DEF fetchFails
      <4> QED
        BY <3>1, <3>4, <4>1, <2>a DEF Failure
    <3> QED
      BY <2>9, <3>2, <3>3, <3>4 DEF next
  <2>10. CASE fetchRow
    <3>1. UNCHANGED <<data, fetch_warned, call, cursor, Position>> /\ Position = cursor
      BY <2>10 DEF fetchRow, flags, Position, Idle
    <3>2. CASE out' = Failed
      <4>1. Position \in Position..Len(data)
        BY <2>d, <2>h
      <4> QED
        BY <3>1, <3>2, <4>1, <2>a DEF Failure
    <3>3. CASE cursor > 0 /\ out' = Answer("fetchRow", cursor - 1, 1, rowHash(cursor))
      BY <3>1, <3>3 DEF Answer, GivenRows, AsCursor!Next, AsCursor!Current, AsCursor!Answer
    <3> QED
      BY <2>10, <3>2, <3>3 DEF fetchRow
  <2>11. CASE close
    <3>1. UNCHANGED <<data, Position, fetch_warned, out>>
      BY <2>11 DEF close, flags, Position, Idle
    <3> QED
      BY <3>1, <2>f
  <2>12. CASE UNCHANGED vars
    <3>1. UNCHANGED <<data, Position, fetch_warned, out>>
      BY <2>12 DEF vars, Position, Idle
    <3> QED
      BY <3>1, <2>f
  <2> QED
    BY <2>1, <2>2, <2>3, <2>4, <2>5, <2>6, <2>7, <2>8, <2>9, <2>10, <2>11, <2>12 DEF Next
<1> QED
  BY <1>1, <1>2, CursorInvHolds, PTL DEF Spec, IsCursor, AsCursor!Spec

-----------------------------------------------------------------------------
(***************************************************************************)
(* The columnar builders.  A builder, and the element that it holds for a  *)
(* row.                                                                    *)
(***************************************************************************)
Elements == (Nat \X Nat) \cup {Null}

Builder(b) ==
    /\ b \in [kind : {"Int64", "NumberOptimal", "List"}, list : Seq(Elements),
              values : Seq(Elements), validity : Seq(SUBSET Ones),
              row_count : Nat, null_count : Nat]
    /\ Len(IF b.kind = "List" THEN b.list ELSE b.values) = b.row_count
    /\ b.validity = <<>> <=> b.null_count = 0

Element(b, i) ==
    IF b.kind = "List" THEN b.list[i]
    ELSE IF isValid(b.validity, i - 1) THEN b.values[i] ELSE Null

(***************************************************************************)
(* A bit of the bitmap is set.                                             *)
(***************************************************************************)
Bit(validity, index) ==
    /\ index \div Bits < Len(validity)
    /\ index % Bits \in validity[(index \div Bits) + 1]

(***************************************************************************)
(* The byte and the bit of an index, and the bytes that n rows need.       *)
(***************************************************************************)
LEMMA BytesAndBits ==
    /\ \A j \in Nat : j % Bits \in Ones /\ j \div Bits \in Nat
    /\ \A i, j \in Nat : i \div Bits = j \div Bits /\ i % Bits = j % Bits => i = j
    /\ \A n \in Nat : bitmapSize(n + 1) \in Nat \ {0}
    /\ \A j, n \in Nat : j <= n => j \div Bits < bitmapSize(n + 1)
<1>1. /\ \A j \in Nat : j % Bits \in 0..(Bits - 1) /\ j \div Bits \in Nat
      /\ \A i, j \in Nat : i \div Bits = j \div Bits /\ i % Bits = j % Bits => i = j
  BY BitsAssumption
<1>2. \A n \in Nat : (n + 1 + Bits - 1) \div Bits = (n \div Bits) + 1
  BY BitsAssumption
<1>3. \A j, n \in Nat : j <= n => j \div Bits <= n \div Bits
  BY BitsAssumption
<1>4. \A n \in Nat : bitmapSize(n + 1) = (n \div Bits) + 1
  BY <1>2 DEF bitmapSize
<1>5. ASSUME NEW n \in Nat
      PROVE  bitmapSize(n + 1) \in Nat \ {0}
  <2>1. n \div Bits \in Nat
    BY <1>1
  <2>2. bitmapSize(n + 1) = (n \div Bits) + 1
    BY <1>4
  <2> QED
    BY <2>1, <2>2
<1>6. ASSUME NEW j \in Nat, NEW n \in Nat, j <= n
      PROVE  j \div Bits < bitmapSize(n + 1)
  <2>1. j \div Bits \in Nat /\ n \div Bits \in Nat /\ j \div Bits <= n \div Bits
    BY <1>1, <1>3, <1>6
  <2>2. bitmapSize(n + 1) = (n \div Bits) + 1
    BY <1>4
  <2> QED
    BY <2>1, <2>2
<1> QED
  BY <1>1, <1>5, <1>6 DEF Ones

(***************************************************************************)
(* resize() keeps the bits that it has room for.                           *)
(***************************************************************************)
LEMMA ResizedBits ==
    ASSUME NEW validity \in Seq(SUBSET Ones), NEW size \in Nat, NEW fill \in SUBSET Ones
    PROVE  /\ resize(validity, size, fill) \in Seq(SUBSET Ones)
           /\ Len(resize(validity, size, fill)) = size
           /\ \A j \in Nat : j \div Bits < size =>
                 (Bit(resize(validity, size, fill), j) <=>
                    IF j \div Bits < Len(validity) THEN Bit(validity, j)
                                                   ELSE j % Bits \in fill)
<1> DEFINE r == resize(validity, size, fill)
<1>1. r \in [1..size -> SUBSET Ones]
  BY DEF resize
<1>2. r \in Seq(SUBSET Ones) /\ Len(r) = size
  BY <1>1
<1>3. ASSUME NEW j \in Nat, j \div Bits < size
      PROVE  r[(j \div Bits) + 1] = IF j \div Bits < Len(validity)
                                    THEN validity[(j \div Bits) + 1] ELSE fill
  <2>0. j \div Bits \in Nat /\ Len(validity) \in Nat
    BY BytesAndBits
  <2>1. (j \div Bits) + 1 \in 1..size
    BY <1>3, <2>0
  <2>2. (j \div Bits) + 1 <= Len(validity) <=> j \div Bits < Len(validity)
    BY <2>0
  <2> QED
    BY <2>1, <2>2 DEF resize
<1> HIDE DEF r
<1>4. \A j \in Nat : j \div Bits < size =>
         (Bit(r, j) <=> IF j \div Bits < Len(validity) THEN Bit(validity, j)
                                                       ELSE j % Bits \in fill)
  BY <1>2, <1>3 DEF Bit
<1> QED
  BY <1>2, <1>4 DEF r

(***************************************************************************)
(* setValidityBit() sets or clears one bit and keeps the others.           *)
(***************************************************************************)
LEMMA OneBitIsSet ==
    ASSUME NEW validity \in Seq(SUBSET Ones), NEW index \in Nat, NEW valid \in BOOLEAN
    PROVE  /\ setValidityBit(validity, index, valid) \in Seq(SUBSET Ones)
           /\ setValidityBit(validity, index, valid) # <<>>
           /\ Bit(setValidityBit(validity, index, valid), index) <=> valid
           /\ \A j \in Nat : j # index =>
                 (Bit(setValidityBit(validity, index, valid), j) <=> Bit(validity, j))
<1> DEFINE byte == index \div Bits
           bits == IF byte >= Len(validity) THEN resize(validity, byte + 1, {})
                   ELSE validity
           s == setValidityBit(validity, index, valid)
<1>1. byte \in Nat /\ index % Bits \in Ones
  BY BytesAndBits
<1>2. bits \in Seq(SUBSET Ones) /\ Len(bits) \in Nat /\ byte < Len(bits)
  <2>1. CASE byte >= Len(validity)
    BY <1>1, <2>1, ResizedBits
  <2>2. CASE ~(byte >= Len(validity))
    BY <1>1, <2>2
  <2> QED
    BY <2>1, <2>2
<1>3. \A j \in Nat : Bit(bits, j) <=> Bit(validity, j)
  <2>1. CASE byte >= Len(validity)
    <3>1. bits = resize(validity, byte + 1, {}) /\ byte + 1 \in Nat /\ Len(bits) = byte + 1
      BY <1>1, <2>1, ResizedBits
    <3>2. \A j \in Nat : j \div Bits < byte + 1 =>
             (Bit(bits, j) <=> IF j \div Bits < Len(validity) THEN Bit(validity, j)
                                                              ELSE j % Bits \in {})
      BY <3>1, ResizedBits
    <3>3. ASSUME NEW j \in Nat
          PROVE  Bit(bits, j) <=> Bit(validity, j)
      <4>1. j \div Bits \in Nat /\ Len(validity) \in Nat
        BY BytesAndBits
      <4>2. CASE j \div Bits < byte + 1
        BY <3>2, <4>1, <4>2 DEF Bit
      <4>3. CASE ~(j \div Bits < byte + 1)
        <5>1. ~(j \div Bits < Len(validity)) /\ ~(j \div Bits < Len(bits))
          BY <1>1, <2>1, <3>1, <4>1, <4>3
        <5> QED
          BY <5>1 DEF Bit
      <4> QED
        BY <4>2, <4>3
    <3> QED
      BY <3>3
  <2>2. CASE ~(byte >= Len(validity))
    BY <2>2
  <2> QED
    BY <2>1, <2>2
<1>4. s = [bits EXCEPT ![byte + 1] = IF valid THEN @ \cup {index % Bits}
                                             ELSE @ \ {index % Bits}]
  BY DEF setValidityBit
<1> HIDE DEF bits, s
<1>5. s \in Seq(SUBSET Ones) /\ Len(s) = Len(bits) /\ s # <<>>
  <2>1. byte + 1 \in 1..Len(bits)
    BY <1>1, <1>2
  <2>2. bits[byte + 1] \in SUBSET Ones
    BY <1>2, <2>1
  <2>3. s \in Seq(SUBSET Ones) /\ Len(s) = Len(bits)
    BY <1>1, <1>2, <1>4, <2>1, <2>2
  <2> QED
    BY <1>2, <2>1, <2>3
<1>6. s[byte + 1] = IF valid THEN bits[byte + 1] \cup {index % Bits}
                            ELSE bits[byte + 1] \ {index % Bits}
  <2>1. byte + 1 \in DOMAIN bits
    BY <1>1, <1>2
  <2> HIDE DEF byte
  <2> QED
    BY <1>4, <2>1
<1>7. \A k \in 1..Len(bits) : k # byte + 1 => s[k] = bits[k]
  BY <1>2, <1>4
<1>8. Bit(s, index) <=> valid
  BY <1>1, <1>2, <1>5, <1>6 DEF Bit
<1>9. ASSUME NEW j \in Nat, j # index
      PROVE  Bit(s, j) <=> Bit(bits, j)
  <2>1. CASE j \div Bits = byte
    BY <1>1, <1>5, <1>6, <1>9, <2>1, BytesAndBits DEF Bit
  <2>2. CASE j \div Bits # byte /\ j \div Bits < Len(bits)
    <3>0. j \div Bits \in Nat
      BY BytesAndBits
    <3>1. (j \div Bits) + 1 \in 1..Len(bits) /\ (j \div Bits) + 1 # byte + 1
      BY <1>1, <1>2, <2>2, <3>0
    <3> QED
      BY <1>5, <1>7, <3>1 DEF Bit
  <2>3. CASE ~(j \div Bits < Len(bits))
    BY <1>5, <2>3 DEF Bit
  <2> QED
    BY <2>1, <2>2, <2>3
<1> QED
  BY <1>3, <1>5, <1>8, <1>9 DEF s

(***************************************************************************)
(* What append() adds to a builder: the value, after the elements that are *)
(* there.                                                                  *)
(***************************************************************************)
Extends(a, b, value) ==
    /\ Builder(a)
    /\ a.row_count = b.row_count + 1
    /\ a.kind # "List" => b.kind # "List"
    /\ \A i \in 1..b.row_count : Element(a, i) = Element(b, i)
    /\ Element(a, b.row_count + 1) = value

LEMMA ListExtended ==
    ASSUME NEW b, Builder(b), b.kind = "List", NEW value \in Elements
    PROVE  Extends(appendList(b, value), b, value)
<1> DEFINE a == appendList(b, value)
           l == Append(b.list, value)
<1>1. a = [kind |-> "List", list |-> l, values |-> b.values, validity |-> b.validity,
           row_count |-> b.row_count + 1, null_count |-> b.null_count]
  <2>1. b = [kind |-> b.kind, list |-> b.list, values |-> b.values, validity |-> b.validity,
             row_count |-> b.row_count, null_count |-> b.null_count]
    BY DEF Builder
  <2>2. a = [b EXCEPT !.list = l, !.row_count = @ + 1]
    BY DEF appendList
  <2> HIDE DEF a, l
  <2> QED
    BY <2>1, <2>2
<1>2. b.list \in Seq(Elements) /\ Len(b.list) = b.row_count /\ b.row_count \in Nat
  BY DEF Builder
<1>3. /\ l \in Seq(Elements) /\ Len(l) = b.row_count + 1
      /\ \A i \in 1..b.row_count : l[i] = b.list[i]
      /\ l[b.row_count + 1] = value
  BY <1>2
<1> HIDE DEF a, l
<1>4. Builder(a)
  BY <1>1, <1>2, <1>3 DEF Builder
<1>5. /\ a.kind = "List" /\ a.row_count = b.row_count + 1
      /\ \A i \in 1..b.row_count : Element(a, i) = Element(b, i)
      /\ Element(a, b.row_count + 1) = value
  BY <1>1, <1>2, <1>3 DEF Element
<1> QED
  BY <1>4, <1>5 DEF a, Extends

LEMMA ValidExtended ==
    ASSUME NEW b, Builder(b), b.kind # "List", NEW value \in Elements
    PROVE  Extends(appendValid(b, value), b, value)
<1> DEFINE a == appendValid(b, value)
           n == b.row_count
           v == IF b.validity = <<>> THEN b.validity ELSE setValidityBit(b.validity, n, TRUE)
           l == Append(b.values, value)
<1>1. a = [kind |-> b.kind, list |-> b.list, values |-> l, validity |-> v,
           row_count |-> n + 1, null_count |-> b.null_count]
  <2>1. b = [kind |-> b.kind, list |-> b.list, values |-> b.values, validity |-> b.validity,
             row_count |-> b.row_count, null_count |-> b.null_count]
    BY DEF Builder
  <2>2. a = [b EXCEPT !.values = l, !.validity = v, !.row_count = @ + 1]
    BY DEF appendValid
  <2> HIDE DEF a, l, v
  <2> QED
    BY <2>1, <2>2
<1>2. /\ b.values \in Seq(Elements) /\ Len(b.values) = n /\ n \in Nat
      /\ b.validity \in Seq(SUBSET Ones)
  BY DEF Builder
<1>3. /\ l \in Seq(Elements) /\ Len(l) = n + 1
      /\ \A i \in 1..n : l[i] = b.values[i]
      /\ l[n + 1] = value
  BY <1>2
<1>4. /\ v \in Seq(SUBSET Ones) /\ (v = <<>> <=> b.validity = <<>>)
      /\ \A j \in Nat : j # n => (isValid(v, j) <=> isValid(b.validity, j))
      /\ isValid(v, n)
  <2>1. CASE b.validity = <<>>
    BY <1>2, <2>1 DEF isValid
  <2>2. CASE b.validity # <<>>
    BY <1>2, <2>2, OneBitIsSet DEF isValid, Bit
  <2> QED
    BY <2>1, <2>2
<1> HIDE DEF a, v, l
<1>5. Builder(a)
  BY <1>1, <1>2, <1>3, <1>4 DEF Builder
<1>6. ASSUME NEW i \in 1..n
      PROVE  Element(a, i) = Element(b, i)
  <2>1. i - 1 \in Nat /\ i - 1 # n
    BY <1>2
  <2>2. isValid(v, i - 1) <=> isValid(b.validity, i - 1)
    BY <1>4, <2>1
  <2> QED
    BY <1>1, <1>3, <2>2 DEF Element
<1>7. Element(a, n + 1) = value
  <2>1. (n + 1) - 1 = n
    BY <1>2
  <2> QED
    BY <1>1, <1>3, <1>4, <2>1 DEF Element
<1> QED
  BY <1>1, <1>5, <1>6, <1>7 DEF a, Extends

LEMMA NullExtended ==
    ASSUME NEW b, Builder(b), b.kind # "List"
    PROVE  Extends(appendNull(b), b, Null)
<1> DEFINE a == appendNull(b)
           n == b.row_count
           e == ensureValidity(b)
           v == setValidityBit(e, n, FALSE)
           l == Append(b.values, Filler)
<1>1. a = [kind |-> b.kind, list |-> b.list, values |-> l, validity |-> v,
           row_count |-> n + 1, null_count |-> b.null_count + 1]
  <2>1. b = [kind |-> b.kind, list |-> b.list, values |-> b.values, validity |-> b.validity,
             row_count |-> b.row_count, null_count |-> b.null_count]
    BY DEF Builder
  <2>2. a = [b EXCEPT !.validity = v, !.values = l, !.null_count = @ + 1,
                      !.row_count = @ + 1]
    BY DEF appendNull
  <2> HIDE DEF a, l, v
  <2> QED
    BY <2>1, <2>2
<1>2. /\ b.values \in Seq(Elements) /\ Len(b.values) = n /\ n \in Nat
      /\ b.validity \in Seq(SUBSET Ones) /\ b.null_count \in Nat
  BY DEF Builder
<1>3. /\ l \in Seq(Elements) /\ Len(l) = n + 1
      /\ \A i \in 1..n : l[i] = b.values[i]
  <2>1. Filler \in Elements
    BY DEF Filler, Elements
  <2> QED
    BY <1>2, <2>1
<1>4. e \in Seq(SUBSET Ones) /\ \A j \in 0..n : Bit(e, j) <=> isValid(b.validity, j)
  <2> DEFINE size == bitmapSize(n + 1)
             fill == IF b.validity = <<>> THEN Ones ELSE {}
  <2>1. size \in Nat /\ fill \in SUBSET Ones /\ e = resize(b.validity, size, fill)
    BY <1>2, BytesAndBits DEF ensureValidity
  <2>2. ASSUME NEW j \in 0..n
        PROVE  Bit(e, j) <=> isValid(b.validity, j)
    <3>1. j \in Nat /\ j \div Bits < size /\ j % Bits \in Ones /\ j \div Bits \in Nat
      BY <1>2, BytesAndBits
    <3>2. Bit(e, j) <=> IF j \div Bits < Len(b.validity) THEN Bit(b.validity, j)
                                                         ELSE j % Bits \in fill
      BY <1>2, <2>1, <3>1, ResizedBits
    <3>3. CASE b.validity = <<>>
      BY <3>1, <3>2, <3>3 DEF isValid
    <3>4. CASE b.validity # <<>>
      BY <3>2, <3>4 DEF isValid, Bit
    <3> QED
      BY <3>3, <3>4
  <2> HIDE DEF size, fill, e
  <2>3. e \in Seq(SUBSET Ones)
    BY <1>2, <2>1, ResizedBits
  <2> QED
    BY <2>2, <2>3
<1> HIDE DEF e
<1>5. /\ v \in Seq(SUBSET Ones) /\ v # <<>>
      /\ \A j \in Nat : j # n => (Bit(v, j) <=> Bit(e, j))
      /\ ~Bit(v, n)
  BY <1>2, <1>4, OneBitIsSet
<1> HIDE DEF a, v, l
<1>6. Builder(a)
  BY <1>1, <1>2, <1>3, <1>5 DEF Builder
<1>7. ASSUME NEW i \in 1..n
      PROVE  Element(a, i) = Element(b, i)
  <2>1. i - 1 \in 0..n /\ i - 1 \in Nat /\ i - 1 # n
    BY <1>2
  <2>2. isValid(v, i - 1) <=> isValid(b.validity, i - 1)
    <3>1. isValid(v, i - 1) <=> Bit(v, i - 1)
      BY <1>5 DEF isValid, Bit
    <3> QED
      BY <1>4, <1>5, <2>1, <3>1
  <2> QED
    BY <1>1, <1>3, <2>2 DEF Element
<1>8. Element(a, n + 1) = Null
  <2>1. (n + 1) - 1 = n
    BY <1>2
  <2>2. ~isValid(v, n)
    BY <1>5 DEF isValid, Bit
  <2> QED
    BY <1>1, <2>1, <2>2 DEF Element
<1> QED
  BY <1>1, <1>6, <1>7, <1>8 DEF a, Extends

(***************************************************************************)
(* A builder that becomes a list half way keeps its elements.              *)
(***************************************************************************)
LEMMA FallbackKeeps ==
    ASSUME NEW b, Builder(b), b.kind # "List"
    PROVE  /\ Builder(fallbackToList(b)) /\ fallbackToList(b).kind = "List"
           /\ fallbackToList(b).row_count = b.row_count
           /\ \A i \in 1..b.row_count : Element(fallbackToList(b), i) = Element(b, i)
<1> DEFINE a == fallbackToList(b)
           n == b.row_count
           l == [i \in 1..n |-> IF isValid(b.validity, i - 1) THEN b.values[i] ELSE Null]
<1>1. a = [kind |-> "List", list |-> l, values |-> <<>>, validity |-> <<>>,
           row_count |-> n, null_count |-> 0]
  <2>1. b = [kind |-> b.kind, list |-> b.list, values |-> b.values, validity |-> b.validity,
             row_count |-> b.row_count, null_count |-> b.null_count]
    BY DEF Builder
  <2>2. a = [b EXCEPT !.kind = "List", !.null_count = 0, !.values = <<>>,
                      !.validity = <<>>, !.list = l]
    BY DEF fallbackToList
  <2> HIDE DEF a, l
  <2> QED
    BY <2>1, <2>2
<1>2. b.values \in Seq(Elements) /\ Len(b.values) = n /\ n \in Nat
  BY DEF Builder
<1>3. l \in [1..n -> Elements]
  <2>1. \A i \in 1..n : b.values[i] \in Elements
    BY <1>2
  <2> QED
    BY <2>1 DEF Elements
<1>4. l \in Seq(Elements) /\ Len(l) = n
  BY <1>2, <1>3
<1>5. \A i \in 1..n : l[i] = Element(b, i)
  BY DEF Element
<1> HIDE DEF a, l
<1>6. Builder(a)
  BY <1>1, <1>2, <1>4 DEF Builder
<1> QED
  BY <1>1, <1>5, <1>6 DEF a, Element

(***************************************************************************)
(* append() of a value of any class, which is Null if its class is null,   *)
(* adds the value, whatever the kind of the builder.                       *)
(***************************************************************************)
LEMMA AppendExtends ==
    ASSUME NEW b, Builder(b), NEW class \in Classes, NEW value \in Elements,
           b.kind # "List" /\ class = "null" => value = Null
    PROVE  Extends(append(b, value, class), b, value)
<1>1. CASE b.kind = "List"
  BY <1>1, ListExtended DEF append
<1>2. CASE b.kind # "List" /\ class = "null"
  BY <1>2, NullExtended DEF append
<1>3. CASE b.kind = "Int64" /\ class # "null"
  BY <1>3, ValidExtended DEF append
<1>4. CASE b.kind = "NumberOptimal" /\ class = "int"
  BY <1>4, ValidExtended DEF append
<1>5. CASE b.kind = "NumberOptimal" /\ class = "fraction"
  <2>1. append(b, value, class) = appendList(fallbackToList(b), value)
    BY <1>5 DEF append
  <2>2. Extends(appendList(fallbackToList(b), value), fallbackToList(b), value)
    BY <1>5, FallbackKeeps, ListExtended
  <2> QED
    BY <1>5, <2>1, <2>2, FallbackKeeps DEF Extends
<1> QED
  BY <1>1, <1>2, <1>3, <1>4, <1>5 DEF Builder, Classes

(***************************************************************************)
(* finish() gives the elements out.                                        *)
(***************************************************************************)
LEMMA FinishGivesElements ==
    ASSUME NEW b, Builder(b)
    PROVE  finish(b) = [i \in 1..b.row_count |-> Element(b, i)]
<1>1. CASE b.kind = "List"
  <2>1. b.list \in Seq(Elements) /\ Len(b.list) = b.row_count
    BY <1>1 DEF Builder
  <2>2. finish(b) = b.list
    BY <1>1 DEF finish
  <2>3. \A i \in 1..b.row_count : Element(b, i) = b.list[i]
    BY <1>1 DEF Element
  <2>4. b.list = [i \in 1..b.row_count |-> b.list[i]]
    BY <2>1
  <2> QED
    BY <2>2, <2>3, <2>4
<1>2. CASE b.kind # "List"
  <2>1. (IF b.null_count > 0 THEN b.validity ELSE <<>>) = b.validity
    BY DEF Builder
  <2> QED
    BY <1>2, <2>1 DEF finish, Element
<1> QED
  BY <1>1, <1>2

-----------------------------------------------------------------------------
(***************************************************************************)
(* A set of natural numbers has a least element.  The induction theorems   *)
(* of the library take an operator; what they are needed for here is       *)
(* stated of sets, and rests on the fact that < is well-founded.           *)
(***************************************************************************)
LEMMA Least ==
    ASSUME NEW S, S \subseteq Nat, S # {}
    PROVE  \E m \in S : \A k \in S : m <= k
<1>1. PICK m \in S : \A k \in S : <<k, m>> \notin OpToRel(<, Nat)
  BY NatLessThanWellFounded, WFMin
<1>2. \A k \in S : ~(k < m)
  <2>1. \A k \in S : k \in Nat /\ m \in Nat /\ <<k, m>> \in Nat \X Nat
    OBVIOUS
  <2> QED
    BY <1>1, <2>1 DEF OpToRel
<1>3. \A k \in S : m <= k
  <2>1. \A k \in S : k \in Nat /\ m \in Nat
    OBVIOUS
  <2> QED
    BY <1>2, <2>1
<1> QED
  BY <1>3

(***************************************************************************)
(* Induction up to a bound: a set with 0 that has with each number below   *)
(* the bound its successor.                                                *)
(***************************************************************************)
LEMMA InductionToBound ==
    ASSUME NEW n \in Nat, NEW S, 0 \in S,
           \A i \in 0..(n - 1) : i \in S => i + 1 \in S
    PROVE  \A i \in 0..n : i \in S
<1> DEFINE T == {i \in 0..n : i \notin S}
<1> SUFFICES ASSUME T # {}
             PROVE  FALSE
  OBVIOUS
<1>1. PICK m \in T : \A k \in T : m <= k
  <2>1. T \subseteq Nat
    OBVIOUS
  <2> HIDE DEF T
  <2> QED
    BY <2>1, Least
<1>2. m - 1 \in 0..(n - 1) /\ m - 1 \notin T
  BY <1>1
<1> QED
  BY <1>1, <1>2


-----------------------------------------------------------------------------
(***************************************************************************)
(* The columns of a select list, and their names, which are sequences.     *)
(***************************************************************************)
LEMMA ColumnNames ==
    ASSUME cols \in ColumnLists
    PROVE  /\ Len(cols) \in Nat \ {0} /\ Columns = 1..Len(cols)
           /\ \A c \in Columns : /\ cols[c].name \in Seq(Range(cols[c].name))
                                 /\ cols[c].type \in {"integer", "number", "other"}
<1>1. cols \in Seq(Range(cols)) /\ cols # <<>>
  BY ColumnsAssumption
<1> QED
  BY <1>1, ColumnsAssumption DEF Columns

(***************************************************************************)
(* A name with a suffix begins with the name and is longer by one.         *)
(***************************************************************************)
LEMMA SuffixParts ==
    ASSUME NEW name, name \in Seq(Range(name)), NEW num
    PROVE  /\ Len(name) \in Nat
           /\ Len(Suffixed(name, num)) = Len(name) + 1
           /\ \A i \in 1..Len(name) : Suffixed(name, num)[i] = name[i]
           /\ Suffixed(name, num)[Len(name) + 1] = num
           /\ IsPrefix(name, name) /\ IsPrefix(name, Suffixed(name, num))
<1> DEFINE S == Range(name) \cup {num}
           t == Suffixed(name, num)
<1>1. name \in Seq(S) /\ num \in S
  <2>1. name \in [1..Len(name) -> Range(name)] /\ Len(name) \in Nat
    OBVIOUS
  <2>2. name \in [1..Len(name) -> S]
    BY <2>1
  <2> HIDE DEF S
  <2> QED
    BY <2>1, <2>2 DEF S
<1> HIDE DEF S
<1>2. /\ Len(name) \in Nat /\ t \in Seq(S) /\ Len(t) = Len(name) + 1
      /\ \A i \in 1..Len(name) : t[i] = name[i]
      /\ t[Len(name) + 1] = num
  BY <1>1 DEF Suffixed
<1> HIDE DEF t
<1>3. SubSeq(name, 1, Len(name)) = SubSeq(t, 1, Len(name))
  <2>1. SubSeq(name, 1, Len(name)) = [i \in 1..Len(name) |-> name[i]]
    BY <1>1, <1>2
  <2>2. SubSeq(t, 1, Len(name)) = [i \in 1..Len(name) |-> t[i]]
    BY <1>1, <1>2
  <2> QED
    BY <1>2, <2>1, <2>2
<1> QED
  BY <1>2, <1>3 DEF IsPrefix, t

(***************************************************************************)
(* From a name with a suffix both can be told.                             *)
(***************************************************************************)
LEMMA SuffixesDiffer ==
    ASSUME NEW a, a \in Seq(Range(a)), NEW b, b \in Seq(Range(b)), NEW i, NEW j
    PROVE  /\ Suffixed(a, i) = Suffixed(b, j) => a = b /\ i = j
           /\ Suffixed(a, i) # a
<1>1. ASSUME Suffixed(a, i) = Suffixed(b, j)
      PROVE  a = b /\ i = j
  <2>1. Len(a) = Len(b) /\ Len(a) \in Nat
    BY <1>1, SuffixParts
  <2>2. \A k \in 1..Len(a) : a[k] = b[k]
    BY <1>1, <2>1, SuffixParts
  <2>3. a = [k \in 1..Len(a) |-> a[k]] /\ b = [k \in 1..Len(b) |-> b[k]]
    OBVIOUS
  <2>4. i = j
    BY <1>1, <2>1, SuffixParts
  <2> QED
    BY <2>1, <2>2, <2>3, <2>4
<1>2. Suffixed(a, i) # a
  BY SuffixParts
<1> QED
  BY <1>1, <1>2

(***************************************************************************)
(* Each column has a key of its own, its name or its name with a suffix.   *)
(***************************************************************************)
Named(key) ==
    /\ DOMAIN key = Columns
    /\ \A c, d \in Columns : key[c] = key[d] => c = d
    /\ \A c \in Columns : \/ key[c] = cols[c].name
                          \/ \E num \in Nat : key[c] = Suffixed(cols[c].name, num)

(***************************************************************************)
(* The hash h holds the values f of the columns (HoldsColumns with a       *)
(* function for its operator).                                             *)
(***************************************************************************)
Held(h, f) ==
    /\ Cardinality(DOMAIN h) = Len(cols)
    /\ \E key \in [Columns -> DOMAIN h] :
        /\ \A c, d \in Columns : key[c] = key[d] => c = d
        /\ \A c \in Columns :
            /\ IsPrefix(cols[c].name, key[c]) /\ Len(key[c]) <= Len(cols[c].name) + 1
            /\ h[key[c]] = f[c]

(***************************************************************************)
(* A hash whose keys are those of the columns holds their values.          *)
(***************************************************************************)
LEMMA NamedAreHeld ==
    ASSUME cols \in ColumnLists, NEW key, Named(key), NEW h, NEW f,
           DOMAIN h = {key[c] : c \in Columns}, \A c \in Columns : h[key[c]] = f[c]
    PROVE  Held(h, f)
<1> DEFINE k == [c \in Columns |-> key[c]]
<1>1. k \in [Columns -> DOMAIN h] /\ \A c \in Columns : k[c] = key[c]
  OBVIOUS
<1>2. Cardinality(DOMAIN h) = Len(cols)
  <2>1. Columns = 1..Len(cols) /\ Len(cols) \in Nat
    BY ColumnNames
  <2>2. IsFiniteSet(Columns) /\ Cardinality(Columns) = Len(cols)
    BY <2>1, FS_Interval
  <2>3. k \in Bijection(Columns, DOMAIN h)
    BY <1>1 DEF Named, Bijection, Injection, Surjection, IsInjective
  <2>4. ExistsBijection(Columns, DOMAIN h)
    BY <2>3 DEF ExistsBijection
  <2> QED
    BY <2>2, <2>4, FS_Bijection
<1>3. ASSUME NEW c \in Columns
      PROVE  IsPrefix(cols[c].name, key[c]) /\ Len(key[c]) <= Len(cols[c].name) + 1
  <2>1. cols[c].name \in Seq(Range(cols[c].name))
    BY ColumnNames
  <2> QED
    BY <2>1, SuffixParts DEF Named
<1> HIDE DEF k
<1>4. \A c, d \in Columns : k[c] = k[d] => c = d
  BY <1>1 DEF Named
<1>5. \A c \in Columns : /\ IsPrefix(cols[c].name, k[c]) /\ Len(k[c]) <= Len(cols[c].name) + 1
                         /\ h[k[c]] = f[c]
  BY <1>1, <1>3
<1> QED
  BY <1>1, <1>2, <1>4, <1>5 DEF Held

(***************************************************************************)
(* The keys of the columns before column c.                                *)
(***************************************************************************)
Earlier(key, c) == {key[d] : d \in 1..(c - 1)}

(***************************************************************************)
(* The keys that the columns get, one after the other: the name, unless an *)
(* earlier column has it, else the first suffix that is free.  They depend *)
(* on the select list alone, so that all rows of a result have the same    *)
(* ones; both rowKey() and columnKey() choose them.                        *)
(***************************************************************************)
Keys(key) ==
    /\ DOMAIN key = Columns
    /\ \A c \in Columns :
          key[c] = IF cols[c].name \notin Earlier(key, c) THEN cols[c].name
                   ELSE FirstFree(cols[c].name, Earlier(key, c))

(***************************************************************************)
(* Of as many suffixes as there are columns one is free: the earlier       *)
(* columns are fewer.                                                      *)
(***************************************************************************)
LEMMA ASuffixIsFree ==
    ASSUME cols \in ColumnLists, NEW name, name \in Seq(Range(name)),
           NEW c \in Columns, NEW key
    PROVE  \E num \in 1..Len(cols) : /\ FirstFree(name, Earlier(key, c)) = Suffixed(name, num)
                                     /\ Suffixed(name, num) \notin Earlier(key, c)
<1> DEFINE E == Earlier(key, c)
           n == Len(cols)
           S == {num \in 1..n : Suffixed(name, num) \notin E}
<1>1. n \in Nat \ {0} /\ c \in 1..n
  BY ColumnNames
<1>2. S # {}
  <2> SUFFICES ASSUME S = {} PROVE FALSE
    OBVIOUS
  <2> DEFINE f == [num \in 1..n |-> Suffixed(name, num)]
             g == [d \in 1..(c - 1) |-> key[d]]
  <2>1. f \in [1..n -> E]
    OBVIOUS
  <2>2. IsFiniteSet(E) /\ Cardinality(E) <= c - 1
    <3>1. g \in Surjection(1..(c - 1), E)
      BY DEF Earlier, Surjection
    <3>2. IsFiniteSet(1..(c - 1)) /\ Cardinality(1..(c - 1)) = c - 1
      <4>2. ASSUME NEW b \in Nat
            PROVE  IsFiniteSet(1..b) /\ Cardinality(1..b) = b
        BY FS_Interval
      <4>3. c - 1 \in Nat
        BY <1>1
      <4> QED
        BY <4>2, <4>3
    <3> HIDE DEF E, g
    <3> QED
      BY <3>1, <3>2, FS_Surjection
  <2>3. IsFiniteSet(1..n) /\ Cardinality(1..n) = n /\ Cardinality(E) \in Nat
    BY <1>1, <2>2, FS_Interval, FS_CardinalityType
  <2>4. Cardinality(E) < Cardinality(1..n)
    BY <1>1, <2>2, <2>3
  <2>5. PICK x, y \in 1..n : x # y /\ f[x] = f[y]
    <3> HIDE DEF E, f
    <3> QED
      BY <2>1, <2>2, <2>3, <2>4, FS_PigeonHole
  <2> QED
    BY <2>5, SuffixesDiffer
<1>3. \E m \in S : \A k \in S : m <= k
  <2>1. S \subseteq Nat
    BY <1>1
  <2> HIDE DEF S
  <2> QED
    BY <1>2, <2>1, Least
<1>4. Min(S) \in S
  <2> HIDE DEF S
  <2> QED
    BY <1>3 DEF Min
<1>5. FirstFree(name, E) = Suffixed(name, Min(S))
  BY DEF FirstFree
<1> QED
  BY <1>4, <1>5

(***************************************************************************)
(* A column never gets the key of another.                                 *)
(***************************************************************************)
LEMMA KeysAreNew ==
    ASSUME cols \in ColumnLists, NEW key, Keys(key)
    PROVE  /\ \A c \in Columns : key[c] \notin Earlier(key, c)
           /\ Named(key)
<1>1. ASSUME NEW c \in Columns
      PROVE  /\ key[c] \notin Earlier(key, c)
             /\ \/ key[c] = cols[c].name
                \/ \E num \in Nat : key[c] = Suffixed(cols[c].name, num)
  <2>1. CASE cols[c].name \notin Earlier(key, c)
    BY <2>1 DEF Keys
  <2>2. CASE cols[c].name \in Earlier(key, c)
    <3>1. cols[c].name \in Seq(Range(cols[c].name)) /\ Len(cols) \in Nat
      BY ColumnNames
    <3>2. PICK num \in 1..Len(cols) :
             /\ FirstFree(cols[c].name, Earlier(key, c)) = Suffixed(cols[c].name, num)
             /\ Suffixed(cols[c].name, num) \notin Earlier(key, c)
      BY <3>1, ASuffixIsFree
    <3>3. key[c] = Suffixed(cols[c].name, num)
      BY <2>2, <3>2 DEF Keys
    <3> QED
      BY <3>1, <3>2, <3>3
  <2> QED
    BY <2>1, <2>2
<1>2. ASSUME NEW c \in Columns, NEW d \in Columns, key[c] = key[d], c < d
      PROVE  FALSE
  <2>1. c \in 1..(d - 1)
    BY <1>2, ColumnNames
  <2> QED
    BY <1>1, <1>2, <2>1 DEF Earlier
<1>3. \A c, d \in Columns : key[c] = key[d] => c = d
  <2>1. \A c, d \in Columns : c < d \/ d < c \/ c = d
    BY ColumnNames
  <2> QED
    BY <1>2, <2>1
<1> QED
  BY <1>1, <1>3 DEF Keys, Named

-----------------------------------------------------------------------------
(***************************************************************************)
(* The hashes of row r after each of the first n columns: the recursion of *)
(* rowHash().                                                              *)
(***************************************************************************)
RowSteps(a, n, r) ==
    a = [c \in 0..n |-> IF c = 0 THEN <<>>
                        ELSE LET h == a[c - 1]
                             IN  With(h, rowKey(h, cols[c].name), Cell(r, c))]

(***************************************************************************)
(* The recursion defines a function.                                       *)
(***************************************************************************)
LEMMA RowStepsExist ==
    ASSUME NEW n \in Nat, NEW r
    PROVE  \E a : RowSteps(a, n, r)
<1> DEFINE S == {i \in 0..n : \E a : RowSteps(a, i, r)}
<1>1. 0 \in S
  <2>1. RowSteps([c \in 0..0 |-> <<>>], 0, r)
    BY DEF RowSteps
  <2> QED
    BY <2>1
<1>2. ASSUME NEW i \in 0..(n - 1), i \in S
      PROVE  i + 1 \in S
  <2>1. PICK a : RowSteps(a, i, r)
    BY <1>2
  <2> DEFINE v == With(a[i], rowKey(a[i], cols[i + 1].name), Cell(r, i + 1))
             b == [c \in 0..(i + 1) |-> IF c = i + 1 THEN v ELSE a[c]]
  <2>2. RowSteps(b, i + 1, r)
    BY <2>1 DEF RowSteps
  <2> QED
    BY <1>2, <2>2
<1> HIDE DEF S
<1>3. n \in S
  BY <1>1, <1>2, InductionToBound
<1> QED
  BY <1>3 DEF S

(***************************************************************************)
(* rowHash() is its last value.                                            *)
(***************************************************************************)
LEMMA RowIsLastStep ==
    ASSUME NEW r, Len(cols) \in Nat
    PROVE  \E a : RowSteps(a, Len(cols), r) /\ rowHash(r) = a[Len(cols)]
<1> DEFINE a == CHOOSE a : RowSteps(a, Len(cols), r)
<1>1. RowSteps(a, Len(cols), r)
  BY RowStepsExist
<1>2. rowHash(r) = a[Len(cols)]
  BY DEF rowHash, RowSteps
<1> QED
  BY <1>1, <1>2

(***************************************************************************)
(* The hash of a row holds the value of each column under its key.         *)
(***************************************************************************)
LEMMA RowHasItsKeys ==
    ASSUME cols \in ColumnLists, NEW r
    PROVE  \E key : /\ Keys(key)
                    /\ DOMAIN rowHash(r) = {key[c] : c \in Columns}
                    /\ \A c \in Columns : rowHash(r)[key[c]] = Cell(r, c)
<1> DEFINE n == Len(cols)
<1>1. n \in Nat \ {0} /\ Columns = 1..n
  BY ColumnNames
<1>2. PICK a : RowSteps(a, n, r) /\ rowHash(r) = a[n]
  BY <1>1, RowIsLastStep
<1> DEFINE key == [c \in Columns |-> rowKey(a[c - 1], cols[c].name)]
           Done(i) == DOMAIN a[i] = {key[d] : d \in 1..i}
           S == {i \in 0..n : Done(i)}
<1>3. a[0] = <<>>
  BY <1>1, <1>2 DEF RowSteps
<1>4. \A c \in Columns : a[c] = With(a[c - 1], key[c], Cell(r, c))
  BY <1>1, <1>2 DEF RowSteps
<1> HIDE DEF key
<1>5. \A i \in 0..n : Done(i)
  <2>1. 0 \in S
    BY <1>1, <1>3
  <2>2. ASSUME NEW i \in 0..(n - 1), i \in S
        PROVE  i + 1 \in S
    <3>1. i + 1 \in Columns /\ (i + 1) - 1 = i
      BY <1>1
    <3>2. a[i + 1] = With(a[i], key[i + 1], Cell(r, i + 1))
      BY <1>4, <3>1
    <3>4. DOMAIN a[i + 1] = DOMAIN a[i] \cup {key[i + 1]}
      BY <3>2 DEF With
    <3>3. {key[d] : d \in 1..(i + 1)} = {key[d] : d \in 1..i} \cup {key[i + 1]}
      OBVIOUS
    <3> QED
      BY <1>1, <2>2, <3>3, <3>4
  <2> HIDE DEF S
  <2>3. \A i \in 0..n : i \in S
    BY <1>1, <2>1, <2>2, InductionToBound
  <2> QED
    BY <2>3 DEF S
<1>6. Keys(key)
  <2>1. ASSUME NEW c \in Columns
        PROVE  key[c] = IF cols[c].name \notin Earlier(key, c) THEN cols[c].name
                        ELSE FirstFree(cols[c].name, Earlier(key, c))
    <3>1. DOMAIN a[c - 1] = Earlier(key, c)
      BY <1>1, <1>5 DEF Earlier
    <3>2. key[c] = rowKey(a[c - 1], cols[c].name)
      BY DEF key
    <3> QED
      BY <3>1, <3>2 DEF rowKey
  <2>2. DOMAIN key = Columns
    BY DEF key
  <2> QED
    BY <2>1, <2>2 DEF Keys
<1>7. \A c \in Columns : key[c] \notin Earlier(key, c)
  BY <1>6, KeysAreNew
<1> DEFINE Filled(i) == \A d \in 1..i : a[i][key[d]] = Cell(r, d)
           T == {i \in 0..n : Filled(i)}
<1>8. \A i \in 0..n : Filled(i)
  <2>1. 0 \in T
    BY <1>1
  <2>2. ASSUME NEW i \in 0..(n - 1), i \in T
        PROVE  i + 1 \in T
    <3>1. i + 1 \in Columns /\ (i + 1) - 1 = i /\ i \in 0..n /\ i + 1 \in 0..n
      BY <1>1
    <3>2. a[i + 1] = With(a[i], key[i + 1], Cell(r, i + 1))
      BY <1>4, <3>1
    <3>3. a[i + 1][key[i + 1]] = Cell(r, i + 1)
      BY <3>2 DEF With
    <3>4. ASSUME NEW d \in 1..i
          PROVE  a[i + 1][key[d]] = Cell(r, d)
      <4>1. key[d] \in DOMAIN a[i] /\ key[d] # key[i + 1]
        BY <1>5, <1>7, <3>1 DEF Earlier
      <4> QED
        BY <2>2, <3>2, <4>1 DEF With
    <3> QED
      BY <3>1, <3>3, <3>4
  <2> HIDE DEF T
  <2>3. \A i \in 0..n : i \in T
    BY <1>1, <2>1, <2>2, InductionToBound
  <2> QED
    BY <2>3 DEF T
<1> QED
  BY <1>1, <1>2, <1>5, <1>6, <1>8

-----------------------------------------------------------------------------
(***************************************************************************)
(* A row is added at the end.                                              *)
(***************************************************************************)
LEMMA RowAppended ==
    ASSUME NEW n \in Nat, NEW row, NEW s, s = [i \in 1..n |-> s[i]]
    PROVE  Append(s, row) = [i \in 1..(n + 1) |-> IF i = n + 1 THEN row ELSE s[i]]
<1> DEFINE S == {s[i] : i \in 1..n} \cup {row}
           t == [i \in 1..(n + 1) |-> IF i = n + 1 THEN row ELSE s[i]]
<1>1. s \in Seq(S) /\ Len(s) = n /\ row \in S
  <2>1. s \in [1..n -> S]
    OBVIOUS
  <2> HIDE DEF S
  <2> QED
    BY <2>1 DEF S
<1>2. Append(s, row) \in [1..(n + 1) -> S]
  <2> HIDE DEF S
  <2>1. Append(s, row) \in Seq(S) /\ Len(Append(s, row)) = n + 1
    BY <1>1
  <2>2. \A u \in Seq(S) : u \in [1..Len(u) -> S]
    OBVIOUS
  <2> QED
    BY <2>1, <2>2
<1>3. \A i \in 1..(n + 1) : Append(s, row)[i] = t[i]
  <2>1. Append(s, row)[n + 1] = row /\ t[n + 1] = row
    <3> HIDE DEF S
    <3> QED
      BY <1>1
  <2>2. ASSUME NEW i \in 1..n
        PROVE  Append(s, row)[i] = s[i] /\ t[i] = s[i]
    <3> HIDE DEF S
    <3> QED
      BY <1>1
  <2>3. \A i \in 1..(n + 1) : i \in 1..n \/ i = n + 1
    OBVIOUS
  <2> HIDE DEF S, t
  <2> QED
    BY <2>1, <2>2, <2>3
<1>4. t = [i \in 1..(n + 1) |-> t[i]] /\ DOMAIN t = 1..(n + 1)
  OBVIOUS
<1> HIDE DEF S, t
<1>5. Append(s, row) = t
  BY <1>2, <1>3, <1>4
<1> QED
  BY <1>5 DEF t

(***************************************************************************)
(* The hash h holds, under its key, the list of the values of each column  *)
(* in the n rows after the row from.                                       *)
(***************************************************************************)
Tabled(h, key, from, n) ==
    /\ DOMAIN h = {key[c] : c \in Columns}
    /\ \A c \in Columns : h[key[c]] = [i \in 1..n |-> Cell(from + i, c)]

(***************************************************************************)
(* The value of column c in row r is pushed on its list: one step of the   *)
(* recursion of pushColumns().                                             *)
(***************************************************************************)
Pushed(h, c, csize, r) ==
    LET key == columnKey(h, c, csize)
        list == IF key \in DOMAIN h THEN h[key] ELSE <<>>
    IN  With(h, key, Append(list, Cell(r, c)))

(***************************************************************************)
(* The hashes of lists after each of the first n columns.                  *)
(***************************************************************************)
PushSteps(p, n, start, csize, r) ==
    p = [c \in 0..n |-> IF c = 0 THEN start ELSE Pushed(p[c - 1], c, csize, r)]

(***************************************************************************)
(* The recursion defines a function.                                       *)
(***************************************************************************)
LEMMA PushStepsExist ==
    ASSUME NEW n \in Nat, NEW start, NEW csize, NEW r
    PROVE  \E p : PushSteps(p, n, start, csize, r)
<1> DEFINE S == {i \in 0..n : \E p : PushSteps(p, i, start, csize, r)}
<1>1. 0 \in S
  <2>1. PushSteps([c \in 0..0 |-> start], 0, start, csize, r)
    BY DEF PushSteps
  <2> QED
    BY <2>1
<1>2. ASSUME NEW i \in 0..(n - 1), i \in S
      PROVE  i + 1 \in S
  <2>1. PICK p : PushSteps(p, i, start, csize, r)
    BY <1>2
  <2> DEFINE q == [c \in 0..(i + 1) |-> IF c = i + 1 THEN Pushed(p[i], i + 1, csize, r)
                                                     ELSE p[c]]
  <2>2. PushSteps(q, i + 1, start, csize, r)
    BY <2>1 DEF PushSteps
  <2> QED
    BY <1>2, <2>2
<1> HIDE DEF S
<1>3. n \in S
  BY <1>1, <1>2, InductionToBound
<1> QED
  BY <1>3 DEF S

(***************************************************************************)
(* pushColumns() is its last value.                                        *)
(***************************************************************************)
LEMMA PushIsLastStep ==
    ASSUME NEW hash, NEW r, Len(cols) \in Nat
    PROVE  LET start == IF hash = <<>> THEN doColumns ELSE hash
               csize == Len(start[cols[1].name])
           IN  \E p : /\ PushSteps(p, Len(cols), start, csize, r)
                      /\ pushColumns(hash, r) = p[Len(cols)]
<1> DEFINE start == IF hash = <<>> THEN doColumns ELSE hash
           csize == Len(start[cols[1].name])
           p == CHOOSE p : PushSteps(p, Len(cols), start, csize, r)
<1>1. PushSteps(p, Len(cols), start, csize, r)
  BY PushStepsExist
<1>2. pushColumns(hash, r) = p[Len(cols)]
  BY DEF pushColumns, PushSteps, Pushed
<1> QED
  BY <1>1, <1>2

(***************************************************************************)
(* pushColumns() adds a row: the values of every column go to the list     *)
(* with its key, also when the list is made only now, so that the lists    *)
(* stay aligned.                                                           *)
(***************************************************************************)
LEMMA RowIsPushed ==
    ASSUME cols \in ColumnLists, NEW from \in Nat, NEW n \in Nat, NEW hash, NEW key,
           Keys(key),
           IF n = 0 THEN hash \in {<<>>, doColumns} ELSE Tabled(hash, key, from, n)
    PROVE  Tabled(pushColumns(hash, from + n + 1), key, from, n + 1)
<1> DEFINE m == Len(cols)
           r == from + n + 1
           start == IF hash = <<>> THEN doColumns ELSE hash
           csize == Len(start[cols[1].name])
           Column(c, k) == [i \in 1..k |-> Cell(from + i, c)]
<1>1. m \in Nat \ {0} /\ Columns = 1..m
  BY ColumnNames
<1>2. PICK p : PushSteps(p, m, start, csize, r) /\ pushColumns(hash, r) = p[m]
  BY <1>1, PushIsLastStep
<1>3. Named(key) /\ DOMAIN key = Columns /\ \A c \in Columns : key[c] \notin Earlier(key, c)
  BY KeysAreNew DEF Keys
<1>4. \A c \in Columns : Len(Column(c, n)) = n
  OBVIOUS
<1>5. ASSUME NEW c \in Columns
      PROVE  cols[c].name \in {key[d] : d \in Columns}
  <2>1. CASE cols[c].name \in Earlier(key, c)
    <3>1. PICK d \in 1..(c - 1) : cols[c].name = key[d]
      BY <2>1 DEF Earlier
    <3> QED
      BY <1>1, <3>1
  <2>2. CASE cols[c].name \notin Earlier(key, c)
    BY <2>2 DEF Keys
  <2> QED
    BY <2>1, <2>2
<1> DEFINE Ready(h) ==
              /\ \A k \in DOMAIN h : Len(h[k]) = n
              /\ \A c \in Columns : cols[c].name \in DOMAIN h
              /\ \A c \in Columns : key[c] \in DOMAIN h => h[key[c]] = Column(c, n)
              /\ n > 0 => \A c \in Columns : key[c] \in DOMAIN h
              /\ DOMAIN h \subseteq {key[c] : c \in Columns}
<1>6. Ready(start)
  <2>1. CASE n = 0
    <3>1. start = doColumns
      BY <2>1
    <3>2. /\ DOMAIN doColumns = {cols[c].name : c \in Columns}
          /\ \A k \in DOMAIN doColumns : doColumns[k] = <<>>
      BY DEF doColumns
    <3>3. \A c \in Columns : Column(c, n) = <<>>
      BY <2>1
    <3>4. Len(<<>>) = n
      BY <2>1
    <3> HIDE DEF start, Column
    <3>5. Ready(doColumns)
      BY <1>5, <2>1, <3>2, <3>3, <3>4
    <3> QED
      BY <3>1, <3>5
  <2>2. CASE n > 0
    <3>1. /\ DOMAIN hash = {key[c] : c \in Columns}
          /\ \A c \in Columns : hash[key[c]] = Column(c, n)
      <4>1. n # 0
        BY <2>2
      <4>2. Tabled(hash, key, from, n)
        BY <4>1
      <4> QED
        BY <4>2 DEF Tabled
    <3>2. 1 \in Columns
      BY <1>1
    <3>3. hash # <<>>
      <4>1. key[1] \in DOMAIN hash
        BY <3>1, <3>2
      <4>2. DOMAIN <<>> = {}
        OBVIOUS
      <4> QED
        BY <4>1, <4>2
    <3>4. start = hash
      BY <3>3
    <3> HIDE DEF start, Column
    <3>5. \A k \in DOMAIN hash : Len(hash[k]) = n
      BY <1>4, <3>1
    <3>6. Ready(hash)
      BY <1>5, <3>1, <3>5
    <3> QED
      BY <3>4, <3>6
  <2> HIDE DEF Ready, start
  <2> QED
    BY <2>1, <2>2
<1>7. csize = n
  <2>1. 1 \in Columns
    BY <1>1
  <2> HIDE DEF start
  <2> QED
    BY <1>6, <2>1
<1> HIDE DEF start, csize, r
<1> DEFINE Done(i) ==
              /\ DOMAIN p[i] = DOMAIN start \cup {key[d] : d \in 1..i}
              /\ \A d \in 1..i : p[i][key[d]] = Column(d, n + 1)
              /\ \A k \in DOMAIN start : k \notin {key[d] : d \in 1..i} => p[i][k] = start[k]
           S == {i \in 0..m : Done(i)}
<1>8. 0 \in S
  <2>1. p[0] = start
    BY <1>1, <1>2 DEF PushSteps
  <2> QED
    BY <1>1, <2>1
<1>9. ASSUME NEW i \in 0..(m - 1), i \in S
      PROVE  i + 1 \in S
  <2> DEFINE c == i + 1
             h == p[i]
             k == columnKey(h, c, csize)
             list == IF k \in DOMAIN h THEN h[k] ELSE <<>>
  <2>1. c \in Columns /\ c - 1 = i /\ Earlier(key, c) = {key[d] : d \in 1..i}
    BY <1>1 DEF Earlier
  <2>2. p[c] = With(h, k, Append(list, Cell(r, c)))
    BY <1>1, <1>2, <2>1 DEF PushSteps, Pushed
  <2>3. Done(i)
    BY <1>9
  <2>4. \A d \in Columns : Len(Column(d, n + 1)) = n + 1
    OBVIOUS
  <2>5. \A x \in DOMAIN h : Len(h[x]) = IF x \in Earlier(key, c) THEN n + 1 ELSE n
    <3>1. ASSUME NEW x \in Earlier(key, c)
          PROVE  Len(h[x]) = n + 1
      <4>1. PICK d \in 1..i : x = key[d]
        BY <2>1
      <4>2. d \in Columns
        BY <1>1
      <4> QED
        BY <2>3, <2>4, <4>1, <4>2
    <3>2. ASSUME NEW x \in DOMAIN h, x \notin Earlier(key, c)
          PROVE  Len(h[x]) = n
      BY <1>6, <2>1, <2>3, <3>2
    <3> QED
      BY <3>1, <3>2
  <2>6. cols[c].name \in DOMAIN h
    BY <1>6, <2>1, <2>3
  <2>7. k = key[c]
    <3>1. {x \in DOMAIN h : Len(h[x]) # csize} = Earlier(key, c)
      <4>1. Earlier(key, c) \subseteq DOMAIN h
        BY <2>1, <2>3
      <4>2. n + 1 # n
        OBVIOUS
      <4> QED
        BY <1>7, <2>5, <4>1, <4>2
    <3>2. c = 1 => Earlier(key, c) = {}
      BY DEF Earlier
    <3>3. Len(h[cols[c].name]) <= csize <=> cols[c].name \notin Earlier(key, c)
      BY <1>7, <2>5, <2>6
    <3>4. k = IF cols[c].name \notin Earlier(key, c) THEN cols[c].name
              ELSE FirstFree(cols[c].name, Earlier(key, c))
      BY <3>1, <3>2, <3>3 DEF columnKey
    <3> QED
      BY <2>1, <3>4 DEF Keys
  <2>8. list = Column(c, n)
    <3>1. key[c] \notin {key[d] : d \in 1..i}
      BY <1>3, <2>1
    <3>2. CASE key[c] \in DOMAIN start
      BY <1>6, <2>1, <2>3, <2>7, <3>1, <3>2
    <3>3. CASE key[c] \notin DOMAIN start
      <4>1. n = 0
        BY <1>6, <2>1, <3>3
      <4>2. key[c] \notin DOMAIN h
        BY <2>3, <3>1, <3>3
      <4>3. list = <<>>
        BY <2>7, <4>2
      <4> QED
        BY <4>1, <4>3
    <3> QED
      BY <3>2, <3>3
  <2>9. Append(list, Cell(r, c)) = Column(c, n + 1)
    <3> DEFINE s == Column(c, n)
    <3>1. Append(s, Cell(r, c)) = [j \in 1..(n + 1) |-> IF j = n + 1 THEN Cell(r, c) ELSE s[j]]
      BY RowAppended
    <3>2. \A j \in 1..(n + 1) : j # n + 1 => s[j] = Cell(from + j, c)
      OBVIOUS
    <3>3. r = from + (n + 1)
      BY DEF r
    <3> QED
      BY <2>8, <3>1, <3>2, <3>3
  <2>10. p[c] = With(h, key[c], Column(c, n + 1))
    BY <2>2, <2>7, <2>9
  <2>11. {key[d] : d \in 1..c} = {key[d] : d \in 1..i} \cup {key[c]}
    OBVIOUS
  <2> HIDE DEF h
  <2>12. /\ DOMAIN p[c] = DOMAIN h \cup {key[c]}
         /\ p[c][key[c]] = Column(c, n + 1)
         /\ \A x \in DOMAIN h : x # key[c] => p[c][x] = h[x]
    BY <2>10 DEF With
  <2>13. DOMAIN p[c] = DOMAIN start \cup {key[d] : d \in 1..c}
    BY <2>3, <2>11, <2>12 DEF h
  <2>14. ASSUME NEW d \in 1..c
         PROVE  p[c][key[d]] = Column(d, n + 1)
    <3>1. CASE d = c
      BY <2>12, <3>1
    <3>2. CASE d # c
      <4>1. d \in 1..i
        BY <3>2
      <4>2. key[d] # key[c] /\ key[d] \in DOMAIN h
        BY <1>3, <2>1, <2>3, <4>1 DEF h
      <4> QED
        BY <2>3, <2>12, <4>1, <4>2 DEF h
    <3> QED
      BY <3>1, <3>2
  <2>15. ASSUME NEW x \in DOMAIN start, x \notin {key[d] : d \in 1..c}
         PROVE  p[c][x] = start[x]
    <3>1. x \notin {key[d] : d \in 1..i} /\ x # key[c] /\ x \in DOMAIN h
      BY <2>3, <2>11, <2>15 DEF h
    <3> QED
      BY <2>3, <2>12, <3>1 DEF h
  <2>16. Done(c)
    BY <2>13, <2>14, <2>15
  <2>17. c \in 0..m
    BY <1>1
  <2> HIDE DEF Done
  <2> QED
    BY <2>16, <2>17
<1>10. m \in S
  <2>1. m \in Nat /\ m \in 0..m
    BY <1>1
  <2> HIDE DEF S, m
  <2> QED
    BY <1>8, <1>9, <2>1, InductionToBound
<1>11. Done(m)
  BY <1>10
<1>12. DOMAIN p[m] = {key[c] : c \in Columns} /\ \A c \in Columns : p[m][key[c]] = Column(c, n + 1)
  BY <1>1, <1>6, <1>11
<1>13. Tabled(p[m], key, from, n + 1)
  BY <1>12 DEF Tabled
<1> QED
  BY <1>2, <1>13 DEF r

-----------------------------------------------------------------------------
(***************************************************************************)
(* What fetchColumns() has collected of n rows: lists of all columns, of   *)
(* which there may be none before the first row.                           *)
(***************************************************************************)
Listed(h, from, n) ==
    IF n = 0 THEN h \in {<<>>, doColumns}
    ELSE \E key : Keys(key) /\ Tabled(h, key, from, n)

(***************************************************************************)
(* pushColumns() adds the next row to them.                                *)
(***************************************************************************)
LEMMA RowIsListed ==
    ASSUME cols \in ColumnLists, NEW from \in Nat, NEW n \in Nat, NEW h,
           Listed(h, from, n)
    PROVE  Listed(pushColumns(h, from + n + 1), from, n + 1)
<1>1. \E key : Keys(key) /\ IF n = 0 THEN h \in {<<>>, doColumns}
                                     ELSE Tabled(h, key, from, n)
  BY RowHasItsKeys DEF Listed
<1>2. PICK key : /\ Keys(key)
                 /\ IF n = 0 THEN h \in {<<>>, doColumns}
                    ELSE Tabled(h, key, from, n)
  BY <1>1
<1>3. Tabled(pushColumns(h, from + n + 1), key, from, n + 1)
  BY <1>2, RowIsPushed
<1> QED
  BY <1>2, <1>3 DEF Listed

-----------------------------------------------------------------------------
(***************************************************************************)
(* The columns before c with its name.                                     *)
(***************************************************************************)
Same(c) == {d \in 1..(c - 1) : cols[d].name = cols[c].name}

(***************************************************************************)
(* There are fewer of them than columns before c, and fewer than for a     *)
(* later column of the same name.                                          *)
(***************************************************************************)
LEMMA SameNamesAreCounted ==
    ASSUME cols \in ColumnLists, NEW c \in Columns
    PROVE  /\ IsFiniteSet(Same(c)) /\ Cardinality(Same(c)) \in 0..(c - 1)
           /\ \A d \in Columns : c < d /\ cols[c].name = cols[d].name =>
                 Cardinality(Same(c)) < Cardinality(Same(d))
<1>1. ASSUME NEW e \in Columns
      PROVE  IsFiniteSet(Same(e)) /\ Cardinality(Same(e)) \in 0..(e - 1)
  <2>1. e - 1 \in Nat
    BY ColumnNames
  <2>2. ASSUME NEW b \in Nat
        PROVE  IsFiniteSet(1..b) /\ Cardinality(1..b) = b
    BY FS_Interval
  <2>3. Same(e) \in SUBSET (1..(e - 1))
    BY DEF Same
  <2>4. IsFiniteSet(1..(e - 1)) /\ Cardinality(1..(e - 1)) = e - 1
    BY <2>1, <2>2
  <2>5. IsFiniteSet(Same(e)) /\ Cardinality(Same(e)) <= e - 1
    BY <2>3, <2>4, FS_Subset
  <2> QED
    BY <2>1, <2>5, FS_CardinalityType
<1>2. ASSUME NEW d \in Columns, c < d, cols[c].name = cols[d].name
      PROVE  Cardinality(Same(c)) < Cardinality(Same(d))
  <2>1. Columns \subseteq Nat /\ c >= 1
    BY ColumnNames
  <2>2. c \notin Same(c) /\ Same(c) \cup {c} \in SUBSET Same(d)
    BY <1>2, <2>1 DEF Same
  <2>3. Cardinality(Same(c) \cup {c}) = Cardinality(Same(c)) + 1
    BY <1>1, <2>2, FS_AddElement
  <2>4. Cardinality(Same(c) \cup {c}) <= Cardinality(Same(d))
    BY <1>1, <2>2, FS_Subset
  <2>5. Cardinality(Same(c)) \in Nat /\ Cardinality(Same(d)) \in Nat
    BY <1>1
  <2> QED
    BY <2>3, <2>4, <2>5
<1> QED
  BY <1>1, <1>2

(***************************************************************************)
(* columnarUniqueName() gives each column a key of its own, unless the     *)
(* select list itself has a name that looks like a suffix of another.      *)
(***************************************************************************)
LEMMA UniqueNames ==
    ASSUME cols \in ColumnLists, NoClash
    PROVE  Named([c \in Columns |-> columnarUniqueName(c)])
<1> DEFINE u == [c \in Columns |-> columnarUniqueName(c)]
<1>0. Columns = 1..Len(cols) /\ Len(cols) \in Nat
  BY ColumnNames
<1>1. \A c \in Columns : /\ cols[c].name \in Seq(Range(cols[c].name))
                         /\ Cardinality(Same(c)) \in 0..(c - 1)
  BY ColumnNames, SameNamesAreCounted
<1>2. \A c \in Columns : u[c] = IF Cardinality(Same(c)) = 0 THEN cols[c].name
                                ELSE Suffixed(cols[c].name, Cardinality(Same(c)))
  BY DEF columnarUniqueName, Same
<1> HIDE DEF u
<1>3. ASSUME NEW c \in Columns, NEW d \in Columns, u[c] = u[d], c < d
      PROVE  FALSE
  <2> DEFINE i == Cardinality(Same(c))
             j == Cardinality(Same(d))
             a == cols[c].name
             b == cols[d].name
  <2>1. a \in Seq(Range(a)) /\ b \in Seq(Range(b)) /\ i \in 0..(c - 1) /\ j \in 0..(d - 1)
    BY <1>1
  <2>2. c \in 1..Len(cols) /\ d \in 1..Len(cols) /\ (i # 0 => i \in 1..Len(cols))
        /\ (j # 0 => j \in 1..Len(cols))
    BY <1>0, <2>1
  <2>3. a = b => i < j
    BY <1>3, SameNamesAreCounted
  <2>4. a = b => i # j
    BY <1>0, <2>1, <2>3
  <2>5. /\ \A num \in 1..Len(cols) : b # Suffixed(a, num)
        /\ \A num \in 1..Len(cols) : a # Suffixed(b, num)
    BY DEF NoClash
  <2>6. u[c] = IF i = 0 THEN a ELSE Suffixed(a, i)
    BY <1>2
  <2>7. u[d] = IF j = 0 THEN b ELSE Suffixed(b, j)
    BY <1>2
  <2>8. Suffixed(a, i) = Suffixed(b, j) => a = b /\ i = j
    BY <2>1, SuffixesDiffer
  <2> HIDE DEF i, j, a, b
  <2> QED
    BY <1>3, <2>2, <2>4, <2>5, <2>6, <2>7, <2>8
<1>4. \A c, d \in Columns : u[c] = u[d] => c = d
  <2>1. \A c, d \in Columns : c < d \/ d < c \/ c = d
    BY <1>0
  <2> QED
    BY <1>3, <2>1
<1>5. DOMAIN u = Columns
  BY DEF u
<1>6. \A c \in Columns : Cardinality(Same(c)) \in Nat
  BY <1>0, <1>1
<1>7. Named(u)
  BY <1>2, <1>4, <1>5, <1>6 DEF Named
<1> QED
  BY <1>7 DEF u

(***************************************************************************)
(* The columnar result after each of its first n columns: the recursion of *)
(* columnarResult().                                                       *)
(***************************************************************************)
ColumnSteps(s, n, builders) ==
    s = [c \in 0..n |-> IF c = 0 THEN <<>>
                        ELSE With(s[c - 1], columnarUniqueName(c), finish(builders[c]))]

(***************************************************************************)
(* The recursion defines a function.                                       *)
(***************************************************************************)
LEMMA ColumnStepsExist ==
    ASSUME NEW n \in Nat, NEW builders
    PROVE  \E s : ColumnSteps(s, n, builders)
<1> DEFINE S == {i \in 0..n : \E s : ColumnSteps(s, i, builders)}
<1>1. 0 \in S
  <2>1. ColumnSteps([c \in 0..0 |-> <<>>], 0, builders)
    BY DEF ColumnSteps
  <2> QED
    BY <2>1
<1>2. ASSUME NEW i \in 0..(n - 1), i \in S
      PROVE  i + 1 \in S
  <2>1. PICK s : ColumnSteps(s, i, builders)
    BY <1>2
  <2> DEFINE v == With(s[i], columnarUniqueName(i + 1), finish(builders[i + 1]))
             q == [c \in 0..(i + 1) |-> IF c = i + 1 THEN v ELSE s[c]]
  <2>2. ColumnSteps(q, i + 1, builders)
    BY <2>1 DEF ColumnSteps
  <2> QED
    BY <1>2, <2>2
<1> HIDE DEF S
<1>3. n \in S
  BY <1>1, <1>2, InductionToBound
<1> QED
  BY <1>3 DEF S

(***************************************************************************)
(* A columnar result holds the finished columns under their keys.          *)
(***************************************************************************)
LEMMA ResultHasItsColumns ==
    ASSUME cols \in ColumnLists, NEW key, Named(key), NEW builders,
           \A c \in Columns : key[c] = columnarUniqueName(c)
    PROVE  /\ DOMAIN columnarResult(builders) = {key[c] : c \in Columns}
           /\ \A c \in Columns : columnarResult(builders)[key[c]] = finish(builders[c])
<1> DEFINE n == Len(cols)
           s == CHOOSE s : ColumnSteps(s, n, builders)
<1>1. n \in Nat \ {0} /\ Columns = 1..n
  BY ColumnNames
<1>2. ColumnSteps(s, n, builders)
  BY <1>1, ColumnStepsExist
<1>3. columnarResult(builders) = s[n]
  BY DEF columnarResult, ColumnSteps
<1> HIDE DEF s
<1>4. s[0] = <<>> /\ \A c \in Columns : s[c] = With(s[c - 1], key[c], finish(builders[c]))
  BY <1>1, <1>2 DEF ColumnSteps
<1> DEFINE Done(i) ==
              /\ DOMAIN s[i] = {key[d] : d \in 1..i}
              /\ \A d \in 1..i : s[i][key[d]] = finish(builders[d])
           S == {i \in 0..n : Done(i)}
<1>5. 0 \in S
  BY <1>1, <1>4
<1>6. ASSUME NEW i \in 0..(n - 1), i \in S
      PROVE  i + 1 \in S
  <2> DEFINE c == i + 1
  <2>1. c \in Columns /\ c - 1 = i /\ c \in 0..n /\ 1..c = 1..i \cup {c} /\ 1..c \subseteq Columns
    BY <1>1
  <2>2. s[c] = With(s[i], key[c], finish(builders[c]))
    BY <1>4, <2>1
  <2>3. Done(i)
    BY <1>6
  <2>4. /\ DOMAIN s[c] = DOMAIN s[i] \cup {key[c]}
        /\ s[c][key[c]] = finish(builders[c])
        /\ \A x \in DOMAIN s[i] : x # key[c] => s[c][x] = s[i][x]
    BY <2>2 DEF With
  <2>5. DOMAIN s[c] = {key[d] : d \in 1..c}
    BY <2>1, <2>3, <2>4
  <2>6. ASSUME NEW d \in 1..c
        PROVE  s[c][key[d]] = finish(builders[d])
    <3>1. CASE d = c
      BY <2>4, <3>1
    <3>2. CASE d # c
      <4>1. d \in 1..i
        BY <3>2
      <4>2. key[d] # key[c] /\ key[d] \in DOMAIN s[i]
        BY <2>1, <2>3, <3>2, <4>1 DEF Named
      <4> QED
        BY <2>3, <2>4, <4>1, <4>2
    <3> QED
      BY <3>1, <3>2
  <2>7. Done(c)
    BY <2>5, <2>6
  <2> HIDE DEF Done
  <2> QED
    BY <2>1, <2>7
<1>7. n \in S
  <2>1. n \in Nat /\ n \in 0..n
    BY <1>1
  <2> HIDE DEF S, n
  <2> QED
    BY <1>5, <1>6, <2>1, InductionToBound
<1>8. Done(n)
  BY <1>7
<1> QED
  BY <1>1, <1>3, <1>8

-----------------------------------------------------------------------------
(***************************************************************************)
(* The builder b of column c holds the n rows after the row from.          *)
(***************************************************************************)
Built(b, c, from, n) ==
    /\ Builder(b)
    /\ b.row_count = n
    /\ b.kind # "List" => cols[c].type # "other"
    /\ \A i \in 1..n : Element(b, i) = Cell(from + i, c)

(***************************************************************************)
(* What a call that is running has collected.                              *)
(***************************************************************************)
Collected ==
    /\ cols \in ColumnLists
    /\ call.op = "fetchColumnar" /\ ~call.failed =>
          \A c \in Columns : Built(call.value[c], c, call.from, call.n)
    /\ call.op = "fetchRows" /\ ~call.failed =>
          call.value = [i \in 1..call.n |-> rowHash(call.from + i)]
    /\ call.op = "fetchColumns" /\ ~call.failed => Listed(call.value, call.from, call.n)
    /\ call.op = "selectRow" /\ call.n = 1 => call.value = rowHash(1)

(***************************************************************************)
(* An answer is made of its rows in their order: the hashes of the rows,   *)
(* lists of the columns, or for a columnar result the columns that the     *)
(* builders finish.                                                        *)
(***************************************************************************)
AnswersAreInOrder ==
    /\ out.count \in Nat
    /\ out.kind \in {"fetchRow", "selectRow"} /\ out.count = 1 =>
          out.value = rowHash(out.from + 1)
    /\ out.kind = "fetchRows" =>
          out.value = [i \in 1..out.count |-> rowHash(out.from + i)]
    /\ out.kind = "fetchColumns" /\ out.count > 0 =>
          Listed(out.value, out.from, out.count)
    /\ out.kind = "fetchColumnar" /\ out.count > 0 =>
          \E v : /\ out.value = columnarResult(v)
                 /\ \A c \in Columns : finish(v[c]) = ColumnOf(out, c)

(***************************************************************************)
(* The rows of a result stay as they are.                                  *)
(***************************************************************************)
LEMMA SameCells ==
    ASSUME UNCHANGED <<cols, data>>, NEW CONSTANT r, NEW CONSTANT c
    PROVE  Cell(r, c)' = Cell(r, c)
BY DEF Cell

LEMMA SameRows ==
    ASSUME UNCHANGED <<cols, data>>, NEW CONSTANT r
    PROVE  rowHash(r)' = rowHash(r)
BY SMTT(20) DEF rowHash, Cell, rowKey, With, FirstFree, Suffixed

LEMMA SameColumns ==
    ASSUME UNCHANGED <<cols, data>>, NEW CONSTANT v
    PROVE  columnarResult(v)' = columnarResult(v)
BY SMTT(20) DEF columnarResult, columnarUniqueName, With, Suffixed, finish, isValid

LEMMA SameListed ==
    ASSUME UNCHANGED <<cols, data>>, NEW CONSTANT h, NEW CONSTANT from, NEW CONSTANT n,
           Listed(h, from, n)
    PROVE  Listed(h, from, n)'
<1>1. Columns' = Columns
  BY DEF Columns
<1>2. CASE n = 0
  <2>1. doColumns' = doColumns
    BY <1>1 DEF doColumns
  <2> QED
    BY <1>2, <2>1 DEF Listed
<1>3. CASE n # 0
  <2>1. PICK key : Keys(key) /\ Tabled(h, key, from, n)
    BY <1>3 DEF Listed
  <2>2. PICK k : k = key
    OBVIOUS
  <2>3. Keys(k)'
    <3>1. ASSUME NEW c \in Columns
          PROVE  FirstFree(cols[c].name, Earlier(k, c))' = FirstFree(cols[c].name, Earlier(k, c))
      BY DEF FirstFree, Suffixed, Earlier
    <3>2. \A c : Earlier(k, c)' = Earlier(k, c)
      BY DEF Earlier
    <3> QED
      BY <1>1, <2>1, <2>2, <3>1, <3>2 DEF Keys
  <2>4. Tabled(h, k, from, n)'
    BY <1>1, <2>1, <2>2 DEF Tabled, Cell
  <2> QED
    BY <1>3, <2>3, <2>4 DEF Listed
<1> QED
  BY <1>2, <1>3

LEMMA SameBuilt ==
    ASSUME UNCHANGED <<cols, data>>, NEW CONSTANT b, NEW CONSTANT c, NEW CONSTANT from,
           NEW CONSTANT n, Built(b, c, from, n)
    PROVE  Built(b, c, from, n)'
BY SameCells DEF Built, Builder, Element, isValid

(***************************************************************************)
(* A column without rows.                                                  *)
(***************************************************************************)
LEMMA NewIsBuilt ==
    ASSUME cols \in ColumnLists, NEW c \in Columns, NEW from
    PROVE  Built(newBuilder(cols[c].type), c, from, 0)
<1>1. cols[c].type \in {"integer", "number", "other"}
  BY ColumnsAssumption DEF Columns
<1>2. PICK k \in {"Int64", "NumberOptimal", "List"} :
         /\ newBuilder(cols[c].type) =
               [kind |-> k, list |-> <<>>, values |-> <<>>, validity |-> <<>>,
                row_count |-> 0, null_count |-> 0]
         /\ k # "List" => cols[c].type # "other"
  <2>1. CASE cols[c].type = "integer"
    BY <2>1 DEF newBuilder
  <2>2. CASE cols[c].type = "number"
    BY <2>2 DEF newBuilder
  <2>3. CASE cols[c].type = "other"
    BY <2>3 DEF newBuilder
  <2> QED
    BY <1>1, <2>1, <2>2, <2>3
<1> DEFINE b == [kind |-> k, list |-> <<>>, values |-> <<>>, validity |-> <<>>,
                 row_count |-> 0, null_count |-> 0]
<1>3. Builder(b)
  <2>1. <<>> \in Seq(Elements) /\ <<>> \in Seq(SUBSET Ones) /\ Len(<<>>) = 0
    OBVIOUS
  <2> QED
    BY <2>1 DEF Builder
<1>4. b.row_count = 0 /\ b.kind = k
  OBVIOUS
<1> HIDE DEF b
<1>5. Built(b, c, from, 0)
  BY <1>2, <1>3, <1>4 DEF Built
<1> QED
  BY <1>2, <1>5 DEF b

(***************************************************************************)
(* append() of the next row.                                               *)
(***************************************************************************)
LEMMA AppendIsBuilt ==
    ASSUME cols \in ColumnLists, data \in Seq(Classes), NEW c \in Columns,
           NEW from \in Nat, NEW n \in Nat, from + n + 1 <= Len(data),
           NEW b, Built(b, c, from, n)
    PROVE  Built(append(b, Cell(from + n + 1, c), data[from + n + 1]), c, from, n + 1)
<1> DEFINE r == from + n + 1
           a == append(b, Cell(r, c), data[r])
<1>1. r \in Nat /\ c \in Nat /\ data[r] \in Classes
  BY ColumnsAssumption DEF Columns
<1>2. Cell(r, c) \in Elements
  BY <1>1 DEF Cell, Elements
<1>3. b.kind # "List" /\ data[r] = "null" => Cell(r, c) = Null
  BY DEF Built, Cell
<1>4. Builder(b) /\ b.row_count = n
  BY DEF Built
<1> HIDE DEF r
<1>5. Extends(a, b, Cell(r, c))
  BY <1>1, <1>2, <1>3, <1>4, AppendExtends
<1> HIDE DEF a
<1>6. r = from + (n + 1)
  BY DEF r
<1>7. ASSUME NEW i \in 1..(n + 1)
      PROVE  Element(a, i) = Cell(from + i, c)
  <2>1. i \in 1..n \/ i = n + 1
    OBVIOUS
  <2>2. CASE i \in 1..n
    BY <1>4, <1>5, <2>2 DEF Extends, Built
  <2>3. CASE i = n + 1
    BY <1>4, <1>5, <1>6, <2>3 DEF Extends
  <2> QED
    BY <2>1, <2>2, <2>3
<1> QED
  BY <1>4, <1>5, <1>7 DEF Extends, Built, a, r

(***************************************************************************)
(* Every step keeps what is collected in order.                            *)
(***************************************************************************)
LEMMA CollectedStep == CursorInv /\ Collected /\ [Next]_vars => Collected'
<1> SUFFICES ASSUME CursorInv, Collected, [Next]_vars
             PROVE  Collected'
  OBVIOUS
<1> USE DEF Blocks, Idle, NoCall
<1>0. UNCHANGED <<cols, data>>
  BY DEF Next, exec, open, define, beginFetch, execWithPrologue, selectRow, fetchLoop,
     finishCall, fetchSingleRow, next, fetchRow, close, vars
<1>1. cols' \in ColumnLists /\ Columns' = Columns
  BY <1>0 DEF Collected, Columns
<1>2. CASE /\ call'.op = call.op /\ call'.value = call.value /\ call'.from = call.from
           /\ call'.n = call.n /\ call'.failed = call.failed
  <2>1. ASSUME NEW c \in Columns, Built(call.value[c], c, call.from, call.n)
        PROVE  Built(call.value[c], c, call.from, call.n)'
    BY <1>0, <1>2, <2>1 DEF Built, Builder, Element, isValid, Cell
  <2>2. ASSUME call.value = [i \in 1..call.n |-> rowHash(call.from + i)]
        PROVE  (call.value = [i \in 1..call.n |-> rowHash(call.from + i)])'
    <3>1. PICK f, n : f = call.from /\ n = call.n
      OBVIOUS
    <3>2. \A i \in 1..n : rowHash(f + i)' = rowHash(f + i)
      BY <1>0, SameRows
    <3>3. call'.from = f /\ call'.n = n /\ call'.value = call.value
      BY <1>2, <3>1
    <3>4. \A i : rowHash(call.from + i)' = rowHash(f + i)'
      BY <3>3
    <3> QED
      BY <2>2, <3>1, <3>2, <3>3, <3>4
  <2>3. rowHash(1)' = rowHash(1)
    BY <1>0, SameRows
  <2>4. ASSUME Listed(call.value, call.from, call.n)
        PROVE  Listed(call.value, call.from, call.n)'
    <3>1. PICK h, f, n : h = call.value /\ f = call.from /\ n = call.n
      OBVIOUS
    <3>2. Listed(h, f, n)'
      BY <1>0, <2>4, <3>1, SameListed
    <3> QED
      BY <1>2, <3>1, <3>2
  <2> QED
    <3>1. (call.op = "fetchColumnar" /\ ~call.failed =>
              \A c \in Columns : Built(call.value[c], c, call.from, call.n))'
      BY <1>1, <1>2, <2>1 DEF Collected
    <3>2. (call.op = "fetchRows" /\ ~call.failed =>
              call.value = [i \in 1..call.n |-> rowHash(call.from + i)])'
      BY <1>1, <1>2, <2>2 DEF Collected
    <3>3. (call.op = "selectRow" /\ call.n = 1 => call.value = rowHash(1))'
      BY <1>1, <1>2, <2>3 DEF Collected
    <3>4. (call.op = "fetchColumns" /\ ~call.failed =>
              Listed(call.value, call.from, call.n))'
      BY <1>2, <2>4 DEF Collected
    <3> QED
      BY <1>1, <3>1, <3>2, <3>3, <3>4 DEF Collected
<1>3. CASE call' = NoCall
  BY <1>1, <1>3 DEF Collected
<1>4. ASSUME NEW op \in Blocks, NEW rows, NEW from, NEW v,
             call' = [op |-> op, rows |-> rows, from |-> from, n |-> 0, value |-> v,
                      failed |-> FALSE, more |-> TRUE],
             op = "fetchColumnar" => v = [c \in Columns |-> newBuilder(cols[c].type)],
             op = "fetchRows" => v = <<>>,
             op = "fetchColumns" => v \in {<<>>, doColumns}
      PROVE  Collected'
  <2>1. /\ call'.op = op /\ call'.n = 0 /\ call'.from = from /\ call'.value = v
    BY <1>4
  <2>2. ASSUME op = "fetchColumnar", NEW c \in Columns
        PROVE  Built(v[c], c, from, 0)'
    <3>1. Built(v[c], c, from, 0)
      BY <1>4, <2>2, NewIsBuilt DEF Collected
    <3> QED
      BY <1>0, <3>1, SameBuilt
  <2>3. (call.op = "fetchColumnar" /\ ~call.failed =>
            \A c \in Columns : Built(call.value[c], c, call.from, call.n))'
    BY <1>1, <2>1, <2>2
  <2>4. (call.op = "fetchRows" /\ ~call.failed =>
            call.value = [i \in 1..call.n |-> rowHash(call.from + i)])'
    <3>1. <<>> = [i \in 1..0 |-> rowHash(from + i)']
      OBVIOUS
    <3> QED
      BY <1>4, <2>1, <3>1
  <2>5. (call.op = "fetchColumns" /\ ~call.failed =>
            Listed(call.value, call.from, call.n))'
    <3>1. doColumns' = doColumns
      BY <1>0 DEF doColumns, Columns
    <3> QED
      BY <1>4, <2>1, <3>1 DEF Listed
  <2> QED
    BY <1>1, <2>1, <2>3, <2>4, <2>5 DEF Collected
<1>5. CASE exec \/ define \/ next \/ fetchRow \/ close \/ UNCHANGED vars
  BY <1>2, <1>5 DEF exec, define, next, fetchRow, close, vars
<1>6. ASSUME NEW op \in Blocks, NEW rows \in Limits, beginFetch(op, rows)
      PROVE  Collected'
  BY <1>2, <1>4, <1>6 DEF beginFetch, newCall
<1>7. ASSUME NEW op \in Blocks, NEW columns \in BOOLEAN, execWithPrologue(op, columns)
      PROVE  Collected'
  <2> DEFINE v == CASE op = "fetchColumnar" -> [c \in Columns |-> newBuilder(cols[c].type)]
                    [] op = "fetchColumns" /\ columns -> doColumns
                    [] OTHER -> <<>>
  <2>1. call' = [op |-> op, rows |-> -1, from |-> 0, n |-> 0, value |-> v,
                 failed |-> FALSE, more |-> TRUE]
    BY <1>7 DEF execWithPrologue, newCall
  <2>2. /\ op = "fetchColumnar" => v = [c \in Columns |-> newBuilder(cols[c].type)]
        /\ op = "fetchRows" => v = <<>>
        /\ op = "fetchColumns" => v \in {<<>>, doColumns}
    OBVIOUS
  <2> HIDE DEF v
  <2> QED
    BY <1>4, <2>1, <2>2
<1>8. CASE selectRow
  <2>1. call'.op = "selectRow" /\ call'.n = 0
    BY <1>8 DEF selectRow, newCall
  <2> QED
    BY <1>1, <2>1 DEF Collected
<1>9. CASE fetchLoop
  <2>1. /\ call.op \in Blocks /\ CallParts /\ call.from \in Nat /\ call.n \in Nat
        /\ data \in Seq(Classes) /\ cursor \in Nat
        /\ ~call.failed => cursor = call.from + call.n
    BY <1>9 DEF fetchLoop, CursorInv, ResultInv, CallInv
  <2>2. CASE /\ fetchOk /\ ~call.failed
             /\ call' = [call EXCEPT !.value = pushRow(@, cursor'), !.n = @ + 1,
                                     !.more = below(call.n + 1)]
    <3>1. /\ cursor' = call.from + call.n + 1 /\ cursor' <= Len(data)
      BY <2>1, <2>2 DEF fetchOk
    <3> DEFINE v == pushRow(call.value, cursor')
    <3>2. /\ call'.op = call.op /\ call'.from = call.from /\ call'.n = call.n + 1
          /\ call'.value = v
      BY <2>1, <2>2 DEF CallParts
    <3> HIDE DEF v
    <3>3. ASSUME call.op = "fetchColumnar", NEW c \in Columns
          PROVE  Built(call.value[c], c, call.from, call.n)'
      <4>1. v[c] = append(call.value[c], Cell(cursor', c), data[cursor'])
        BY <3>3 DEF v, pushRow, appendAll
      <4>2. Built(v[c], c, call.from, call.n + 1)
        BY <2>1, <2>2, <3>1, <3>3, <4>1, AppendIsBuilt DEF Collected
      <4>3. PICK b, f, n : b = v[c] /\ f = call.from /\ n = call.n + 1
        OBVIOUS
      <4>4. Built(b, c, f, n)'
        BY <1>0, <4>2, <4>3, SameBuilt
      <4> QED
        BY <3>2, <4>3, <4>4
    <3>4. ASSUME call.op = "fetchRows"
          PROVE  (call.value = [i \in 1..call.n |-> rowHash(call.from + i)])'
      <4>1. PICK f, n : f = call.from /\ n = call.n
        OBVIOUS
      <4>2. v = Append([i \in 1..n |-> rowHash(f + i)], rowHash(f + n + 1))
        BY <2>2, <3>1, <3>4, <4>1 DEF v, pushRow, Collected
      <4>3. v = [i \in 1..(n + 1) |-> rowHash(f + i)]
        <5> DEFINE s == [i \in 1..n |-> rowHash(f + i)]
                   h == rowHash(f + n + 1)
        <5>1. n \in Nat /\ f + n + 1 = f + (n + 1)
          BY <2>1, <4>1
        <5>2. Append(s, h) = [i \in 1..(n + 1) |-> IF i = n + 1 THEN h ELSE s[i]]
          BY <5>1, RowAppended
        <5> QED
          BY <4>2, <5>1, <5>2
      <4>4. \A i : rowHash(f + i)' = rowHash(f + i)
        BY <1>0, SameRows
      <4>5. call'.value = v /\ call'.from = f /\ call'.n = n + 1
        BY <3>2, <4>1
      <4>6. \A i : rowHash(call.from + i)' = rowHash(f + i)'
        BY <4>5
      <4> QED
        BY <4>3, <4>4, <4>5, <4>6
    <3>5. (call.op = "fetchColumnar" /\ ~call.failed =>
              \A c \in Columns : Built(call.value[c], c, call.from, call.n))'
      BY <1>1, <3>2, <3>3
    <3>6. (call.op = "fetchRows" /\ ~call.failed =>
              call.value = [i \in 1..call.n |-> rowHash(call.from + i)])'
      BY <3>2, <3>4
    <3>7. ASSUME call.op = "fetchColumns"
          PROVE  Listed(call.value, call.from, call.n)'
      <4>1. PICK f, n : f = call.from /\ n = call.n
        OBVIOUS
      <4>2. v = pushColumns(call.value, f + n + 1)
        BY <3>1, <3>7, <4>1 DEF v, pushRow
      <4>3. Listed(v, f, n + 1)
        BY <2>1, <2>2, <3>7, <4>1, <4>2, RowIsListed DEF Collected
      <4>4. PICK h : h = v
        OBVIOUS
      <4>5. Listed(h, f, n + 1)'
        BY <1>0, <4>3, <4>4, SameListed
      <4>6. call'.value = h /\ call'.from = f /\ call'.n = n + 1
        BY <3>2, <4>1, <4>4
      <4> QED
        BY <4>5, <4>6
    <3>8. (call.op = "fetchColumns" /\ ~call.failed =>
              Listed(call.value, call.from, call.n))'
      BY <3>2, <3>7
    <3> QED
      BY <1>1, <2>1, <3>2, <3>5, <3>6, <3>8 DEF Collected
  <2>3. CASE call'.failed = TRUE /\ call'.op = call.op
    BY <1>1, <2>1, <2>3 DEF Collected
  <2>4. CASE call' = [call EXCEPT !.more = FALSE]
    BY <1>2, <2>1, <2>4 DEF CallParts
  <2>5. fetchRowFails \/ call' = [call EXCEPT !.failed = TRUE, !.more = FALSE] =>
           call'.failed = TRUE /\ call'.op = call.op
    BY <2>1 DEF fetchRowFails, CallParts
  <2> QED
    BY <1>9, <2>2, <2>3, <2>4, <2>5 DEF fetchLoop
<1>10. CASE finishCall
  BY <1>3, <1>10 DEF finishCall, endCall
<1>11. CASE fetchSingleRow
  <2>1. call.op = "selectRow" /\ CallParts /\ (call.n = 0 => cursor = 0)
    BY <1>11 DEF fetchSingleRow, CursorInv, ResultInv, CallInv
  <2>2. CASE fetchOk /\ call.n = 0 /\ call' = [call EXCEPT !.n = 1, !.value = rowHash(cursor')]
    <3>1. call'.op = "selectRow" /\ call'.value = rowHash(cursor')
      BY <2>1, <2>2 DEF CallParts
    <3>2. cursor' = 1
      BY <2>1, <2>2 DEF fetchOk
    <3>3. rowHash(1)' = rowHash(1)
      BY <1>0, SameRows
    <3>4. call'.value = rowHash(1)'
      BY <3>1, <3>2, <3>3
    <3> QED
      BY <1>1, <3>1, <3>4 DEF Collected
  <2> QED
    BY <1>3, <1>11, <2>2 DEF fetchSingleRow, endCall
<1> QED
  BY <1>5, <1>6, <1>7, <1>8, <1>9, <1>10, <1>11 DEF Next

(***************************************************************************)
(* And so does every answer.                                               *)
(***************************************************************************)
LEMMA AnswersStep ==
    ASSUME ~EmptyReads, CursorInv, Collected, AnswersAreInOrder, [Next]_vars
    PROVE  AnswersAreInOrder'
<1> USE DEF Blocks, Idle, NoCall
<1>0. UNCHANGED <<cols, data>>
  BY DEF Next, exec, open, define, beginFetch, execWithPrologue, selectRow, fetchLoop,
     finishCall, fetchSingleRow, next, fetchRow, close, vars
<1>1. Columns' = Columns
  BY <1>0 DEF Columns
<1> DEFINE Row(o) == o.kind \in {"fetchRow", "selectRow"} /\ o.count = 1
           Rows(o) == o.kind = "fetchRows"
           Lists(o) == o.kind = "fetchColumns" /\ o.count > 0
           Table(o) == o.kind = "fetchColumnar" /\ o.count > 0
<1>2. ASSUME NEW kind, NEW from, NEW count, NEW value,
             out' = Answer(kind, from, count, value), count \in Nat,
             kind \in {"fetchRow", "selectRow"} /\ count = 1 => value = rowHash(from + 1),
             kind = "fetchRows" => value = [i \in 1..count |-> rowHash(from + i)],
             kind = "fetchColumns" /\ count > 0 => Listed(value, from, count),
             kind = "fetchColumnar" /\ count > 0 =>
                \E v : /\ value = columnarResult(v)
                       /\ \A c \in Columns :
                             finish(v[c]) = [i \in 1..count |-> Cell(from + i, c)]
      PROVE  AnswersAreInOrder'
  <2>1. /\ out'.kind = kind /\ out'.from = from /\ out'.count = count /\ out'.value = value
    BY <1>2 DEF Answer
  <2>2. \A r : rowHash(r)' = rowHash(r)
    BY <1>0, SameRows
  <2>3. Row(out)' => (out.value = rowHash(out.from + 1))'
    <3>1. rowHash(out.from + 1)' = rowHash(from + 1)'
      BY <2>1
    <3> QED
      BY <1>2, <2>1, <2>2, <3>1
  <2>4. Rows(out)' => (out.value = [i \in 1..out.count |-> rowHash(out.from + i)])'
    <3>1. \A i : rowHash(out.from + i)' = rowHash(from + i)'
      BY <2>1
    <3> QED
      BY <1>2, <2>1, <2>2, <3>1
  <2>5. ASSUME Table(out)'
        PROVE  (\E v : /\ out.value = columnarResult(v)
                       /\ \A c \in Columns : finish(v[c]) = ColumnOf(out, c))'
    <3>1. PICK v : /\ value = columnarResult(v)
                   /\ \A c \in Columns :
                         finish(v[c]) = [i \in 1..count |-> Cell(from + i, c)]
      BY <1>2, <2>1, <2>5
    <3>2. columnarResult(v)' = columnarResult(v)
      BY <1>0, SameColumns
    <3>3. ASSUME NEW c \in Columns
          PROVE  finish(v[c])' = ColumnOf(out, c)'
      <4>1. ColumnOf(out, c)' = [i \in 1..count |-> Cell(from + i, c)]
        BY <1>0, <2>1 DEF ColumnOf, Cell
      <4>2. finish(v[c])' = finish(v[c])
        BY DEF finish, isValid
      <4> QED
        BY <3>1, <4>1, <4>2
    <3> QED
      BY <1>1, <2>1, <3>1, <3>2, <3>3
  <2>6. Lists(out)' => Listed(out.value, out.from, out.count)'
    <3>1. ASSUME Listed(value, from, count)
          PROVE  Listed(value, from, count)'
      BY <1>0, <3>1, SameListed
    <3> QED
      BY <1>2, <2>1, <3>1
  <2> QED
    BY <1>2, <2>1, <2>3, <2>4, <2>5, <2>6 DEF AnswersAreInOrder
<1>3. CASE UNCHANGED out
  <2>1. \A r : rowHash(r)' = rowHash(r)
    BY <1>0, SameRows
  <2>2. PICK f : f = out.from
    OBVIOUS
  <2>3. Row(out)' => (out.value = rowHash(out.from + 1))'
    <3>1. rowHash(out.from + 1)' = rowHash(f + 1)'
      BY <1>3, <2>2
    <3> QED
      BY <1>3, <2>1, <2>2, <3>1 DEF AnswersAreInOrder
  <2>4. Rows(out)' => (out.value = [i \in 1..out.count |-> rowHash(out.from + i)])'
    <3>1. \A i : rowHash(out.from + i)' = rowHash(f + i)'
      BY <1>3, <2>2
    <3> QED
      BY <1>3, <2>1, <2>2, <3>1 DEF AnswersAreInOrder
  <2>5. ASSUME Table(out)'
        PROVE  (\E v : /\ out.value = columnarResult(v)
                       /\ \A c \in Columns : finish(v[c]) = ColumnOf(out, c))'
    <3>1. PICK v : /\ out.value = columnarResult(v)
                   /\ \A c \in Columns : finish(v[c]) = ColumnOf(out, c)
      BY <1>3, <2>5 DEF AnswersAreInOrder
    <3>2. columnarResult(v)' = columnarResult(v)
      BY <1>0, SameColumns
    <3>3. ASSUME NEW c \in Columns
          PROVE  finish(v[c])' = ColumnOf(out, c)'
      <4>1. ColumnOf(out, c)' = ColumnOf(out, c)
        BY <1>0, <1>3 DEF ColumnOf, Cell
      <4>2. finish(v[c])' = finish(v[c])
        BY DEF finish, isValid
      <4> QED
        BY <3>1, <4>1, <4>2
    <3> QED
      BY <1>1, <1>3, <3>1, <3>2, <3>3
  <2>6. Lists(out)' => Listed(out.value, out.from, out.count)'
    <3>1. PICK h, g, n : h = out.value /\ g = out.from /\ n = out.count
      OBVIOUS
    <3>2. Listed(h, g, n) => Listed(h, g, n)'
      BY <1>0, SameListed
    <3> QED
      BY <1>3, <3>1, <3>2 DEF AnswersAreInOrder
  <2> QED
    BY <1>3, <2>3, <2>4, <2>5, <2>6 DEF AnswersAreInOrder
<1>4. CASE out'.kind \in {"failed", "refused", "none", "next"} /\ out'.count \in Nat
  BY <1>4 DEF AnswersAreInOrder
<1>5. /\ Failed.kind = "failed" /\ Refused.kind = "refused" /\ NoAnswer.kind = "none"
      /\ Failed.count = 0 /\ Refused.count = 0 /\ NoAnswer.count = 0
  BY DEF Answer, Failed, Refused, NoAnswer
<1>6. CASE \/ exec \/ selectRow
           \/ \E op \in Blocks, columns \in BOOLEAN : execWithPrologue(op, columns)
  <2>1. out' = NoAnswer
    BY <1>6 DEF exec, selectRow, execWithPrologue, open
  <2>2. out'.kind = "none" /\ out'.count = 0
    BY <1>5, <2>1
  <2> QED
    BY <1>4, <2>2
<1>7. CASE define \/ fetchLoop \/ close \/ UNCHANGED vars
  <2>1. UNCHANGED out \/ out' = Failed
    BY <1>7 DEF define, fetchLoop, close, vars
  <2> QED
    BY <1>3, <1>4, <1>5, <2>1
<1>8. CASE next
  <2>1. CASE out' = Failed
    BY <1>4, <1>5, <2>1
  <2>2. CASE out' = Answer("next", cursor, 1, TRUE)
    <3>1. out'.kind = "next" /\ out'.count = 1
      BY <2>2 DEF Answer
    <3> QED
      BY <1>4, <3>1
  <2>3. CASE out' = Answer("next", cursor, 0, FALSE)
    <3>1. out'.kind = "next" /\ out'.count = 0
      BY <2>3 DEF Answer
    <3> QED
      BY <1>4, <3>1
  <2> QED
    BY <1>8, <2>1, <2>2, <2>3 DEF next
<1>9. ASSUME NEW op \in Blocks, NEW rows \in Limits, beginFetch(op, rows)
      PROVE  AnswersAreInOrder'
  <2>1. CASE UNCHANGED out \/ out' = Failed \/ out' = Refused
    BY <1>3, <1>4, <1>5, <2>1
  <2>2. CASE out' = Answer(op, cursor, 0, <<>>)
    <3>1. <<>> = [i \in 1..0 |-> rowHash(cursor + i)]
      OBVIOUS
    <3>2. op \notin {"fetchRow", "selectRow"} /\ ~(0 > 0)
      OBVIOUS
    <3> QED
      BY <1>2, <2>2, <3>1, <3>2, Zenon
  <2> QED
    BY <1>9, <2>1, <2>2 DEF beginFetch
<1>10. CASE finishCall
  <2>1. CASE out' = Failed
    BY <1>4, <1>5, <2>1
  <2>2. CASE ~call.failed /\ out' = Answer(call.op, call.from, call.n, result)
    <3>1. call.op \in Blocks
      BY <1>10 DEF finishCall
    <3>2. call.op = "fetchRows" => result = [i \in 1..call.n |-> rowHash(call.from + i)]
      BY <2>2 DEF result, Collected
    <3>3. ASSUME call.op = "fetchColumnar"
          PROVE  /\ result = columnarResult(call.value)
                 /\ \A c \in Columns : finish(call.value[c]) =
                       [i \in 1..call.n |-> Cell(call.from + i, c)]
      <4>1. ASSUME NEW c \in Columns
            PROVE  finish(call.value[c]) = [i \in 1..call.n |-> Cell(call.from + i, c)]
        <5>1. Built(call.value[c], c, call.from, call.n)
          BY <2>2, <3>3 DEF Collected
        <5>2. finish(call.value[c]) = [i \in 1..call.n |-> Element(call.value[c], i)]
          BY <5>1, FinishGivesElements DEF Built
        <5> QED
          BY <5>1, <5>2 DEF Built
      <4> QED
        BY <3>3, <4>1 DEF result
    <3>4. call.op = "fetchColumns" => Listed(result, call.from, call.n)
      BY <2>2 DEF result, Collected
    <3>5. call.n \in Nat
      BY <3>1 DEF CursorInv, CallInv
    <3> HIDE DEF result
    <3> QED
      BY <1>2, <2>2, <3>1, <3>2, <3>3, <3>4, <3>5
  <2> QED
    BY <1>10, <2>1, <2>2 DEF finishCall
<1>11. CASE fetchSingleRow
  <2>1. CASE UNCHANGED out \/ out' = Failed
    BY <1>3, <1>4, <1>5, <2>1
  <2>2. CASE out' = Answer("selectRow", 0, call.n, call.value)
    <3>1. call.n = 1 => call.value = rowHash(0 + 1)
      BY <1>11 DEF fetchSingleRow, Collected
    <3>2. call.n \in Nat
      BY <1>11 DEF fetchSingleRow, CursorInv, CallInv
    <3> QED
      BY <1>2, <2>2, <3>1, <3>2
  <2> QED
    BY <1>11, <2>1, <2>2 DEF fetchSingleRow
<1>12. CASE fetchRow
  <2>1. CASE out' = Failed
    BY <1>4, <1>5, <2>1
  <2>2. CASE out' = Answer("fetchRow", cursor - 1, 1, rowHash(cursor))
    <3>1. (cursor - 1) + 1 = cursor
      BY DEF CursorInv, ResultInv
    <3> QED
      BY <1>2, <2>2, <3>1
  <2> QED
    BY <1>12, <2>1, <2>2 DEF fetchRow
<1> QED
  BY <1>6, <1>7, <1>8, <1>9, <1>10, <1>11, <1>12 DEF Next

-----------------------------------------------------------------------------
(***************************************************************************)
(* What is collected and what was answered keep their order.               *)
(***************************************************************************)
LEMMA OrderHolds ==
    ASSUME ~EmptyReads
    PROVE  Spec => [](Collected /\ AnswersAreInOrder)
<1>1. Init => Collected /\ AnswersAreInOrder
  BY DEF Init, Collected, AnswersAreInOrder, NoCall, NoAnswer, Answer
<1>2. CursorInv /\ Collected /\ AnswersAreInOrder /\ [Next]_vars =>
         Collected' /\ AnswersAreInOrder'
  BY CollectedStep, AnswersStep
<1> QED
  BY <1>1, <1>2, CursorInvHolds, PTL DEF Spec

(***************************************************************************)
(* Every answer is made of the rows it stands for, in their order, none    *)
(* twice and none left out, for every result, limit and select list: the   *)
(* hashes of fetchRow(), fetchRows() and selectRow(), the lists of         *)
(* fetchColumns(), and the columns that the builders of fetchColumnar()    *)
(* finish, NULLs and the change of a NUMBER column to a list included.     *)
(***************************************************************************)
THEOREM AnswersKeepTheOrder ==
    ASSUME ~EmptyReads
    PROVE  Spec => []AnswersAreInOrder
BY OrderHolds, PTL

(***************************************************************************)
(* The hash of a row holds its values.                                     *)
(***************************************************************************)
LEMMA HashHolds ==
    ASSUME cols \in ColumnLists, NEW r
    PROVE  Held(rowHash(r), [c \in Columns |-> Cell(r, c)])
<1>1. PICK key : /\ Keys(key)
                 /\ DOMAIN rowHash(r) = {key[c] : c \in Columns}
                 /\ \A c \in Columns : rowHash(r)[key[c]] = Cell(r, c)
  BY RowHasItsKeys
<1> DEFINE f == [c \in Columns |-> Cell(r, c)]
<1>2. Named(key)
  BY <1>1, KeysAreNew
<1>3. \A c \in Columns : rowHash(r)[key[c]] = f[c]
  BY <1>1
<1> HIDE DEF f
<1>4. Held(rowHash(r), f)
  BY <1>1, <1>2, <1>3, NamedAreHeld
<1> QED
  BY <1>4 DEF f

(***************************************************************************)
(* So do the lists of fetchColumns().                                      *)
(***************************************************************************)
LEMMA ListsHold ==
    ASSUME cols \in ColumnLists, out.count # 0, Listed(out.value, out.from, out.count)
    PROVE  HoldsColumns(out.value, LAMBDA c : ColumnOf(out, c))
<1>1. PICK key : Keys(key) /\ Tabled(out.value, key, out.from, out.count)
  BY DEF Listed
<1> DEFINE f == [c \in Columns |-> ColumnOf(out, c)]
<1>2. Named(key)
  BY <1>1, KeysAreNew
<1>3. /\ DOMAIN out.value = {key[c] : c \in Columns}
      /\ \A c \in Columns : out.value[key[c]] = f[c]
  BY <1>1 DEF Tabled, ColumnOf
<1> HIDE DEF f
<1>4. Held(out.value, f)
  BY <1>2, <1>3, NamedAreHeld
<1>5. \A c \in Columns : f[c] = ColumnOf(out, c)
  BY DEF f
<1> QED
  BY <1>4, <1>5 DEF Held, HoldsColumns

(***************************************************************************)
(* An answer has every column of the select list under a key of its own,   *)
(* and under it the values of its rows, for every select list, result and  *)
(* order of the calls.                                                     *)
(***************************************************************************)
THEOREM RowsAreUnderTheirKeys ==
    ASSUME ~EmptyReads
    PROVE  Spec => []AnswersHoldTheirRows
<1>1. Collected /\ AnswersAreInOrder => AnswersHoldTheirRows
  <2> SUFFICES ASSUME Collected, AnswersAreInOrder
               PROVE  AnswersHoldTheirRows
    OBVIOUS
  <2>1. cols \in ColumnLists /\ out.count \in Nat
    BY DEF Collected, AnswersAreInOrder
  <2>2. ASSUME out.kind \in {"fetchRow", "selectRow"}, out.count = 1
        PROVE  HoldsColumns(out.value, LAMBDA c : Cell(out.from + 1, c))
    <3>1. out.value = rowHash(out.from + 1)
      BY <2>2 DEF AnswersAreInOrder
    <3>2. PICK f : f = [c \in Columns |-> Cell(out.from + 1, c)]
      OBVIOUS
    <3>3. Held(out.value, f) /\ \A c \in Columns : f[c] = Cell(out.from + 1, c)
      BY <2>1, <3>1, <3>2, HashHolds
    <3> QED
      BY <3>3 DEF Held, HoldsColumns
  <2>3. ASSUME out.kind = "fetchRows"
        PROVE  /\ Len(out.value) = out.count
               /\ \A i \in 1..out.count :
                     HoldsColumns(out.value[i], LAMBDA c : Cell(out.from + i, c))
    <3>1. out.value = [i \in 1..out.count |-> rowHash(out.from + i)]
      BY <2>3 DEF AnswersAreInOrder
    <3>2. Len(out.value) = out.count
      BY <2>1, <3>1
    <3>3. ASSUME NEW i \in 1..out.count
          PROVE  HoldsColumns(out.value[i], LAMBDA c : Cell(out.from + i, c))
      <4>1. PICK f : f = [c \in Columns |-> Cell(out.from + i, c)]
        OBVIOUS
      <4>2. out.value[i] = rowHash(out.from + i)
        BY <3>1
      <4>3. Held(out.value[i], f) /\ \A c \in Columns : f[c] = Cell(out.from + i, c)
        BY <2>1, <4>1, <4>2, HashHolds
      <4> QED
        BY <4>3 DEF Held, HoldsColumns
    <3> QED
      BY <3>2, <3>3
  <2>4. ASSUME out.kind = "fetchColumns", out.count > 0
        PROVE  HoldsColumns(out.value, LAMBDA c : ColumnOf(out, c))
    <3>1. out.count # 0 /\ Listed(out.value, out.from, out.count)
      BY <2>4 DEF AnswersAreInOrder
    <3> QED
      BY <2>1, <3>1, ListsHold
  <2> QED
    BY <2>2, <2>3, <2>4 DEF AnswersHoldTheirRows
<1> QED
  BY <1>1, OrderHolds, PTL

(***************************************************************************)
(* So does a columnar result, each column under its unique name, for every *)
(* select list in which no name is the name of another with a suffix.      *)
(***************************************************************************)
THEOREM ColumnsAreUnderTheirNames ==
    ASSUME ~EmptyReads
    PROVE  Spec => []ColumnarHoldsItsRows
<1>1. Collected /\ AnswersAreInOrder => ColumnarHoldsItsRows
  <2> SUFFICES ASSUME Collected, AnswersAreInOrder,
                      out.kind = "fetchColumnar", out.count > 0, NoClash
               PROVE  HoldsColumns(out.value, LAMBDA c : ColumnOf(out, c))
    BY DEF ColumnarHoldsItsRows
  <2>0. PICK key, f : /\ key = [c \in Columns |-> columnarUniqueName(c)]
                      /\ f = [c \in Columns |-> ColumnOf(out, c)]
    OBVIOUS
  <2>1. cols \in ColumnLists
    BY DEF Collected
  <2>2. PICK v : /\ out.value = columnarResult(v)
                 /\ \A c \in Columns : finish(v[c]) = ColumnOf(out, c)
    BY DEF AnswersAreInOrder
  <2>3. Named(key)
    BY <2>0, <2>1, UniqueNames
  <2>4. /\ DOMAIN out.value = {key[c] : c \in Columns}
        /\ \A c \in Columns : out.value[key[c]] = finish(v[c])
    <3>1. \A c \in Columns : key[c] = columnarUniqueName(c)
      BY <2>0
    <3>2. /\ DOMAIN columnarResult(v) = {key[c] : c \in Columns}
          /\ \A c \in Columns : columnarResult(v)[key[c]] = finish(v[c])
      BY <2>1, <2>3, <3>1, ResultHasItsColumns
    <3> QED
      BY <2>2, <3>2, Zenon
  <2>5. \A c \in Columns : out.value[key[c]] = f[c]
    BY <2>0, <2>2, <2>4
  <2>6. Held(out.value, f)
    BY <2>1, <2>3, <2>4, <2>5, NamedAreHeld
  <2>7. \A c \in Columns : f[c] = ColumnOf(out, c)
    BY <2>0
  <2> QED
    BY <2>6, <2>7 DEF Held, HoldsColumns
<1> QED
  BY <1>1, OrderHolds, PTL
=============================================================================
