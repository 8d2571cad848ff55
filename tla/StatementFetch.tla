--------------------------- MODULE StatementFetch ---------------------------
(***************************************************************************)
(* Fetching the result of a select statement (QoreOracleStatement.cpp and  *)
(* QorePreparedStatement.cpp): an SQLStatement is executed, defined and    *)
(* read with next(), fetchRow(), fetchRows(), fetchColumns() and           *)
(* fetchColumnar() in any order until it is closed; the one-shot calls     *)
(* (select(), selectRows(), selectColumnar() and selectRow()) do the same  *)
(* with a statement of their own.                                          *)
(*                                                                         *)
(* A column name is a sequence, so that a suffix can be appended; a value  *)
(* is the pair of its row and its column.  One thread uses the statement.  *)
(***************************************************************************)
EXTENDS Integers, FiniteSets, FiniteSetsExt, SequencesExt, ColumnarBuilder

CONSTANTS
    ColumnLists,    \* the select lists: sequences of names and types
    MaxRows,        \* the most rows of a result
    Limits,         \* the numbers of rows given to the fetch calls
    CancelEvery,    \* the rows between two checks for a cancellation
    EmptyReads      \* fetchRow() is called after an empty first block

ASSUME CancelAssumption == CancelEvery \in Nat \ {0}
ASSUME SizeAssumption == MaxRows \in Nat /\ Limits \subseteq Int
ASSUME ColumnsAssumption ==
    \A list \in ColumnLists :
        /\ list \in Seq(Range(list)) /\ list # <<>>
        /\ \A c \in DOMAIN list :
              /\ list[c].name \in Seq(Range(list[c].name))
              /\ list[c].type \in {"integer", "number", "other"}

VARIABLES
    cols, data,     \* the select list and the result: a class for each row
    status,         \* the state of the SQLStatement
    defined,        \* QorePreparedStatement::defined
    cursor,         \* the number of the row in the define buffers
    fetch_done, fetch_complete, fetch_warned,
    call,           \* the fetch call that is running
    out             \* the answer of the last call

flags == <<fetch_done, fetch_complete, fetch_warned>>
vars == <<cols, data, status, defined, cursor, fetch_done, fetch_complete,
          fetch_warned, call, out>>

Columns == DOMAIN cols
Blocks == {"fetchRows", "fetchColumns", "fetchColumnar"}
NoCall == [op |-> "none"]
Idle == call.op = "none"

Answer(kind, from, count, value) ==
    [kind |-> kind, from |-> from, count |-> count, value |-> value]
Failed == Answer("failed", 0, 0, <<>>)
Refused == Answer("refused", 0, 0, <<>>)
NoAnswer == Answer("none", 0, 0, <<>>)

(***************************************************************************)
(* The value of a column of a row.                                         *)
(***************************************************************************)
Cell(r, c) == IF cols[c].type # "other" /\ data[r] = "null" THEN Null ELSE <<r, c>>

-----------------------------------------------------------------------------
(***************************************************************************)
(* Names: a duplicated column is renamed with a suffix.                    *)
(***************************************************************************)
Suffixed(name, num) == Append(name, num)

FirstFree(name, taken) ==
    Suffixed(name, Min({num \in 1..Len(cols) : Suffixed(name, num) \notin taken}))

With(h, key, value) ==
    [k \in DOMAIN h \cup {key} |-> IF k = key THEN value ELSE h[k]]

(***************************************************************************)
(* fetchRow(): the hash of the row in the define buffers.                  *)
(***************************************************************************)
rowKey(h, name) ==
    IF name \notin DOMAIN h THEN name
    ELSE FirstFree(name, DOMAIN h)

rowHash(r) ==
    LET assign[c \in 0..Len(cols)] ==
            IF c = 0 THEN <<>>
            ELSE LET h == assign[c - 1]
                 IN  With(h, rowKey(h, cols[c].name), Cell(r, c))
    IN  assign[Len(cols)]

(***************************************************************************)
(* fetchColumns(): a hash of lists.  A list that already has the value of  *)
(* this row belongs to an earlier column of the same name.                 *)
(***************************************************************************)
doColumns == [key \in {cols[c].name : c \in Columns} |-> <<>>]

\* mutation: the first suffix is taken whatever its list has
columnKey_TakesAny(h, c, csize) ==
    IF c = 1 \/ Len(h[cols[c].name]) <= csize THEN cols[c].name
    ELSE FirstFree(cols[c].name, {})

columnKey(h, c, csize) ==
    IF c = 1 \/ Len(h[cols[c].name]) <= csize THEN cols[c].name
    ELSE FirstFree(cols[c].name, {key \in DOMAIN h : Len(h[key]) # csize})

pushColumns(hash, r) ==
    LET start == IF hash = <<>> THEN doColumns ELSE hash
        csize == Len(start[cols[1].name])
        push[c \in 0..Len(cols)] ==
            IF c = 0 THEN start
            ELSE LET h == push[c - 1]
                     key == columnKey(h, c, csize)
                     list == IF key \in DOMAIN h THEN h[key] ELSE <<>>
                 IN  With(h, key, Append(list, Cell(r, c)))
    IN  push[Len(cols)]

(***************************************************************************)
(* fetchColumnar(): one builder for each column, named when the call       *)
(* begins; the result is the hash of the finished columns.                 *)
(***************************************************************************)
columnarUniqueName(c) ==
    LET index == Cardinality({d \in 1..(c - 1) : cols[d].name = cols[c].name})
    IN  IF index = 0 THEN cols[c].name ELSE Suffixed(cols[c].name, index)

appendAll(builders, r) ==
    [c \in Columns |-> append(builders[c], Cell(r, c), data[r])]

columnarResult(builders) ==
    LET set[c \in 0..Len(cols)] ==
            IF c = 0 THEN <<>>
            ELSE With(set[c - 1], columnarUniqueName(c), finish(builders[c]))
    IN  set[Len(cols)]

-----------------------------------------------------------------------------
Init ==
    /\ cols \in ColumnLists /\ data \in BoundedSeq(Classes, MaxRows)
    /\ status = "prepared" /\ defined = FALSE /\ cursor = 0
    /\ fetch_done = FALSE /\ fetch_complete = FALSE /\ fetch_warned = FALSE
    /\ call = NoCall /\ out = NoAnswer

(***************************************************************************)
(* A new statement is executed.                                            *)
(***************************************************************************)
open ==
    /\ Idle /\ status = "prepared"
    /\ cursor' = 0 /\ defined' = FALSE
    /\ fetch_done' = FALSE /\ fetch_complete' = FALSE /\ fetch_warned' = FALSE
    /\ out' = NoAnswer
    /\ UNCHANGED <<cols, data>>

exec == open /\ status' = "executed" /\ UNCHANGED call

(***************************************************************************)
(* define(), called by the SQLStatement before the first fetch; a failed   *)
(* one cannot be repeated.  The description of the select list, which is   *)
(* read from the statement handle, does not fail here.                     *)
(***************************************************************************)
define ==
    /\ Idle /\ status = "executed"
    /\ defined' = TRUE
    /\ \/ ~defined /\ status' = "defined" /\ UNCHANGED out
       \/ status' = status /\ out' = Failed
    /\ UNCHANGED <<cols, data, cursor, flags, call>>

(***************************************************************************)
(* A fetch call of a block of rows: more is set until its loop ends.       *)
(***************************************************************************)
newCall(op, rows, value) ==
    [op |-> op, rows |-> rows, from |-> cursor, n |-> 0, value |-> value,
     failed |-> FALSE, more |-> TRUE]

beginFetch(op, rows) ==
    /\ Idle /\ status = "defined"
    /\ \/ fetch_warned /\ out' = Refused /\ UNCHANGED <<fetch_warned, call>>
       \/ /\ ~fetch_warned /\ fetch_complete
          /\ fetch_warned' = TRUE
          /\ out' = Answer(op, cursor, 0, <<>>)
          /\ UNCHANGED call
       \/ /\ ~fetch_warned /\ ~fetch_complete
          /\ \/ out' = Failed /\ UNCHANGED call  \* setPrefetch()
             \/ /\ call' = newCall(op, rows,
                       IF op = "fetchColumnar"
                       THEN [c \in Columns |-> newBuilder(cols[c].type)] ELSE <<>>)
                /\ UNCHANGED out
          /\ UNCHANGED fetch_warned
    /\ UNCHANGED <<cols, data, status, defined, cursor, fetch_done, fetch_complete>>

(***************************************************************************)
(* execWithPrologue(): the statement is executed and all of its rows are   *)
(* fetched.  selectRow() fetches the only row.                             *)
(***************************************************************************)
execWithPrologue(op, columns) ==
    /\ open
    /\ status' = "helper"
    /\ call' = [newCall(op, -1,
                   CASE op = "fetchColumnar" ->
                            [c \in Columns |-> newBuilder(cols[c].type)]
                     [] op = "fetchColumns" /\ columns -> doColumns
                     [] OTHER -> <<>>) EXCEPT !.from = 0]

selectRow ==
    /\ open
    /\ status' = "helper"
    /\ call' = [newCall("selectRow", 1, <<>>) EXCEPT !.from = 0]

-----------------------------------------------------------------------------
(***************************************************************************)
(* The outcomes of fetch(): a row, the end of the data, or an error, which *)
(* closes the statement if the connection was lost.                        *)
(***************************************************************************)
fetchOk ==
    /\ cursor < Len(data)
    /\ cursor' = cursor + 1
    /\ fetch_done' = TRUE

noData == cursor = Len(data) /\ UNCHANGED <<cursor, fetch_done>>

fetchFails == UNCHANGED <<cursor, fetch_done>>

loseStatement ==
    status' \in {status, IF status = "helper" THEN status ELSE "lost"}

pushRow(value, r) ==
    CASE call.op = "fetchRows"     -> Append(value, rowHash(r))
      [] call.op = "fetchColumns"  -> pushColumns(value, r)
      [] call.op = "fetchColumnar" -> appendAll(value, r)

below(n) == call.rows <= 0 \/ n < call.rows

(***************************************************************************)
(* One turn of the loop of a fetch call.  A value that cannot be converted *)
(* ends fetchRows() and fetchColumnar() at once; fetchColumns() goes on    *)
(* and drops the rows that follow.                                         *)
(***************************************************************************)
fetchRowFails ==
    \/ /\ call.op # "fetchColumns" /\ call.n % CancelEvery = 0  \* cancelled
       /\ call' = [call EXCEPT !.failed = TRUE, !.more = FALSE]
    \/ call' = [call EXCEPT !.failed = TRUE, !.n = @ + 1,
                            !.more = call.op = "fetchColumns" /\ below(call.n + 1)]

\* mutation: the limit is tested after the next row was fetched
fetchLoop_OneTooMany ==
    /\ call.op \in Blocks /\ call.more
    /\ \/ /\ fetchOk /\ UNCHANGED status
          /\ ~call.failed
          /\ call' = IF below(call.n)
                     THEN [call EXCEPT !.value = pushRow(@, cursor'), !.n = @ + 1]
                     ELSE [call EXCEPT !.more = FALSE]
       \/ fetchOk /\ fetchRowFails /\ UNCHANGED status
       \/ /\ noData /\ UNCHANGED status
          /\ call' = [call EXCEPT !.more = FALSE]
       \/ /\ fetchFails /\ loseStatement
          /\ call' = [call EXCEPT !.failed = TRUE, !.more = FALSE]
    /\ UNCHANGED <<cols, data, defined, fetch_complete, fetch_warned, out>>

fetchLoop ==
    /\ call.op \in Blocks /\ call.more
    /\ \/ /\ fetchOk /\ UNCHANGED status
          /\ ~call.failed
          /\ call' = [call EXCEPT !.value = pushRow(@, cursor'), !.n = @ + 1,
                                  !.more = below(call.n + 1)]
       \/ fetchOk /\ fetchRowFails /\ UNCHANGED status
       \/ /\ noData /\ UNCHANGED status
          /\ call' = [call EXCEPT !.more = FALSE]
       \/ /\ fetchFails /\ loseStatement
          /\ call' = [call EXCEPT !.failed = TRUE, !.more = FALSE]
    /\ UNCHANGED <<cols, data, defined, fetch_complete, fetch_warned, out>>

(***************************************************************************)
(* The end of a fetch call.  The columns of a columnar result are finished *)
(* after the flags are set.                                                *)
(***************************************************************************)
result == IF call.op = "fetchColumnar" THEN columnarResult(call.value) ELSE call.value

endCall ==
    /\ call' = NoCall
    /\ status' = IF status = "helper" THEN "prepared" ELSE status

\* mutation: a full block ends the result
complete_Full == fetch_complete \/ call.n <= call.rows

complete == fetch_complete \/ call.n < call.rows

finishCall ==
    /\ call.op \in Blocks /\ ~call.more
    /\ \/ call.failed /\ out' = Failed /\ UNCHANGED <<fetch_done, fetch_complete>>
       \/ /\ ~call.failed
          /\ fetch_done' = TRUE
          /\ fetch_complete' = complete
          /\ \/ out' = Answer(call.op, call.from, call.n, result)
             \/ call.op = "fetchColumnar" /\ out' = Failed
    /\ endCall
    /\ UNCHANGED <<cols, data, defined, cursor, fetch_warned>>

(***************************************************************************)
(* fetchSingleRow(): the row, and a second fetch that has to find none.    *)
(***************************************************************************)
fetchSingleRow ==
    /\ call.op = "selectRow"
    /\ \/ /\ fetchOk /\ call.n = 0
          /\ call' = [call EXCEPT !.n = 1, !.value = rowHash(cursor')]
          /\ UNCHANGED <<status, out>>
       \/ /\ fetchOk  \* its conversion fails, or it is a second row
          /\ out' = Failed /\ endCall
       \/ /\ fetchFails
          /\ out' = Failed /\ endCall
       \/ /\ noData
          /\ out' = Answer("selectRow", 0, call.n, call.value) /\ endCall
    /\ UNCHANGED <<cols, data, defined, fetch_complete, fetch_warned>>

-----------------------------------------------------------------------------
(***************************************************************************)
(* SQLStatement::next() and fetchRow().  After an empty first block        *)
(* fetch_done is set and the define buffers hold no row: what fetchRow()   *)
(* then returns is undefined.                                              *)
(***************************************************************************)
next ==
    /\ Idle /\ status = "defined"
    /\ \/ fetchOk /\ out' = Answer("next", cursor, 1, TRUE) /\ UNCHANGED status
       \/ noData /\ out' = Answer("next", cursor, 0, FALSE) /\ UNCHANGED status
       \/ fetchFails /\ out' = Failed /\ loseStatement
    /\ UNCHANGED <<cols, data, defined, fetch_complete, fetch_warned, call>>

fetchRow ==
    /\ Idle /\ status = "defined"
    /\ \/ ~fetch_done /\ out' = Failed
       \/ /\ fetch_done
          /\ cursor > 0 \/ EmptyReads
          /\ out' \in {Failed, IF cursor > 0
                              THEN Answer("fetchRow", cursor - 1, 1, rowHash(cursor))
                              ELSE Answer("fetchRow", 0, 1, "undefined")}
    /\ UNCHANGED <<cols, data, status, defined, cursor, flags, call>>

(***************************************************************************)
(* close(): the statement is reset and deleted.                            *)
(***************************************************************************)
close ==
    /\ Idle /\ status \in {"executed", "defined", "lost"}
    /\ status' = "prepared"
    /\ UNCHANGED <<cols, data, defined, cursor, flags, call, out>>

Next ==
    \/ exec
    \/ define
    \/ \E op \in Blocks, rows \in Limits : beginFetch(op, rows)
    \/ \E op \in Blocks, columns \in BOOLEAN : execWithPrologue(op, columns)
    \/ selectRow
    \/ fetchLoop
    \/ finishCall
    \/ fetchSingleRow
    \/ next
    \/ fetchRow
    \/ close

Spec == Init /\ [][Next]_vars

-----------------------------------------------------------------------------
(***************************************************************************)
(* The type invariant: the flags of the statement follow each other        *)
(* (fetch_warned only after fetch_complete) and the cursor stays within    *)
(* the result.                                                             *)
(***************************************************************************)
TypeOK ==
    /\ cols \in ColumnLists
    /\ data \in Seq(Classes) /\ Len(data) <= MaxRows
    /\ status \in {"prepared", "executed", "defined", "helper", "lost"}
    /\ cursor \in 0..Len(data)
    /\ {defined, fetch_done, fetch_complete, fetch_warned} \subseteq BOOLEAN
    /\ fetch_warned => fetch_complete
    /\ call.op \in Blocks \cup {"none", "selectRow"}

(***************************************************************************)
(* The driver says that the result has ended only where it has: when       *)
(* fetch_complete stops every further fetch, no row is left behind.        *)
(***************************************************************************)
NoRowLeftBehind == fetch_complete => cursor = Len(data)

(***************************************************************************)
(* The list of the values of column c in the rows of an answer.            *)
(***************************************************************************)
ColumnOf(a, c) == [i \in 1..a.count |-> Cell(a.from + i, c)]

(***************************************************************************)
(* The hash h gives each column, under its name or that name with a        *)
(* suffix, the value that Value has for it, and nothing else.              *)
(***************************************************************************)
HoldsColumns(h, Value(_)) ==
    /\ Cardinality(DOMAIN h) = Len(cols)
    /\ \E key \in [Columns -> DOMAIN h] :
        /\ \A c, d \in Columns : key[c] = key[d] => c = d
        /\ \A c \in Columns :
            /\ IsPrefix(cols[c].name, key[c]) /\ Len(key[c]) <= Len(cols[c].name) + 1
            /\ h[key[c]] = Value(c)

(***************************************************************************)
(* No name of the select list is the name that another column gets as a    *)
(* duplicate.                                                              *)
(***************************************************************************)
NoClash == \A c, d \in Columns : \A num \in 1..Len(cols) :
              cols[d].name # Suffixed(cols[c].name, num)

(***************************************************************************)
(* An answer holds the values of its rows: every column of the select list *)
(* under a key of its own, duplicated names with a suffix, and the lists   *)
(* of fetchColumns() aligned and as long as the answer (fetchRow(),        *)
(* fetchRows(), fetchColumns() and selectRow()).                           *)
(***************************************************************************)
AnswersHoldTheirRows ==
    CASE out.kind \in {"fetchRow", "selectRow"} ->
             out.count = 1 => HoldsColumns(out.value, LAMBDA c : Cell(out.from + 1, c))
      [] out.kind = "fetchRows" ->
             /\ Len(out.value) = out.count
             /\ \A i \in 1..out.count :
                    HoldsColumns(out.value[i], LAMBDA c : Cell(out.from + i, c))
      [] out.kind = "fetchColumns" ->
             out.count > 0 => HoldsColumns(out.value, LAMBDA c : ColumnOf(out, c))
      [] OTHER -> TRUE

(***************************************************************************)
(* So does a columnar result, for select lists without a clash of          *)
(* suffixes: the NULLs of its bitmaps and the integers of a NUMBER column  *)
(* that becomes a list half way are kept (OracleColumnarBuilder).          *)
(***************************************************************************)
ColumnarHoldsItsRows ==
    out.kind = "fetchColumnar" /\ out.count > 0 /\ NoClash =>
        HoldsColumns(out.value, LAMBDA c : ColumnOf(out, c))

(***************************************************************************)
(* The statement as a cursor: the row at which the running call began, the *)
(* rows of the last answer, and the numbers that can be asked for.         *)
(***************************************************************************)
Position == IF Idle THEN cursor ELSE call.from

GivenRows ==
    CASE out.kind = "failed" -> [failed |-> TRUE]
      [] out.kind = "refused" -> [refused |-> TRUE]
      [] OTHER -> [from |-> out.from, count |-> out.count]

AskedRows == {IF rows < 0 THEN 0 ELSE rows : rows \in Limits \cup {0, 1}}

(***************************************************************************)
(* The calls in any order are a cursor: rows are given out in order and    *)
(* none is skipped or repeated without an exception, over next(),          *)
(* fetchRow(), the block fetches and the one-shot selects; a call is       *)
(* refused only after the end was reported (fetch_warned).                 *)
(***************************************************************************)
AsCursor ==
    INSTANCE Cursor WITH
        Asked <- AskedRows,
        total <- Len(data),
        pos <- Position,
        told <- fetch_warned,
        answer <- GivenRows
IsCursor == AsCursor!Spec
=============================================================================
