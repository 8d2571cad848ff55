------------------------------ MODULE BulkLoad ------------------------------
(***************************************************************************)
(* A direct path load (QoreOracleBulkLoad.cpp): the application begins a   *)
(* load, gives it blocks of rows and ends it; the blocks are cut into      *)
(* chunks that fit the OCI column array, and each chunk is converted into  *)
(* the OCI stream and sent in as many pieces as the stream needs.          *)
(*                                                                         *)
(* The rows of a load are numbered in the order in which they are given.   *)
(* One thread uses the connection; every call of OCI is a step that can    *)
(* fail, and every check for a cancellation a step that can end the call.  *)
(* The application abandons a load after an exception, as BulkSqlUtil and  *)
(* the tests do: it calls bulkLoadEnd(False), rolls back or closes.        *)
(***************************************************************************)
EXTENDS Naturals, FiniteSets

CONSTANTS
    MaxGiven,   \* the most rows that one load is given
    MaxRows,    \* max_rows: the rows that the column array holds
    MaxLength,  \* the most rows of one block
    Columns,    \* the columns of the load
    OtherKey,   \* a key of a block that is no column of the load
    MaxBytes,   \* the largest value of the payload counter
    ReportBytes \* QORE_ORACLE_STREAM_REPORT_BYTES

ASSUME SizeAssumption ==
    MaxGiven \in Nat /\ MaxRows \in Nat \ {0} /\ MaxLength \in Nat
ASSUME BytesAssumption == MaxBytes \in Nat /\ ReportBytes \in Nat
ASSUME KeyAssumption == OtherKey \notin Columns

VARIABLES
    load,       \* bulk_load of the connection is set
    pc,         \* the next step of the call
    handles,    \* the OCI handles of the load
    prepared, used, \* QoreOracleBulkLoadState::prepared and ::used
    started, ok, consumed, reported, \* QoreOracleBulkStream
    observed,   \* QoreOracleBulkStream::active
    count, offset,      \* the block: its rows, and those that are loaded
    rowOffset, nextOffset, \* the chunk: the rows loaded and converted
    success,    \* the load is finished with success
    clean,      \* terminate(): cleanup_ok
    context,    \* the direct path context: "left" if an abort failed, "gone"
                \* with its session, "late" if a finish runs on in there
    array,      \* the row in each entry of the column array
    buf,        \* how often each row is in the stream
    staged,     \* how often each row has been sent to the server
    visible,    \* how often each row is in the table
    given,      \* the rows of the blocks that were loaded
    failed,     \* a block has raised an exception
    asked,      \* the application has asked for the load to be finished
    result,     \* what the end of the load reported
    ends,       \* how often the end of the stream was reported
    outcome,    \* the outcome that was reported
    misused,    \* a handle or context was used that was not there
    fault       \* the connection was deleted under the call

state == <<load, handles, prepared, used>>
stream == <<started, ok, consumed, reported, observed>>
cursor == <<count, offset, rowOffset, nextOffset>>
oci == <<context, array, buf, staged, visible, misused>>
ending == <<success, clean>>
app == <<given, failed, asked, result>>
observer == <<ends, outcome>>
vars == <<load, pc, handles, prepared, used, started, ok, consumed, reported,
          observed, count, offset, rowOffset, nextOffset, success, clean,
          context, array, buf, staged, visible, given, failed, asked, result,
          ends, outcome, misused, fault>>

Rows == 1..MaxGiven
Slots == 0..(MaxRows - 1)
NoRows == [r \in Rows |-> 0]
Whole(n) == [r \in Rows |-> IF r <= n THEN 1 ELSE 0]
Handles == {"ctx", "array", "stream"}
Scalar == MaxLength + 1

Init ==
    /\ load = FALSE /\ pc = "idle" /\ handles = {}
    /\ prepared = FALSE /\ used = FALSE
    /\ started = FALSE /\ ok = TRUE /\ consumed = 0 /\ reported = 0
    /\ observed = FALSE
    /\ count = 0 /\ offset = 0 /\ rowOffset = 0 /\ nextOffset = 0
    /\ success = FALSE /\ clean = FALSE
    /\ context = "none" /\ array = [s \in Slots |-> 0]
    /\ buf = NoRows /\ staged = NoRows /\ visible = NoRows
    /\ given = 0 /\ failed = FALSE /\ asked = FALSE /\ result = "none"
    /\ ends = 0 /\ outcome = FALSE /\ misused = FALSE /\ fault = FALSE

-----------------------------------------------------------------------------
(***************************************************************************)
(* OCI.  A round trip can find the connection lost: as these calls cannot  *)
(* be retried and have no call guard, handleError() then deletes the       *)
(* connection and, with it, the load that is on the stack.  A receive      *)
(* timeout replaces the session: the server discards the load.             *)
(***************************************************************************)
lose ==
    /\ fault' = TRUE
    /\ UNCHANGED <<state, pc, stream, cursor, ending, oci, app, observer>>

dropSession ==
    /\ context' = IF context = "open" THEN "gone" ELSE context
    /\ staged' = NoRows

(***************************************************************************)
(* OCIDirPathAbort(): discards what was sent and closes the context.  If   *)
(* it fails in the session of the load (a break of the cancel helper, an   *)
(* error of the server), the context is left open there.                   *)
(***************************************************************************)
OCIDirPathAbort(done) ==
    /\ context' = IF context = "gone" THEN "gone" ELSE IF done THEN "closed" ELSE "left"
    /\ staged' = IF done THEN NoRows ELSE staged
    /\ misused' = (misused \/ context \notin {"open", "gone"} \/ "ctx" \notin handles)
    /\ UNCHANGED visible

Plus(f, g) == [r \in Rows |-> f[r] + g[r]]

(***************************************************************************)
(* The rows of the entries lo .. hi - 1 of the column array.               *)
(***************************************************************************)
Entries(lo, hi) ==
    [r \in Rows |-> IF \E s \in lo..(hi - 1) : array[s] = r THEN 1 ELSE 0]

-----------------------------------------------------------------------------
(***************************************************************************)
(* bulkLoadBegin(), with valid options and no load active; it is observed  *)
(* if the datasource has an observer and stream_bounds is set.             *)
(***************************************************************************)
bulkLoadBegin ==
    /\ pc = "idle" /\ ~load
    /\ observed' \in BOOLEAN
    /\ pc' = "initialize"
    /\ used' = FALSE /\ started' = FALSE /\ ok' = TRUE
    /\ consumed' = 0 /\ reported' = 0
    /\ context' = "none" /\ staged' = NoRows /\ visible' = NoRows /\ buf' = NoRows
    /\ array' = [s \in Slots |-> 0]
    /\ given' = 0 /\ failed' = FALSE /\ asked' = FALSE /\ result' = "none"
    /\ ends' = 0 /\ outcome' = FALSE
    /\ UNCHANGED <<load, handles, prepared, cursor, ending, misused, fault>>

(***************************************************************************)
(* initialize(), the description: a table or column that is not eligible   *)
(* (1) and an error (-1) both end it.                                      *)
(***************************************************************************)
describe ==
    /\ pc = "initialize"
    /\ \/ pc' \in {"prepare", "discard"}
          /\ UNCHANGED <<state, stream, cursor, ending, oci, app, observer, fault>>
       \/ lose

(***************************************************************************)
(* initialize(), the context: it is allocated, its attributes and columns  *)
(* are set, and it is prepared in the session.                             *)
(***************************************************************************)
prepare ==
    /\ pc = "prepare"
    /\ \/ /\ handles' = {"ctx"} /\ prepared' = TRUE /\ context' = "open"
          /\ pc' = "setup"
          /\ UNCHANGED <<load, used, stream, cursor, ending, array, buf, staged,
                         visible, misused, app, observer, fault>>
       \/ /\ handles' \in {{}, {"ctx"}}
          /\ pc' = "discard"
          /\ UNCHANGED <<load, prepared, used, stream, cursor, ending, oci, app,
                         observer, fault>>
       \/ lose

(***************************************************************************)
(* The rest of initialize(): the column array and the stream are           *)
(* allocated, max_rows is read and checked, and the observer is told.      *)
(***************************************************************************)
setup ==
    /\ pc = "setup"
    /\ \/ /\ handles' = Handles /\ started' = observed
          /\ load' = TRUE /\ pc' = "idle"
       \/ /\ handles' \in {{"ctx"}, {"ctx", "array"}, Handles}
          /\ pc' = "discard"
          /\ UNCHANGED <<load, started>>
    /\ UNCHANGED <<prepared, used, ok, consumed, reported, observed, cursor,
                   ending, oci, app, observer, fault>>

\* mutation: the context of a load that could not be set up is left open
discard_LeavesContext ==
    /\ pc = "discard"
    /\ prepared' = FALSE /\ handles' = {} /\ pc' = "idle"
    /\ UNCHANGED <<load, used, stream, cursor, ending, oci, app, observer, fault>>

(***************************************************************************)
(* ~QoreOracleBulkLoadState() of a load that was not set up: what the      *)
(* abort returns is not looked at.                                         *)
(***************************************************************************)
discard ==
    /\ pc = "discard"
    /\ IF prepared
       THEN (\E done \in BOOLEAN : OCIDirPathAbort(done)) /\ UNCHANGED <<array, buf>>
       ELSE UNCHANGED oci
    /\ prepared' = FALSE /\ handles' = {} /\ pc' = "idle"
    /\ UNCHANGED <<load, used, stream, cursor, ending, app, observer, fault>>

-----------------------------------------------------------------------------
(***************************************************************************)
(* The blocks: a list of values, or one value for all rows, by key.        *)
(***************************************************************************)
Blocks ==
    UNION {[K -> 0..Scalar] : K \in SUBSET (Columns \cup {OtherKey})}

Lists(b) == {c \in DOMAIN b : b[c] # Scalar}

(***************************************************************************)
(* The block has the columns of the load, and its lists have one length.   *)
(***************************************************************************)
validBlock(b) ==
    /\ DOMAIN b = Columns
    /\ \A c, d \in Lists(b) : b[c] = b[d]

(***************************************************************************)
(* A block without lists is one row.                                       *)
(***************************************************************************)
rowCount(b) == IF Lists(b) = {} THEN 1 ELSE b[CHOOSE c \in Lists(b) : TRUE]

(***************************************************************************)
(* A call of bulkLoadRows() fails: the stream has an error.                *)
(***************************************************************************)
setError ==
    /\ ok' = FALSE
    /\ failed' = TRUE
    /\ pc' = "idle"
    /\ UNCHANGED <<started, consumed, reported, observed>>

(***************************************************************************)
(* bulkLoadRows() up to the first chunk: every cell of the block is        *)
(* serialized before any row is loaded.                                    *)
(***************************************************************************)
bulkLoadRows ==
    /\ pc = "idle" /\ load /\ ~failed
    /\ \E b \in Blocks :
          \/ /\ validBlock(b) /\ rowCount(b) > 0 /\ given + rowCount(b) <= MaxGiven
             /\ count' = rowCount(b) /\ offset' = 0
             /\ pc' = "chunk"
             /\ UNCHANGED <<stream, failed>>
          \/ /\ ~validBlock(b) \/ rowCount(b) > 0
             /\ setError
             /\ UNCHANGED <<count, offset>>
    /\ UNCHANGED <<state, rowOffset, nextOffset, ending, oci, given, asked,
                   result, observer, fault>>

-----------------------------------------------------------------------------
chunkRows == IF MaxRows < count - offset THEN MaxRows ELSE count - offset

(***************************************************************************)
(* loadChunk(), the column array: the handles are reset if they have been  *)
(* used, and the entries are set.  It can fail at any entry.               *)
(***************************************************************************)
filled(n) == [s \in Slots |-> IF s < n THEN given + offset + s + 1
                                      ELSE IF used THEN 0 ELSE array[s]]

fillChunk ==
    /\ pc = "chunk"
    /\ buf' = IF used THEN NoRows ELSE buf
    /\ rowOffset' = 0 /\ nextOffset' = 0
    /\ \/ array' = filled(chunkRows) /\ pc' = "convert" /\ UNCHANGED <<stream, failed>>
       \/ setError /\ \E n \in 0..(chunkRows - 1) : array' = filled(n)
    /\ misused' = (misused \/ ~({"array", "stream"} \subseteq handles))
    /\ UNCHANGED <<state, count, offset, ending, context, staged, visible, given,
                   asked, result, observer, fault>>

\* mutation: conversion may make no progress
convert_NoProgressCheck ==
    /\ pc = "convert"
    /\ \E n \in rowOffset..chunkRows : nextOffset' = n /\ buf' = Plus(buf, Entries(rowOffset, n))
    /\ pc' = "load"
    /\ UNCHANGED <<state, stream, count, offset, rowOffset, ending, context, array,
                   staged, visible, misused, app, observer, fault>>

(***************************************************************************)
(* loadChunk(), the conversion: OCIDirPathColArrayToStream() converts the  *)
(* rows that are left, or (OCI_CONTINUE) as many of them as fit into the   *)
(* stream; if none does, the block fails.                                  *)
(***************************************************************************)
convert ==
    /\ pc = "convert"
    /\ \/ \E n \in (rowOffset + 1)..chunkRows :
             /\ nextOffset' = n
             /\ buf' = Plus(buf, Entries(rowOffset, n))
             /\ pc' = "load"
             /\ UNCHANGED <<stream, failed>>
       \/ \E n \in rowOffset..chunkRows :
             /\ buf' = Plus(buf, Entries(rowOffset, n))
             /\ setError
             /\ UNCHANGED nextOffset
    /\ UNCHANGED <<state, count, offset, rowOffset, ending, context, array, staged,
                   visible, misused, given, asked, result, observer, fault>>

\* mutation: the stream is not reset before the rest of the chunk is converted
loadStream_NoReset ==
    /\ pc = "load"
    /\ staged' = Plus(staged, buf) /\ rowOffset' = nextOffset
    /\ pc' = IF nextOffset < chunkRows THEN "convert" ELSE "next"
    /\ UNCHANGED <<state, stream, count, offset, nextOffset, ending, context, array,
                   buf, visible, misused, app, observer, fault>>

(***************************************************************************)
(* loadStream(), and the reset of the stream before the rest of the chunk  *)
(* is converted.  A load that fails can have sent its rows; one that times *)
(* out loses its session.                                                  *)
(***************************************************************************)
loadStream ==
    /\ pc = "load"
    /\ \/ /\ staged' = Plus(staged, buf) /\ rowOffset' = nextOffset
          /\ IF nextOffset < chunkRows THEN buf' = NoRows /\ pc' = "convert"
                                       ELSE UNCHANGED buf /\ pc' = "next"
          /\ UNCHANGED <<state, stream, count, offset, nextOffset, ending, context,
                         array, visible, misused, app, observer, fault>>
       \/ /\ setError
          /\ \/ staged' \in {staged, Plus(staged, buf)} /\ UNCHANGED context
             \/ dropSession
          /\ UNCHANGED <<state, cursor, ending, array, buf, visible, misused, given,
                         asked, result, observer, fault>>
       \/ lose

(***************************************************************************)
(* The end of a chunk: the handles are used, and the next chunk follows.   *)
(***************************************************************************)
nextChunk ==
    /\ pc = "next"
    /\ used' = TRUE
    /\ offset' = offset + chunkRows
    /\ pc' = IF offset + chunkRows < count THEN "chunk" ELSE "account"
    /\ UNCHANGED <<load, handles, prepared, stream, count, rowOffset, nextOffset,
                   ending, oci, app, observer, fault>>

(***************************************************************************)
(* addBytes() counts the payload of the block (a byte for each row) and    *)
(* reports progress in steps of ReportBytes, which the observer may refuse.*)
(***************************************************************************)
addBytes(n, refused) ==
    /\ started /\ n <= MaxBytes - consumed
    /\ consumed' = consumed + n
    /\ reported' = IF consumed + n - reported < ReportBytes THEN reported ELSE consumed + n
    /\ refused => reported' # reported
    /\ ok' = (ok /\ ~refused)
    /\ UNCHANGED <<started, observed>>

(***************************************************************************)
(* The end of the block.  It still fails if the counter would overflow, or *)
(* if the observer refuses the progress.                                   *)
(***************************************************************************)
accountBlock ==
    /\ pc = "account"
    /\ \/ /\ addBytes(count, FALSE) \/ (~started /\ UNCHANGED stream)
          /\ given' = given + count
          /\ pc' = "idle"
          /\ UNCHANGED failed
       \/ /\ started /\ count > MaxBytes - consumed
          /\ setError
          /\ UNCHANGED given
       \/ /\ addBytes(count, TRUE)
          /\ failed' = TRUE
          /\ pc' = "idle"
          /\ UNCHANGED given
    /\ UNCHANGED <<state, cursor, ending, oci, asked, result, observer, fault>>

-----------------------------------------------------------------------------
(***************************************************************************)
(* bulkLoadEnd(), by the application, or with False by rollback() or by    *)
(* the destructor of the connection.                                       *)
(***************************************************************************)
bulkLoadEnd ==
    /\ pc = "idle" /\ load
    /\ \E b \in BOOLEAN : asked' = b /\ success' = b /\ (b => ~failed)
    /\ clean' = TRUE
    /\ load' = FALSE
    /\ pc' = "terminate"
    /\ UNCHANGED <<handles, prepared, used, stream, cursor, oci, given, failed,
                   result, observer, fault>>

OCIDirPathFinish ==
    /\ visible' = staged
    /\ staged' = NoRows
    /\ context' = "closed"
    /\ misused' = (misused \/ context # "open" \/ "ctx" \notin handles)

\* mutation: the load is finished, not aborted, when its end is cancelled
terminate_CancelFinishes ==
    /\ pc = "terminate"
    /\ OCIDirPathFinish
    /\ success' \in {success, FALSE} /\ clean' = success'
    /\ prepared' = FALSE /\ pc' = "report"
    /\ UNCHANGED <<load, handles, used, stream, cursor, array, buf, app, observer,
                   fault>>

\* mutation: the outcome of the stream does not tell a failed finish
terminate_ReportsSuccess ==
    /\ pc = "terminate"
    /\ \/ success /\ OCIDirPathFinish /\ UNCHANGED ending
       \/ OCIDirPathAbort(TRUE) /\ UNCHANGED ending
    /\ prepared' = FALSE /\ pc' = "report"
    /\ UNCHANGED <<load, handles, used, stream, cursor, array, buf, app, observer,
                   fault>>

(***************************************************************************)
(* A finish that is ended by the receive timeout: its session is given up, *)
(* but the server can still be running the call.                           *)
(***************************************************************************)
finishTimesOut ==
    /\ context' = "late"
    /\ UNCHANGED <<staged, visible, misused>>

(***************************************************************************)
(* terminate(): the load is finished, or aborted when the application asks *)
(* for that or the end was cancelled.  A finish that fails can have taken  *)
(* effect, if only its answer was lost; otherwise it is followed by an     *)
(* abort, which can fail too.  prepared is reset whatever the calls return.*)
(***************************************************************************)
terminate ==
    /\ pc = "terminate"
    /\ \/ /\ \/ success /\ OCIDirPathFinish /\ UNCHANGED ending
             \/ ~success /\ OCIDirPathAbort(TRUE) /\ UNCHANGED ending
             \/ /\ \/ success /\ (OCIDirPathFinish \/ finishTimesOut)
                   \/ \E done \in BOOLEAN : OCIDirPathAbort(done)
                   \/ dropSession /\ UNCHANGED <<visible, misused>>
                /\ success' = FALSE /\ clean' = FALSE
          /\ prepared' = FALSE /\ pc' = "report"
          /\ UNCHANGED <<load, handles, used, stream, cursor, array, buf, app,
                         observer, fault>>
       \/ lose

(***************************************************************************)
(* The server ends a finish that the driver has given up.                  *)
(***************************************************************************)
finishLate ==
    /\ context = "late"
    /\ context' = "gone" /\ visible' = staged /\ staged' = NoRows
    /\ UNCHANGED <<state, pc, stream, cursor, ending, array, buf, misused, app,
                   observer, fault>>

(***************************************************************************)
(* The end of the stream is reported, and the handles are freed.  The      *)
(* observer can raise an exception.                                        *)
(***************************************************************************)
finishStream ==
    /\ pc = "report"
    /\ started' = FALSE
    /\ ok' = (ok /\ success)
    /\ ends' = IF started THEN ends + 1 ELSE ends
    /\ outcome' = (started /\ ok /\ success)
    /\ result' \in {IF clean THEN "ok" ELSE "error"} \cup
                   (IF started THEN {"error"} ELSE {})
    /\ handles' = {} /\ pc' = "idle"
    /\ UNCHANGED <<load, prepared, used, consumed, reported, observed, cursor, ending,
                   oci, given, failed, asked, fault>>

(***************************************************************************)
(* Nothing is said of the program after its connection was deleted.        *)
(***************************************************************************)
undefined == fault /\ UNCHANGED vars

Driver ==
    \/ describe \/ prepare \/ setup \/ discard
    \/ fillChunk \/ convert \/ loadStream \/ nextChunk \/ accountBlock
    \/ terminate \/ finishStream

Next ==
    \/ ~fault /\ (bulkLoadBegin \/ bulkLoadRows \/ bulkLoadEnd)
    \/ ~fault /\ (Driver \/ finishLate)
    \/ undefined

Spec == Init /\ [][Next]_vars /\ WF_vars(~fault /\ Driver)

-----------------------------------------------------------------------------
(***************************************************************************)
(* Type invariant.                                                         *)
(***************************************************************************)
FlagTypes ==
    /\ load \in BOOLEAN /\ prepared \in BOOLEAN /\ used \in BOOLEAN
    /\ started \in BOOLEAN /\ ok \in BOOLEAN /\ observed \in BOOLEAN
    /\ success \in BOOLEAN /\ clean \in BOOLEAN /\ failed \in BOOLEAN
    /\ asked \in BOOLEAN /\ outcome \in BOOLEAN
    /\ misused \in BOOLEAN /\ fault \in BOOLEAN

StateTypes ==
    /\ pc \in {"idle", "initialize", "prepare", "setup", "discard", "chunk",
               "convert", "load", "next", "account", "terminate", "report"}
    /\ handles \subseteq Handles
    /\ context \in {"none", "open", "gone", "late", "left", "closed"}
    /\ result \in {"none", "ok", "error"}

CounterTypes ==
    /\ consumed \in 0..MaxBytes /\ reported \in 0..MaxBytes
    /\ count \in 0..(MaxLength + 1) /\ offset \in 0..(MaxLength + 1)
    /\ rowOffset \in 0..MaxRows /\ nextOffset \in 0..MaxRows
    /\ given \in 0..MaxGiven /\ ends \in Nat

RowTypes ==
    /\ array \in [Slots -> 0..MaxGiven]
    /\ buf \in [Rows -> Nat] /\ staged \in [Rows -> Nat] /\ visible \in [Rows -> Nat]

TypeOK == FlagTypes /\ StateTypes /\ CounterTypes /\ RowTypes

(***************************************************************************)
(* The resets between chunks and between the pieces of a chunk are enough: *)
(* while no call has failed, every row that was given has been sent once.  *)
(***************************************************************************)
SentOnce == load /\ pc = "idle" /\ ~failed => staged = Whole(given)

(***************************************************************************)
(* The observer gets exactly one end of the stream for each load that was  *)
(* begun, and it says success only of a load whose rows are visible.       *)
(***************************************************************************)
StreamEndsOnce ==
    /\ ~load /\ pc = "idle" => ends = IF result # "none" /\ observed THEN 1 ELSE 0
    /\ outcome => visible = Whole(given)

(***************************************************************************)
(* Whatever step of a load fails, its handles are freed, and not before    *)
(* OCI was told to finish or to abort a context that was prepared.  The    *)
(* context outlives the load in its session only if OCI fails to abort it, *)
(* and such a load does not end with success.  No handle is used before it *)
(* is there or after it was freed.                                         *)
(***************************************************************************)
NothingLeftBehind ==
    /\ ~load /\ pc = "idle" => handles = {} /\ ~prepared /\ context # "open"
    /\ context = "left" => result # "ok"
    /\ ~misused

(***************************************************************************)
(* A load implements AtomicLoad: its rows become visible all at once and   *)
(* only if the application asks for it, whatever fails or is cancelled.    *)
(***************************************************************************)
Atomic == INSTANCE AtomicLoad
IsAtomic == Atomic!Spec

(***************************************************************************)
(* Every call ends: each conversion makes progress, and each piece and     *)
(* chunk brings the end of the block nearer.                               *)
(***************************************************************************)
CallsEnd == pc # "idle" ~> pc = "idle" \/ fault

=============================================================================
