-------------------------- MODULE OracleConnection --------------------------
(***************************************************************************)
(* The connection of a datasource (class QoreOracleConnection): the calls  *)
(* of the driver, how an error of a call is handled, and what the          *)
(* application may conclude about its transactions.                        *)
(*                                                                         *)
(* A datasource is used by one thread at a time, so there is at most one   *)
(* driver call; the session can be killed, or its network connection can   *)
(* break, between any two steps of it.  Every round trip to the server is  *)
(* a step, and so is every pass through handleError() up to the next one.  *)
(***************************************************************************)
EXTENDS Naturals, FiniteSets

CONSTANTS
    Ops,        \* the changes made by the application, each tried once
    NoOp,       \* a statement that changes nothing
    Statements, \* the SQLStatement objects of the application
    Stack,      \* the statement of a plain exec or select call
    AutoCommit, \* the datasource commits after each statement
    PingStalls, \* the receive timeout can end the ping made by handleError()
    Calls       \* the driver calls that the application makes

ASSUME ObjectsAssumption == NoOp \notin Ops /\ Stack \notin Statements
ASSUME FlagsAssumption == AutoCommit \in BOOLEAN /\ PingStalls \in BOOLEAN

VARIABLES
    open,       \* the datasource has a connection object
    lost,       \* QoreOracleConnection::lost
    depth,      \* QoreOracleConnection::call_depth
    abort,      \* QoreOracleConnection::abort_pending
    timeout,    \* recv_timeout_ms is not 0
    applied,    \* the server handle has a receive timeout
    handle,     \* the statement handle of each statement
    lob,        \* the temporary LOB bound to each statement
    link,       \* the session exists and can be reached
    work,       \* the uncommitted changes of the session
    committed,  \* the changes that are in the database
    twice,      \* the changes that were made twice
    late,       \* the transactions whose commit the server still runs although
                \* the driver has given it up
    pc, call, me, op, \* the step, the call, its statement and its change
    from, err,  \* the step that failed, and how
    raised,     \* the call has raised an exception
    active,     \* Datasource::activeTransaction()
    tried,      \* the changes that the application has tried
    acked,      \* the changes reported as made in the open transaction
    durable,    \* the changes reported as committed
    gone,       \* the changes of transactions reported as lost
    doubt,      \* the same, reported by the commit of the transaction
    misfreed,   \* the ways in which a LOB was freed outside of its session
    fault       \* the connection was deleted under a call that uses it

conn == <<open, lost, depth, abort>>
recv == <<timeout, applied>>
stmts == <<handle, lob>>
server == <<link, work, committed, twice, late>>
frame == <<call, me, op>>
error == <<from, err>>
reports == <<acked, gone, doubt>>
app == <<active, tried, durable>>
vars == <<open, lost, depth, abort, timeout, applied, handle, lob, link, work,
          committed, twice, late, pc, call, me, op, from, err, raised, active,
          tried, acked, durable, gone, doubt, misfreed, fault>>

Objects == Statements \cup {Stack}
CallKinds == {"exec", "open", "fetch", "close", "commit", "rollback", "bulk", "option"}

(***************************************************************************)
(* The driver calls that do not declare a QoreOracleCallGuard.             *)
(***************************************************************************)
Unguarded == {"close", "bulk", "option"}

ASSUME CallsAssumption == Calls \subseteq CallKinds

Trips == {"prepare", "execute", "rebind", "reexecute", "output", "commit",
          "rollback", "bulk", "option", "free"}
PC == Trips \cup {"idle", "handle", "logon", "return"}

(***************************************************************************)
(* "cleared": the statement has its SQL and its values, but no handles.    *)
(***************************************************************************)
HandleStates == {"none", "current", "stale", "cleared"}
LobStates == {"none", "current", "stale"}

Init ==
    /\ open = FALSE
    /\ lost = FALSE
    /\ depth = 0
    /\ abort = FALSE
    /\ timeout = FALSE
    /\ applied = FALSE
    /\ handle = [x \in Objects |-> "none"]
    /\ lob = [x \in Objects |-> "none"]
    /\ link = "down"
    /\ work = {}
    /\ committed = {}
    /\ twice = {}
    /\ late = {}
    /\ pc = "idle"
    /\ call = "rollback"
    /\ me = Stack
    /\ op = NoOp
    /\ from = "rollback"
    /\ err = "error"
    /\ raised = FALSE
    /\ active = FALSE
    /\ tried = {}
    /\ acked = {}
    /\ durable = {}
    /\ gone = {}
    /\ doubt = {}
    /\ misfreed = {}
    /\ fault = FALSE

-----------------------------------------------------------------------------
(***************************************************************************)
(* The server.  A session whose connection breaks is rolled back.  Ending  *)
(* a session (OCISessionEnd()) that the server can still be told about     *)
(* commits its transaction.                                                *)
(***************************************************************************)
breakLink ==
    /\ open /\ link = "up" /\ ~fault
    /\ link' = "down"
    /\ work' = {}
    /\ UNCHANGED <<conn, recv, stmts, committed, twice, late, pc, frame, error, raised,
                   app, reports, misfreed, fault>>

OCISessionEnd ==
    /\ link' = "down"
    /\ work' = {}
    /\ UNCHANGED late
    /\ IF link = "up"
       THEN /\ committed' = committed \cup work
            /\ twice' = twice \cup (work \cap committed)
       ELSE UNCHANGED <<committed, twice>>

OCIStmtExecute ==
    /\ work' = work \cup ({op} \cap Ops)
    /\ twice' = twice \cup ({op} \cap (work \cup committed))
    /\ UNCHANGED <<link, committed, late>>

OCITransCommit ==
    /\ committed' = committed \cup work
    /\ twice' = twice \cup (work \cap committed)
    /\ work' = {}
    /\ UNCHANGED <<link, late>>

OCITransRollback ==
    /\ work' = {}
    /\ UNCHANGED <<link, committed, twice, late>>

(***************************************************************************)
(* A commit has reached the server and its answer does not arrive: the     *)
(* server runs it on, whatever becomes of the session, and at any later    *)
(* time has made the changes or rolled them back.                          *)
(***************************************************************************)
commitRunsOn ==
    /\ late' = late \cup ({work} \ {{}})
    /\ work' = {}
    /\ UNCHANGED <<committed, twice>>

settle ==
    /\ \E T \in late :
          /\ late' = late \ {T}
          /\ \/ committed' = committed \cup T /\ twice' = twice \cup (T \cap committed)
             \/ UNCHANGED <<committed, twice>>
    /\ UNCHANGED <<conn, recv, stmts, link, work, pc, frame, error, raised, app,
                   reports, misfreed, fault>>

(***************************************************************************)
(* How a round trip can fail: the server reports an error, the connection  *)
(* is broken, or the receive timeout ends the wait for the answer.         *)
(***************************************************************************)
Fails(e) ==
    \/ e = "error" /\ link = "up"
    \/ e = "lost" /\ link = "down"
    \/ e = "timeout" /\ applied

(***************************************************************************)
(* checkerr() passes an OCI_ERROR status of the current step on.           *)
(***************************************************************************)
checkerr(e) ==
    /\ err' = e
    /\ from' = pc
    /\ pc' = "handle"
    /\ UNCHANGED raised

proceed(step) ==
    /\ pc' = step
    /\ UNCHANGED <<error, raised>>

-----------------------------------------------------------------------------
(***************************************************************************)
(* The datasource is opened: the constructor logs on and applies the       *)
(* options of the datasource.                                              *)
(***************************************************************************)
oracle_open ==
    /\ pc = "idle" /\ ~open
    /\ open' = TRUE
    /\ link' = "up"
    /\ \E b \in BOOLEAN : timeout' = b /\ applied' = b
    /\ lost' = FALSE
    /\ abort' = FALSE
    /\ UNCHANGED <<depth, stmts, work, committed, twice, late, pc, frame, error, raised,
                   app, reports, misfreed, fault>>

(***************************************************************************)
(* The datasource is closed.  The datasource class rolls an open           *)
(* transaction back first; the destructor ends the session.                *)
(***************************************************************************)
oracle_close ==
    /\ pc = "idle" /\ open
    /\ open' = FALSE
    /\ IF AutoCommit THEN OCISessionEnd
                     ELSE link' = "down" /\ work' = {} /\ UNCHANGED <<committed, twice, late>>
    /\ active' = FALSE
    /\ acked' = {}
    /\ handle' = [x \in Objects |-> "none"]
    /\ lob' = [x \in Objects |-> "none"]
    /\ UNCHANGED <<lost, depth, abort, recv, pc, frame, error, raised, tried,
                   durable, gone, doubt, misfreed, fault>>

(***************************************************************************)
(* A driver call begins: the call guard counts it.                         *)
(***************************************************************************)
enter(k, x, o, step) ==
    /\ pc = "idle" /\ open /\ k \in Calls
    /\ call' = k
    /\ me' = x
    /\ op' = o
    /\ pc' = step
    /\ raised' = FALSE
    /\ depth' = IF k \in Unguarded THEN depth ELSE depth + 1
    /\ UNCHANGED <<open, lost, abort, recv, stmts, server, error, active, durable,
                   reports, misfreed, fault>>

oracle_exec ==
    \E o \in (Ops \ tried) \cup {NoOp} :
       /\ enter("exec", Stack, o, "prepare")
       /\ tried' = tried \cup ({o} \cap Ops)

(***************************************************************************)
(* An SQLStatement is prepared, executed and defined, which registers it.  *)
(***************************************************************************)
oracle_stmt_exec ==
    \E s \in Statements :
       /\ handle[s] = "none"
       /\ enter("open", s, NoOp, "prepare")
       /\ UNCHANGED tried

oracle_stmt_fetch ==
    \E s \in Statements :
       /\ handle[s] = "current"
       /\ enter("fetch", s, NoOp, "output")
       /\ UNCHANGED tried

oracle_stmt_close ==
    \E s \in Statements :
       /\ handle[s] # "none"
       /\ enter("close", s, NoOp, "free")
       /\ UNCHANGED tried

oracle_commit == enter("commit", Stack, NoOp, "commit") /\ UNCHANGED tried

oracle_rollback == enter("rollback", Stack, NoOp, "rollback") /\ UNCHANGED tried

(***************************************************************************)
(* A call of a direct path load.                                           *)
(***************************************************************************)
oracle_bulk_load == enter("bulk", Stack, NoOp, "bulk") /\ UNCHANGED tried

(***************************************************************************)
(* The receive timeout is set while the datasource is open.                *)
(***************************************************************************)
oracle_opt_set == enter("option", Stack, NoOp, "option") /\ UNCHANGED tried

-----------------------------------------------------------------------------
(***************************************************************************)
(* The statement is prepared and its values are bound.  A long value is    *)
(* bound as a temporary LOB, created and written in round trips.           *)
(***************************************************************************)
prepare ==
    /\ pc = "prepare"
    /\ handle' = [handle EXCEPT ![me] = "current"]
    /\ \/ UNCHANGED lob /\ proceed("execute")
       \/ link = "up" /\ lob' = [lob EXCEPT ![me] = "current"] /\ proceed("execute")
       \/ \E e \in {"error", "lost", "timeout"} :
             /\ Fails(e)
             /\ lob' \in {lob, [lob EXCEPT ![me] = "current"]}
             /\ checkerr(e)
    /\ UNCHANGED <<conn, recv, server, frame, app, reports, misfreed, fault>>

(***************************************************************************)
(* The statement is executed: the first time, and again after the          *)
(* connection was made again.                                              *)
(***************************************************************************)
execute ==
    /\ pc \in {"execute", "reexecute"}
    /\ \/ link = "up" /\ OCIStmtExecute /\ proceed("output")
       \/ \E e \in {"error", "lost", "timeout"} :
             /\ Fails(e)
             /\ checkerr(e)
             /\ UNCHANGED server \/ (link = "up" /\ e = "timeout" /\ OCIStmtExecute)
    /\ UNCHANGED <<conn, recv, stmts, frame, app, reports, misfreed, fault>>

(***************************************************************************)
(* The result is read: rows are fetched (round trips), or output values    *)
(* and the row count are taken from the handles.  A plain call then        *)
(* commits, if the datasource has autocommit; if the result could not be   *)
(* read, only a statement that is not a select goes on to the commit.      *)
(***************************************************************************)
autoCommits == AutoCommit /\ call = "exec"

output ==
    /\ pc = "output"
    /\ \/ proceed(IF autoCommits THEN "commit" ELSE "free")
       \/ \E e \in {"error", "lost", "timeout"} : Fails(e) /\ checkerr(e)
    /\ UNCHANGED <<conn, recv, stmts, server, frame, app, reports, misfreed, fault>>

\* mutation: a commit that finds the connection lost is taken for done
commit_IgnoresLoss ==
    /\ pc = "commit"
    /\ \/ link = "up" /\ OCITransCommit /\ proceed("free")
       \/ link = "down" /\ UNCHANGED server /\ proceed("free")
    /\ UNCHANGED <<conn, recv, stmts, frame, app, reports, misfreed, fault>>

(***************************************************************************)
(* commit(), of a commit call or after a statement with autocommit.  When  *)
(* the answer is lost or late, the request may not have arrived, or the    *)
(* server runs it on; a commit can fail with the transaction rolled back.  *)
(***************************************************************************)
commit ==
    /\ pc = "commit"
    /\ \/ link = "up" /\ OCITransCommit /\ proceed("free")
       \/ \E e \in {"error", "lost", "timeout"} :
             /\ Fails(e)
             /\ checkerr(e)
             /\ \/ UNCHANGED server
                \/ link = "up" /\ e = "error" /\ OCITransRollback
                \/ link = "up" /\ e = "timeout" /\ commitRunsOn /\ UNCHANGED link
       \/ link = "up" /\ commitRunsOn /\ link' = "down" /\ checkerr("lost")
    /\ UNCHANGED <<conn, recv, stmts, frame, app, reports, misfreed, fault>>

rollback ==
    /\ pc = "rollback"
    /\ \/ link = "up" /\ OCITransRollback /\ proceed("free")
       \/ \E e \in {"error", "lost", "timeout"} :
             /\ Fails(e)
             /\ checkerr(e)
             /\ UNCHANGED server \/ (link = "up" /\ e = "timeout" /\ OCITransRollback)
    /\ UNCHANGED <<conn, recv, stmts, frame, app, reports, misfreed, fault>>

bulkLoad ==
    /\ pc = "bulk"
    /\ \/ link = "up" /\ proceed("free")
       \/ \E e \in {"error", "lost", "timeout"} : Fails(e) /\ checkerr(e)
    /\ UNCHANGED <<conn, recv, stmts, server, frame, app, reports, misfreed, fault>>

(***************************************************************************)
(* setRecvTimeout() sets the attribute of the server handle, and keeps the *)
(* timeout that it had if the client refuses.                              *)
(***************************************************************************)
setRecvTimeout ==
    /\ pc = "option"
    /\ \/ (\E b \in BOOLEAN : timeout' = b /\ applied' = b) /\ proceed("free")
       \/ checkerr("error") /\ UNCHANGED recv
    /\ UNCHANGED <<conn, stmts, server, frame, app, reports, misfreed, fault>>

(***************************************************************************)
(* qore_check_cancel() before a round trip, or between the rows of a       *)
(* result: the call ends with an exception.                                *)
(***************************************************************************)
cancelled ==
    /\ pc \in {"execute", "reexecute", "output", "commit", "rollback"}
    /\ raised' = TRUE
    /\ pc' = IF pc = "output" /\ autoCommits /\ op \in Ops THEN "commit" ELSE "free"
    /\ UNCHANGED <<conn, recv, stmts, server, frame, error, app, reports, misfreed,
                   fault>>

-----------------------------------------------------------------------------
(***************************************************************************)
(* handleError().  Where the call goes on when it returns false; only the  *)
(* first execution of a statement can be retried.                          *)
(***************************************************************************)
unwind ==
    CASE from = "free" -> "return"
      [] from = "output" /\ autoCommits /\ op \in Ops -> "commit"
      [] OTHER -> "free"

\* mutation: an execution that was retried is retried again
canRetry_Always == from \in {"execute", "reexecute"}

canRetry == from = "execute"

(***************************************************************************)
(* DBI:ORACLE:TRANSACTION-ERROR is raised in a transaction.                *)
(***************************************************************************)
transactionLost ==
    IF active
    THEN /\ acked' = {}
         /\ IF from = "commit" THEN doubt' = doubt \cup acked /\ UNCHANGED gone
                               ELSE gone' = gone \cup acked /\ UNCHANGED doubt
    ELSE UNCHANGED reports

(***************************************************************************)
(* The statements in X give their handles up; their LOBs are freed in the  *)
(* session unless it is lost.                                              *)
(***************************************************************************)
cleared(X) == [x \in Objects |-> IF x \in X /\ handle[x] # "none" THEN "cleared"
                                                                  ELSE handle[x]]
withoutLobs(X) == [x \in Objects |-> IF x \in X THEN "none" ELSE lob[x]]

(***************************************************************************)
(* The registered statements are closed, and keep nothing.                 *)
(***************************************************************************)
resetStatements == [x \in Objects |-> IF x \in Statements THEN "none" ELSE handle[x]]

(***************************************************************************)
(* What a session made is of an old session when it ends.                  *)
(***************************************************************************)
outdated(f) == [x \in Objects |-> IF f[x] = "current" THEN "stale" ELSE f[x]]

\* mutation: the connection is deleted at once in every call
abortConnection_Now(next) ==
    /\ pc' = next
    /\ fault' = TRUE
    /\ UNCHANGED abort

(***************************************************************************)
(* A connection that cannot be made again is closed when the guarded call  *)
(* ends.  Without a guard it is deleted now, under the call that goes on   *)
(* to use it.                                                              *)
(***************************************************************************)
abortConnection(next) ==
    /\ pc' = next
    /\ IF depth > 0 THEN abort' = TRUE /\ UNCHANGED fault
                    ELSE fault' = TRUE /\ UNCHANGED abort

(***************************************************************************)
(* The error is not a lost connection: the ping is answered.               *)
(***************************************************************************)
reportError ==
    /\ pc = "handle" /\ err = "error" /\ link = "up"
    /\ raised' = TRUE
    /\ pc' = unwind
    /\ UNCHANGED <<conn, recv, stmts, server, frame, error, app, reports, misfreed,
                   fault>>

(***************************************************************************)
(* The connection is lost: ORA-03113, ORA-03114, ORA-01041, or the ping    *)
(* fails.                                                                  *)
(***************************************************************************)
isLostError ==
    \/ err = "lost"
    \/ err = "error" /\ (link = "down" \/ (PingStalls /\ applied))

\* mutation: the statement is executed again although a transaction was lost
loseAndReconnect_InTransaction ==
    /\ pc = "handle" /\ isLostError /\ canRetry
    /\ lost' = TRUE
    /\ handle' = outdated(cleared(Objects))
    /\ lob' = outdated(withoutLobs(Objects))
    /\ OCISessionEnd
    /\ pc' = "logon"
    /\ UNCHANGED <<open, depth, abort, recv, frame, error, raised, app, reports,
                   misfreed, fault>>

(***************************************************************************)
(* The connection was lost by an execution, and is to be made again.  The  *)
(* session is lost, so that the LOBs of the statements are not freed.      *)
(***************************************************************************)
loseAndReconnect ==
    /\ pc = "handle" /\ isLostError /\ canRetry
    /\ lost' = TRUE
    /\ transactionLost
    /\ raised' = active
    /\ handle' = outdated(cleared(Statements \cup {me}))
    /\ lob' = outdated(withoutLobs(Statements \cup {me}))
    /\ OCISessionEnd
    /\ pc' = "logon"
    /\ UNCHANGED <<open, depth, abort, recv, frame, error, app, misfreed, fault>>

(***************************************************************************)
(* The connection was lost by a call that cannot be made again.            *)
(***************************************************************************)
loseAndAbort ==
    /\ pc = "handle" /\ isLostError /\ ~canRetry
    /\ lost' = TRUE
    /\ transactionLost
    /\ raised' = TRUE
    /\ handle' = resetStatements
    /\ lob' = withoutLobs(Statements)
    /\ abortConnection(unwind)
    /\ UNCHANGED <<open, depth, recv, server, frame, error, app, misfreed>>

\* mutation: a timeout of an execution is handled as a lost connection
timedOut_Retries ==
    /\ pc = "handle" /\ err = "timeout"
    /\ transactionLost
    /\ raised' = (active \/ ~canRetry)
    /\ handle' = outdated(cleared(IF canRetry THEN Statements \cup {me} ELSE Statements))
    /\ lob' = outdated(withoutLobs(IF canRetry THEN Statements \cup {me} ELSE Statements))
    /\ OCISessionEnd
    /\ pc' = "logon"
    /\ UNCHANGED <<conn, recv, frame, error, app, misfreed, fault>>

\* mutation: the session is ended instead of abandoned
timedOut_EndsSession ==
    /\ pc = "handle" /\ err = "timeout"
    /\ transactionLost
    /\ raised' = TRUE
    /\ handle' = outdated(cleared(Statements))
    /\ lob' = outdated(withoutLobs(Statements))
    /\ OCISessionEnd
    /\ pc' = "logon"
    /\ UNCHANGED <<conn, recv, frame, error, app, misfreed, fault>>

(***************************************************************************)
(* ORA-12609: the receive timeout ended the call.  The statements of the   *)
(* application are cleared while the session is not marked as lost, so     *)
(* that their LOBs are freed in the session that is out of step; it is     *)
(* then abandoned without being ended.                                     *)
(***************************************************************************)
timedOut ==
    /\ pc = "handle" /\ err = "timeout"
    /\ transactionLost
    /\ raised' = TRUE
    /\ handle' = outdated(cleared(Statements))
    /\ lob' = outdated(withoutLobs(Statements))
    /\ misfreed' = IF ~lost /\ \E s \in Statements : lob[s] = "current"
                   THEN misfreed \cup {"timeout"} ELSE misfreed
    /\ link' = "down"
    /\ work' = {}
    /\ pc' = "logon"
    /\ UNCHANGED <<conn, recv, committed, twice, late, frame, error, app, fault>>

-----------------------------------------------------------------------------
\* mutation: the connection stays marked as lost
logon_StaysLost ==
    /\ pc = "logon"
    /\ link' = "up"
    /\ applied' = timeout
    /\ IF raised
       THEN handle' = resetStatements /\ pc' = unwind
       ELSE pc' = "rebind" /\ UNCHANGED handle
    /\ UNCHANGED <<conn, timeout, lob, work, committed, twice, late, frame, error,
                   raised, app, reports, misfreed, fault>>

(***************************************************************************)
(* The connection is made again, with its receive timeout.  If the call    *)
(* has raised an exception, the statements of the application are closed   *)
(* (connectionRecovered()) and the call ends; else it is retried.          *)
(***************************************************************************)
logon ==
    /\ pc = "logon"
    /\ link' = "up"
    /\ applied' = timeout
    /\ lost' = IF err = "timeout" THEN lost ELSE FALSE
    /\ IF raised
       THEN handle' = resetStatements /\ pc' = unwind
       ELSE pc' = "rebind" /\ UNCHANGED handle
    /\ UNCHANGED <<open, depth, abort, timeout, lob, work, committed, twice, late, frame,
                   error, raised, app, reports, misfreed, fault>>

(***************************************************************************)
(* The connection cannot be made again: the error of the call is raised,   *)
(* then the one of the logon.                                              *)
(***************************************************************************)
logonFails ==
    /\ pc = "logon"
    /\ raised' = TRUE
    /\ handle' = resetStatements
    /\ abortConnection(unwind)
    /\ UNCHANGED <<open, lost, depth, recv, lob, server, frame, error, app, reports,
                   misfreed>>

(***************************************************************************)
(* The statements are prepared and bound in the new session.               *)
(***************************************************************************)
rebind ==
    /\ pc = "rebind"
    /\ \/ /\ handle' = [x \in Objects |-> IF handle[x] = "cleared" THEN "current"
                                                                   ELSE handle[x]]
          /\ \E L \in SUBSET {x \in Objects : handle[x] = "cleared"} :
                /\ L # {} => link = "up"
                /\ lob' = [x \in Objects |-> IF x \in L THEN "current" ELSE lob[x]]
          /\ proceed("reexecute")
       \/ \E e \in {"error", "lost", "timeout"} :
             Fails(e) /\ checkerr(e) /\ UNCHANGED stmts
    /\ UNCHANGED <<conn, recv, server, frame, app, reports, misfreed, fault>>

-----------------------------------------------------------------------------
(***************************************************************************)
(* The statement of a plain call is destroyed when the call ends; an       *)
(* SQLStatement when it is closed.                                         *)
(***************************************************************************)
frees == me = Stack \/ call = "close"

(***************************************************************************)
(* Its LOB is freed with a round trip, unless the connection is lost.      *)
(***************************************************************************)
freesLob == frees /\ lob[me] # "none" /\ ~lost

free ==
    /\ pc = "free"
    /\ IF frees THEN /\ handle' = [handle EXCEPT ![me] = "none"]
                     /\ lob' = [lob EXCEPT ![me] = "none"]
                ELSE UNCHANGED stmts
    /\ IF freesLob
       THEN /\ \/ link = "up" /\ lob[me] = "current" /\ proceed("return")
               \/ \E e \in {"error", "lost", "timeout"} : Fails(e) /\ checkerr(e)
            /\ misfreed' = misfreed \cup
                  CASE lost -> {"lost"}
                    [] ~lost /\ lob[me] = "stale" -> {IF err = "timeout" THEN err ELSE "stale"}
                    [] OTHER -> {}
       ELSE proceed("return") /\ UNCHANGED misfreed
    /\ UNCHANGED <<conn, recv, server, frame, app, reports, fault>>

(***************************************************************************)
(* What is local to a call ends with it.                                   *)
(***************************************************************************)
dropFrame ==
    /\ pc' = "idle"
    /\ call' = "rollback"
    /\ me' = Stack
    /\ op' = NoOp
    /\ from' = "rollback"
    /\ err' = "error"
    /\ raised' = FALSE

(***************************************************************************)
(* The call guard is destroyed: a connection that was aborted during the   *)
(* call is deleted, which ends the session and closes the statements.      *)
(***************************************************************************)
endCall ==
    /\ depth' = IF call \in Unguarded THEN depth ELSE depth - 1
    /\ abort' = FALSE
    /\ open' = ~abort
    /\ IF abort THEN /\ OCISessionEnd
                     /\ handle' = [x \in Objects |-> "none"]
                     /\ lob' = [x \in Objects |-> "none"]
                ELSE UNCHANGED <<server, stmts>>

(***************************************************************************)
(* The call returns with an exception.  After a failed commit the          *)
(* application does not count on the transaction any more, and a closed    *)
(* datasource has none.                                                    *)
(***************************************************************************)
returnError ==
    /\ pc = "return" /\ raised
    /\ endCall
    /\ dropFrame
    /\ active' = (active /\ ~abort)
    /\ acked' = IF call = "commit" \/ abort THEN {} ELSE acked
    /\ UNCHANGED <<lost, recv, tried, durable, gone, doubt, misfreed, fault>>

(***************************************************************************)
(* The call returns without an exception.                                  *)
(***************************************************************************)
returnOk ==
    /\ pc = "return" /\ ~raised
    /\ endCall
    /\ dropFrame
    /\ \/ /\ call = "exec" /\ op \in Ops
          /\ IF AutoCommit THEN durable' = durable \cup {op} /\ UNCHANGED <<active, acked>>
                           ELSE active' = TRUE /\ acked' = acked \cup {op} /\ UNCHANGED durable
       \/ call = "open" /\ active' = (active \/ ~AutoCommit) /\ UNCHANGED <<durable, acked>>
       \/ /\ call \in {"commit", "rollback"}
          /\ active' = FALSE
          /\ acked' = {}
          /\ durable' = IF call = "commit" THEN durable \cup acked ELSE durable
       \/ /\ call \in {"fetch", "close", "bulk", "option"} \/ (call = "exec" /\ op = NoOp)
          /\ UNCHANGED <<active, durable, acked>>
    /\ UNCHANGED <<lost, recv, tried, gone, doubt, misfreed, fault>>

(***************************************************************************)
(* Nothing is said of the program after it has used a deleted connection.  *)
(***************************************************************************)
undefined == fault /\ UNCHANGED vars

Application ==
    \/ oracle_open \/ oracle_close \/ oracle_opt_set \/ oracle_exec
    \/ oracle_stmt_exec \/ oracle_stmt_fetch \/ oracle_stmt_close
    \/ oracle_commit \/ oracle_rollback \/ oracle_bulk_load

Driver ==
    \/ prepare \/ execute \/ output \/ commit \/ rollback \/ bulkLoad
    \/ setRecvTimeout \/ cancelled
    \/ reportError \/ loseAndReconnect \/ loseAndAbort \/ timedOut
    \/ logon \/ logonFails \/ rebind \/ free \/ returnError \/ returnOk

Next ==
    \/ breakLink
    \/ ~fault /\ settle
    \/ ~fault /\ Application
    \/ ~fault /\ Driver
    \/ undefined

Spec == Init /\ [][Next]_vars /\ WF_vars(~fault /\ Driver)

-----------------------------------------------------------------------------
(***************************************************************************)
(* Type invariant.                                                         *)
(***************************************************************************)
TypeOK ==
    /\ open \in BOOLEAN /\ lost \in BOOLEAN /\ abort \in BOOLEAN
    /\ depth \in 0..1
    /\ timeout \in BOOLEAN /\ applied \in BOOLEAN
    /\ handle \in [Objects -> HandleStates]
    /\ lob \in [Objects -> LobStates]
    /\ link \in {"up", "down"}
    /\ work \subseteq Ops /\ committed \subseteq Ops /\ twice \subseteq Ops
    /\ late \subseteq SUBSET Ops
    /\ pc \in PC
    /\ call \in CallKinds
    /\ me \in Objects
    /\ op \in Ops \cup {NoOp}
    /\ from \in Trips
    /\ err \in {"error", "lost", "timeout"}
    /\ raised \in BOOLEAN
    /\ active \in BOOLEAN
    /\ tried \subseteq Ops /\ acked \subseteq Ops /\ durable \subseteq Ops
    /\ gone \subseteq Ops /\ doubt \subseteq Ops
    /\ misfreed \subseteq {"lost", "stale", "timeout"}
    /\ fault \in BOOLEAN

(***************************************************************************)
(* handleError() executes a statement again only when its first execution  *)
(* can have no effect: no change that is part of a transaction is made     *)
(* twice, whatever is lost or timed out and whenever.  (A statement that   *)
(* commits itself, such as DDL, is not an element of Ops.)                 *)
(***************************************************************************)
AtMostOnce == twice = {}

(***************************************************************************)
(* A commit never reports success for a transaction that was lost: every   *)
(* change that was reported as made in a transaction whose commit          *)
(* succeeded, or by a statement with autocommit, is in the database.       *)
(***************************************************************************)
Durable == durable \subseteq committed

(***************************************************************************)
(* A connection is not made again behind the back of a transaction: while  *)
(* the session lives, it holds every change that was reported as made in   *)
(* the open transaction.                                                   *)
(***************************************************************************)
AckedIsHeld == link = "up" /\ pc = "idle" => acked \subseteq work

(***************************************************************************)
(* A transaction that DBI:ORACLE:TRANSACTION-ERROR reports as lost is not  *)
(* committed later (the commit itself aside): the application may restart  *)
(* it.                                                                     *)
(***************************************************************************)
LostStaysLost == gone \cap committed = {}

(***************************************************************************)
(* The same for a transaction that its commit reports as lost.             *)
(***************************************************************************)
LostCommitIsLost == doubt \cap committed = {}

(***************************************************************************)
(* abortConnection() does not delete the connection under a call that has  *)
(* a QoreOracleCallGuard.                                                  *)
(***************************************************************************)
GuardedCallsKeepConnection == fault => call \in Unguarded

(***************************************************************************)
(* abortConnection() does not delete the connection under any call.  Does  *)
(* not hold: direct path loads and the closing of statements have no guard *)
(* (see the README).                                                       *)
(***************************************************************************)
ConnectionOutlivesCall == ~fault

(***************************************************************************)
(* A temporary LOB is freed only in the session that made it, and only     *)
(* while that session can be used.  Does not hold after a receive timeout  *)
(* (see the README).                                                       *)
(***************************************************************************)
LobsFreedInTheirSession == misfreed = {}

(***************************************************************************)
(* After a call the connection is closed, or it can be used: it is not     *)
(* marked as lost or as to be aborted, it has the receive timeout that was *)
(* configured, and the statements that are left are not of an old session. *)
(***************************************************************************)
UsableAfterCall ==
    pc = "idle" /\ open =>
       /\ ~lost /\ ~abort /\ depth = 0
       /\ applied = timeout
       /\ \A s \in Statements : handle[s] # "stale" /\ lob[s] # "stale"

(***************************************************************************)
(* The calls of the driver are transactions (see Transactions): whenever   *)
(* the session or the answer to a commit is lost, a transaction is         *)
(* committed whole and once or not at all, what is reported as committed   *)
(* is, and nothing reported as lost is committed later, but by the very    *)
(* commit whose answer was lost and that the server may still be running.  *)
(***************************************************************************)
AsTransactions == INSTANCE Transactions WITH Changes <- Ops
IsTransactional == AsTransactions!Spec

(***************************************************************************)
(* Every driver call returns, however often the connection breaks: an      *)
(* execution is retried once.                                              *)
(***************************************************************************)
CallsReturn == pc # "idle" ~> pc = "idle" \/ fault

=============================================================================
