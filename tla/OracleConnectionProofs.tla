----------------------- MODULE OracleConnectionProofs -----------------------
(***************************************************************************)
(* Proofs about OracleConnection, for any number of changes and of         *)
(* SQLStatements, with and without autocommit.                             *)
(***************************************************************************)
EXTENDS OracleConnection, TLAPS

(***************************************************************************)
(* The steps of a call before anything has failed in it.                   *)
(***************************************************************************)
Forward == {"prepare", "execute", "rebind", "reexecute", "output", "commit",
            "rollback", "bulk", "option"}

(***************************************************************************)
(* The change of the call will be made, or made again, and is not made.    *)
(***************************************************************************)
Pending ==
    \/ pc \in {"prepare", "execute", "rebind", "reexecute"}
    \/ pc = "handle" /\ from = "execute" /\ err # "timeout"
    \/ pc = "logon" /\ ~raised

(***************************************************************************)
(* The control of a call: its guard, its exceptions, its statement.        *)
(***************************************************************************)
CallInv ==
    /\ depth = IF pc = "idle" \/ call \in Unguarded THEN 0 ELSE 1
    /\ fault => call \in Unguarded
    /\ pc # "idle" => open
    /\ abort => raised /\ pc \in {"handle", "logon", "commit", "free", "return"}
    /\ pc \in Forward => ~raised \/ (pc = "commit" /\ call = "exec")
    /\ pc = "handle" /\ from # "free" => ~raised \/ (from = "commit" /\ call = "exec")
    /\ pc = "logon" /\ ~raised => from = "execute"
    /\ pc = "handle" => from \in Forward \cup {"free"}
    /\ pc = "commit" => call = "commit" \/ (call = "exec" /\ AutoCommit)
    /\ pc = "rollback" => call = "rollback"
    /\ pc = "bulk" => call = "bulk"
    /\ pc = "option" => call = "option"
    /\ pc = "handle" /\ from = "commit" => call = "commit" \/ (call = "exec" /\ AutoCommit)
    /\ pc = "output" => call \in {"exec", "open", "fetch"}
    /\ \/ pc \in {"prepare", "execute", "rebind", "reexecute"}
       \/ pc \in {"handle", "logon"} /\ from = "execute"
       => call \in {"exec", "open"}

(***************************************************************************)
(* The statement of a plain call has no handles outside of the call, so    *)
(* that nothing can fail after a commit or a rollback.                     *)
(***************************************************************************)
StackInv ==
    /\ call \in {"exec", "commit", "rollback", "bulk", "option"} => me = Stack
    /\ call \in {"open", "fetch", "close"} => me \in Statements
    /\ \/ pc \in {"idle", "return"}
       \/ call # "exec"
       \/ pc \in {"handle", "logon"} /\ from = "free"
       => handle[Stack] = "none" /\ lob[Stack] = "none"

(***************************************************************************)
(* The database: a change is in the session or committed, not both, and    *)
(* neither while it is still pending.                                      *)
(***************************************************************************)
ServerInv ==
    /\ link = "down" => work = {}
    /\ pc = "logon" => link = "down"
    /\ work \cap committed = {}
    /\ work \cup committed \subseteq tried
    /\ op \in tried \cup {NoOp}
    /\ Pending => op \notin work \cup committed
    /\ twice = {}

(***************************************************************************)
(* A commit that the server still runs can yet make changes that nothing   *)
(* else has made or will make.                                             *)
(***************************************************************************)
LateInv ==
    /\ \A T \in late : /\ T # {}
                       /\ T \subseteq tried
                       /\ T \cap (work \cup committed) = {}
                       /\ Pending => op \notin T
    /\ \A S, T \in late : S = T \/ S \cap T = {}

(***************************************************************************)
(* The steps at which the end of a transaction is decided on the server    *)
(* and not yet reported to the application.                                *)
(***************************************************************************)
Ending ==
    \/ call = "commit" /\ pc \in {"handle", "free", "return"}
    \/ call = "rollback" /\ pc = "handle" /\ err = "timeout"
    \/ call = "rollback" /\ pc \in {"free", "return"} /\ ~raised

(***************************************************************************)
(* What was reported, or is about to be, against what the database holds.  *)
(***************************************************************************)
ReportInv ==
    /\ acked # {} => active
    /\ AutoCommit => ~active
    /\ pc = "logon" \/ ~open => acked = {}
    /\ link = "up" /\ ~Ending => acked \subseteq work
    /\ call = "commit" /\ pc \in {"free", "return"} /\ ~raised => acked \subseteq committed
    /\ call = "exec" /\ op \in Ops /\ ~raised =>
          /\ pc \in {"output", "commit"} /\ link = "up" => op \in work
          /\ pc \in {"free", "return"} /\ AutoCommit => op \in committed
          /\ pc \in {"free", "return"} /\ ~AutoCommit /\ link = "up" => op \in work
    /\ durable \subseteq committed

IInv == TypeOK /\ CallInv /\ StackInv /\ ServerInv /\ LateInv /\ ReportInv

(***************************************************************************)
(* The changes of transactions that were reported as lost, if no ping is   *)
(* ended by the receive timeout.                                           *)
(***************************************************************************)
LossInv ==
    /\ pc = "handle" /\ call = "commit" => from = "commit"
    /\ pc = "handle" /\ err = "lost" => link = "down"
    /\ abort => work = {}
    /\ acked \cup gone \subseteq tried
    /\ gone \cap (work \cup committed \cup acked) = {}
    /\ op \notin gone \cup acked
    /\ acked \cap committed # {} => call = "commit" /\ pc \in {"handle", "free", "return"}
    /\ call = "exec" /\ ~AutoCommit => op \notin committed

(***************************************************************************)
(* A commit that the server still runs is of a transaction that was not    *)
(* reported as lost by another call.                                       *)
(***************************************************************************)
RunningInv ==
    \A T \in late :
       /\ gone \cap T = {}
       /\ acked \cap T # {} => call = "commit" /\ pc \in {"handle", "free", "return"}
       /\ call = "exec" /\ ~AutoCommit => op \notin T

(***************************************************************************)
(* A transaction has one fate when its commit ends, and was not committed  *)
(* if the commit failed on a connection that is still there; what is in    *)
(* doubt is not in the session any more.                                   *)
(***************************************************************************)
DoubtInv ==
    /\ call = "commit" /\ pc \in {"handle", "free", "return"} =>
          /\ acked \subseteq committed \/ acked \cap committed = {}
          /\ \A T \in late : acked \subseteq T \/ acked \cap T = {}
    /\ call = "commit" /\ (\/ pc = "handle" /\ err = "error"
                           \/ pc \in {"free", "return"} /\ raised) =>
          acked \cap committed = {} /\ \A T \in late : acked \cap T = {}
    /\ doubt \subseteq tried
    /\ doubt \cap (work \cup acked) = {}
    /\ op \notin doubt

(***************************************************************************)
(* The connection is marked as lost only until it is made again or         *)
(* aborted; what an old session has left is never kept by a statement of   *)
(* the application.                                                        *)
(***************************************************************************)
UsableInv ==
    /\ fault => pc # "idle"
    /\ lost /\ open /\ ~fault => abort \/ (pc = "logon" /\ err # "timeout")
    /\ applied = timeout
    /\ \A s \in Statements : handle[s] # "stale" /\ lob[s] # "stale"

-----------------------------------------------------------------------------
(***************************************************************************)
(* Entering a call preserves the types.                                    *)
(***************************************************************************)
LEMMA EnterType ==
    ASSUME NEW k \in CallKinds, NEW x \in Objects, NEW o \in Ops \cup {NoOp},
           NEW step \in PC, TypeOK, CallInv, enter(k, x, o, step), tried' \subseteq Ops
    PROVE  TypeOK'
<1>1. depth' \in 0..1
  BY DEF TypeOK, CallInv, enter
<1> QED
  BY <1>1 DEF TypeOK, enter, recv, stmts, server, error, reports

(***************************************************************************)
(* Every step preserves the types.                                         *)
(***************************************************************************)
LEMMA TypeStep == TypeOK /\ CallInv /\ [Next]_vars => TypeOK'
<1> SUFFICES ASSUME TypeOK, CallInv, [Next]_vars PROVE TypeOK'
  OBVIOUS
<1> USE ObjectsAssumption, FlagsAssumption DEF TypeOK, conn, recv, stmts, server,
      frame, error, reports, app
<1>1. CASE breakLink
  BY <1>1 DEF CallInv, Objects, PC, Trips, CallKinds, HandleStates, LobStates,
     Unguarded, breakLink
<1>2. CASE ~fault /\ oracle_open
  <2>1. PICK b \in BOOLEAN : timeout' = b /\ applied' = b
    BY <1>2 DEF oracle_open
  <2> QED
    BY <1>2, <2>1 DEF TypeOK, oracle_open
<1>3. CASE ~fault /\ oracle_close
  <2>1. handle' \in [Objects -> HandleStates] /\ lob' \in [Objects -> LobStates]
    BY <1>3 DEF TypeOK, oracle_close, HandleStates, LobStates
  <2>2. link' \in {"up", "down"} /\ work' \subseteq Ops /\ committed' \subseteq Ops /\ twice' \subseteq Ops /\ late' = late
    BY <1>3, FlagsAssumption DEF TypeOK, oracle_close, OCISessionEnd
  <2> QED
    BY <1>3, <2>1, <2>2 DEF TypeOK, oracle_close
<1>4. CASE ~fault /\ setRecvTimeout
  BY <1>4 DEF CallInv, Objects, PC, Trips, CallKinds, HandleStates, LobStates,
     Unguarded, setRecvTimeout, proceed, checkerr
<1>5. CASE ~fault /\ oracle_exec
  <2>1. PICK o \in (Ops \ tried) \cup {NoOp} :
                 enter("exec", Stack, o, "prepare") /\ tried' = tried \cup ({o} \cap Ops)
    BY <1>5 DEF oracle_exec
  <2>2. Stack \in Objects /\ o \in Ops \cup {NoOp} /\ "exec" \in CallKinds /\ "prepare" \in PC
    BY DEF Objects, CallKinds, PC, Trips
  <2>3. tried' \subseteq Ops
    BY <2>1 DEF TypeOK
  <2> QED
    BY <2>1, <2>2, <2>3, EnterType
<1>6. CASE ~fault /\ oracle_stmt_exec
  <2>1. PICK s \in Statements : enter("open", s, NoOp, "prepare")
    BY <1>6 DEF oracle_stmt_exec
  <2>2. tried' \subseteq Ops
    BY <1>6 DEF oracle_stmt_exec, TypeOK
  <2>3. s \in Objects /\ NoOp \in Ops \cup {NoOp} /\ "open" \in CallKinds /\ "prepare" \in PC
    BY DEF Objects, CallKinds, PC, Trips
  <2> QED
    BY <2>1, <2>2, <2>3, EnterType
<1>7. CASE ~fault /\ oracle_stmt_fetch
  <2>1. PICK s \in Statements : enter("fetch", s, NoOp, "output")
    BY <1>7 DEF oracle_stmt_fetch
  <2>2. tried' \subseteq Ops
    BY <1>7 DEF oracle_stmt_fetch, TypeOK
  <2>3. s \in Objects /\ NoOp \in Ops \cup {NoOp} /\ "fetch" \in CallKinds /\ "output" \in PC
    BY DEF Objects, CallKinds, PC, Trips
  <2> QED
    BY <2>1, <2>2, <2>3, EnterType
<1>8. CASE ~fault /\ oracle_stmt_close
  <2>1. PICK s \in Statements : enter("close", s, NoOp, "free")
    BY <1>8 DEF oracle_stmt_close
  <2>2. tried' \subseteq Ops
    BY <1>8 DEF oracle_stmt_close, TypeOK
  <2>3. s \in Objects /\ NoOp \in Ops \cup {NoOp} /\ "close" \in CallKinds /\ "free" \in PC
    BY DEF Objects, CallKinds, PC, Trips
  <2> QED
    BY <2>1, <2>2, <2>3, EnterType
<1>9. CASE ~fault /\ oracle_commit
  <2>1. enter("commit", Stack, NoOp, "commit") /\ tried' \subseteq Ops
    BY <1>9 DEF oracle_commit, TypeOK
  <2>2. Stack \in Objects /\ NoOp \in Ops \cup {NoOp} /\ "commit" \in CallKinds /\ "commit" \in PC
    BY DEF Objects, CallKinds, PC, Trips
  <2> QED
    BY <2>1, <2>2, EnterType
<1>10. CASE ~fault /\ oracle_rollback
  <2>1. enter("rollback", Stack, NoOp, "rollback") /\ tried' \subseteq Ops
    BY <1>10 DEF oracle_rollback, TypeOK
  <2>2. Stack \in Objects /\ NoOp \in Ops \cup {NoOp} /\ "rollback" \in CallKinds /\ "rollback" \in PC
    BY DEF Objects, CallKinds, PC, Trips
  <2> QED
    BY <2>1, <2>2, EnterType
<1>11. CASE ~fault /\ oracle_bulk_load
  <2>1. enter("bulk", Stack, NoOp, "bulk") /\ tried' \subseteq Ops
    BY <1>11 DEF oracle_bulk_load, TypeOK
  <2>2. Stack \in Objects /\ NoOp \in Ops \cup {NoOp} /\ "bulk" \in CallKinds /\ "bulk" \in PC
    BY DEF Objects, CallKinds, PC, Trips
  <2> QED
    BY <2>1, <2>2, EnterType
<1>12. CASE ~fault /\ prepare
  BY <1>12 DEF CallInv, Objects, PC, Trips, CallKinds, HandleStates,
     LobStates, Unguarded, prepare, proceed, checkerr, Fails
<1>13. CASE ~fault /\ execute
  BY <1>13 DEF CallInv, Objects, PC, Trips, CallKinds, HandleStates,
     LobStates, Unguarded, execute, proceed, checkerr, Fails, OCIStmtExecute
<1>14. CASE ~fault /\ output
  BY <1>14 DEF CallInv, Objects, PC, Trips, CallKinds, HandleStates,
     LobStates, Unguarded, output, proceed, checkerr, Fails, autoCommits
<1>15. CASE ~fault /\ commit
  BY <1>15 DEF CallInv, Objects, PC, Trips, CallKinds, HandleStates,
     LobStates, Unguarded, commit, proceed, checkerr, Fails, OCITransCommit,
     OCITransRollback, commitRunsOn
<1>16. CASE ~fault /\ rollback
  BY <1>16 DEF CallInv, Objects, PC, Trips, CallKinds, HandleStates,
     LobStates, Unguarded, rollback, proceed, checkerr, Fails,
     OCITransRollback
<1>17. CASE ~fault /\ bulkLoad
  BY <1>17 DEF CallInv, Objects, PC, Trips, CallKinds, HandleStates,
     LobStates, Unguarded, bulkLoad, proceed, checkerr, Fails
<1>18. CASE ~fault /\ cancelled
  BY <1>18 DEF CallInv, Objects, PC, Trips, CallKinds, HandleStates,
     LobStates, Unguarded, cancelled, autoCommits
<1>19. CASE ~fault /\ reportError
  BY <1>19 DEF CallInv, Objects, PC, Trips, CallKinds, HandleStates,
     LobStates, Unguarded, reportError, unwind, autoCommits
<1>20. CASE ~fault /\ loseAndReconnect
  BY <1>20 DEF CallInv, Objects, PC, Trips, CallKinds, HandleStates,
     LobStates, Unguarded, loseAndReconnect, isLostError, canRetry,
     transactionLost, cleared, withoutLobs, outdated, OCISessionEnd
<1>21. CASE ~fault /\ loseAndAbort
  <2>1. abort' \in BOOLEAN /\ fault' \in BOOLEAN /\ pc' \in PC
    BY <1>21 DEF TypeOK, loseAndAbort, abortConnection, unwind, autoCommits, PC,
       Trips
  <2>2. handle' \in [Objects -> HandleStates] /\ lob' \in [Objects -> LobStates]
    BY <1>21 DEF TypeOK, loseAndAbort, resetStatements, withoutLobs,
       HandleStates, LobStates
  <2>3. acked' \subseteq Ops /\ gone' \subseteq Ops /\ doubt' \subseteq Ops
    BY <1>21 DEF TypeOK, loseAndAbort, transactionLost, reports
  <2> QED
    BY <1>21, <2>1, <2>2, <2>3 DEF TypeOK, loseAndAbort
<1>22. CASE ~fault /\ timedOut
  BY <1>22 DEF CallInv, Objects, PC, Trips, CallKinds, HandleStates,
     LobStates, Unguarded, timedOut, transactionLost, cleared, withoutLobs,
     outdated
<1>23. CASE ~fault /\ logon
  <2>1. handle' \in [Objects -> HandleStates]
    BY <1>23 DEF TypeOK, logon, resetStatements, HandleStates
  <2>2. pc' \in PC /\ lost' \in BOOLEAN
    BY <1>23 DEF TypeOK, logon, PC, Trips, unwind, autoCommits
  <2> QED
    BY <1>23, <2>1, <2>2 DEF TypeOK, logon
<1>24. CASE ~fault /\ logonFails
  <2>1. abort' \in BOOLEAN /\ fault' \in BOOLEAN /\ pc' \in PC
    BY <1>24 DEF TypeOK, logonFails, abortConnection, unwind, autoCommits, PC,
       Trips
  <2>2. handle' \in [Objects -> HandleStates]
    BY <1>24 DEF TypeOK, logonFails, resetStatements, HandleStates
  <2> QED
    BY <1>24, <2>1, <2>2 DEF TypeOK, logonFails
<1>25. CASE ~fault /\ rebind
  BY <1>25 DEF CallInv, Objects, PC, Trips, CallKinds, HandleStates,
     LobStates, Unguarded, rebind, proceed, checkerr, Fails
<1>26. CASE ~fault /\ free
  <2>1. handle' \in [Objects -> HandleStates] /\ lob' \in [Objects -> LobStates]
    BY <1>26 DEF TypeOK, free, HandleStates, LobStates, stmts
  <2>2. pc' \in PC /\ from' \in Trips /\ err' \in {"error", "lost", "timeout"} /\ raised' = raised
    BY <1>26 DEF TypeOK, free, proceed, checkerr, PC, Trips, error
  <2>3. misfreed' \subseteq {"lost", "stale", "timeout"}
    BY <1>26 DEF TypeOK, free
  <2> QED
    BY <1>26, <2>1, <2>2, <2>3 DEF TypeOK, free
<1>27. CASE ~fault /\ returnError
  <2>1. handle' \in [Objects -> HandleStates] /\ lob' \in [Objects -> LobStates]
    BY <1>27 DEF TypeOK, returnError, endCall, HandleStates, LobStates, stmts
  <2>2. depth' \in 0..1
    BY <1>27 DEF TypeOK, returnError, endCall, CallInv, Unguarded
  <2>3. link' \in {"up", "down"} /\ work' \subseteq Ops /\ committed' \subseteq Ops /\ twice' \subseteq Ops /\ late' = late
    BY <1>27 DEF TypeOK, returnError, endCall, OCISessionEnd, server
  <2>4. open' \in BOOLEAN /\ abort' \in BOOLEAN /\ active' \in BOOLEAN
    BY <1>27 DEF TypeOK, returnError, endCall
  <2> QED
    BY <1>27, <2>1, <2>2, <2>3, <2>4 DEF TypeOK, returnError, dropFrame,
       Objects, PC, Trips, CallKinds
<1>28. CASE ~fault /\ returnOk
  <2>1. handle' \in [Objects -> HandleStates] /\ lob' \in [Objects -> LobStates]
    BY <1>28 DEF TypeOK, returnOk, endCall, HandleStates, LobStates, stmts
  <2>2. depth' \in 0..1
    BY <1>28 DEF TypeOK, returnOk, endCall, CallInv, Unguarded
  <2>3. link' \in {"up", "down"} /\ work' \subseteq Ops /\ committed' \subseteq Ops /\ twice' \subseteq Ops /\ late' = late
    BY <1>28 DEF TypeOK, returnOk, endCall, OCISessionEnd, server
  <2>4. open' \in BOOLEAN /\ abort' \in BOOLEAN /\ active' \in BOOLEAN /\ acked' \subseteq Ops /\ durable' \subseteq Ops
    BY <1>28 DEF TypeOK, returnOk, endCall
  <2> QED
    BY <1>28, <2>1, <2>2, <2>3, <2>4 DEF TypeOK, returnOk, dropFrame, Objects,
       PC, Trips, CallKinds
<1>29. CASE UNCHANGED vars
  BY <1>29 DEF vars
<1>30. CASE ~fault /\ oracle_opt_set
  <2>1. enter("option", Stack, NoOp, "option") /\ tried' \subseteq Ops
    BY <1>30 DEF oracle_opt_set, TypeOK
  <2>2. Stack \in Objects /\ NoOp \in Ops \cup {NoOp} /\ "option" \in CallKinds /\ "option" \in PC
    BY DEF Objects, CallKinds, PC, Trips
  <2> QED
    BY <2>1, <2>2, EnterType
<1>31. CASE ~fault /\ settle
  <2>1. late' \subseteq SUBSET Ops /\ committed' \subseteq Ops /\ twice' \subseteq Ops
    BY <1>31 DEF settle
  <2> QED
    BY <1>31, <2>1 DEF settle
<1> QED
  BY <1>1, <1>2, <1>3, <1>4, <1>5, <1>6, <1>7, <1>8, <1>9, <1>10, <1>11,
     <1>12, <1>13, <1>14, <1>15, <1>16, <1>17, <1>18, <1>19, <1>20, <1>21,
     <1>22, <1>23, <1>24, <1>25, <1>26, <1>27, <1>28, <1>29, <1>30, <1>31 DEF Next,
     Application, Driver, undefined

(***************************************************************************)
(* Every step preserves the control of a call.                             *)
(***************************************************************************)
LEMMA CallStep == TypeOK /\ CallInv /\ [Next]_vars => CallInv'
<1> SUFFICES ASSUME TypeOK, CallInv, [Next]_vars PROVE CallInv'
  OBVIOUS
<1> USE ObjectsAssumption, FlagsAssumption DEF TypeOK, CallInv, Forward, PC, Trips,
      CallKinds, Unguarded, conn, recv, stmts, server, frame, error, reports,
      app
<1>1. CASE breakLink
  BY <1>1 DEF breakLink
<1>2. CASE ~fault /\ oracle_open
  BY <1>2 DEF oracle_open
<1>3. CASE ~fault /\ oracle_close
  BY <1>3 DEF oracle_close, OCISessionEnd
<1>4. CASE ~fault /\ setRecvTimeout
  BY <1>4 DEF setRecvTimeout, proceed, checkerr
<1>5. CASE ~fault /\ oracle_exec
  BY <1>5 DEF oracle_exec, enter
<1>6. CASE ~fault /\ oracle_stmt_exec
  BY <1>6 DEF oracle_stmt_exec, enter
<1>7. CASE ~fault /\ oracle_stmt_fetch
  BY <1>7 DEF oracle_stmt_fetch, enter
<1>8. CASE ~fault /\ oracle_stmt_close
  BY <1>8 DEF oracle_stmt_close, enter
<1>9. CASE ~fault /\ oracle_commit
  BY <1>9 DEF oracle_commit, enter
<1>10. CASE ~fault /\ oracle_rollback
  BY <1>10 DEF oracle_rollback, enter
<1>11. CASE ~fault /\ oracle_bulk_load
  BY <1>11 DEF oracle_bulk_load, enter
<1>12. CASE ~fault /\ prepare
  BY <1>12 DEF prepare, proceed, checkerr, Fails
<1>13. CASE ~fault /\ execute
  BY <1>13 DEF execute, proceed, checkerr, Fails, OCIStmtExecute
<1>14. CASE ~fault /\ output
  BY <1>14 DEF output, proceed, checkerr, Fails, autoCommits
<1>15. CASE ~fault /\ commit
  BY <1>15 DEF commit, proceed, checkerr, Fails, OCITransCommit,
     OCITransRollback, commitRunsOn
<1>16. CASE ~fault /\ rollback
  BY <1>16 DEF rollback, proceed, checkerr, Fails, OCITransRollback
<1>17. CASE ~fault /\ bulkLoad
  BY <1>17 DEF bulkLoad, proceed, checkerr, Fails
<1>18. CASE ~fault /\ cancelled
  BY <1>18 DEF cancelled, autoCommits
<1>19. CASE ~fault /\ reportError
  BY <1>19 DEF reportError, unwind, autoCommits
<1>20. CASE ~fault /\ loseAndReconnect
  BY <1>20 DEF loseAndReconnect, isLostError, canRetry, transactionLost,
     cleared, withoutLobs, outdated, OCISessionEnd
<1>21. CASE ~fault /\ loseAndAbort
  BY <1>21 DEF loseAndAbort, isLostError, canRetry, transactionLost,
     resetStatements, withoutLobs, abortConnection, unwind, autoCommits
<1>22. CASE ~fault /\ timedOut
  BY <1>22 DEF timedOut, transactionLost, cleared, withoutLobs, outdated
<1>23. CASE ~fault /\ logon
  BY <1>23 DEF logon, unwind, autoCommits, resetStatements
<1>24. CASE ~fault /\ logonFails
  BY <1>24 DEF logonFails, abortConnection, unwind, autoCommits,
     resetStatements
<1>25. CASE ~fault /\ rebind
  BY <1>25 DEF rebind, proceed, checkerr, Fails
<1>26. CASE ~fault /\ free
  BY <1>26 DEF free, frees, freesLob, proceed, checkerr, Fails
<1>27. CASE ~fault /\ returnError
  BY <1>27 DEF returnError, endCall, dropFrame, OCISessionEnd
<1>28. CASE ~fault /\ returnOk
  BY <1>28 DEF returnOk, endCall, dropFrame, OCISessionEnd
<1>29. CASE UNCHANGED vars
  BY <1>29 DEF vars
<1>30. CASE ~fault /\ oracle_opt_set
  BY <1>30 DEF oracle_opt_set, enter
<1>31. CASE ~fault /\ settle
  BY <1>31 DEF settle
<1> QED
  BY <1>1, <1>2, <1>3, <1>4, <1>5, <1>6, <1>7, <1>8, <1>9, <1>10, <1>11,
     <1>12, <1>13, <1>14, <1>15, <1>16, <1>17, <1>18, <1>19, <1>20, <1>21,
     <1>22, <1>23, <1>24, <1>25, <1>26, <1>27, <1>28, <1>29, <1>30, <1>31 DEF Next,
     Application, Driver, undefined

(***************************************************************************)
(* Every step preserves the part about the statement of a plain call.      *)
(***************************************************************************)
LEMMA StackStep == TypeOK /\ CallInv /\ StackInv /\ [Next]_vars => StackInv'
<1> SUFFICES ASSUME TypeOK, CallInv, StackInv, [Next]_vars PROVE StackInv'
  OBVIOUS
<1> USE ObjectsAssumption, FlagsAssumption DEF TypeOK, CallInv, StackInv, Objects,
      Forward, PC, Trips, CallKinds, Unguarded, conn, recv, stmts, server,
      frame, error, reports, app
<1>1. CASE breakLink
  BY <1>1 DEF breakLink
<1>2. CASE ~fault /\ oracle_open
  BY <1>2 DEF oracle_open
<1>3. CASE ~fault /\ oracle_close
  BY <1>3 DEF oracle_close, OCISessionEnd
<1>4. CASE ~fault /\ setRecvTimeout
  BY <1>4 DEF setRecvTimeout, proceed, checkerr
<1>5. CASE ~fault /\ oracle_exec
  BY <1>5 DEF oracle_exec, enter
<1>6. CASE ~fault /\ oracle_stmt_exec
  BY <1>6 DEF oracle_stmt_exec, enter
<1>7. CASE ~fault /\ oracle_stmt_fetch
  BY <1>7 DEF oracle_stmt_fetch, enter
<1>8. CASE ~fault /\ oracle_stmt_close
  BY <1>8 DEF oracle_stmt_close, enter
<1>9. CASE ~fault /\ oracle_commit
  BY <1>9 DEF oracle_commit, enter
<1>10. CASE ~fault /\ oracle_rollback
  BY <1>10 DEF oracle_rollback, enter
<1>11. CASE ~fault /\ oracle_bulk_load
  BY <1>11 DEF oracle_bulk_load, enter
<1>12. CASE ~fault /\ prepare
  BY <1>12 DEF prepare, proceed, checkerr, Fails
<1>13. CASE ~fault /\ execute
  BY <1>13 DEF execute, proceed, checkerr, Fails, OCIStmtExecute
<1>14. CASE ~fault /\ output
  BY <1>14 DEF output, proceed, checkerr, Fails, autoCommits
<1>15. CASE ~fault /\ commit
  BY <1>15 DEF commit, proceed, checkerr, Fails, OCITransCommit,
     OCITransRollback, commitRunsOn
<1>16. CASE ~fault /\ rollback
  BY <1>16 DEF rollback, proceed, checkerr, Fails, OCITransRollback
<1>17. CASE ~fault /\ bulkLoad
  BY <1>17 DEF bulkLoad, proceed, checkerr, Fails
<1>18. CASE ~fault /\ cancelled
  BY <1>18 DEF cancelled, autoCommits
<1>19. CASE ~fault /\ reportError
  BY <1>19 DEF reportError, unwind, autoCommits
<1>20. CASE ~fault /\ loseAndReconnect
  BY <1>20 DEF loseAndReconnect, isLostError, canRetry, transactionLost,
     cleared, withoutLobs, outdated, OCISessionEnd
<1>21. CASE ~fault /\ loseAndAbort
  BY <1>21 DEF loseAndAbort, isLostError, canRetry, transactionLost,
     resetStatements, withoutLobs, abortConnection, unwind, autoCommits
<1>22. CASE ~fault /\ timedOut
  BY <1>22 DEF timedOut, transactionLost, cleared, withoutLobs, outdated
<1>23. CASE ~fault /\ logon
  BY <1>23 DEF logon, unwind, autoCommits, resetStatements
<1>24. CASE ~fault /\ logonFails
  BY <1>24 DEF logonFails, abortConnection, unwind, autoCommits,
     resetStatements
<1>25. CASE ~fault /\ rebind
  BY <1>25 DEF rebind, proceed, checkerr, Fails
<1>26. CASE ~fault /\ free
  BY <1>26 DEF free, frees, freesLob, proceed, checkerr, Fails
<1>27. CASE ~fault /\ returnError
  BY <1>27 DEF returnError, endCall, dropFrame, OCISessionEnd
<1>28. CASE ~fault /\ returnOk
  BY <1>28 DEF returnOk, endCall, dropFrame, OCISessionEnd
<1>29. CASE UNCHANGED vars
  BY <1>29 DEF vars
<1>30. CASE ~fault /\ oracle_opt_set
  BY <1>30 DEF oracle_opt_set, enter
<1>31. CASE ~fault /\ settle
  BY <1>31 DEF settle
<1> QED
  BY <1>1, <1>2, <1>3, <1>4, <1>5, <1>6, <1>7, <1>8, <1>9, <1>10, <1>11,
     <1>12, <1>13, <1>14, <1>15, <1>16, <1>17, <1>18, <1>19, <1>20, <1>21,
     <1>22, <1>23, <1>24, <1>25, <1>26, <1>27, <1>28, <1>29, <1>30, <1>31 DEF Next,
     Application, Driver, undefined

(***************************************************************************)
(* Every step preserves the database part.                                 *)
(***************************************************************************)
LEMMA ServerStep == TypeOK /\ CallInv /\ ServerInv /\ LateInv /\ [Next]_vars => ServerInv'
<1> SUFFICES ASSUME TypeOK, CallInv, ServerInv, LateInv, [Next]_vars PROVE ServerInv'
  OBVIOUS
<1> USE ObjectsAssumption, FlagsAssumption DEF TypeOK, CallInv, ServerInv, Pending,
      Forward, PC, Trips, conn, recv, stmts, server, frame, error, reports,
      app
<1>1. CASE breakLink
  BY <1>1 DEF breakLink
<1>2. CASE ~fault /\ oracle_open
  BY <1>2 DEF oracle_open
<1>3. CASE ~fault /\ oracle_close
  BY <1>3 DEF oracle_close, OCISessionEnd
<1>4. CASE ~fault /\ setRecvTimeout
  BY <1>4 DEF setRecvTimeout, proceed, checkerr
<1>5. CASE ~fault /\ oracle_exec
  BY <1>5 DEF oracle_exec, enter
<1>6. CASE ~fault /\ oracle_stmt_exec
  BY <1>6 DEF oracle_stmt_exec, enter
<1>7. CASE ~fault /\ oracle_stmt_fetch
  BY <1>7 DEF oracle_stmt_fetch, enter
<1>8. CASE ~fault /\ oracle_stmt_close
  BY <1>8 DEF oracle_stmt_close, enter
<1>9. CASE ~fault /\ oracle_commit
  BY <1>9 DEF oracle_commit, enter
<1>10. CASE ~fault /\ oracle_rollback
  BY <1>10 DEF oracle_rollback, enter
<1>11. CASE ~fault /\ oracle_bulk_load
  BY <1>11 DEF oracle_bulk_load, enter
<1>12. CASE ~fault /\ prepare
  BY <1>12 DEF prepare, proceed, checkerr, Fails
<1>13. CASE ~fault /\ execute
  BY <1>13 DEF execute, proceed, checkerr, Fails, OCIStmtExecute
<1>14. CASE ~fault /\ output
  BY <1>14 DEF output, proceed, checkerr, Fails, autoCommits
<1>15. CASE ~fault /\ commit
  BY <1>15 DEF commit, proceed, checkerr, Fails, OCITransCommit,
     OCITransRollback, commitRunsOn
<1>16. CASE ~fault /\ rollback
  BY <1>16 DEF rollback, proceed, checkerr, Fails, OCITransRollback
<1>17. CASE ~fault /\ bulkLoad
  BY <1>17 DEF bulkLoad, proceed, checkerr, Fails
<1>18. CASE ~fault /\ cancelled
  BY <1>18 DEF cancelled, autoCommits
<1>19. CASE ~fault /\ reportError
  BY <1>19 DEF reportError, unwind, autoCommits
<1>20. CASE ~fault /\ loseAndReconnect
  BY <1>20 DEF loseAndReconnect, isLostError, canRetry, transactionLost,
     cleared, withoutLobs, outdated, OCISessionEnd
<1>21. CASE ~fault /\ loseAndAbort
  BY <1>21 DEF loseAndAbort, isLostError, canRetry, transactionLost,
     resetStatements, withoutLobs, abortConnection, unwind, autoCommits
<1>22. CASE ~fault /\ timedOut
  BY <1>22 DEF timedOut, transactionLost, cleared, withoutLobs, outdated
<1>23. CASE ~fault /\ logon
  BY <1>23 DEF logon, unwind, autoCommits, resetStatements
<1>24. CASE ~fault /\ logonFails
  BY <1>24 DEF logonFails, abortConnection, unwind, autoCommits,
     resetStatements
<1>25. CASE ~fault /\ rebind
  BY <1>25 DEF rebind, proceed, checkerr, Fails
<1>26. CASE ~fault /\ free
  BY <1>26 DEF free, frees, freesLob, proceed, checkerr, Fails
<1>27. CASE ~fault /\ returnError
  BY <1>27 DEF returnError, endCall, dropFrame, OCISessionEnd
<1>28. CASE ~fault /\ returnOk
  BY <1>28 DEF returnOk, endCall, dropFrame, OCISessionEnd
<1>29. CASE UNCHANGED vars
  BY <1>29 DEF vars
<1>30. CASE ~fault /\ oracle_opt_set
  BY <1>30 DEF oracle_opt_set, enter
<1>31. CASE ~fault /\ settle
  BY <1>31 DEF settle, LateInv
<1> QED
  BY <1>1, <1>2, <1>3, <1>4, <1>5, <1>6, <1>7, <1>8, <1>9, <1>10, <1>11,
     <1>12, <1>13, <1>14, <1>15, <1>16, <1>17, <1>18, <1>19, <1>20, <1>21,
     <1>22, <1>23, <1>24, <1>25, <1>26, <1>27, <1>28, <1>29, <1>30, <1>31 DEF Next,
     Application, Driver, undefined

(***************************************************************************)
(* Every step preserves the part about the commits that still run.          *)
(***************************************************************************)
LEMMA LateStep == TypeOK /\ CallInv /\ ServerInv /\ LateInv /\ [Next]_vars => LateInv'
<1> SUFFICES ASSUME TypeOK, CallInv, ServerInv, LateInv, [Next]_vars PROVE LateInv'
  OBVIOUS
<1> USE ObjectsAssumption, FlagsAssumption DEF TypeOK, CallInv, ServerInv, LateInv,
      Pending, Forward, PC, Trips, conn, recv, stmts, server, frame, error, reports, app
<1>1. CASE breakLink
  BY <1>1 DEF breakLink
<1>2. CASE ~fault /\ oracle_open
  BY <1>2 DEF oracle_open
<1>3. CASE ~fault /\ oracle_close
  BY <1>3 DEF oracle_close, OCISessionEnd
<1>4. CASE ~fault /\ setRecvTimeout
  BY <1>4 DEF setRecvTimeout, proceed, checkerr
<1>5. CASE ~fault /\ oracle_exec
  BY <1>5 DEF oracle_exec, enter
<1>6. CASE ~fault /\ oracle_stmt_exec
  BY <1>6 DEF oracle_stmt_exec, enter
<1>7. CASE ~fault /\ oracle_stmt_fetch
  BY <1>7 DEF oracle_stmt_fetch, enter
<1>8. CASE ~fault /\ oracle_stmt_close
  BY <1>8 DEF oracle_stmt_close, enter
<1>9. CASE ~fault /\ oracle_commit
  BY <1>9 DEF oracle_commit, enter
<1>10. CASE ~fault /\ oracle_rollback
  BY <1>10 DEF oracle_rollback, enter
<1>11. CASE ~fault /\ oracle_bulk_load
  BY <1>11 DEF oracle_bulk_load, enter
<1>12. CASE ~fault /\ prepare
  BY <1>12 DEF prepare, proceed, checkerr, Fails
<1>13. CASE ~fault /\ execute
  BY <1>13 DEF execute, proceed, checkerr, Fails, OCIStmtExecute
<1>14. CASE ~fault /\ output
  BY <1>14 DEF output, proceed, checkerr, Fails, autoCommits
<1>15. CASE ~fault /\ commit
  BY <1>15 DEF commit, proceed, checkerr, Fails, OCITransCommit,
     OCITransRollback, commitRunsOn
<1>16. CASE ~fault /\ rollback
  BY <1>16 DEF rollback, proceed, checkerr, Fails, OCITransRollback
<1>17. CASE ~fault /\ bulkLoad
  BY <1>17 DEF bulkLoad, proceed, checkerr, Fails
<1>18. CASE ~fault /\ cancelled
  BY <1>18 DEF cancelled, autoCommits
<1>19. CASE ~fault /\ reportError
  BY <1>19 DEF reportError, unwind, autoCommits
<1>20. CASE ~fault /\ loseAndReconnect
  BY <1>20 DEF loseAndReconnect, isLostError, canRetry, transactionLost,
     cleared, withoutLobs, outdated, OCISessionEnd
<1>21. CASE ~fault /\ loseAndAbort
  BY <1>21 DEF loseAndAbort, isLostError, canRetry, transactionLost,
     resetStatements, withoutLobs, abortConnection, unwind, autoCommits
<1>22. CASE ~fault /\ timedOut
  BY <1>22 DEF timedOut, transactionLost, cleared, withoutLobs, outdated
<1>23. CASE ~fault /\ logon
  BY <1>23 DEF logon, unwind, autoCommits, resetStatements
<1>24. CASE ~fault /\ logonFails
  BY <1>24 DEF logonFails, abortConnection, unwind, autoCommits,
     resetStatements
<1>25. CASE ~fault /\ rebind
  BY <1>25 DEF rebind, proceed, checkerr, Fails
<1>26. CASE ~fault /\ free
  BY <1>26 DEF free, frees, freesLob, proceed, checkerr, Fails
<1>27. CASE ~fault /\ returnError
  BY <1>27 DEF returnError, endCall, dropFrame, OCISessionEnd
<1>28. CASE ~fault /\ returnOk
  BY <1>28 DEF returnOk, endCall, dropFrame, OCISessionEnd
<1>29. CASE UNCHANGED vars
  BY <1>29 DEF vars
<1>30. CASE ~fault /\ oracle_opt_set
  BY <1>30 DEF oracle_opt_set, enter
<1>31. CASE ~fault /\ settle
  BY <1>31 DEF settle
<1> QED
  BY <1>1, <1>2, <1>3, <1>4, <1>5, <1>6, <1>7, <1>8, <1>9, <1>10, <1>11,
     <1>12, <1>13, <1>14, <1>15, <1>16, <1>17, <1>18, <1>19, <1>20, <1>21,
     <1>22, <1>23, <1>24, <1>25, <1>26, <1>27, <1>28, <1>29, <1>30, <1>31 DEF Next,
     Application, Driver, undefined

(***************************************************************************)
(* Every step preserves the part about the reports.                        *)
(***************************************************************************)
LEMMA ReportStep == IInv /\ [Next]_vars => ReportInv'
<1> SUFFICES ASSUME IInv, [Next]_vars PROVE ReportInv'
  OBVIOUS
<1> USE ObjectsAssumption, FlagsAssumption DEF IInv, TypeOK, CallInv, StackInv,
      ServerInv, ReportInv, Ending, Pending, Forward, PC, Trips, CallKinds,
      conn, recv, stmts, server, frame, error, reports, app
<1>1. CASE breakLink
  BY <1>1 DEF breakLink
<1>2. CASE ~fault /\ oracle_open
  BY <1>2 DEF oracle_open
<1>3. CASE ~fault /\ oracle_close
  BY <1>3 DEF oracle_close, OCISessionEnd
<1>4. CASE ~fault /\ setRecvTimeout
  BY <1>4 DEF setRecvTimeout, proceed, checkerr
<1>5. CASE ~fault /\ oracle_exec
  BY <1>5 DEF oracle_exec, enter
<1>6. CASE ~fault /\ oracle_stmt_exec
  BY <1>6 DEF oracle_stmt_exec, enter
<1>7. CASE ~fault /\ oracle_stmt_fetch
  BY <1>7 DEF oracle_stmt_fetch, enter
<1>8. CASE ~fault /\ oracle_stmt_close
  BY <1>8 DEF oracle_stmt_close, enter
<1>9. CASE ~fault /\ oracle_commit
  BY <1>9 DEF oracle_commit, enter
<1>10. CASE ~fault /\ oracle_rollback
  BY <1>10 DEF oracle_rollback, enter
<1>11. CASE ~fault /\ oracle_bulk_load
  BY <1>11 DEF oracle_bulk_load, enter
<1>12. CASE ~fault /\ prepare
  BY <1>12 DEF prepare, proceed, checkerr, Fails
<1>13. CASE ~fault /\ execute
  BY <1>13 DEF execute, proceed, checkerr, Fails, OCIStmtExecute
<1>14. CASE ~fault /\ output
  BY <1>14 DEF output, proceed, checkerr, Fails, autoCommits
<1>15. CASE ~fault /\ commit
  BY <1>15 DEF commit, proceed, checkerr, Fails, OCITransCommit,
     OCITransRollback, commitRunsOn
<1>16. CASE ~fault /\ rollback
  BY <1>16 DEF rollback, proceed, checkerr, Fails, OCITransRollback
<1>17. CASE ~fault /\ bulkLoad
  BY <1>17 DEF bulkLoad, proceed, checkerr, Fails
<1>18. CASE ~fault /\ cancelled
  BY <1>18 DEF cancelled, autoCommits
<1>19. CASE ~fault /\ reportError
  BY <1>19 DEF reportError, unwind, autoCommits
<1>20. CASE ~fault /\ loseAndReconnect
  BY <1>20 DEF loseAndReconnect, isLostError, canRetry, transactionLost,
     cleared, withoutLobs, outdated, OCISessionEnd
<1>21. CASE ~fault /\ loseAndAbort
  BY <1>21 DEF loseAndAbort, isLostError, canRetry, transactionLost,
     resetStatements, withoutLobs, abortConnection, unwind, autoCommits
<1>22. CASE ~fault /\ timedOut
  BY <1>22 DEF timedOut, transactionLost, cleared, withoutLobs, outdated
<1>23. CASE ~fault /\ logon
  BY <1>23 DEF logon, unwind, autoCommits, resetStatements
<1>24. CASE ~fault /\ logonFails
  BY <1>24 DEF logonFails, abortConnection, unwind, autoCommits,
     resetStatements
<1>25. CASE ~fault /\ rebind
  BY <1>25 DEF rebind, proceed, checkerr, Fails
<1>26. CASE ~fault /\ free
  BY <1>26 DEF free, frees, freesLob, proceed, checkerr, Fails
<1>27. CASE ~fault /\ returnError
  BY <1>27 DEF returnError, endCall, dropFrame, OCISessionEnd
<1>28. CASE ~fault /\ returnOk
  <2>1. CASE call = "exec" /\ op \in Ops /\ AutoCommit
    BY <1>28, <2>1 DEF returnOk, endCall, dropFrame, OCISessionEnd
  <2>2. CASE call = "exec" /\ op \in Ops /\ ~AutoCommit
    <3>1. ~abort /\ open' /\ UNCHANGED server /\ pc' = "idle" /\ call' = "rollback"
      BY <1>28 DEF returnOk, endCall, dropFrame
    <3>2. acked' = acked \cup {op} /\ active' /\ durable' = durable
      BY <1>28, <2>2 DEF returnOk
    <3>3. link = "up" => acked \subseteq work /\ op \in work
      BY <1>28, <2>2 DEF returnOk
    <3> QED
      BY <2>2, <3>1, <3>2, <3>3
  <2>3. CASE call = "open"
    BY <1>28, <2>3 DEF returnOk, endCall, dropFrame, OCISessionEnd
  <2>4. CASE call \in {"commit", "rollback"}
    BY <1>28, <2>4 DEF returnOk, endCall, dropFrame, OCISessionEnd
  <2>5. CASE call \in {"fetch", "close", "bulk", "option"} \/ (call = "exec" /\ op = NoOp)
    BY <1>28, <2>5 DEF returnOk, endCall, dropFrame, OCISessionEnd
  <2> QED
    BY <1>28, <2>1, <2>2, <2>3, <2>4, <2>5 DEF returnOk
<1>29. CASE UNCHANGED vars
  BY <1>29 DEF vars
<1>30. CASE ~fault /\ oracle_opt_set
  BY <1>30 DEF oracle_opt_set, enter
<1>31. CASE ~fault /\ settle
  BY <1>31 DEF settle
<1> QED
  BY <1>1, <1>2, <1>3, <1>4, <1>5, <1>6, <1>7, <1>8, <1>9, <1>10, <1>11,
     <1>12, <1>13, <1>14, <1>15, <1>16, <1>17, <1>18, <1>19, <1>20, <1>21,
     <1>22, <1>23, <1>24, <1>25, <1>26, <1>27, <1>28, <1>29, <1>30, <1>31 DEF Next,
     Application, Driver, undefined

(***************************************************************************)
(* Every step preserves the part about the lost transactions.              *)
(***************************************************************************)
LEMMA LossStep == ~PingStalls /\ IInv /\ LossInv /\ RunningInv /\ [Next]_vars => LossInv'
<1> SUFFICES ASSUME ~PingStalls, IInv, LossInv, RunningInv, [Next]_vars PROVE LossInv'
  OBVIOUS
<1> USE ObjectsAssumption, FlagsAssumption DEF IInv, TypeOK, CallInv, StackInv,
      ServerInv, ReportInv, LossInv, Ending, Pending, Forward, PC, Trips,
      CallKinds, conn, recv, stmts, server, frame, error, reports, app
<1>1. CASE breakLink
  BY <1>1 DEF breakLink
<1>2. CASE ~fault /\ oracle_open
  BY <1>2 DEF oracle_open
<1>3. CASE ~fault /\ oracle_close
  BY <1>3 DEF oracle_close, OCISessionEnd
<1>4. CASE ~fault /\ setRecvTimeout
  BY <1>4 DEF setRecvTimeout, proceed, checkerr
<1>5. CASE ~fault /\ oracle_exec
  BY <1>5 DEF oracle_exec, enter
<1>6. CASE ~fault /\ oracle_stmt_exec
  BY <1>6 DEF oracle_stmt_exec, enter
<1>7. CASE ~fault /\ oracle_stmt_fetch
  BY <1>7 DEF oracle_stmt_fetch, enter
<1>8. CASE ~fault /\ oracle_stmt_close
  BY <1>8 DEF oracle_stmt_close, enter
<1>9. CASE ~fault /\ oracle_commit
  BY <1>9 DEF oracle_commit, enter
<1>10. CASE ~fault /\ oracle_rollback
  BY <1>10 DEF oracle_rollback, enter
<1>11. CASE ~fault /\ oracle_bulk_load
  BY <1>11 DEF oracle_bulk_load, enter
<1>12. CASE ~fault /\ prepare
  BY <1>12 DEF prepare, proceed, checkerr, Fails
<1>13. CASE ~fault /\ execute
  BY <1>13 DEF execute, proceed, checkerr, Fails, OCIStmtExecute
<1>14. CASE ~fault /\ output
  BY <1>14 DEF output, proceed, checkerr, Fails, autoCommits
<1>15. CASE ~fault /\ commit
  BY <1>15 DEF commit, proceed, checkerr, Fails, OCITransCommit,
     OCITransRollback, commitRunsOn
<1>16. CASE ~fault /\ rollback
  BY <1>16 DEF rollback, proceed, checkerr, Fails, OCITransRollback
<1>17. CASE ~fault /\ bulkLoad
  BY <1>17 DEF bulkLoad, proceed, checkerr, Fails
<1>18. CASE ~fault /\ cancelled
  BY <1>18 DEF cancelled, autoCommits
<1>19. CASE ~fault /\ reportError
  BY <1>19 DEF reportError, unwind, autoCommits
<1>20. CASE ~fault /\ loseAndReconnect
  BY <1>20 DEF loseAndReconnect, isLostError, canRetry, transactionLost,
     cleared, withoutLobs, outdated, OCISessionEnd
<1>21. CASE ~fault /\ loseAndAbort
  BY <1>21 DEF loseAndAbort, isLostError, canRetry, transactionLost,
     resetStatements, withoutLobs, abortConnection, unwind, autoCommits
<1>22. CASE ~fault /\ timedOut
  BY <1>22 DEF timedOut, transactionLost, cleared, withoutLobs, outdated
<1>23. CASE ~fault /\ logon
  BY <1>23 DEF logon, unwind, autoCommits, resetStatements
<1>24. CASE ~fault /\ logonFails
  BY <1>24 DEF logonFails, abortConnection, unwind, autoCommits,
     resetStatements
<1>25. CASE ~fault /\ rebind
  BY <1>25 DEF rebind, proceed, checkerr, Fails
<1>26. CASE ~fault /\ free
  BY <1>26 DEF free, frees, freesLob, proceed, checkerr, Fails
<1>27. CASE ~fault /\ returnError
  BY <1>27 DEF returnError, endCall, dropFrame, OCISessionEnd
<1>28. CASE ~fault /\ returnOk
  BY <1>28 DEF returnOk, endCall, dropFrame, OCISessionEnd
<1>29. CASE UNCHANGED vars
  BY <1>29 DEF vars
<1>30. CASE ~fault /\ oracle_opt_set
  BY <1>30 DEF oracle_opt_set, enter
<1>31. CASE ~fault /\ settle
  BY <1>31 DEF settle, LateInv, RunningInv
<1> QED
  BY <1>1, <1>2, <1>3, <1>4, <1>5, <1>6, <1>7, <1>8, <1>9, <1>10, <1>11,
     <1>12, <1>13, <1>14, <1>15, <1>16, <1>17, <1>18, <1>19, <1>20, <1>21,
     <1>22, <1>23, <1>24, <1>25, <1>26, <1>27, <1>28, <1>29, <1>30, <1>31 DEF Next,
     Application, Driver, undefined

(***************************************************************************)
(* Every step preserves that these commits are of no lost transaction.      *)
(***************************************************************************)
LEMMA RunningStep ==
    ~PingStalls /\ IInv /\ LossInv /\ RunningInv /\ [Next]_vars => RunningInv'
<1> SUFFICES ASSUME ~PingStalls, IInv, LossInv, RunningInv, [Next]_vars PROVE RunningInv'
  OBVIOUS
<1> USE ObjectsAssumption, FlagsAssumption DEF IInv, TypeOK, CallInv, StackInv,
      ServerInv, LateInv, ReportInv, LossInv, RunningInv, Ending, Pending, Forward, PC, Trips,
      CallKinds, conn, recv, stmts, server, frame, error, reports, app
<1>1. CASE breakLink
  BY <1>1 DEF breakLink
<1>2. CASE ~fault /\ oracle_open
  BY <1>2 DEF oracle_open
<1>3. CASE ~fault /\ oracle_close
  BY <1>3 DEF oracle_close, OCISessionEnd
<1>4. CASE ~fault /\ setRecvTimeout
  BY <1>4 DEF setRecvTimeout, proceed, checkerr
<1>5. CASE ~fault /\ oracle_exec
  BY <1>5 DEF oracle_exec, enter
<1>6. CASE ~fault /\ oracle_stmt_exec
  BY <1>6 DEF oracle_stmt_exec, enter
<1>7. CASE ~fault /\ oracle_stmt_fetch
  BY <1>7 DEF oracle_stmt_fetch, enter
<1>8. CASE ~fault /\ oracle_stmt_close
  BY <1>8 DEF oracle_stmt_close, enter
<1>9. CASE ~fault /\ oracle_commit
  BY <1>9 DEF oracle_commit, enter
<1>10. CASE ~fault /\ oracle_rollback
  BY <1>10 DEF oracle_rollback, enter
<1>11. CASE ~fault /\ oracle_bulk_load
  BY <1>11 DEF oracle_bulk_load, enter
<1>12. CASE ~fault /\ prepare
  BY <1>12 DEF prepare, proceed, checkerr, Fails
<1>13. CASE ~fault /\ execute
  BY <1>13 DEF execute, proceed, checkerr, Fails, OCIStmtExecute
<1>14. CASE ~fault /\ output
  BY <1>14 DEF output, proceed, checkerr, Fails, autoCommits
<1>15. CASE ~fault /\ commit
  BY <1>15 DEF commit, proceed, checkerr, Fails, OCITransCommit,
     OCITransRollback, commitRunsOn
<1>16. CASE ~fault /\ rollback
  BY <1>16 DEF rollback, proceed, checkerr, Fails, OCITransRollback
<1>17. CASE ~fault /\ bulkLoad
  BY <1>17 DEF bulkLoad, proceed, checkerr, Fails
<1>18. CASE ~fault /\ cancelled
  BY <1>18 DEF cancelled, autoCommits
<1>19. CASE ~fault /\ reportError
  BY <1>19 DEF reportError, unwind, autoCommits
<1>20. CASE ~fault /\ loseAndReconnect
  BY <1>20 DEF loseAndReconnect, isLostError, canRetry, transactionLost,
     cleared, withoutLobs, outdated, OCISessionEnd
<1>21. CASE ~fault /\ loseAndAbort
  BY <1>21 DEF loseAndAbort, isLostError, canRetry, transactionLost,
     resetStatements, withoutLobs, abortConnection, unwind, autoCommits
<1>22. CASE ~fault /\ timedOut
  BY <1>22 DEF timedOut, transactionLost, cleared, withoutLobs, outdated
<1>23. CASE ~fault /\ logon
  BY <1>23 DEF logon, unwind, autoCommits, resetStatements
<1>24. CASE ~fault /\ logonFails
  BY <1>24 DEF logonFails, abortConnection, unwind, autoCommits,
     resetStatements
<1>25. CASE ~fault /\ rebind
  BY <1>25 DEF rebind, proceed, checkerr, Fails
<1>26. CASE ~fault /\ free
  BY <1>26 DEF free, frees, freesLob, proceed, checkerr, Fails
<1>27. CASE ~fault /\ returnError
  BY <1>27 DEF returnError, endCall, dropFrame, OCISessionEnd
<1>28. CASE ~fault /\ returnOk
  BY <1>28 DEF returnOk, endCall, dropFrame, OCISessionEnd
<1>29. CASE UNCHANGED vars
  BY <1>29 DEF vars
<1>30. CASE ~fault /\ oracle_opt_set
  BY <1>30 DEF oracle_opt_set, enter
<1>31. CASE ~fault /\ settle
  BY <1>31 DEF settle
<1> QED
  BY <1>1, <1>2, <1>3, <1>4, <1>5, <1>6, <1>7, <1>8, <1>9, <1>10, <1>11,
     <1>12, <1>13, <1>14, <1>15, <1>16, <1>17, <1>18, <1>19, <1>20, <1>21,
     <1>22, <1>23, <1>24, <1>25, <1>26, <1>27, <1>28, <1>29, <1>30, <1>31 DEF Next,
     Application, Driver, undefined

(***************************************************************************)
(* Every step preserves the part about transactions in doubt.             *)
(***************************************************************************)
LEMMA DoubtStep == ~PingStalls /\ IInv /\ LossInv /\ RunningInv /\ DoubtInv /\ [Next]_vars => DoubtInv'
<1> SUFFICES ASSUME ~PingStalls, IInv, LossInv, RunningInv, DoubtInv, [Next]_vars
             PROVE  DoubtInv'
  OBVIOUS
<1> USE ObjectsAssumption, FlagsAssumption DEF IInv, TypeOK, CallInv, StackInv,
      ServerInv, ReportInv, LossInv, DoubtInv, Ending, Pending, Forward, PC, Trips,
      CallKinds, conn, recv, stmts, server, frame, error, reports, app
<1>1. CASE breakLink
  BY <1>1 DEF breakLink
<1>2. CASE ~fault /\ oracle_open
  BY <1>2 DEF oracle_open
<1>3. CASE ~fault /\ oracle_close
  BY <1>3 DEF oracle_close, OCISessionEnd
<1>4. CASE ~fault /\ setRecvTimeout
  BY <1>4 DEF setRecvTimeout, proceed, checkerr
<1>5. CASE ~fault /\ oracle_exec
  BY <1>5 DEF oracle_exec, enter
<1>6. CASE ~fault /\ oracle_stmt_exec
  BY <1>6 DEF oracle_stmt_exec, enter
<1>7. CASE ~fault /\ oracle_stmt_fetch
  BY <1>7 DEF oracle_stmt_fetch, enter
<1>8. CASE ~fault /\ oracle_stmt_close
  BY <1>8 DEF oracle_stmt_close, enter
<1>9. CASE ~fault /\ oracle_commit
  BY <1>9 DEF oracle_commit, enter
<1>10. CASE ~fault /\ oracle_rollback
  BY <1>10 DEF oracle_rollback, enter
<1>11. CASE ~fault /\ oracle_bulk_load
  BY <1>11 DEF oracle_bulk_load, enter
<1>12. CASE ~fault /\ prepare
  BY <1>12 DEF prepare, proceed, checkerr, Fails
<1>13. CASE ~fault /\ execute
  BY <1>13 DEF execute, proceed, checkerr, Fails, OCIStmtExecute
<1>14. CASE ~fault /\ output
  BY <1>14 DEF output, proceed, checkerr, Fails, autoCommits
<1>15. CASE ~fault /\ commit
  <2>1. /\ acked \cap committed = {} /\ \A T \in late : acked \cap T = {}
        /\ link = "up" => acked \subseteq work
        /\ UNCHANGED <<acked, call, op, doubt, tried>> /\ pc = "commit"
    BY <1>15 DEF commit, RunningInv
  <2>2. CASE link = "up" /\ commitRunsOn /\ pc' = "handle" /\ err' # "error"
    BY <2>1, <2>2 DEF commitRunsOn
  <2>3. CASE /\ UNCHANGED late /\ work' \subseteq work
             /\ \/ UNCHANGED committed /\ pc' = "handle"
                \/ link = "up" /\ committed' = committed \cup work /\ pc' = "free" /\ ~raised'
    BY <2>1, <2>3
  <2> QED
    BY <1>15, <2>1, <2>2, <2>3 DEF commit, proceed, checkerr, OCITransCommit, OCITransRollback,
       commitRunsOn, Fails
<1>16. CASE ~fault /\ rollback
  BY <1>16 DEF rollback, proceed, checkerr, Fails, OCITransRollback
<1>17. CASE ~fault /\ bulkLoad
  BY <1>17 DEF bulkLoad, proceed, checkerr, Fails
<1>18. CASE ~fault /\ cancelled
  BY <1>18 DEF cancelled, autoCommits, RunningInv
<1>19. CASE ~fault /\ reportError
  BY <1>19 DEF reportError, unwind, autoCommits
<1>20. CASE ~fault /\ loseAndReconnect
  BY <1>20 DEF loseAndReconnect, isLostError, canRetry, transactionLost,
     cleared, withoutLobs, outdated, OCISessionEnd
<1>21. CASE ~fault /\ loseAndAbort
  BY <1>21 DEF loseAndAbort, isLostError, canRetry, transactionLost,
     resetStatements, withoutLobs, abortConnection, unwind, autoCommits
<1>22. CASE ~fault /\ timedOut
  BY <1>22 DEF timedOut, transactionLost, cleared, withoutLobs, outdated
<1>23. CASE ~fault /\ logon
  BY <1>23 DEF logon, unwind, autoCommits, resetStatements
<1>24. CASE ~fault /\ logonFails
  BY <1>24 DEF logonFails, abortConnection, unwind, autoCommits,
     resetStatements
<1>25. CASE ~fault /\ rebind
  BY <1>25 DEF rebind, proceed, checkerr, Fails
<1>26. CASE ~fault /\ free
  BY <1>26 DEF free, frees, freesLob, proceed, checkerr, Fails
<1>27. CASE ~fault /\ returnError
  BY <1>27 DEF returnError, endCall, dropFrame, OCISessionEnd
<1>28. CASE ~fault /\ returnOk
  BY <1>28 DEF returnOk, endCall, dropFrame, OCISessionEnd
<1>29. CASE UNCHANGED vars
  BY <1>29 DEF vars
<1>30. CASE ~fault /\ oracle_opt_set
  BY <1>30 DEF oracle_opt_set, enter
<1>31. CASE ~fault /\ settle
  BY <1>31 DEF settle, LateInv, RunningInv
<1> QED
  BY <1>1, <1>2, <1>3, <1>4, <1>5, <1>6, <1>7, <1>8, <1>9, <1>10, <1>11,
     <1>12, <1>13, <1>14, <1>15, <1>16, <1>17, <1>18, <1>19, <1>20, <1>21,
     <1>22, <1>23, <1>24, <1>25, <1>26, <1>27, <1>28, <1>29, <1>30, <1>31 DEF Next,
     Application, Driver, undefined

(***************************************************************************)
(* Every step preserves the part about the use of the connection.          *)
(***************************************************************************)
LEMMA UsableStep == TypeOK /\ CallInv /\ UsableInv /\ [Next]_vars => UsableInv'
<1> SUFFICES ASSUME TypeOK, CallInv, UsableInv, [Next]_vars PROVE UsableInv'
  OBVIOUS
<1> USE ObjectsAssumption, FlagsAssumption DEF TypeOK, CallInv, UsableInv,
      Objects, Forward, Unguarded, conn, recv, stmts, server, frame, error, reports, app
<1>1. CASE breakLink
  BY <1>1 DEF breakLink
<1>2. CASE ~fault /\ oracle_open
  BY <1>2 DEF oracle_open
<1>3. CASE ~fault /\ oracle_close
  BY <1>3 DEF oracle_close, OCISessionEnd
<1>4. CASE ~fault /\ setRecvTimeout
  BY <1>4 DEF setRecvTimeout, proceed, checkerr
<1>5. CASE ~fault /\ oracle_exec
  BY <1>5 DEF oracle_exec, enter
<1>6. CASE ~fault /\ oracle_stmt_exec
  BY <1>6 DEF oracle_stmt_exec, enter
<1>7. CASE ~fault /\ oracle_stmt_fetch
  BY <1>7 DEF oracle_stmt_fetch, enter
<1>8. CASE ~fault /\ oracle_stmt_close
  BY <1>8 DEF oracle_stmt_close, enter
<1>9. CASE ~fault /\ oracle_commit
  BY <1>9 DEF oracle_commit, enter
<1>10. CASE ~fault /\ oracle_rollback
  BY <1>10 DEF oracle_rollback, enter
<1>11. CASE ~fault /\ oracle_bulk_load
  BY <1>11 DEF oracle_bulk_load, enter
<1>12. CASE ~fault /\ prepare
  BY <1>12 DEF prepare, proceed, checkerr, Fails
<1>13. CASE ~fault /\ execute
  BY <1>13 DEF execute, proceed, checkerr, Fails, OCIStmtExecute
<1>14. CASE ~fault /\ output
  BY <1>14 DEF output, proceed, checkerr, Fails, autoCommits
<1>15. CASE ~fault /\ commit
  BY <1>15 DEF commit, proceed, checkerr, Fails, OCITransCommit,
     OCITransRollback, commitRunsOn
<1>16. CASE ~fault /\ rollback
  BY <1>16 DEF rollback, proceed, checkerr, Fails, OCITransRollback
<1>17. CASE ~fault /\ bulkLoad
  BY <1>17 DEF bulkLoad, proceed, checkerr, Fails
<1>18. CASE ~fault /\ cancelled
  BY <1>18 DEF cancelled, autoCommits
<1>19. CASE ~fault /\ reportError
  BY <1>19 DEF reportError, unwind, autoCommits
<1>20. CASE ~fault /\ loseAndReconnect
  BY <1>20 DEF loseAndReconnect, isLostError, canRetry, transactionLost,
     cleared, withoutLobs, outdated, OCISessionEnd
<1>21. CASE ~fault /\ loseAndAbort
  BY <1>21 DEF loseAndAbort, isLostError, canRetry, transactionLost,
     resetStatements, withoutLobs, abortConnection, unwind, autoCommits
<1>22. CASE ~fault /\ timedOut
  BY <1>22 DEF timedOut, transactionLost, cleared, withoutLobs, outdated
<1>23. CASE ~fault /\ logon
  BY <1>23 DEF logon, unwind, autoCommits, resetStatements
<1>24. CASE ~fault /\ logonFails
  BY <1>24 DEF logonFails, abortConnection, unwind, autoCommits,
     resetStatements
<1>25. CASE ~fault /\ rebind
  BY <1>25 DEF rebind, proceed, checkerr, Fails
<1>26. CASE ~fault /\ free
  BY <1>26 DEF free, frees, freesLob, proceed, checkerr, Fails
<1>27. CASE ~fault /\ returnError
  BY <1>27 DEF returnError, endCall, dropFrame, OCISessionEnd
<1>28. CASE ~fault /\ returnOk
  BY <1>28 DEF returnOk, endCall, dropFrame, OCISessionEnd
<1>29. CASE UNCHANGED vars
  BY <1>29 DEF vars
<1>30. CASE ~fault /\ oracle_opt_set
  BY <1>30 DEF oracle_opt_set, enter
<1>31. CASE ~fault /\ settle
  BY <1>31 DEF settle
<1> QED
  BY <1>1, <1>2, <1>3, <1>4, <1>5, <1>6, <1>7, <1>8, <1>9, <1>10, <1>11,
     <1>12, <1>13, <1>14, <1>15, <1>16, <1>17, <1>18, <1>19, <1>20, <1>21,
     <1>22, <1>23, <1>24, <1>25, <1>26, <1>27, <1>28, <1>29, <1>30, <1>31 DEF Next,
     Application, Driver, undefined

(***************************************************************************)
(* The invariant holds initially and is preserved.                         *)
(***************************************************************************)
LEMMA InvHolds == Spec => []IInv
<1>1. Init => IInv
  <2> SUFFICES ASSUME Init PROVE IInv
    OBVIOUS
  <2>1. TypeOK
    <3>1. handle \in [Objects -> HandleStates] /\ lob \in [Objects -> LobStates]
      BY DEF Init, HandleStates, LobStates
    <3>2. me \in Objects /\ pc \in PC /\ call \in CallKinds /\ from \in Trips
      BY DEF Init, Objects, PC, Trips, CallKinds
    <3>3. depth \in 0..1 /\ op \in Ops \cup {NoOp} /\ link \in {"up", "down"}
      BY DEF Init
    <3>4. /\ open \in BOOLEAN /\ lost \in BOOLEAN /\ abort \in BOOLEAN
          /\ timeout \in BOOLEAN /\ applied \in BOOLEAN /\ raised \in BOOLEAN
          /\ active \in BOOLEAN /\ fault \in BOOLEAN
      BY Zenon DEF Init
    <3>5. /\ work \subseteq Ops /\ committed \subseteq Ops /\ twice \subseteq Ops
          /\ tried \subseteq Ops /\ acked \subseteq Ops /\ durable \subseteq Ops
          /\ gone \subseteq Ops /\ doubt \subseteq Ops
          /\ late \subseteq SUBSET Ops
          /\ misfreed \subseteq {"lost", "stale", "timeout"}
          /\ err \in {"error", "lost", "timeout"}
      BY DEF Init
    <3> QED
      BY <3>1, <3>2, <3>3, <3>4, <3>5, Zenon DEF TypeOK
  <2>2. CallInv /\ StackInv
    BY DEF Init, CallInv, StackInv, Unguarded, Forward, Objects
  <2>3. ServerInv /\ LateInv /\ ReportInv
    BY DEF Init, ServerInv, LateInv, ReportInv, Pending, Ending
  <2> QED
    BY <2>1, <2>2, <2>3 DEF IInv
<1>2. IInv /\ [Next]_vars => IInv'
  BY TypeStep, CallStep, StackStep, ServerStep, LateStep, ReportStep DEF IInv
<1> QED
  BY <1>1, <1>2, PTL DEF Spec

(***************************************************************************)
(* Type correctness of the connection.                                     *)
(***************************************************************************)
THEOREM Types == Spec => []TypeOK
<1>1. IInv => TypeOK
  BY DEF IInv
<1> QED
  BY <1>1, InvHolds, PTL

(***************************************************************************)
(* No change is made twice: a statement that handleError() executes again  *)
(* has had no effect.                                                      *)
(***************************************************************************)
THEOREM NoChangeTwice == Spec => []AtMostOnce
<1>1. IInv => AtMostOnce
  BY DEF IInv, ServerInv, AtMostOnce
<1> QED
  BY <1>1, InvHolds, PTL

(***************************************************************************)
(* What a commit, or a statement with autocommit, reports as done is in    *)
(* the database.                                                           *)
(***************************************************************************)
THEOREM ReportedIsCommitted == Spec => []Durable
<1>1. IInv => Durable
  BY DEF IInv, ReportInv, Durable
<1> QED
  BY <1>1, InvHolds, PTL

(***************************************************************************)
(* The session holds what was reported as made in the open transaction: a  *)
(* connection made again never carries on with half a transaction.         *)
(***************************************************************************)
THEOREM TransactionIsWhole == Spec => []AckedIsHeld
<1>1. IInv => AckedIsHeld
  BY DEF IInv, ReportInv, Ending, AckedIsHeld
<1> QED
  BY <1>1, InvHolds, PTL

(***************************************************************************)
(* abortConnection() deletes no connection under a guarded call.           *)
(***************************************************************************)
THEOREM GuardsProtect == Spec => []GuardedCallsKeepConnection
<1>1. IInv => GuardedCallsKeepConnection
  BY DEF IInv, CallInv, GuardedCallsKeepConnection
<1> QED
  BY <1>1, InvHolds, PTL

(***************************************************************************)
(* After every call the connection is closed or can be used: it is not     *)
(* marked as lost or to be aborted, its receive timeout is applied, and no *)
(* statement holds on to an old session.                                   *)
(***************************************************************************)
THEOREM ConnectionStaysUsable == Spec => []UsableAfterCall
<1>1. Init => UsableInv
  BY DEF Init, UsableInv, Objects
<1>2. IInv /\ UsableInv /\ [Next]_vars => UsableInv'
  BY UsableStep DEF IInv
<1>3. IInv /\ UsableInv => UsableAfterCall
  BY DEF IInv, CallInv, UsableInv, UsableAfterCall
<1> QED
  BY <1>1, <1>2, <1>3, InvHolds, PTL DEF Spec

(***************************************************************************)
(* The parts about lost and doubtful transactions hold if no ping is ended *)
(* by the receive timeout.                                                 *)
(***************************************************************************)
LEMMA FatesHold ==
    ASSUME ~PingStalls
    PROVE  Spec => [](IInv /\ LossInv /\ RunningInv /\ DoubtInv)
<1> DEFINE Fates == LossInv /\ RunningInv /\ DoubtInv
<1>1. Init => Fates
  BY ObjectsAssumption DEF Init, LossInv, RunningInv, DoubtInv
<1>2. IInv /\ Fates /\ [Next]_vars => Fates'
  BY LossStep, RunningStep, DoubtStep
<1> QED
  BY <1>1, <1>2, InvHolds, PTL DEF Spec

(***************************************************************************)
(* If no ping is ended by the receive timeout, a transaction that a call   *)
(* other than its commit reports as lost is never committed.               *)
(***************************************************************************)
THEOREM LostTransactionsStayLost ==
    ASSUME ~PingStalls
    PROVE  Spec => []LostStaysLost
<1>1. LossInv => LostStaysLost
  BY DEF LossInv, LostStaysLost
<1> QED
  BY <1>1, FatesHold, PTL

-----------------------------------------------------------------------------
(***************************************************************************)
(* The calls of the driver are transactions, for any changes and           *)
(* statements: if no ping is ended by the receive timeout, every step is a *)
(* step of Transactions or changes nothing there.                          *)
(***************************************************************************)
LEMMA TransactionsStep ==
    ASSUME ~PingStalls, IInv, LossInv, RunningInv, DoubtInv, [Next]_vars
    PROVE  [AsTransactions!Next]_(AsTransactions!vars)
<1> DEFINE Same == UNCHANGED <<committed, late, acked, durable, gone, doubt>>
           N == AsTransactions!Next \/ Same
<1> SUFFICES N
  BY DEF AsTransactions!vars
<1> USE ObjectsAssumption, FlagsAssumption DEF conn, recv, stmts, server, frame, error,
      reports, app
<1>1. acked \subseteq work => work \in SUBSET Ops /\ AsTransactions!Transaction(work)
  BY DEF IInv, TypeOK, ServerInv, LateInv, LossInv, RunningInv, DoubtInv,
     AsTransactions!Transaction
<1>2. ~(call = "commit" /\ pc \in {"handle", "free", "return"}) => AsTransactions!Uncommitted
  BY DEF LossInv, RunningInv, AsTransactions!Uncommitted
<1>3. ASSUME AsTransactions!Uncommitted, acked \subseteq work,
             committed' = committed \cup work, UNCHANGED <<late, acked, durable, gone, doubt>>
      PROVE  N
  BY <1>1, <1>3 DEF AsTransactions!Next, AsTransactions!Commit, AsTransactions!outcomes
<1>18. ASSUME AsTransactions!Uncommitted, acked \subseteq work, commitRunsOn,
              UNCHANGED <<acked, durable, gone, doubt>>
       PROVE  N
  <2>1. CASE work = {}
    BY <1>18, <2>1 DEF commitRunsOn
  <2>2. CASE work # {}
    <3>1. late' = late \cup {work} /\ UNCHANGED committed
      BY <1>18, <2>2 DEF commitRunsOn
    <3> QED
      BY <1>1, <1>18, <3>1 DEF AsTransactions!Next, AsTransactions!Leave,
         AsTransactions!outcomes
  <2> QED
    BY <2>1, <2>2
<1>4. ASSUME AsTransactions!Uncommitted, acked' = {},
             UNCHANGED <<committed, late, durable, gone, doubt>>
      PROVE  N
  BY <1>4 DEF AsTransactions!Next, AsTransactions!End, AsTransactions!Abandon,
     AsTransactions!outcomes
<1>5. ASSUME pc = "handle", transactionLost, UNCHANGED <<committed, late, durable>>
      PROVE  N
  <2>1. CASE ~active
    BY <1>5, <2>1 DEF transactionLost
  <2>2. CASE active /\ from = "commit"
    <3>1. call = "commit"
      BY <1>5, <2>2 DEF IInv, CallInv, ReportInv
    <3>2. AsTransactions!Committed \/ AsTransactions!Running \/ AsTransactions!Uncommitted
      BY <1>5, <3>1 DEF DoubtInv, AsTransactions!Committed, AsTransactions!Running,
         AsTransactions!Uncommitted
    <3>3. acked' = {} /\ doubt' = doubt \cup acked /\ UNCHANGED gone
      BY <2>2, <1>5 DEF transactionLost
    <3> QED
      BY <1>5, <3>2, <3>3 DEF AsTransactions!Next, AsTransactions!End,
         AsTransactions!Doubt
  <2>3. CASE active /\ from # "commit"
    <3>1. AsTransactions!Uncommitted
      BY <1>2, <1>5, <2>3 DEF LossInv
    <3>2. acked' = {} /\ gone' = gone \cup acked /\ UNCHANGED doubt
      BY <2>3, <1>5 DEF transactionLost
    <3> QED
      BY <1>5, <3>1, <3>2 DEF AsTransactions!Next, AsTransactions!End,
         AsTransactions!Lose
  <2> QED
    BY <2>1, <2>2, <2>3
<1>6. CASE breakLink
  BY <1>6 DEF breakLink
<1>7. CASE oracle_open \/ oracle_opt_set \/ oracle_exec \/ oracle_stmt_exec \/
           oracle_stmt_fetch \/ oracle_stmt_close \/ oracle_commit \/
           oracle_rollback \/ oracle_bulk_load
  BY <1>7 DEF oracle_open, oracle_opt_set, oracle_exec, oracle_stmt_exec,
     oracle_stmt_fetch, oracle_stmt_close, oracle_commit, oracle_rollback,
     oracle_bulk_load, enter
<1>19. CASE settle
  BY <1>19 DEF settle, AsTransactions!Next, AsTransactions!Settle,
     AsTransactions!outcomes
<1>8. CASE oracle_close
  <2>1. AsTransactions!Uncommitted
    BY <1>2, <1>8 DEF oracle_close
  <2>2. acked' = {} /\ UNCHANGED <<late, durable, gone, doubt>>
    BY <1>8 DEF oracle_close, OCISessionEnd
  <2>3. CASE AutoCommit /\ link = "up"
    <3>1. acked = {}
      BY <2>3 DEF IInv, ReportInv
    <3>2. committed' = committed \cup work
      BY <1>8, <2>3 DEF oracle_close, OCISessionEnd
    <3> QED
      BY <1>3, <2>1, <2>2, <3>1, <3>2
  <2>4. CASE ~(AutoCommit /\ link = "up")
    <3>1. UNCHANGED committed
      BY <1>8, <2>4 DEF oracle_close, OCISessionEnd
    <3> QED
      BY <1>4, <2>1, <2>2, <3>1
  <2> QED
    BY <2>3, <2>4
<1>9. CASE prepare \/ output \/ bulkLoad \/ setRecvTimeout \/ cancelled \/ reportError \/ logon \/
           logonFails \/ rebind \/ free
  BY <1>9 DEF prepare, output, bulkLoad, setRecvTimeout, cancelled, reportError, logon, logonFails,
     rebind, free
<1>10. CASE execute \/ rollback
  BY <1>10 DEF execute, rollback, OCIStmtExecute, OCITransRollback
<1>11. CASE commit
  <2>1. UNCHANGED <<acked, durable, gone, doubt>>
    BY <1>11 DEF commit
  <2>2. \/ UNCHANGED <<committed, late>>
        \/ link = "up" /\ UNCHANGED late /\ committed' = committed \cup work
        \/ link = "up" /\ commitRunsOn
    BY <1>11 DEF commit, OCITransCommit, OCITransRollback
  <2>3. AsTransactions!Uncommitted /\ (link = "up" => acked \subseteq work)
    BY <1>2, <1>11 DEF commit, IInv, ReportInv, Ending
  <2> QED
    BY <1>3, <1>18, <2>1, <2>2, <2>3
<1>12. CASE loseAndReconnect
  <2>1. link = "down"
    BY <1>12, ~PingStalls DEF loseAndReconnect, isLostError, LossInv, IInv, TypeOK
  <2> QED
    BY <1>5, <1>12, <2>1 DEF loseAndReconnect, OCISessionEnd
<1>13. CASE loseAndAbort
  BY <1>5, <1>13 DEF loseAndAbort
<1>14. CASE timedOut
  BY <1>5, <1>14 DEF timedOut
<1>15. CASE returnError
  <2>1. UNCHANGED <<committed, late, durable, gone, doubt>>
    BY <1>15 DEF returnError, endCall, OCISessionEnd, LossInv
  <2>2. AsTransactions!Uncommitted
    BY <1>2, <1>15 DEF returnError, DoubtInv, AsTransactions!Uncommitted
  <2>3. acked' = {} \/ UNCHANGED acked
    BY <1>15 DEF returnError
  <2> QED
    BY <1>4, <2>1, <2>2, <2>3
<1>16. CASE returnOk
  <2>1. UNCHANGED <<committed, late, gone, doubt>>
    BY <1>16 DEF returnOk, endCall, IInv, CallInv
  <2>2. CASE call = "exec" /\ op \in Ops /\ AutoCommit
    <3>1. op \in committed
      BY <1>16, <2>2 DEF returnOk, IInv, ReportInv
    <3>2. durable' = durable \cup {op} /\ UNCHANGED acked
      BY <1>16, <2>2 DEF returnOk
    <3> QED
      BY <2>1, <3>1, <3>2 DEF AsTransactions!Next, AsTransactions!ReportCommitted
  <2>3. CASE call = "exec" /\ op \in Ops /\ ~AutoCommit
    <3>1. op \in Ops \ (committed \cup acked \cup gone \cup doubt)
          /\ \A T \in late : op \notin T
      BY <2>3 DEF LossInv, RunningInv, DoubtInv
    <3>2. acked' = acked \cup {op} /\ UNCHANGED durable
      BY <1>16, <2>3 DEF returnOk
    <3> QED
      BY <2>1, <3>1, <3>2 DEF AsTransactions!Next, AsTransactions!Report,
         AsTransactions!outcomes
  <2>4. CASE call = "commit"
    <3>1. acked \subseteq committed
      BY <1>16, <2>4 DEF returnOk, IInv, ReportInv
    <3>2. acked' = {} /\ durable' = durable \cup acked
      BY <1>16, <2>4 DEF returnOk
    <3> QED
      BY <2>1, <3>1, <3>2 DEF AsTransactions!Next, AsTransactions!End,
         AsTransactions!Succeed, AsTransactions!Committed
  <2>5. CASE call = "rollback"
    <3>1. acked' = {} /\ UNCHANGED durable
      BY <1>16, <2>5 DEF returnOk
    <3> QED
      BY <1>2, <1>4, <2>1, <2>5, <3>1
  <2>6. CASE call \in {"open", "fetch", "close", "bulk", "option"} \/ (call = "exec" /\ op = NoOp)
    BY <1>16, <2>1, <2>6 DEF returnOk
  <2> QED
    BY <1>16, <2>2, <2>3, <2>4, <2>5, <2>6 DEF returnOk
<1>17. CASE UNCHANGED vars
  BY <1>17 DEF vars
<1> QED
  BY <1>6, <1>7, <1>8, <1>9, <1>10, <1>11, <1>12, <1>13, <1>14, <1>15, <1>16, <1>17,
     <1>19 DEF Next, Application, Driver, undefined

(***************************************************************************)
(* The connection implements transactions: if no ping is ended by the      *)
(* receive timeout, then whatever is lost, and whenever, a transaction is  *)
(* committed whole or not at all, also by a commit that the server runs on *)
(* after its call was given up; what is reported as committed is, and what *)
(* a call other than the commit reports as lost never will be.             *)
(***************************************************************************)
THEOREM RefinesTransactions ==
    ASSUME ~PingStalls
    PROVE  Spec => IsTransactional
<1>1. Init => AsTransactions!Init
  BY DEF Init, AsTransactions!Init
<1>2. IInv /\ LossInv /\ RunningInv /\ DoubtInv /\ [Next]_vars => [AsTransactions!Next]_(AsTransactions!vars)
  BY TransactionsStep
<1> QED
  BY <1>1, <1>2, FatesHold, PTL DEF Spec, IsTransactional, AsTransactions!Spec

=============================================================================
