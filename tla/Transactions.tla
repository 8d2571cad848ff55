---------------------------- MODULE Transactions ----------------------------
(***************************************************************************)
(* What the transactions of a datasource promise its application: they     *)
(* are committed as a whole and once, or not at all; one reported as       *)
(* committed is, and one reported as lost never will be.  Only a commit    *)
(* whose answer was lost may report its transaction as lost although the   *)
(* server has made it, or makes it later: it can still be running it.      *)
(***************************************************************************)
CONSTANT Changes

VARIABLES
    committed,  \* the changes that are in the database
    late,       \* the transactions with a commit that the server still runs
    acked,      \* the changes reported as made in the open transaction
    durable,    \* the changes reported as committed
    gone,       \* the changes of transactions reported as lost
    doubt       \* the same, reported by the commit of the transaction

outcomes == <<durable, gone, doubt>>
vars == <<committed, late, acked, durable, gone, doubt>>

Init ==
    /\ committed = {} /\ late = {}
    /\ acked = {} /\ durable = {} /\ gone = {} /\ doubt = {}

(***************************************************************************)
(* The fate of the open transaction: committed, its commit still runs, or  *)
(* nothing of it is or will be committed.                                  *)
(***************************************************************************)
Committed == acked \subseteq committed
Running == \E T \in late : acked \subseteq T
Uncommitted == acked \cap committed = {} /\ \A T \in late : acked \cap T = {}

(***************************************************************************)
(* A transaction as the server gets it: the open one, with the changes of  *)
(* statements that failed after they had made them, and nothing that was   *)
(* committed, is being committed or was reported as lost.                  *)
(***************************************************************************)
Transaction(W) ==
    /\ acked \subseteq W
    /\ W \cap (committed \cup gone \cup doubt) = {}
    /\ \A T \in late : W \cap T = {}

(***************************************************************************)
(* A change is reported as made: it is a part of the open transaction.     *)
(***************************************************************************)
Report ==
    /\ \E c \in Changes \ (committed \cup acked \cup gone \cup doubt) :
          (\A T \in late : c \notin T) /\ acked' = acked \cup {c}
    /\ UNCHANGED <<committed, late, outcomes>>

(***************************************************************************)
(* The open transaction is committed as a whole, once.                     *)
(***************************************************************************)
Commit ==
    /\ Uncommitted
    /\ \E W \in SUBSET Changes : Transaction(W) /\ committed' = committed \cup W
    /\ UNCHANGED <<late, acked, outcomes>>

(***************************************************************************)
(* The answer to its commit is lost.  The server then makes all of it,     *)
(* once and at any later time, or nothing.                                 *)
(***************************************************************************)
Leave ==
    /\ Uncommitted
    /\ \E W \in SUBSET Changes : Transaction(W) /\ late' = late \cup {W}
    /\ UNCHANGED <<committed, acked, outcomes>>

Settle ==
    /\ \E T \in late :
          late' = late \ {T} /\ committed' \in {committed, committed \cup T}
    /\ UNCHANGED <<acked, outcomes>>

(***************************************************************************)
(* The end of the open transaction is reported: it is committed; it is     *)
(* lost; its commit was lost, with any fate; or it was rolled back, or its *)
(* commit failed for another reason.                                       *)
(***************************************************************************)
Succeed ==
    /\ Committed
    /\ durable' = durable \cup acked
    /\ UNCHANGED <<gone, doubt>>

Lose ==
    /\ Uncommitted
    /\ gone' = gone \cup acked
    /\ UNCHANGED <<durable, doubt>>

Doubt ==
    /\ Committed \/ Running \/ Uncommitted
    /\ doubt' = doubt \cup acked
    /\ UNCHANGED <<durable, gone>>

Abandon == Uncommitted /\ UNCHANGED outcomes

End ==
    /\ Succeed \/ Lose \/ Doubt \/ Abandon
    /\ acked' = {}
    /\ UNCHANGED <<committed, late>>

(***************************************************************************)
(* A statement with autocommit: its change is reported as committed.       *)
(***************************************************************************)
ReportCommitted ==
    /\ \E c \in committed : durable' = durable \cup {c}
    /\ UNCHANGED <<committed, late, acked, gone, doubt>>

Next == Report \/ Commit \/ Leave \/ Settle \/ End \/ ReportCommitted

Spec == Init /\ [][Next]_vars
=============================================================================
