------------------------------- MODULE Cursor -------------------------------
(***************************************************************************)
(* What a result set promises.  Its rows are given out in order; an answer *)
(* holds the rows that follow the current one, and fewer than asked for    *)
(* only where the result ends; a row is passed over without being given    *)
(* only by a call that fails; calls are refused only after an answer       *)
(* without rows has said that there are none left.                         *)
(***************************************************************************)
EXTENDS Naturals

CONSTANT Asked  \* numbers of rows that are asked for; 0 asks for all

VARIABLES
    total,  \* the rows of the result
    pos,    \* the number of the current row
    told,   \* the end of the result has been reported for good
    answer  \* the last answer: its first row less one and its rows

Answer(from, count) == [from |-> from, count |-> count]
None == Answer(0, 0)
Failed == [failed |-> TRUE]
Refused == [refused |-> TRUE]

Init == total \in Nat /\ pos = 0 /\ told = FALSE /\ answer = None

Open == UNCHANGED total /\ pos' = 0 /\ told' = FALSE /\ answer' = None

Deliver(n) ==
    \E k \in 0..(total - pos) :
        /\ IF n = 0 THEN pos + k = total
           ELSE k <= n /\ (k < n => pos + k = total)
        /\ pos' = pos + k
        /\ answer' = Answer(pos, k)
        /\ told' \in {told, told \/ k = 0}
        /\ UNCHANGED total

Current ==
    /\ pos > 0
    /\ answer' = Answer(pos - 1, 1)
    /\ UNCHANGED <<total, pos, told>>

Fail ==
    /\ pos' \in pos..total
    /\ answer' = Failed
    /\ UNCHANGED <<total, told>>

Refuse ==
    /\ told /\ pos = total
    /\ answer' = Refused
    /\ UNCHANGED <<total, pos, told>>

Next ==
    \/ Open
    \/ \E n \in Asked : Deliver(n)
    \/ Current
    \/ Fail
    \/ Refuse

Spec == Init /\ [][Next]_<<total, pos, told, answer>>
=============================================================================
