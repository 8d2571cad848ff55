----------------------------- MODULE AtomicLoad -----------------------------
(***************************************************************************)
(* What a direct path load promises: rows are accepted block by block and  *)
(* become visible all at once, each of them once and only when the         *)
(* application has asked for that, or not at all.                          *)
(***************************************************************************)
EXTENDS Naturals

CONSTANT MaxGiven  \* the most rows that one load is given

VARIABLES
    given,    \* the number of rows accepted by the load
    asked,    \* the application has asked for the load to be finished
    visible   \* how often each row of the load is in the table

Rows == 1..MaxGiven
NoRows == [r \in Rows |-> 0]

(***************************************************************************)
(* The first n rows, each of them once.                                    *)
(***************************************************************************)
Whole(n) == [r \in Rows |-> IF r <= n THEN 1 ELSE 0]

Init == given = 0 /\ asked = FALSE /\ visible = NoRows

Begin == given' = 0 /\ asked' = FALSE /\ visible' = NoRows

Accept ==
    /\ ~asked
    /\ \E n \in 1..(MaxGiven - given) : given' = given + n
    /\ UNCHANGED <<asked, visible>>

Ask ==
    /\ ~asked
    /\ asked' = TRUE
    /\ UNCHANGED <<given, visible>>

Finish ==
    /\ asked /\ visible = NoRows
    /\ visible' = Whole(given)
    /\ UNCHANGED <<given, asked>>

Next == Begin \/ Accept \/ Ask \/ Finish

Spec == Init /\ [][Next]_<<given, asked, visible>>
=============================================================================
