-------------------------- MODULE MCStatementBind --------------------------
(***************************************************************************)
(* Model checking of StatementBind: two values and an output placeholder.  *)
(***************************************************************************)
EXTENDS StatementBind

Single(class) == [class |-> class, size |-> Scalar]
List(class, size) == [class |-> class, size |-> size]

MCArgs(p) ==
    CASE p = 1 -> {Single("null"), Single("number"), List("int", 1), List("int", 2)}
      [] p = 2 -> {Single("blob"), Single("date"), List("date", 2)}
      [] p = 3 -> {Single("string"), Single("date")}
=============================================================================
