-------------------------- MODULE MCStatementFetch --------------------------
(***************************************************************************)
(* Model checking of StatementFetch: select lists of three columns with    *)
(* duplicated names, one of them with a name that looks like a suffix.     *)
(***************************************************************************)
EXTENDS StatementFetch

CONSTANTS a, b  \* the letters of the names

Column(name, type) == [name |-> name, type |-> type]

MCColumnLists ==
    {<<Column(<<a>>, "number"), Column(<<b>>, "integer"), Column(<<a>>, "other")>>,
     <<Column(<<a>>, "other"), Column(<<a>>, "number"), Column(<<a, 1>>, "integer")>>,
     <<Column(<<a, 1>>, "integer"), Column(<<a>>, "number"), Column(<<a>>, "number")>>}

MCLimits == {-1, 1, 2}
=============================================================================
