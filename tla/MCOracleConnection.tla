------------------------- MODULE MCOracleConnection -------------------------
(***************************************************************************)
(* Model checking of OracleConnection: two changes and one SQLStatement.   *)
(***************************************************************************)
EXTENDS OracleConnection

AllCalls == CallKinds
PlainCalls == {"exec", "commit", "rollback"}
=============================================================================
