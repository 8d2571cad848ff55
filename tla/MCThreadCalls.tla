--------------------------- MODULE MCThreadCalls ---------------------------
(***************************************************************************)
(* Model checking of ThreadCalls: two threads, two session attributes and  *)
(* three round trips; nothing happens after the last of them.              *)
(***************************************************************************)
EXTENDS ThreadCalls
=============================================================================
