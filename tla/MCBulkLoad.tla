----------------------------- MODULE MCBulkLoad -----------------------------
(***************************************************************************)
(* Model checking of BulkLoad: blocks of up to five rows, a column array   *)
(* of two, two columns, and a payload counter that can overflow.           *)
(***************************************************************************)
EXTENDS BulkLoad
=============================================================================
