----------------------- MODULE MCAQCallbackDispatcher -----------------------
(***************************************************************************)
(* AQCallbackDispatcher for TLC, with the mutations of the code that its   *)
(* properties must detect.                                                 *)
(***************************************************************************)
EXTENDS AQCallbackDispatcher

=============================================================================
