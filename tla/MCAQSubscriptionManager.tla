---------------------- MODULE MCAQSubscriptionManager ----------------------
(***************************************************************************)
(* AQSubscriptionManager for TLC.                                          *)
(***************************************************************************)
EXTENDS AQSubscriptionManager

=============================================================================
