-------------------------- MODULE MCAQSubscription --------------------------
(***************************************************************************)
(* AQSubscription for TLC.                                                 *)
(***************************************************************************)
EXTENDS AQSubscription, TLC

ThreadSymmetry == Permutations(WThreads) \cup Permutations(DThreads)

=============================================================================
