---------------------------- MODULE MCNotifyStack ----------------------------
(* Instance of NotifyStack for TLC.  Liveness is checked, so no symmetry. *)
EXTENDS NotifyStack
=============================================================================
