---------------------------- MODULE MCFreezeLog ----------------------------
(* Model-checking instance of FreezeLog. *)
EXTENDS FreezeLog

=============================================================================
