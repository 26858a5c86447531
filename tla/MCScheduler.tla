---------------------------- MODULE MCScheduler ----------------------------
(* Model-checking instances of WatchdogScheduler. *)
EXTENDS WatchdogScheduler

=============================================================================
