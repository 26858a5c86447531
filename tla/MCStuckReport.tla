--------------------------- MODULE MCStuckReport ---------------------------
(* Model-checking instance of StuckReport. *)
EXTENDS StuckReport

=============================================================================
