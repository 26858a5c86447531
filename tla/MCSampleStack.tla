--------------------------- MODULE MCSampleStack ----------------------------
(* Model-checking instance of SampleStack. *)
EXTENDS SampleStack

=============================================================================
