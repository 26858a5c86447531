----------------------------- MODULE MCTaskIds ------------------------------
(* Model-checking instance of TaskIds. *)
EXTENDS TaskIds

=============================================================================
