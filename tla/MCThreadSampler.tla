-------------------------- MODULE MCThreadSampler ---------------------------
(* Model-checking instance of ThreadSampler. *)
EXTENDS ThreadSampler

=============================================================================
