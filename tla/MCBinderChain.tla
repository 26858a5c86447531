--------------------------- MODULE MCBinderChain ----------------------------
(* Model-checking instance of BinderChain. *)
EXTENDS BinderChain

(* This process and an application, with two threads each, and a service. *)
ThreeProcesses ==
  {[pid |-> 2, tid |-> 2], [pid |-> 2, tid |-> 12],
   [pid |-> 3, tid |-> 3], [pid |-> 3, tid |-> 13], [pid |-> 4, tid |-> 4]}

=============================================================================
