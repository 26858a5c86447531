----------------------------- MODULE MCSampling -----------------------------
(* Model-checking instance of MainThreadSampling. *)
EXTENDS MainThreadSampling

(* Each sampler alone, the freeze sampler also stopped and started by two
   threads, each beside traces, and the jank sampler beside another one. *)
AloneAndPairs ==
  {{Stack}, {"start", Crowded}, {"scroll", Crowded}, {Freeze, Crowded},
   {Freeze, Stopping}, {Freeze, Twofold}, {Stack, Tracing}, {"start", Tracing}, {Freeze, Tracing},
   {Stack, "start"}, {Stack, Freeze}}

=============================================================================
