--------------------------- MODULE MCWatchdogTask ---------------------------
(* Model-checking instance of WatchdogTask. *)
EXTENDS WatchdogTask

NoConfig == [ipc |-> FALSE, func |-> FALSE, callback |-> FALSE,
             recovery |-> FALSE, debug |-> FALSE, foundation |-> FALSE,
             lowMemoryCheck |-> FALSE, suspend |-> FALSE]

(* AddThread with and without a callback, in a plain process, under debug, in
   foundation, in the render service and in a build that looks for sleep of
   the system; the IPC-full task in its variants. *)
AllConfigs ==
  {NoConfig,
   [NoConfig EXCEPT !.callback = TRUE],
   [NoConfig EXCEPT !.debug = TRUE],
   [NoConfig EXCEPT !.foundation = TRUE],
   [NoConfig EXCEPT !.lowMemoryCheck = TRUE],
   [NoConfig EXCEPT !.suspend = TRUE]}
  \cup {[NoConfig EXCEPT !.ipc = TRUE, !.func = f, !.recovery = r] :
          f \in BOOLEAN, r \in BOOLEAN}

=============================================================================
