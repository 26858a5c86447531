--------------------------- MODULE MCJankDetection ---------------------------
(* Model-checking instance of JankDetection. *)
EXTENDS JankDetection

StackMap(interval, count, times) ==
  [log_type |-> LOGTYPE_SAMPLE_STACK, sample_interval |-> interval,
   ignore_startup_time |-> 1, sample_count |-> count,
   report_times_per_app |-> times]

Set(map)    == [func |-> "SetEventConfig", map |-> map]
Policy(map) == [func |-> "ConfigEventPolicy", map |-> map]

(* Valid and invalid calls: all keys, too large a count, a trace, and the
   policy with defaults, an empty value and auto_stop_sampling. *)
Calls ==
  {Set(StackMap(2, 1, 2)), Set(StackMap(2, 2, 1)), Set(StackMap(1, 4, 2)),
   Set(StackMap(1, Junk, 1)),
   Set([log_type |-> LOGTYPE_COLLECT_TRACE]),
   Policy([log_type |-> LOGTYPE_SAMPLE_STACK, sample_interval |-> 2,
           sample_count |-> 1, report_times_per_app |-> Empty,
           auto_stop_sampling |-> 1]),
   Policy([log_type |-> LOGTYPE_NONE, auto_stop_sampling |-> 1]),
   Policy([log_type |-> LOGTYPE_NONE, auto_stop_sampling |-> Junk])}

Process(joined, business, calls, entries, hourly, others) ==
  [joined |-> joined, business |-> business, calls |-> calls,
   entries |-> entries, hourly |-> hourly, others |-> others]

(* A main thread whose parameters change, with and without entries in the
   system parameter; a thread that comes and goes; two threads that stay. *)
MCSetups ==
  {Process({}, {}, Calls, <<>>, FALSE, FALSE),
   Process({}, {}, {Set(StackMap(1, 2, 1))}, <<6, 1>>, FALSE, TRUE),
   Process({}, {}, {Set(StackMap(1, 2, 2))}, <<>>, FALSE, TRUE),
   Process({}, {}, {Set(StackMap(1, 2, 1))}, <<6, Junk>>, TRUE, FALSE),
   Process({}, {"b1"}, {}, <<>>, TRUE, FALSE),
   Process({"b1", "b2"}, {}, {}, <<>>, FALSE, FALSE)}

=============================================================================
