---------------------------- MODULE TraceProfile ----------------------------
(***************************************************************************)
(* Trace collection for a slow main thread: the main thread opens a trace  *)
(* at most once a day, the watchdog thread looks COLLECT_TRACE_MAX times   *)
(* whether the main thread is still slow and then has the trace dumped.    *)
(* Opening and dumping are jobs of an FFRT queue of concurrency one.       *)
(*                                                                         *)
(* A session is numbered by its order.  A day does not pass while the task *)
(* of a session, three seconds of ticks, is alive.                         *)
(***************************************************************************)
EXTENDS Integers, Sequences, FiniteSets, Functions

CONSTANTS
  COLLECT_TRACE_MAX,  \* 20 in the code
  COLLECT_TRACE_MIN,  \* 1 in the code
  ONE_DAY_LIMIT,      \* in ticks of the clock
  OtherTasks,         \* may FetchNextTask drop another task before this one?
  MaxJobs,            \* bound: jobs waiting when a run is repeated
  MaxSessions,        \* bound: sessions ever begun
  MaxTime             \* bound: the horizon of the clock

TraceAssumption ==
  /\ {COLLECT_TRACE_MAX, COLLECT_TRACE_MIN, ONE_DAY_LIMIT} \subseteq Nat \ {0}
  /\ OtherTasks \in BOOLEAN
  /\ {MaxJobs, MaxSessions, MaxTime} \subseteq Nat

VARIABLES
  now,            \* the clock
  traceState,     \* traceContent_.traceState
  lastEndTime,    \* traceContent_.lastEndTime
  traceCount,     \* traceContent_.traceCount
  dumpCount,      \* traceContent_.dumpCount
  traceEnabled,   \* isMainThreadTraceEnabled_
  task,           \* TRACE_CHECKER: "none", "queued" or "ran"
  jobs,           \* xcollieQueue_, first in first out
  openTraceCode,  \* openTraceCode_
  session,        \* history: sessions begun
  opened,         \* history: sessions whose trace was opened
  dumps,          \* history: [session, time] of each dump asked for
  captured        \* history: sessions whose trace was dumped

contentVars == <<traceState, lastEndTime, traceCount, dumpCount>>
historyVars == <<session, opened, dumps, captured>>
vars == <<now, contentVars, traceEnabled, task, jobs, openTraceCode,
          historyVars>>

-----------------------------------------------------------------------------
\* mutant of TooSoon: a new trace is allowed on the day of the last one
TooSoonNever == FALSE

(* The early return of CollectTraceDetect. *)
TooSoon == traceState = "COMPLETE" /\ now - lastEndTime < ONE_DAY_LIMIT

(* CollectTraceDetect and StartTraceProfile, on the main thread. *)
CollectTraceDetect ==
  /\ ~TooSoon
  /\ session < MaxSessions
  /\ lastEndTime' = now
  /\ \/ /\ traceState' = "DEFAULT"       \* no TraceCollector
        /\ session' = session
        /\ UNCHANGED <<traceCount, dumpCount, task, jobs>>
     \/ /\ traceState' = "COMPLETE"
        /\ session' = session + 1
        /\ jobs' = Append(jobs, [kind |-> "start", session |-> session + 1])
        /\ traceCount' = 0
        /\ dumpCount' = 0
        /\ \/ task = "none" /\ task' = "queued"
           \/ task' = task               \* the insertion is refused
  /\ UNCHANGED <<now, traceEnabled, openTraceCode, opened, dumps, captured>>

\* mutant of Last: the count is compared after it was reset
LastNever(count) == FALSE

Last(count) == count >= COLLECT_TRACE_MAX

(* DumpTraceTask; slow is what CheckEventTimer says.  The counts are capped
   where the code stops telling them apart. *)
DumpTraceTask(slow) ==
  /\ task = "queued"
  /\ traceEnabled => OtherTasks /\ Len(jobs) < MaxJobs
  /\ task' = "ran"
  /\ traceCount' = IF traceCount < COLLECT_TRACE_MAX THEN traceCount + 1
                   ELSE traceCount
  /\ dumpCount' = IF slow /\ dumpCount < COLLECT_TRACE_MIN THEN dumpCount + 1
                  ELSE dumpCount
  /\ LET last == Last(traceCount')
         dump == last /\ dumpCount' >= COLLECT_TRACE_MIN
     IN /\ traceEnabled' = (traceEnabled \/ last)
        /\ jobs' = IF dump
                   THEN Append(jobs, [kind |-> "dump", session |-> session])
                   ELSE jobs
        /\ dumps' = IF dump
                    THEN dumps \cup {[session |-> session, time |-> lastEndTime]}
                    ELSE dumps
  /\ UNCHANGED <<now, traceState, lastEndTime, openTraceCode, session, opened,
                 captured>>

ReInsertTaskIfNeed ==
  /\ task = "ran"
  /\ task' = "queued"
  /\ UNCHANGED <<now, contentVars, traceEnabled, jobs, openTraceCode,
                 historyVars>>

(* The TRACE_CHECKER branch of CheckCurrentTaskLocked. *)
CheckCurrentTaskLocked ==
  /\ task = "queued"
  /\ traceEnabled
  /\ task' = "none"
  /\ traceEnabled' = FALSE
  /\ traceState' = IF dumpCount < COLLECT_TRACE_MIN THEN "DEFAULT"
                   ELSE traceState
  /\ UNCHANGED <<now, lastEndTime, traceCount, dumpCount, jobs, openTraceCode,
                 historyVars>>

-----------------------------------------------------------------------------
\* mutant of TakeJob: the queue hands out its jobs in any order
TakeJobAny(j) ==
  \E i \in 1 .. Len(jobs) :
    j = jobs[i] /\ jobs' = SubSeq(jobs, 1, i - 1) \o SubSeq(jobs, i + 1, Len(jobs))

(* xcollieQueue_ with max_concurrency one. *)
TakeJob(j) == jobs # <<>> /\ j = Head(jobs) /\ jobs' = Tail(jobs)

StartTrace ==
  /\ \E j \in Range(jobs) :
       /\ TakeJob(j)
       /\ j.kind = "start"
       /\ openTraceCode' \in {0, -1}
       /\ opened' = IF openTraceCode' = 0 THEN opened \cup {j.session}
                    ELSE opened
  /\ UNCHANGED <<now, contentVars, traceEnabled, task, session, dumps,
                 captured>>

(* The collector is asked only when the last StartTrace succeeded. *)
DumpTrace ==
  /\ \E j \in Range(jobs) :
       /\ TakeJob(j)
       /\ j.kind = "dump"
       /\ captured' = IF openTraceCode = 0 THEN captured \cup {j.session}
                      ELSE captured
  /\ UNCHANGED <<now, contentVars, traceEnabled, task, openTraceCode, session,
                 opened, dumps>>

Tick ==
  /\ now < MaxTime
  /\ task = "none"
  /\ now' = now + 1
  /\ UNCHANGED <<contentVars, traceEnabled, task, jobs, openTraceCode,
                 historyVars>>

-----------------------------------------------------------------------------
Init ==
  /\ now = 0
  /\ traceState = "DEFAULT"
  /\ lastEndTime = 0
  /\ traceCount = 0
  /\ dumpCount = 0
  /\ traceEnabled = FALSE
  /\ task = "none"
  /\ jobs = <<>>
  /\ openTraceCode = -1
  /\ session = 0
  /\ opened = {}
  /\ dumps = {}
  /\ captured = {}

Watchdog ==
  \/ \E slow \in BOOLEAN : DumpTraceTask(slow)
  \/ ReInsertTaskIfNeed
  \/ CheckCurrentTaskLocked

Next ==
  \/ CollectTraceDetect
  \/ Watchdog
  \/ StartTrace
  \/ DumpTrace
  \/ Tick

Spec == Init /\ [][Next]_vars

-----------------------------------------------------------------------------

(* Only a session that came to nothing may be followed by another one on
   the same day: two dumps of two sessions are a day apart. *)
OneDumpPerDay ==
  \A d, e \in dumps :
    d.session < e.session => e.time - d.time >= ONE_DAY_LIMIT

(* DumpTrace reads openTraceCode_ of whichever StartTrace ran last: it is
   always the one of its own session, so nothing is dumped unopened. *)
DumpHasOpenTrace == captured \subseteq opened

(* Every session ends and gives the name TRACE_CHECKER back. *)
SessionEnds == task # "none" ~> task = "none"

=============================================================================
