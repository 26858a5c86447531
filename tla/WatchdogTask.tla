---------------------------- MODULE WatchdogTask ----------------------------
(***************************************************************************)
(* WatchdogTask::Run.  What a task is was decided by its constructor, and  *)
(* Run goes one of five ways for ever: it counts triggers, looks at the    *)
(* binder buffer, reports a timeout, calls a function of the library (here *)
(* that of the trace profile) or evaluates a watched handler.  Each way is *)
(* a module of its own; a behaviour of this one is that of one task.       *)
(***************************************************************************)
EXTENDS Integers

CONSTANTS
  \* the watched handler
  CheckInterval, LOW_MEMORY_CHECK_WINDOW, MAX_LOW_MEMORY_FREEZE_TIME,
  SUSPEND_THRESHOLD, Configs,
  \* the timer count
  timeLimit, countLimit, MaxTriggers, MaxTime,
  \* the asynchronous binder space
  BINDER_SPACE_FULL_MIN_COUNT, BINDER_SPACE_FULL_MAX_COUNT,
  BINDER_SPACE_FULL_WARNING_MULTIPLE, TotalSize,
  \* the timeout
  XCOLLIE_CALLBACK_HISTORY_MAX, XCOLLIE_CALLBACK_TIMEWIN_MAX,
  LEFT_TIME_EXIT_ALARM_SECONDS, DelayBeforeExit,
  \* the trace profile
  COLLECT_TRACE_MAX, COLLECT_TRACE_MIN, ONE_DAY_LIMIT, OtherTasks, MaxJobs,
  MaxSessions, MaxDay

VARIABLES
  branch,           \* the way Run goes for this task
  \* of HandlerCheck
  config, lag, pc, isCompleted, taskSlow, posted, hung, recovery, age, postLag,
  report, lowAge, freezeAge, hadSendEvent,
  \* of TimerCount
  now, triggerTimes, nextTickTime, state, real, missed, unfounded, triggers,
  \* of BinderSpace
  binderTask, reportCount, oneWayFreeSize, clogged, fate, looks, warned,
  \* of TimeoutReport
  app, debug, windowAge, cntCallback, alarm, sleepers, exited, reported,
  \* of TraceProfile
  day, traceState, lastEndTime, traceCount, dumpCount, traceEnabled, task,
  jobs, openTraceCode, session, opened, dumps, captured

Handler == INSTANCE HandlerCheck
Count   == INSTANCE TimerCount
Binder  == INSTANCE BinderSpace
Timeout == INSTANCE TimeoutReport
Trace   == INSTANCE TraceProfile WITH now <- day, MaxTime <- MaxDay

ASSUME TaskAssumption ==
  /\ Handler!IntervalAssumption
  /\ Count!TimerCountAssumption
  /\ Binder!BinderSpaceAssumption
  /\ Timeout!TimeoutReportAssumption
  /\ Trace!TraceAssumption

handlerVars == <<config, lag, pc, isCompleted, taskSlow, posted, hung, recovery,
                 age, postLag, report, lowAge, freezeAge, hadSendEvent>>
countVars   == <<now, triggerTimes, nextTickTime, state, real, missed,
                 unfounded, triggers>>
binderVars  == <<binderTask, reportCount, oneWayFreeSize, clogged, fate, looks,
                 warned>>
timeoutVars == <<app, debug, windowAge, cntCallback, alarm, sleepers, exited,
                 reported>>
traceVars   == <<day, traceState, lastEndTime, traceCount, dumpCount,
                 traceEnabled, task, jobs, openTraceCode, session, opened,
                 dumps, captured>>

vars == <<branch, handlerVars, countVars, binderVars, timeoutVars, traceVars>>

-----------------------------------------------------------------------------
(* countLimit is looked at first, then binderSpaceFullCount, timeout, task
   and checker. *)
Branches == {"countLimit", "binderSpace", "timeout", "task", "checker"}

(* A part that the task does not have is in one fixed state. *)
Init ==
  /\ branch \in Branches
  /\ Handler!Init
  /\ branch # "checker" => config = CHOOSE c \in Configs : TRUE
  /\ Count!Init
  /\ Binder!Init
  /\ branch # "binderSpace" => binderTask = CHOOSE t \in Binder!BinderTask : TRUE
  /\ Timeout!Init
  /\ branch # "timeout" => ~app /\ ~debug
  /\ Trace!Init

RunHandlerCheckerTask ==
  /\ branch = "checker"
  /\ Handler!Next
  /\ UNCHANGED <<branch, countVars, binderVars, timeoutVars, traceVars>>

TimerCountTask ==
  /\ branch = "countLimit"
  /\ Count!Next
  /\ UNCHANGED <<branch, handlerVars, binderVars, timeoutVars, traceVars>>

AsyncBinderSpace ==
  /\ branch = "binderSpace"
  /\ Binder!Next
  /\ UNCHANGED <<branch, handlerVars, countVars, timeoutVars, traceVars>>

DoCallback ==
  /\ branch = "timeout"
  /\ Timeout!Next
  /\ UNCHANGED <<branch, handlerVars, countVars, binderVars, traceVars>>

DumpTraceTask ==
  /\ branch = "task"
  /\ Trace!Next
  /\ UNCHANGED <<branch, handlerVars, countVars, binderVars, timeoutVars>>

Next ==
  \/ RunHandlerCheckerTask
  \/ TimerCountTask
  \/ AsyncBinderSpace
  \/ DoCallback
  \/ DumpTraceTask

Spec == Init /\ [][Next]_vars

-----------------------------------------------------------------------------
(* Time passes and the watchdog thread is scheduled; it is not late by more
   than the threshold, nor has the system slept, every single time. *)
HandlerFairness ==
  /\ WF_handlerVars(branch = "checker" /\ Handler!Elapse)
  /\ WF_handlerVars(branch = "checker" /\ Handler!RunLate)
  /\ SF_handlerVars(branch = "checker" /\ Handler!Evaluate)
  /\ WF_handlerVars(branch = "checker" /\ Handler!ScheduleCheck)

BinderFairness == WF_binderVars(branch = "binderSpace" /\ Binder!Look)

(* Time passes and a thread that slept enough goes on. *)
TimeoutFairness ==
  /\ WF_timeoutVars(branch = "timeout" /\ Timeout!Tick)
  /\ WF_timeoutVars(branch = "timeout" /\ Timeout!Exit)
  /\ WF_timeoutVars(branch = "timeout" /\ Timeout!AlarmFires)

(* The watchdog thread goes on; other tasks cannot be dropped before this
   one for ever. *)
TraceFairness ==
  /\ WF_traceVars(branch = "task" /\ Trace!Watchdog)
  /\ SF_traceVars(branch = "task" /\ Trace!CheckCurrentTaskLocked)

FairSpec ==
  /\ Spec
  /\ HandlerFairness
  /\ BinderFairness
  /\ TimeoutFairness
  /\ TraceFairness

-----------------------------------------------------------------------------

(* No block without a warning for the same check, nor before its time. *)
BlockEarned == Handler!BlockEarned

(* A hang of the handler is found, and low memory only postpones the end. *)
HangIsFound == Handler!HangIsFound

(* Exactly the bursts of recorded triggers are reported. *)
ReportsExact == Count!ReportsExact

(* A full binder buffer ends nothing before it was full for long enough. *)
KillEarned == Binder!KillEarned

(* A binder buffer that stays full ends the process or a peer. *)
CloggedKills == Binder!CloggedKills

(* No span of one window holds too many timeout reports. *)
ReportRate == Timeout!ReportRate

(* A recovery that began ends the process. *)
RecoveryExits == Timeout!RecoveryExits

(* Two traces that were dumped are a day apart. *)
OneDumpPerDay == Trace!OneDumpPerDay

(* Nothing is dumped that was not opened in the same session. *)
DumpHasOpenTrace == Trace!DumpHasOpenTrace

(* Every trace session ends. *)
SessionEnds == Trace!SessionEnds

=============================================================================
