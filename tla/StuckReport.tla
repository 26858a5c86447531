---------------------------- MODULE StuckReport ----------------------------
(***************************************************************************)
(* Stuck detection of a business thread (the NDK's hicollie.cpp).          *)
(* OH_HiCollie_Init_StuckDetection runs the application's task every       *)
(* g_stuckTimeout in the watchdog thread; the task calls                   *)
(* OH_HiCollie_Report when the business thread does not answer.  The first *)
(* report is BUSSINESS_THREAD_BLOCK_3S, the next one _6S, which ends the   *)
(* application; in the background the first reports are held back.         *)
(*                                                                         *)
(* Several threads may set the detection up, change it and stop it at the  *)
(* same time: no lock is held across a call.  They all pass the same task. *)
(*                                                                         *)
(* Time is relative: age is the wall clock - g_lastWatchTime, due the time *)
(* until the task's nextTickTime.  The wall clock is not set back.         *)
(***************************************************************************)
EXTENDS Integers

CONSTANTS
  Word,             \* 2^32
  TIME_S_TO_MS,
  CHECK_INTERVAL_TIME,
  MAX_TIMEOUT,
  INI_TIMER_FIRST_SECOND,
  BACKGROUND_REPORT_COUNT_MAX,
  PlainCallers,     \* threads that call OH_HiCollie_Init_StuckDetection
  TimeoutCallers,   \* and those that call ..._StuckDetectionWithTimeout
  Seconds,          \* arguments of the latter
  MaxLate           \* how late the watchdog thread may be

ASSUME StuckReportAssumption ==
  /\ {Word, TIME_S_TO_MS, CHECK_INTERVAL_TIME, MAX_TIMEOUT} \subseteq Nat \ {0}
  /\ {INI_TIMER_FIRST_SECOND, BACKGROUND_REPORT_COUNT_MAX, MaxLate}
       \subseteq Nat
  /\ CHECK_INTERVAL_TIME <= MAX_TIMEOUT   \* an ASAN build has the first only
  /\ Seconds \subseteq 0 .. Word - 1
  /\ MaxLate <= 2 * CHECK_INTERVAL_TIME   \* later runs are skipped

RATIO == 2
Callers == PlainCallers \cup TimeoutCallers

VARIABLES
  g_stuckTimeout,
  g_backgroundReportCount,
  age,              \* the wall clock - g_lastWatchTime
  task,             \* "BussinessWatchdog": none, queued, running, notify, ran
  checkInterval,    \* of that task
  due,              \* its nextTickTime - now
  calls,            \* per thread: its call in progress, or NoCall
  isSixSecond,      \* the application's variable
  isForeground, isAppDebug,   \* of AppWatchdogInner
  stuck,            \* the business thread does not answer
  exited,           \* the application was ended by a 6S report
  raced,            \* history: has the last call overlapped another one, or
                    \* met the task while it was running?
  refused,          \* history: was the registration of the timeout in force
                    \* refused for want of room in the queue?
  unheard,          \* history: did NotifyAppFault of a 6S report fail?
  gap,              \* history: time since the last stuck check or report
  streak,           \* history: stuck checks, each soon after the one before
  sinceWarning,     \* history: time since the 3S report of this stall
  early,            \* history: was a background report not held back?
  unwarned          \* history: was a 6S report too soon after the 3S?

global == <<g_stuckTimeout, g_backgroundReportCount, age>>
taskVars == <<task, checkInterval, due>>
appVars == <<isSixSecond, isForeground, isAppDebug, stuck, exited>>
history == <<raced, refused, unheard, gap, streak, sinceWarning, early, unwarned>>
vars == <<global, taskVars, calls, appVars, history>>

MaxAge == RATIO * MAX_TIMEOUT + 1   \* bound: older makes no difference
Epoch  == MaxAge + 1                \* g_lastWatchTime is 0
Never  == -1

Saturated(n, bound) == IF n > bound THEN bound ELSE n
Count(n) == Saturated(n, BACKGROUND_REPORT_COUNT_MAX)

-----------------------------------------------------------------------------
\* mutant of RemovePeriodicalTask: nothing is removed
RemoveNothing == UNCHANGED taskVars

(* RemoveInnerTask sees only the queue: a running task stays. *)
RemovePeriodicalTask ==
  \/ task = "queued" /\ task' = "none" /\ checkInterval' = 0 /\ due' = 0
  \/ task # "queued" /\ UNCHANGED taskVars

IsRunning == task \notin {"none", "queued"}

NoCall == [pc |-> "idle", timeout |-> 0]
At(c, pc) == calls[c].pc = pc
Alone(c) == \A o \in Callers \ {c} : calls[o] = NoCall

(* InitStuckDetection with a task: the old one is removed if there is one. *)
InitStuckDetection(c, timeout) ==
  /\ calls[c] = NoCall
  /\ calls' = [calls EXCEPT ![c] = [pc |-> "set", timeout |-> timeout]]
  /\ \/ /\ g_stuckTimeout # 0
        /\ RemovePeriodicalTask
        /\ raced' = (~Alone(c) \/ IsRunning)
     \/ /\ g_stuckTimeout = 0
        /\ UNCHANGED taskVars
        /\ raced' = (~Alone(c) \/ raced)
  /\ UNCHANGED <<global, appVars, refused, unheard, gap, streak,
                 sinceWarning, early, unwarned>>

OH_HiCollie_Init_StuckDetection(c) ==
  InitStuckDetection(c, CHECK_INTERVAL_TIME)

(* timeout * TIME_S_TO_MS is a uint32_t product. *)
OH_HiCollie_Init_StuckDetectionWithTimeout(c, seconds) ==
  LET timeout == (seconds * TIME_S_TO_MS) % Word
  IN /\ timeout >= CHECK_INTERVAL_TIME
     /\ timeout <= MAX_TIMEOUT
     /\ InitStuckDetection(c, timeout)

(* InitStuckDetection without a task. *)
StopStuckDetection(c) ==
  /\ calls[c] = NoCall
  /\ calls' = [calls EXCEPT ![c].pc = "remove"]
  /\ raced' = ~Alone(c)
  /\ g_stuckTimeout' = 0
  /\ refused' = FALSE
  /\ UNCHANGED <<g_backgroundReportCount, age, taskVars, appVars, unheard, gap,
                 streak, sinceWarning, early, unwarned>>

RemoveTask(c) ==
  /\ At(c, "remove")
  /\ calls' = [calls EXCEPT ![c] = NoCall]
  /\ RemovePeriodicalTask
  /\ raced' = (raced \/ IsRunning)
  /\ UNCHANGED <<global, appVars, refused, unheard, gap, streak,
                 sinceWarning, early, unwarned>>

(* The variables all callers share. *)
SetTimeout(c) ==
  /\ At(c, "set")
  /\ calls' = [calls EXCEPT ![c].pc = "run"]
  /\ g_stuckTimeout' = calls[c].timeout
  /\ age' = Epoch
  /\ g_backgroundReportCount' = 0
  /\ streak' = 0
  /\ UNCHANGED <<taskVars, appVars, raced, refused, unheard, gap, sinceWarning,
                 early, unwarned>>

(* Insertion is refused while a task of that name exists, or when other tasks
   have filled the queue; the caller is not told. *)
RunPeriodicalTask(c) ==
  /\ At(c, "run")
  /\ calls' = [calls EXCEPT ![c] = NoCall]
  /\ \/ /\ task = "none"
        /\ task' = "queued"
        /\ checkInterval' = calls[c].timeout
        /\ due' = INI_TIMER_FIRST_SECOND
        /\ refused' = FALSE
     \/ task # "none" /\ refused' = FALSE /\ UNCHANGED taskVars
     \/ task = "none" /\ refused' = TRUE /\ UNCHANGED taskVars
  /\ UNCHANGED <<global, appVars, raced, unheard, gap, streak, sinceWarning,
                 early, unwarned>>

Caller(c) ==
  \/ SetTimeout(c)
  \/ RunPeriodicalTask(c)
  \/ RemoveTask(c)

-----------------------------------------------------------------------------
FetchNextTask ==
  /\ task = "queued"
  /\ due <= 0
  /\ task' = "running"
  /\ UNCHANGED <<global, checkInterval, due, calls, appVars, history>>

(* The application's task finds the business thread alive. *)
CheckAlive ==
  /\ task = "running"
  /\ ~stuck
  /\ task' = "ran"
  /\ isSixSecond' = FALSE
  /\ sinceWarning' = Never
  /\ UNCHANGED <<global, checkInterval, due, calls, isForeground,
                 isAppDebug, stuck, exited, raced, refused, unheard, gap,
                 streak, early, unwarned>>

(* It does not, but the application is being debugged. *)
ReportInDebug ==
  /\ task = "running"
  /\ stuck
  /\ isAppDebug
  /\ task' = "ran"
  /\ UNCHANGED <<global, checkInterval, due, calls, appVars, history>>

\* mutant of CountBefore: one timeout is too old already
CountForgotten == IF age > g_stuckTimeout THEN 0 ELSE g_backgroundReportCount

\* mutant of CountBefore: an old count is kept
CountKept == g_backgroundReportCount

(* CheckInBackGround forgets a count that is too old. *)
CountBefore ==
  IF age > RATIO * g_stuckTimeout THEN 0 ELSE g_backgroundReportCount

CheckInBackGround ==
  ~isForeground /\ CountBefore < BACKGROUND_REPORT_COUNT_MAX

\* The stuck checks in a row, this one included.
Streak ==
  IF gap > RATIO * g_stuckTimeout THEN 1
  ELSE Saturated(streak + 1, BACKGROUND_REPORT_COUNT_MAX + 1)

\* mutant of HoldBack: the report held back counts as the 3S one
HoldBackAsWarning ==
  /\ task = "running" /\ stuck /\ ~isAppDebug
  /\ CheckInBackGround
  /\ task' = "ran"
  /\ g_backgroundReportCount' = Count(CountBefore + 1)
  /\ age' = 0
  /\ gap' = 0
  /\ streak' = Streak
  /\ isSixSecond' = TRUE
  /\ UNCHANGED <<g_stuckTimeout, checkInterval, due, calls, isForeground,
                 isAppDebug, stuck, exited, raced, refused, unheard, sinceWarning,
                 early, unwarned>>

(* Report in the background: counted, and no more. *)
HoldBack ==
  /\ task = "running" /\ stuck /\ ~isAppDebug
  /\ CheckInBackGround
  /\ task' = "ran"
  /\ g_backgroundReportCount' = Count(CountBefore + 1)
  /\ age' = 0
  /\ gap' = 0
  /\ streak' = Streak
  /\ UNCHANGED <<g_stuckTimeout, checkInterval, due, calls, appVars,
                 raced, refused, unheard, sinceWarning, early, unwarned>>

\* How soon two runs follow each other: the next tick, or the first one of a
\* task that was registered in between.
LeastDelay ==
  IF checkInterval - MaxLate < INI_TIMER_FIRST_SECOND
  THEN checkInterval - MaxLate ELSE INI_TIMER_FIRST_SECOND

(* Report, up to ReadDataFromBuffer, where it may wait for the application's
   freeze callback. *)
Report ==
  /\ task = "running" /\ stuck /\ ~isAppDebug
  /\ ~CheckInBackGround
  /\ task' = IF isSixSecond THEN "notify6S" ELSE "notify3S"
  /\ g_backgroundReportCount' = Count(CountBefore + 1)
  /\ isSixSecond' = ~isSixSecond
  /\ gap' = 0
  /\ streak' = Streak
  /\ sinceWarning' = IF isSixSecond THEN Never ELSE 0
  /\ early' = (early \/ (~isForeground
                         /\ Streak <= BACKGROUND_REPORT_COUNT_MAX))
  /\ unwarned' = (unwarned \/ (isSixSecond
                     /\ (sinceWarning = Never \/ sinceWarning < LeastDelay)))
  /\ UNCHANGED <<g_stuckTimeout, age, checkInterval, due, calls,
                 isForeground, isAppDebug, stuck, exited, raced, refused, unheard>>

(* NotifyAppFault; forceExit of the 6S report ends the application. *)
NotifyAppFault ==
  /\ task \in {"notify3S", "notify6S"}
  /\ task' = "ran"
  /\ \E failed \in BOOLEAN :
       /\ exited' = (task = "notify6S" /\ ~failed)
       /\ unheard' = (unheard \/ (task = "notify6S" /\ failed))
  /\ age' = IF age >= g_stuckTimeout \div RATIO THEN 0 ELSE age
  /\ gap' = 0
  /\ UNCHANGED <<g_stuckTimeout, g_backgroundReportCount, checkInterval, due,
                 calls, isSixSecond, isForeground, isAppDebug, stuck,
                 raced, refused, streak, sinceWarning, early, unwarned>>

ReInsertTaskIfNeed ==
  /\ task = "ran"
  /\ task' = "queued"
  /\ due' = due + checkInterval
  /\ UNCHANGED <<global, checkInterval, calls, appVars, history>>

Watchdog ==
  \/ FetchNextTask
  \/ CheckAlive
  \/ ReportInDebug
  \/ HoldBack
  \/ Report
  \/ NotifyAppFault
  \/ ReInsertTaskIfNeed

-----------------------------------------------------------------------------
(* The application and the system around it. *)
SetForeground ==
  /\ isForeground' = ~isForeground
  /\ UNCHANGED <<global, taskVars, calls, isSixSecond, isAppDebug, stuck,
                 exited, history>>

SetAppDebug ==
  /\ isAppDebug' = ~isAppDebug
  /\ UNCHANGED <<global, taskVars, calls, isSixSecond, isForeground,
                 stuck, exited, history>>

BusinessThread ==
  /\ stuck' = ~stuck
  /\ UNCHANGED <<global, taskVars, calls, isSixSecond, isForeground,
                 isAppDebug, exited, history>>

(* The watchdog thread is no later than MaxLate, so the clock waits for it. *)
Tick ==
  /\ task = "none" \/ due > -MaxLate
  /\ due' = IF task = "none" THEN due ELSE due - 1
  /\ age' = IF age = Epoch THEN Epoch ELSE Saturated(age + 1, MaxAge)
  /\ gap' = Saturated(gap + 1, MaxAge)
  /\ sinceWarning' = IF sinceWarning = Never THEN Never
                     ELSE Saturated(sinceWarning + 1, MAX_TIMEOUT)
  /\ UNCHANGED <<g_stuckTimeout, g_backgroundReportCount, task, checkInterval,
                 calls, appVars, raced, refused, unheard, streak,
                 early, unwarned>>

-----------------------------------------------------------------------------
Init ==
  /\ g_stuckTimeout = 0
  /\ g_backgroundReportCount = 0
  /\ age = Epoch
  /\ task = "none"
  /\ checkInterval = 0
  /\ due = 0
  /\ calls = [c \in Callers |-> NoCall]
  /\ isSixSecond = FALSE
  /\ isForeground = FALSE
  /\ isAppDebug = FALSE
  /\ stuck = FALSE
  /\ exited = FALSE
  /\ raced = FALSE
  /\ refused = FALSE
  /\ unheard = FALSE
  /\ gap = MaxAge
  /\ streak = 0
  /\ sinceWarning = Never
  /\ early = FALSE
  /\ unwarned = FALSE

(* Nothing happens in an application that was ended. *)
Next ==
  \/ ~exited /\ \E c \in PlainCallers : OH_HiCollie_Init_StuckDetection(c)
  \/ ~exited /\ \E c \in TimeoutCallers, s \in Seconds :
                  OH_HiCollie_Init_StuckDetectionWithTimeout(c, s)
  \/ ~exited /\ \E c \in Callers : StopStuckDetection(c) \/ Caller(c)
  \/ ~exited /\ Watchdog
  \/ ~exited /\ SetForeground
  \/ ~exited /\ SetAppDebug
  \/ ~exited /\ BusinessThread
  \/ ~exited /\ Tick

Spec == Init /\ [][Next]_vars

(* Every calling thread finishes its call, the watchdog thread goes on, time
   passes. *)
FairSpec ==
  /\ Spec
  /\ \A c \in Callers : WF_vars(~exited /\ Caller(c))
  /\ WF_vars(~exited /\ Watchdog)
  /\ WF_vars(~exited /\ Tick)

-----------------------------------------------------------------------------

(* In the background no report goes out before the business thread was found
   stuck BACKGROUND_REPORT_COUNT_MAX times in close succession, whatever was
   reported in the foreground and however long ago. *)
BackgroundGrace == ~early

(* A 6S report, which ends the application, follows the 3S report of the same
   stall, a whole check interval later but for the thread's own lateness, or,
   if the detection was started anew in between, INI_TIMER_FIRST_SECOND after
   that. *)
SixAfterThree == ~unwarned

(* When no call is in progress the task runs every g_stuckTimeout, and there is
   one only if that is set: if the last call was by itself, and did not meet the
   task while it was running, where RemovePeriodicalTask does not find it and
   RunPeriodicalTask is refused.  A call by itself repairs what earlier ones
   spoiled; but a registration that is refused for want of room leaves the
   timeout set and no task. *)
Settled == ~raced /\ \A c \in Callers : calls[c] = NoCall

TaskMatchesTimeout ==
  Settled =>
    IF g_stuckTimeout = 0 \/ refused THEN task = "none"
    ELSE task # "none" /\ checkInterval = g_stuckTimeout

(* A business thread that stays stuck gets the application ended, in the
   foreground or in the background or going from one to the other, unless
   NotifyAppFault fails, or the task could not be registered, or calls that
   raced left it with another interval, at which the count may be forgotten
   each time. *)
StuckKills ==
  <>[](stuck /\ ~isAppDebug /\ g_stuckTimeout # 0 /\ ~refused /\ Settled)
    => <>(exited \/ unheard)

(* What hicollie.h says of OH_HiCollie_Init_StuckDetectionWithTimeout: less
   than 3 and more than 15 seconds are refused. *)
OutOfRangeRefused ==
  [][\A c \in TimeoutCallers, s \in Seconds :
       s * TIME_S_TO_MS \notin CHECK_INTERVAL_TIME .. MAX_TIMEOUT
         => ~OH_HiCollie_Init_StuckDetectionWithTimeout(c, s)]_vars

=============================================================================
