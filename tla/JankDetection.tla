--------------------------- MODULE JankDetection ---------------------------
(***************************************************************************)
(* Detection of slow events.  The main thread, or threads that registered  *)
(* for it, report the begin and the end of each event; an event longer     *)
(* than sample_interval starts a session, a periodic task that waits for   *)
(* another slow event and then samples the thread sample_count times.  The *)
(* parameters may be changed at any moment by a thread that holds no lock. *)
(*                                                                         *)
(* Time is relative: every clock is an age that stops at a bound beyond    *)
(* which the code makes no difference, and no time passes inside a call.   *)
(* Of the other samplers, which MainThreadSampling has, there is only that *)
(* the end of one lets a finished session run once more; the watchdog      *)
(* thread exists.                                                          *)
(***************************************************************************)
EXTENDS Integers, Sequences, FiniteSets

CONSTANTS
  SAMPLE_INTERVAL_MIN, SAMPLE_INTERVAL_MAX,
  SAMPLE_COUNT_MIN,
  SAMPLE_REPORT_TIMES_MIN, SAMPLE_REPORT_TIMES_MAX,
  IGNORE_STARTUP_TIME_MIN,
  SAMPLE_EXTRA_COUNT,
  MAX_SAMPLE_STACK_TIMES,
  SAMPLE_DEFAULT_INTERVAL, SAMPLE_DEFAULT_COUNT, SAMPLE_DEFAULT_REPORT_TIMES,
  DEFAULT_IGNORE_STARTUP_TIME,
  SAMPLE_STACK_MAP_SIZE,
  DETECT_STACK_COUNT,          \* quiet ticks after which a session gives up
  DUMPTRACE_TIME,              \* longer events are traced, not sampled
  AUTO_STOP_CHECKER_INTERVAL, ONE_HOUR_LIMIT, ONE_DAY_LIMIT, MINUTE,  \* periods
  Main,                        \* the main thread
  Setups,                      \* the kinds of process
  MaxConfigs,                  \* bound: configuration calls
  MaxAgain                     \* bound: extra reports between claims that
                               \* begin a new count

(* A setup: the threads that registered before and stay; those that come and
   go; the configuration calls that may be made; the entries of the bundle in
   the system parameter for report times; and whether the device is in developer
   mode, or the process is the window manager of a beta version; whether other
   samplers, or traces, are in use.  Its events are sampled: it is no system
   application but that one. *)
Keys == {"log_type", "sample_interval", "ignore_startup_time", "sample_count",
         "report_times_per_app", "auto_stop_sampling"}
Junk    == -1                  \* the value of a key is no number or too long
Empty   == -2                  \* it is the empty string
Missing == -1                  \* no default

LOGTYPE_NONE == 0
LOGTYPE_SAMPLE_STACK == 1
LOGTYPE_COLLECT_TRACE == 2

ASSUME JankAssumption ==
  /\ {SAMPLE_INTERVAL_MIN, SAMPLE_COUNT_MIN, DETECT_STACK_COUNT,
      SAMPLE_DEFAULT_INTERVAL, SAMPLE_DEFAULT_COUNT, MINUTE} \subseteq Nat \ {0}
  /\ {SAMPLE_INTERVAL_MAX, SAMPLE_REPORT_TIMES_MIN, SAMPLE_REPORT_TIMES_MAX,
      SAMPLE_DEFAULT_REPORT_TIMES, MAX_SAMPLE_STACK_TIMES, IGNORE_STARTUP_TIME_MIN,
      DEFAULT_IGNORE_STARTUP_TIME, DUMPTRACE_TIME, AUTO_STOP_CHECKER_INTERVAL,
      ONE_HOUR_LIMIT, ONE_DAY_LIMIT, SAMPLE_EXTRA_COUNT, MaxAgain} \subseteq Nat
  /\ ONE_HOUR_LIMIT <= ONE_DAY_LIMIT
  /\ SAMPLE_EXTRA_COUNT >= DETECT_STACK_COUNT
  /\ (SAMPLE_DEFAULT_COUNT + SAMPLE_EXTRA_COUNT) * SAMPLE_DEFAULT_INTERVAL
       <= MAX_SAMPLE_STACK_TIMES
  /\ \A s \in Setups : /\ \A c \in s.calls : /\ DOMAIN c.map \subseteq Keys
                                             /\ c.map \in [DOMAIN c.map -> Int]
                       /\ s.entries \in Seq(Nat \cup {Junk})
                       /\ {s.hourly, s.others} \subseteq BOOLEAN

VARIABLES
  setup,          \* the kind of this process, fixed
  params,         \* jankParamsMap
  update,         \* the UpdateJankParam in progress, or NoUpdate
  configs,        \* history: configuration calls so far
  mainWatched,    \* the main looper has its watcher
  registered,     \* buissnessThreadInfo_
  event,          \* per thread: the age of the event it executes, or NoEvent
  beginAge,       \* age of bussinessBeginTime_
  cur,            \* timeContent_
  call,           \* per thread: its DistributeEnd in progress, or Idle
  upTime,         \* now - watchdogStartTime_
  enabled,        \* stackContent_.isStartSampleEnabled
  reportTimes,    \* stackContent_.reportTimes
  sinceLast,      \* now - stackContent_.lastEndTime
  detectorCount, collectCount,      \* stackContent_
  session,        \* the STACK_CHECKER task, or NoSession
  finished,       \* isMainThreadStackEnabled_
  isDumpStack,    \* g_isDumpStack
  ticks,          \* history: runs of the session before it was finished
  overlap,        \* history: did two threads ever start a session at once?
  chain,          \* history: reports of sessions less than a period apart
  again,          \* history: those of them by a session that was finished
  leftover,       \* history: did a finished session ever go on to collect?
  worst,          \* history: the longest event that ended since the last claim
  cut             \* history: is cur the begin of an event whose end the
                  \* looper did not report, its watcher being gone?

paramVars   == <<params, update, configs>>
watchVars   == <<mainWatched, registered>>
eventVars   == <<event, beginAge, cur, worst, cut>>
sessionVars == <<detectorCount, collectCount, session, finished, isDumpStack,
                 ticks, leftover>>
budgetVars  == <<enabled, reportTimes, sinceLast, chain, again>>
vars == <<setup, paramVars, watchVars, eventVars, call, upTime, budgetVars,
          sessionVars, overlap>>

Threads   == {Main} \cup UNION {s.joined \cup s.business : s \in Setups}
NoEvent   == -1
Idle      == [pc |-> "idle"]
NoSession == [interval |-> 0, count |-> 0, whole |-> TRUE]
NoUpdate  == [left |-> <<>>]

(* Bounds of the clocks. *)
MaxAge    == IF SAMPLE_INTERVAL_MAX < DUMPTRACE_TIME THEN DUMPTRACE_TIME
             ELSE SAMPLE_INTERVAL_MAX + 1
MaxPeriod == IF ONE_DAY_LIMIT < AUTO_STOP_CHECKER_INTERVAL
             THEN AUTO_STOP_CHECKER_INTERVAL ELSE ONE_DAY_LIMIT
MaxChain  == params.report_times_per_app + MaxAgain + 2
MaxUpTime == IF DEFAULT_IGNORE_STARTUP_TIME < IGNORE_STARTUP_TIME_MIN
             THEN IGNORE_STARTUP_TIME_MIN ELSE DEFAULT_IGNORE_STARTUP_TIME
Older(age, bound) == IF age < bound THEN age + 1 ELSE age

-----------------------------------------------------------------------------
(* Configuration. *)

ConvertStrToNum(map, key, default) ==
  IF key \notin DOMAIN map THEN default
  ELSE IF map[key] = Empty THEN default
  ELSE map[key]

(* "true", "false", nothing, or something else, which is refused. *)
AutoStopValid(map) ==
  ConvertStrToNum(map, "auto_stop_sampling", 0) # Junk
GetAutoStopSampling(map) ==
  ConvertStrToNum(map, "auto_stop_sampling", 0) = 1

Default(keyNeedExist, value) == IF keyNeedExist THEN Missing ELSE value

SampleParams(map, need) ==
  [log_type |-> LOGTYPE_SAMPLE_STACK,
   sample_interval |-> ConvertStrToNum(map, "sample_interval",
                         Default(need, SAMPLE_DEFAULT_INTERVAL)),
   ignore_startup_time |-> ConvertStrToNum(map, "ignore_startup_time",
                             Default(need, DEFAULT_IGNORE_STARTUP_TIME)),
   sample_count |-> ConvertStrToNum(map, "sample_count",
                      Default(need, SAMPLE_DEFAULT_COUNT)),
   report_times_per_app |-> ConvertStrToNum(map, "report_times_per_app",
                              Default(need, SAMPLE_DEFAULT_REPORT_TIMES)),
   auto_stop_sampling |-> GetAutoStopSampling(map)]

(* SampleJankParams, where only log_type and perhaps auto_stop_sampling are
   given. *)
DefaultParams(type, stop) ==
  [log_type |-> type,
   sample_interval |-> SAMPLE_DEFAULT_INTERVAL,
   ignore_startup_time |-> DEFAULT_IGNORE_STARTUP_TIME,
   sample_count |-> SAMPLE_DEFAULT_COUNT,
   report_times_per_app |-> SAMPLE_DEFAULT_REPORT_TIMES,
   auto_stop_sampling |-> stop]

(* jankParamsMap before any call. *)
InitialParams ==
  [log_type |-> LOGTYPE_NONE,
   sample_interval |-> SAMPLE_DEFAULT_INTERVAL,
   ignore_startup_time |-> DEFAULT_IGNORE_STARTUP_TIME,
   sample_count |-> SAMPLE_DEFAULT_COUNT,
   report_times_per_app |-> SAMPLE_DEFAULT_REPORT_TIMES,
   auto_stop_sampling |-> FALSE,
   set_report_times_flag |-> TRUE,
   checker_interval |-> 0]

\* mutant of MaxSampleCount: no room for the ticks that take no sample
MaxSampleCountOnly(interval) == MAX_SAMPLE_STACK_TIMES \div interval

MaxSampleCount(interval) ==
  MAX_SAMPLE_STACK_TIMES \div interval - SAMPLE_EXTRA_COUNT

CheckSampleParam(map, need) ==
  LET p == SampleParams(map, need)
  IN /\ p.sample_interval \in SAMPLE_INTERVAL_MIN .. SAMPLE_INTERVAL_MAX
     /\ p.ignore_startup_time >= IGNORE_STARTUP_TIME_MIN
     /\ p.sample_count \in SAMPLE_COUNT_MIN .. MaxSampleCount(p.sample_interval)
     /\ p.report_times_per_app
          \in SAMPLE_REPORT_TIMES_MIN .. SAMPLE_REPORT_TIMES_MAX
     /\ AutoStopValid(map)

(* UpdateJankParam begins: the keys it will write, in its order; the last
   entry stands for the report times and what goes with them. *)
UpdateJankParam(p, autoStopEvent) ==
  update' = [to |-> p, autoStopEvent |-> autoStopEvent,
             left |-> IF p.log_type = LOGTYPE_COLLECT_TRACE THEN <<"log_type">>
                      ELSE <<"log_type", "sample_interval",
                             "ignore_startup_time", "sample_count",
                             "auto_stop_sampling", "report_times_per_app">>]

(* A call that returns -1 changes nothing. *)
SetEventConfig(map) ==
  LET type == ConvertStrToNum(map, "log_type", Missing)
  IN \/ /\ type \in {LOGTYPE_NONE, LOGTYPE_COLLECT_TRACE}
        /\ Cardinality(DOMAIN map) = 1
        /\ UpdateJankParam(DefaultParams(type, FALSE), FALSE)
     \/ /\ type = LOGTYPE_SAMPLE_STACK
        /\ Cardinality(DOMAIN map) = SAMPLE_STACK_MAP_SIZE
        /\ CheckSampleParam(map, TRUE)
        /\ UpdateJankParam(SampleParams(map, TRUE), FALSE)

ConfigEventPolicy(map) ==
  LET type == ConvertStrToNum(map, "log_type", LOGTYPE_NONE)
  IN \/ /\ type = LOGTYPE_NONE
        /\ AutoStopValid(map)
        /\ UpdateJankParam(DefaultParams(type, GetAutoStopSampling(map)), TRUE)
     \/ /\ type = LOGTYPE_COLLECT_TRACE
        /\ UpdateJankParam(DefaultParams(type, FALSE), TRUE)
     \/ /\ type = LOGTYPE_SAMPLE_STACK
        /\ CheckSampleParam(map, FALSE)
        /\ UpdateJankParam(SampleParams(map, FALSE), TRUE)

Configure ==
  /\ update = NoUpdate
  /\ configs < MaxConfigs
  /\ \E c \in setup.calls :
       \/ c.func = "SetEventConfig" /\ SetEventConfig(c.map)
       \/ c.func = "ConfigEventPolicy" /\ ConfigEventPolicy(c.map)
  /\ configs' = configs + 1
  /\ UNCHANGED <<setup, params, watchVars, eventVars, call, upTime, budgetVars,
                 sessionVars, overlap>>

(* What the map holds for the bundle, if anything: entries that are no number
   are skipped, and the last one stays. *)
GetReportTimesMap ==
  LET valid == {i \in DOMAIN setup.entries : setup.entries[i] # Junk}
  IN {setup.entries[i] : i \in {i \in valid : \A j \in valid : j <= i}}

(* The report times and the period; the system parameter overrides the caller. *)
UpdateReportTimes(times, checkInterval) ==
  IF GetReportTimesMap = {} THEN {[times |-> times, checker |-> checkInterval]}
  ELSE {[times |-> v \div MINUTE, checker |-> MINUTE] : v \in GetReportTimesMap}

ReportTimes ==
  IF update.autoStopEvent
  THEN {[times |-> update.to.report_times_per_app,
         checker |-> AUTO_STOP_CHECKER_INTERVAL]}
  ELSE UpdateReportTimes(update.to.report_times_per_app, params.checker_interval)

(* The last part of UpdateJankParam, which only the first call executes. *)
SetReportTimes ==
  \/ /\ params.set_report_times_flag
     /\ \E r \in ReportTimes :
          /\ params' = [params EXCEPT !.checker_interval = r.checker,
                                      !.report_times_per_app = r.times,
                                      !.set_report_times_flag = FALSE]
          /\ reportTimes' = r.times
     /\ chain' = 0
     /\ again' = 0
  \/ /\ ~params.set_report_times_flag
     /\ UNCHANGED <<params, reportTimes, chain, again>>

(* UpdateJankParam writes one key; a call that has read the interval but not
   yet the count no longer sees one configuration. *)
WriteParam ==
  /\ update # NoUpdate
  /\ LET key == Head(update.left)
     IN \/ key = "report_times_per_app" /\ SetReportTimes
        \/ /\ key # "report_times_per_app"
           /\ params' = [params EXCEPT ![key] = update.to[key]]
           /\ UNCHANGED <<reportTimes, chain, again>>
  /\ update' = IF Len(update.left) = 1 THEN NoUpdate
               ELSE [update EXCEPT !.left = Tail(@)]
  /\ call' = [t \in Threads |-> IF call[t] = Idle THEN Idle
                                ELSE [call[t] EXCEPT !.whole = FALSE]]
  /\ UNCHANGED <<setup, configs, watchVars, eventVars, upTime, enabled,
                 sinceLast, sessionVars, overlap>>

-----------------------------------------------------------------------------
(* Registration, on the thread t; it first finds itself outside events. *)
InitMainLooperWatcher(t) ==
  /\ event[t] = NoEvent
  /\ call[t] = Idle
  /\ mainWatched' = (t \in registered)
  /\ registered' = IF t \in registered THEN registered \ {t}
                   ELSE registered \cup {t}
  /\ UNCHANGED <<setup, paramVars, eventVars, call, upTime, budgetVars,
                 sessionVars, overlap>>

(* Not from the main thread; half a pair of functions is refused. *)
OH_HiCollie_Init_JankDetection(t) == t # Main /\ InitMainLooperWatcher(t)

Watched(t) == IF t = Main THEN mainWatched ELSE t \in registered

(* bussinessBeginTime_, one for all registered threads. *)
BeginTime(t) == IF t = Main THEN beginAge ELSE 0

(* DistributeStart, and InitBeginFunc around it. *)
DistributeStart(t) ==
  /\ Watched(t)
  /\ event[t] = NoEvent
  /\ call[t] = Idle
  /\ event' = [event EXCEPT ![t] = 0]
  /\ beginAge' = BeginTime(t)
  /\ cur' = [cur EXCEPT !.age = 0, !.running = TRUE, !.changed = TRUE]
  /\ cut' = FALSE
  /\ UNCHANGED <<setup, paramVars, watchVars, worst, call, upTime, budgetVars,
                 sessionVars, overlap>>

(* What DistributeEnd takes for the length of the event: the main looper
   keeps the begin, the registered threads share bussinessBeginTime_. *)
Duration(t) == IF t = Main THEN event[t] ELSE beginAge

(* DistributeEnd and InitEndFunc, up to the comparison with the interval;
   nothing is called when the watcher was taken away. *)
DistributeEnd(t) ==
  /\ event[t] # NoEvent
  /\ event' = [event EXCEPT ![t] = NoEvent]
  /\ \/ /\ Watched(t)
        /\ cur' = [cur EXCEPT !.len = cur.age, !.running = FALSE,
                              !.changed = TRUE]
        /\ worst' = IF event[t] > worst THEN event[t] ELSE worst
        /\ cut' = FALSE
        /\ IF Duration(t) > params.sample_interval
           THEN call' = [call EXCEPT ![t] =
                  [pc |-> "detect", interval |-> params.sample_interval,
                   duration |-> Duration(t), spent |-> event[t],
                   whole |-> update = NoUpdate]]
           ELSE UNCHANGED call
     \/ ~Watched(t) /\ cut' = TRUE /\ UNCHANGED <<cur, worst, call>>
  /\ UNCHANGED <<setup, paramVars, watchVars, beginAge, upTime, budgetVars,
                 sessionVars, overlap>>

-----------------------------------------------------------------------------
(* StartProfileMainThread. *)

At(t, pc) == call[t].pc = pc

(* The switch over log_type; a long event is left to TraceProfile. *)
Sampled(t) ==
  \/ params.log_type = LOGTYPE_SAMPLE_STACK
  \/ params.log_type = LOGTYPE_NONE /\ call[t].duration < DUMPTRACE_TIME

GetMainThreadCheckTimer ==
  IF params.checker_interval > 0 THEN params.checker_interval
  ELSE IF setup.hourly THEN ONE_HOUR_LIMIT
  ELSE ONE_DAY_LIMIT

\* mutant of PeriodOver: a used-up budget is renewed at once
PeriodOverAlways == TRUE

PeriodOver == sinceLast >= GetMainThreadCheckTimer

(* The early returns of SampleStackDetect, and the budget it renews. *)
SampleStackDetect(t) ==
  /\ At(t, "detect")
  /\ \/ /\ Sampled(t)
        /\ upTime >= params.ignore_startup_time
        /\ enabled
        /\ \/ reportTimes > 0 /\ UNCHANGED reportTimes
           \/ /\ reportTimes <= 0 /\ PeriodOver
              /\ reportTimes' = params.report_times_per_app
        /\ call' = [call EXCEPT ![t].pc = "claim"]
        /\ overlap' = (overlap \/ \E u \in Threads \ {t} :
                                  At(u, "claim") \/ At(u, "insert"))
     \/ /\ \/ ~Sampled(t)
           \/ upTime < params.ignore_startup_time
           \/ ~enabled
           \/ reportTimes <= 0 /\ ~PeriodOver
        /\ call' = [call EXCEPT ![t] = Idle]
        /\ UNCHANGED <<reportTimes, overlap>>
  /\ UNCHANGED <<setup, paramVars, watchVars, eventVars, upTime, enabled,
                 sinceLast, chain, again, sessionVars>>

(* The end of SampleStackDetect, UpdateTime, and the counters. *)
Claim(t) ==
  /\ At(t, "claim")
  /\ enabled' = FALSE
  /\ cur' = [cur EXCEPT !.changed = FALSE]
  /\ worst' = 0
  /\ LET over == sinceLast >= GetMainThreadCheckTimer
     IN /\ chain' = IF over THEN 0 ELSE chain
        /\ again' = IF over THEN 0 ELSE again
  /\ sinceLast' = 0
  /\ detectorCount' = 0
  /\ collectCount' = 0
  /\ call' = [call EXCEPT ![t].pc = "insert"]
  /\ UNCHANGED <<setup, paramVars, watchVars, event, beginAge, cut,
                 upTime, reportTimes, session, finished, isDumpStack, ticks,
                 leftover, overlap>>

(* sample_count is read and the task inserted; the name may be taken. *)
InsertSession(t) ==
  /\ At(t, "insert")
  /\ \/ /\ session = NoSession
        /\ session' = [interval |-> call[t].interval,
                       count |-> params.sample_count, whole |-> call[t].whole]
        /\ ticks' = 0
     \/ session # NoSession /\ UNCHANGED <<session, ticks>>
  /\ call' = [call EXCEPT ![t] = Idle]
  /\ UNCHANGED <<setup, paramVars, watchVars, eventVars, upTime, budgetVars,
                 detectorCount, collectCount, finished, isDumpStack, leftover,
                 overlap>>

-----------------------------------------------------------------------------
(* The session, on the watchdog thread. *)

\* mutant of CheckEventTimer: the event that started the session counts
CheckEventTimerAny ==
  \/ cur.running /\ cur.age >= session.interval
  \/ ~cur.running /\ cur.len > session.interval

CheckEventTimer ==
  /\ cur.changed
  /\ \/ cur.running /\ cur.age >= session.interval
     \/ ~cur.running /\ cur.len > session.interval

(* CheckThreadSampler may fail at the first tick. *)
GiveUp ==
  /\ detectorCount = 0 /\ collectCount = 0
  /\ finished' = TRUE
  /\ UNCHANGED <<detectorCount, collectCount, isDumpStack, reportTimes, chain>>

Detect ==
  /\ collectCount = 0
  /\ ~(detectorCount = 0 /\ isDumpStack)
  /\ \/ CheckEventTimer /\ collectCount' = 1 /\ UNCHANGED detectorCount
     \/ /\ ~CheckEventTimer
        /\ detectorCount' = Older(detectorCount, DETECT_STACK_COUNT + 1)
        /\ UNCHANGED collectCount
  /\ finished' = (finished \/ detectorCount' = DETECT_STACK_COUNT)
  /\ UNCHANGED <<isDumpStack, reportTimes, chain>>

Collect ==
  /\ collectCount \in 1 .. session.count - 1
  /\ \/ /\ params.auto_stop_sampling /\ ~CheckEventTimer
        /\ collectCount' = session.count
        /\ UNCHANGED <<isDumpStack, finished>>
     \/ /\ ~params.auto_stop_sampling \/ CheckEventTimer
        /\ collectCount' = collectCount + 1
        /\ isDumpStack' = TRUE
        /\ finished' = (finished \/ detectorCount = DETECT_STACK_COUNT)
  /\ UNCHANGED <<detectorCount, reportTimes, chain>>

Report ==
  /\ collectCount = session.count
  /\ isDumpStack' = FALSE
  /\ reportTimes' = IF reportTimes >= 0 THEN reportTimes - 1 ELSE reportTimes
  /\ chain' = Older(chain, MaxChain)
  /\ finished' = TRUE
  /\ UNCHANGED <<detectorCount, collectCount>>

RunSession ==
  /\ session # NoSession
  /\ ~finished
  /\ GiveUp \/ Detect \/ Collect \/ Report
  /\ ticks' = Older(ticks, MAX_SAMPLE_STACK_TIMES + 1)
  /\ UNCHANGED <<setup, paramVars, watchVars, eventVars, call, upTime, enabled,
                 sinceLast, again, session, leftover, overlap>>

(* FetchNextTask drops the finished task of another sampler or of a trace and
   runs the next one without looking at its flag.  (If the library was unloaded
   with the other, the task only returns.) *)
RunFinishedSession ==
  /\ setup.others
  /\ session # NoSession
  /\ finished
  /\ \/ Detect /\ UNCHANGED <<again, leftover>>
     \/ Collect /\ leftover' = (leftover \/ isDumpStack') /\ UNCHANGED again
     \/ Report /\ again < MaxAgain /\ again' = again + 1 /\ UNCHANGED leftover
  /\ UNCHANGED <<setup, paramVars, watchVars, eventVars, call, upTime, enabled,
                 sinceLast, session, ticks, overlap>>

CheckCurrentTaskLocked ==
  /\ session # NoSession
  /\ finished
  /\ finished' = FALSE
  /\ session' = NoSession
  /\ ticks' = 0
  /\ enabled' = TRUE
  /\ UNCHANGED <<setup, paramVars, watchVars, eventVars, call, upTime,
                 reportTimes, sinceLast, chain, again, detectorCount, collectCount,
                 isDumpStack, leftover, overlap>>

-----------------------------------------------------------------------------
Elapse ==
  /\ \A t \in Threads : call[t] = Idle
  /\ event' = [t \in Threads |-> IF event[t] = NoEvent THEN event[t]
                                 ELSE Older(event[t], MaxAge)]
  /\ beginAge' = Older(beginAge, MaxAge)
  /\ cur' = [cur EXCEPT !.age = Older(@, MaxAge)]
  /\ upTime' = Older(upTime, MaxUpTime)
  /\ sinceLast' = Older(sinceLast, MaxPeriod)
  /\ UNCHANGED <<setup, paramVars, watchVars, worst, cut, call, enabled,
                 reportTimes, chain, again, sessionVars, overlap>>

Init ==
  /\ setup \in Setups
  /\ params = InitialParams
  /\ update = NoUpdate
  /\ configs = 0
  /\ mainWatched = (setup.joined = {})
  /\ registered = setup.joined
  /\ event = [t \in Threads |-> NoEvent]
  /\ beginAge = MaxAge
  /\ cur = [age |-> MaxAge, len |-> 0, running |-> TRUE, changed |-> TRUE]
  /\ worst = 0
  /\ cut = FALSE
  /\ call = [t \in Threads |-> Idle]
  /\ upTime = 0
  /\ enabled = TRUE
  /\ reportTimes = SAMPLE_DEFAULT_REPORT_TIMES
  /\ sinceLast = MaxPeriod
  /\ chain = 0
  /\ again = 0
  /\ leftover = FALSE
  /\ detectorCount = 0
  /\ collectCount = 0
  /\ session = NoSession
  /\ finished = FALSE
  /\ isDumpStack = FALSE
  /\ ticks = 0
  /\ overlap = FALSE

Next ==
  \/ Configure
  \/ WriteParam
  \/ \E t \in setup.business : OH_HiCollie_Init_JankDetection(t)
  \/ \E t \in Threads : \/ DistributeStart(t)
                        \/ DistributeEnd(t)
                        \/ SampleStackDetect(t)
                        \/ Claim(t)
                        \/ InsertSession(t)
  \/ RunSession
  \/ RunFinishedSession
  \/ CheckCurrentTaskLocked
  \/ Elapse

Spec == Init /\ [][Next]_vars

-----------------------------------------------------------------------------

(* A session is over after MAX_SAMPLE_STACK_TIMES, whatever was configured, and
   leaves nobody marked as collecting: if interval and count were read from one
   configuration, and no two threads passed the test of isStartSampleEnabled
   together, which resets the counters of a session that is running.  (Runs of a
   session that is finished, behind the dropped task of another sampler, come on
   top of that.  A session that had given up may then find a slow event and
   collect: dropped before its report, it leaves g_isDumpStack set, and no jank
   is sampled any more.) *)
SessionFits ==
  ~overlap =>
    /\ session.whole => ticks * session.interval <= MAX_SAMPLE_STACK_TIMES
    /\ session = NoSession /\ ~leftover => ~isDumpStack

(* A session is started only for an event that really lasted longer than the
   interval, and goes on to sample only after another such event, or during
   one, though the threads share one begin time and one pair of stamps.  (An
   event of the main thread that loses its watcher in its middle never ends
   for the code, until the next event begins.) *)
JankHasCause ==
  [][/\ \A t \in Threads :
          At(t, "claim") /\ call'[t] # call[t] => call[t].spent > call[t].interval
     /\ collectCount = 0 /\ collectCount' = 1 =>
          \/ \E t \in Threads : event[t] >= session.interval
          \/ worst > session.interval
          \/ cut]_vars

(* Sessions that follow each other within a period bring no more reports than
   the budget that was set, and one if it was set to none; and one more for each
   time a finished session was run again, with its stacks collected, behind the
   dropped task of another sampler. *)
BudgetPerPeriod ==
  ~overlap => chain <= again + IF params.report_times_per_app = 0 THEN 1
                               ELSE params.report_times_per_app

=============================================================================
