------------------------- MODULE MainThreadSampling -------------------------
(***************************************************************************)
(* The stack samplers of WatchdogInner: the jank samplers (STACK_CHECKER,  *)
(* for a slow event or a slow scroll), the slow-start sampler              *)
(* (APP_START_SAMPLE) and the freeze sampler (FREEZE_SAMPLE).  Each is a   *)
(* periodic task that runs on the watchdog thread until it raises a flag,  *)
(* and they share one sampler library: g_isDumpStack says that one of them *)
(* is collecting, g_isReuseStack that the freeze sampler waits to reuse    *)
(* what another one collects.                                              *)
(*                                                                         *)
(* Of the scheduler there is what matters here: FetchNextTask drops its    *)
(* top when the top's flag is raised, and then runs the next top without   *)
(* looking at that one's flag.  The dropped top may be the task of a trace *)
(* (TRACE_CHECKER), which uses no sampler library; TraceProfile has the    *)
(* rest of it.  What depends on the length of events, on elapsed periods   *)
(* and on files is chosen freely.                                          *)
(***************************************************************************)
EXTENDS Integers

CONSTANTS
  SAMPLE_COUNT,       \* jankParamsMap[KEY_SAMPLE_COUNT]
  DETECT_STACK_COUNT, \* quiet ticks after which the jank sampler gives up
  TARGET_COUNT,       \* samples of a slow-start or freeze session
  REPORT_TIMES,       \* reports per period
  Families,           \* the kinds of process: what is in use together
  LibraryMayFail      \* may dlopen, dlsym, sigaction or Init fail?

Stack  == "STACK_CHECKER"
App    == "APP_START_SAMPLE"
Freeze == "FREEZE_SAMPLE"
Trace  == "TRACE_CHECKER"
Names  == {Stack, App, Freeze, Trace}

(* startSlowContent_ and scrollSlowContent_. *)
Contents == {"start", "scroll"}

Samplers == {Stack, Freeze} \cup Contents

(* A process may also end freeze sessions itself, start them from two threads,
   record traces of its long events (LOGTYPE_COLLECT_TRACE, or beside the jank
   samplers LOGTYPE_NONE), or have so many tasks that InsertWatchdogTaskLocked
   refuses one for want of room. *)
Stopping == "StopSample"
Twofold  == "two threads"
Tracing  == "TraceCollector"
Crowded  == "MAX_WATCH_NUM"

ASSUME CountsAssumption ==
  /\ {SAMPLE_COUNT, DETECT_STACK_COUNT, TARGET_COUNT, REPORT_TIMES}
       \subseteq Nat \ {0}
  /\ Families \subseteq SUBSET (Samplers \cup {Stopping, Twofold, Tracing, Crowded})
  /\ LibraryMayFail \in BOOLEAN

VARIABLES
  active,             \* the kind of this process, fixed
  taskNameSet,        \* the samplers that are registered
  job,                \* what STACK_CHECKER and APP_START_SAMPLE sample
  finished,           \* isMainThreadStackEnabled_, isFinishStartSample,
                      \* g_freezeTaskFinished, isMainThreadTraceEnabled_
  pc,                 \* the watchdog thread
  cur,                \* the sampler it runs
  stackEnabled,       \* stackContent_.isStartSampleEnabled
  detectorCount, collectCount,     \* stackContent_
  scrollCount,        \* g_scrollSampleCount
  reportTimes, scrollTimes,        \* stackContent_
  enableStartSample, appEnabled, appCount, appTimes,   \* AppStartContent
  freezeCount,        \* g_freezeSampleCount
  isDumpStack,        \* g_isDumpStack
  isReuseStack,       \* g_isReuseStack
  loaded,             \* the functions of the sampler library are bound
  dispatch,           \* the thread whose events are watched, in DistributeEnd
  request,            \* the threads that call StartSample and StopSample
  resets,             \* history: was g_freezeSampleCount stored under a
                      \* session that another thread had started?
  behindTrace         \* history: was a finished sampler run once more, as the
                      \* second top behind a dropped TRACE_CHECKER?

jankVars   == <<stackEnabled, detectorCount, collectCount, scrollCount,
                reportTimes, scrollTimes>>
appVars    == <<enableStartSample, appEnabled, appCount, appTimes>>
flagVars   == <<isDumpStack, isReuseStack, loaded>>
historyVars == <<resets, behindTrace>>
callerVars == <<dispatch, request, historyVars>>
vars == <<active, taskNameSet, job, finished, pc, cur, jankVars, appVars,
          freezeCount, flagVars, callerVars>>

(* The code only asks whether a budget is used up: it stops at -1. *)
Spend(x) == IF x >= 0 THEN x - 1 ELSE x

(* Bounds: beyond them the counters make no difference. *)
MaxFreezeCount   == TARGET_COUNT + 2
MaxDetectorCount == DETECT_STACK_COUNT + 1
Advance(x, by, bound) == IF x + by <= bound THEN x + by ELSE bound

-----------------------------------------------------------------------------
(* InsertWatchdogTaskLocked, for the name n. *)
MayAccept(n) == n \notin taskNameSet
MayRefuse(n) == n \in taskNameSet \/ Crowded \in active

(* Mutant of Refreshed: off by one. *)
RefreshedTooLate(times, update) == IF times < 0 THEN update ELSE times

(* SampleStackDetect succeeds: a used-up budget is refreshed when its period
   has passed. *)
Refreshed(times, update) == IF times <= 0 THEN update ELSE times

StartScrollProfile ==
  /\ stackEnabled
  /\ stackEnabled' = FALSE
  /\ scrollTimes' = Refreshed(scrollTimes, 1)
  /\ scrollCount' = 0
  /\ dispatch' = "insertScroll"
  /\ UNCHANGED <<detectorCount, collectCount, reportTimes>>

(* EnableAppStartSample returns false: not enabled, no longer enabled, or the
   event was short.  enabled is what enableStartSample is afterwards. *)
AppStartDeclines(c, enabled) ==
  \/ ~enableStartSample[c] /\ ~enabled
  \/ enableStartSample[c] /\ ~enabled
  \/ enableStartSample[c] /\ enabled /\ appTimes[c] > 0 /\ appEnabled[c]

(* It returns true without starting anything. *)
AppStartBusy(c) ==
  /\ enableStartSample[c]
  /\ \/ appTimes[c] <= 0 /\ c = "scroll"
     \/ appTimes[c] > 0 /\ ~appEnabled[c]

(* It goes into AppStartSample. *)
AppStartSample(c) ==
  /\ enableStartSample[c]
  /\ appTimes[c] > 0
  /\ appEnabled[c]
  /\ appCount' = [appCount EXCEPT ![c] = 0]
  /\ appEnabled' = [appEnabled EXCEPT ![c] = FALSE]
  /\ dispatch' = IF c = "start" THEN "insertStart" ELSE "insertStartScroll"
  /\ UNCHANGED <<enableStartSample, appTimes, jankVars>>

(* DistributeEnd up to the end of CheckSample; c says whether the user
   scrolls. *)
CheckSample(c) ==
  /\ dispatch = "idle"
  /\ \/ AppStartSample(c)
     \/ /\ AppStartBusy(c)
        /\ dispatch' = IF c = "start" THEN "idle" ELSE "profile"
        /\ UNCHANGED <<appVars, jankVars>>
     \/ \E enabled \in BOOLEAN :
          /\ AppStartDeclines(c, enabled)
          /\ enableStartSample' = [enableStartSample EXCEPT ![c] = enabled]
          /\ UNCHANGED <<appEnabled, appCount, appTimes>>
          /\ \/ Stack \in active /\ c = "scroll" /\ ~enabled /\ StartScrollProfile
             \/ dispatch' = "profile" /\ UNCHANGED jankVars
  /\ UNCHANGED <<active, taskNameSet, job, finished, pc, cur, freezeCount,
                 flagVars, request, historyVars>>

(* The rest of DistributeEnd: the event was short, or it is sampled. *)
StartProfileMainThread ==
  /\ dispatch = "profile"
  /\ \/ dispatch' = "idle" /\ UNCHANGED jankVars
     \/ /\ Stack \in active
        /\ stackEnabled
        /\ stackEnabled' = FALSE
        /\ reportTimes' = Refreshed(reportTimes, REPORT_TIMES)
        /\ detectorCount' = 0
        /\ collectCount' = 0
        /\ dispatch' = "insertMain"
        /\ UNCHANGED <<scrollCount, scrollTimes>>
  /\ UNCHANGED <<active, taskNameSet, job, finished, pc, cur, appVars,
                 freezeCount, flagVars, request, historyVars>>

(* Or the event was long, and the last trace is a day ago or failed. *)
CollectTraceDetect ==
  /\ dispatch = "profile"
  /\ Tracing \in active
  /\ dispatch' = "insertTrace"
  /\ UNCHANGED <<active, taskNameSet, job, finished, pc, cur, jankVars, appVars,
                 freezeCount, flagVars, request, historyVars>>

(* The insertion that ends them; the jank samplers do not look at its
   result, and a refused slow-start sampler goes on with the jank sampler. *)
Insert(state, n, what, ok, refused) ==
  /\ dispatch = state
  /\ \/ /\ MayAccept(n)
        /\ taskNameSet' = taskNameSet \cup {n}
        /\ job' = [job EXCEPT ![n] = what]
        /\ dispatch' = ok
     \/ /\ MayRefuse(n)
        /\ dispatch' = refused
        /\ UNCHANGED <<taskNameSet, job>>
  /\ UNCHANGED <<active, finished, pc, cur, jankVars, appVars, freezeCount,
                 flagVars, request, historyVars>>

(* StartTraceProfile. *)
InsertTrace ==
  /\ dispatch = "insertTrace"
  /\ dispatch' = "idle"
  /\ \/ MayAccept(Trace) /\ taskNameSet' = taskNameSet \cup {Trace}
     \/ MayRefuse(Trace) /\ UNCHANGED taskNameSet
  /\ UNCHANGED <<active, job, finished, pc, cur, jankVars, appVars, freezeCount,
                 flagVars, request, historyVars>>

InsertSampleTask ==
  \/ Insert("insertScroll", Stack, "scroll", "idle", "idle")
  \/ Insert("insertMain", Stack, "main", "idle", "idle")
  \/ Insert("insertStart", App, "start", "idle", "profile")
  \/ Insert("insertStartScroll", App, "scroll", "profile", "profile")
  \/ InsertTrace

-----------------------------------------------------------------------------
Requesters == IF Twofold \in active THEN {1, 2} ELSE {1}

Goes(r, from, to) == request[r] = from /\ request' = [request EXCEPT ![r] = to]

(* CheckTaskValid of StartSample. *)
CheckTaskValid(r) ==
  /\ Freeze \in active
  /\ Goes(r, "idle", "checked")
  /\ Freeze \notin taskNameSet
  /\ UNCHANGED <<active, taskNameSet, job, finished, pc, cur, jankVars,
                 appVars, freezeCount, flagVars, dispatch, historyVars>>

(* StartSample stores the count before it takes lock_ again. *)
ResetCount(r) ==
  /\ Goes(r, "checked", "reset")
  /\ freezeCount' = 0
  /\ resets' = (resets \/ Freeze \in taskNameSet)
  /\ UNCHANGED <<active, taskNameSet, job, finished, pc, cur, jankVars, appVars,
                 flagVars, dispatch, behindTrace>>

StartSample(r) ==
  /\ Goes(r, "reset", "idle")
  /\ \/ MayAccept(Freeze) /\ taskNameSet' = taskNameSet \cup {Freeze}
     \/ MayRefuse(Freeze) /\ UNCHANGED taskNameSet
  /\ UNCHANGED <<active, job, finished, pc, cur, jankVars, appVars, freezeCount,
                 flagVars, dispatch, historyVars>>

(* Mutant of ResetFreezeSampleFlags: g_isDumpStack stays. *)
ResetKeepsDump ==
  /\ isReuseStack' = FALSE
  /\ finished' = finished \cup {Freeze}
  /\ UNCHANGED isDumpStack

(* SaveFreezeStackToFile begins with ResetFreezeSampleFlags. *)
ResetFreezeSampleFlags ==
  /\ isDumpStack' = FALSE
  /\ isReuseStack' = FALSE
  /\ finished' = finished \cup {Freeze}

(* StopSample of a session that has taken samples; the other calls return a
   name and change nothing. *)
StopSample(r) ==
  /\ Stopping \in active
  /\ Goes(r, "idle", "collecting")
  /\ freezeCount > 0
  /\ ResetFreezeSampleFlags
  /\ UNCHANGED <<active, taskNameSet, job, pc, cur, jankVars, appVars,
                 freezeCount, loaded, dispatch, historyVars>>

(* CollectStack and the rest of SaveFreezeStackToFile, on the same thread. *)
StopCollect(r) ==
  /\ Goes(r, "collecting", "idle")
  /\ UNCHANGED <<active, taskNameSet, job, finished, pc, cur, jankVars,
                 appVars, freezeCount, flagVars, dispatch, historyVars>>

-----------------------------------------------------------------------------
(* Mutant of CheckCurrentTaskLocked: isStartSampleEnabled is not set again. *)
DropKeepsGate(n) ==
  /\ taskNameSet' = taskNameSet \ {n}
  /\ finished' = finished \ {n}
  /\ loaded' = (loaded /\ (isDumpStack \/ (n # Freeze /\ isReuseStack) \/ n = Trace))
  /\ isReuseStack' = (isReuseStack /\ n # Freeze)
  /\ appEnabled' = [c \in Contents |-> appEnabled[c] \/ n = App]
  /\ UNCHANGED <<active, job, jankVars, enableStartSample, appCount,
                 appTimes, freezeCount, isDumpStack, dispatch, request, resets>>

(* CheckCurrentTaskLocked: a top whose flag is raised is dropped; a sampler
   unloads the library unless someone still needs it. *)
CheckCurrentTaskLocked(n) ==
  /\ taskNameSet' = taskNameSet \ {n}
  /\ finished' = finished \ {n}
  /\ loaded' = (loaded /\ (isDumpStack \/ (n # Freeze /\ isReuseStack) \/ n = Trace))
  /\ isReuseStack' = (isReuseStack /\ n # Freeze)
  /\ stackEnabled' = (stackEnabled \/ n = Stack)
  /\ appEnabled' = [c \in Contents |-> appEnabled[c] \/ n = App]
  /\ UNCHANGED <<active, job, detectorCount, collectCount, scrollCount,
                 reportTimes, scrollTimes, enableStartSample, appCount,
                 appTimes, freezeCount, isDumpStack, dispatch, request, resets>>

Take(n) == cur' = n /\ pc' = "run"

(* FetchNextTask, under lock_: n is the top of the queue.  It is run, or
   dropped; then the next top is run whatever its flag, or nothing is due. *)
FetchNextTask(n) ==
  /\ pc = "fetch"
  /\ n \in taskNameSet
  /\ \/ /\ n \in finished
        /\ CheckCurrentTaskLocked(n)
        /\ \/ \E second \in taskNameSet' :
                /\ Take(second)
                /\ behindTrace' =
                     (behindTrace \/ (n = Trace /\ second \in finished))
           \/ UNCHANGED <<cur, pc, behindTrace>>
     \/ /\ n \notin finished
        /\ Take(n)
        /\ UNCHANGED <<active, taskNameSet, job, finished, jankVars, appVars,
                       freezeCount, flagVars, callerVars>>

-----------------------------------------------------------------------------
(* The first tick of a sampler goes on if no other collects and
   CheckThreadSampler loads and initializes the library; the later ticks if
   the library is still there. *)
CanSample(first) ==
  \/ first /\ ~isDumpStack /\ loaded' = TRUE
  \/ ~first /\ loaded /\ UNCHANGED loaded

(* Otherwise: another one collects; dlopen, dlsym, sigaction or Init failed;
   or the library was unloaded meanwhile. *)
CannotSample(first) ==
  \/ first /\ isDumpStack /\ UNCHANGED loaded
  \/ first /\ ~isDumpStack /\ LibraryMayFail /\ loaded' \in BOOLEAN
  \/ ~first /\ ~loaded /\ UNCHANGED loaded

Finish(n) == finished' = finished \cup {n}

(* Run() ends with ReInsertTaskIfNeed: the name is still registered. *)
Running(n, what) == pc = "run" /\ cur = n /\ job[n] = what

(* The lambda of StartScrollProfile. *)
RunScroll ==
  /\ Running(Stack, "scroll")
  /\ pc' = "fetch"
  /\ \/ /\ CannotSample(scrollCount = 0)
        /\ Finish(Stack)
        /\ UNCHANGED <<isDumpStack, scrollCount, scrollTimes>>
     \/ /\ CanSample(scrollCount = 0)
        /\ scrollCount = 0
        /\ isDumpStack' = TRUE
        /\ scrollCount' = 1
        /\ UNCHANGED <<finished, scrollTimes>>
     \/ /\ CanSample(scrollCount = 0)
        /\ scrollCount > 0
        /\ scrollTimes' = Spend(scrollTimes)
        /\ isDumpStack' = FALSE
        /\ Finish(Stack)
        /\ UNCHANGED scrollCount
  /\ UNCHANGED <<active, taskNameSet, job, cur, stackEnabled, detectorCount,
                 collectCount, reportTimes, appVars, freezeCount,
                 isReuseStack, callerVars>>

FirstDetection == detectorCount = 0 /\ collectCount = 0

(* The lambda of StartProfileMainThread: it waits for the event to be slow
   again, then samples, then reports. *)
ProfileDetect ==
  /\ collectCount = 0
  /\ \/ collectCount' = 1 /\ UNCHANGED detectorCount
     \/ /\ detectorCount' = Advance(detectorCount, 1, MaxDetectorCount)
        /\ UNCHANGED collectCount
  /\ IF detectorCount' = DETECT_STACK_COUNT THEN Finish(Stack)
     ELSE UNCHANGED finished
  /\ UNCHANGED <<isDumpStack, reportTimes>>

ProfileCollect ==
  /\ collectCount \in 1 .. SAMPLE_COUNT - 1
  /\ \/ collectCount' = SAMPLE_COUNT /\ UNCHANGED <<isDumpStack, finished>>
     \/ /\ isDumpStack' = TRUE
        /\ collectCount' = collectCount + 1
        /\ IF detectorCount = DETECT_STACK_COUNT THEN Finish(Stack)
           ELSE UNCHANGED finished
  /\ UNCHANGED <<detectorCount, reportTimes>>

(* Mutant of ProfileReport: the flag is not raised. *)
ReportWithoutFinish ==
  /\ collectCount = SAMPLE_COUNT
  /\ isDumpStack' = FALSE
  /\ reportTimes' = Spend(reportTimes)
  /\ UNCHANGED <<detectorCount, collectCount, finished>>

ProfileReport ==
  /\ collectCount = SAMPLE_COUNT
  /\ isDumpStack' = FALSE
  /\ reportTimes' = Spend(reportTimes)
  /\ Finish(Stack)
  /\ UNCHANGED <<detectorCount, collectCount>>

RunProfile ==
  /\ Running(Stack, "main")
  /\ pc' = "fetch"
  /\ \/ /\ CannotSample(FirstDetection)
        /\ Finish(Stack)
        /\ UNCHANGED <<isDumpStack, detectorCount, collectCount, reportTimes>>
     \/ /\ CanSample(FirstDetection)
        /\ ProfileDetect \/ ProfileCollect \/ ProfileReport
  /\ UNCHANGED <<active, taskNameSet, job, cur, stackEnabled, scrollCount,
                 scrollTimes, appVars, freezeCount, isReuseStack, callerVars>>

(* The lambda of AppStartSample; the budget is spent if the stack could be
   written. *)
RunAppStart(c) ==
  /\ Running(App, c)
  /\ pc' = "fetch"
  /\ \/ /\ CannotSample(appCount[c] = 0)
        /\ isDumpStack' = (isDumpStack /\ appCount[c] = 0)
        /\ Finish(App)
        /\ UNCHANGED <<appCount, appTimes>>
     \/ /\ CanSample(appCount[c] = 0)
        /\ appCount[c] < TARGET_COUNT
        /\ isDumpStack' = TRUE
        /\ appCount' = [appCount EXCEPT ![c] = @ + 1]
        /\ UNCHANGED <<finished, appTimes>>
     \/ /\ CanSample(appCount[c] = 0)
        /\ appCount[c] >= TARGET_COUNT
        /\ \E times \in {appTimes[c], Spend(appTimes[c])} :
             appTimes' = [appTimes EXCEPT ![c] = times]
        /\ isDumpStack' = FALSE
        /\ Finish(App)
        /\ UNCHANGED appCount
  /\ UNCHANGED <<active, taskNameSet, job, cur, jankVars, enableStartSample,
                 appEnabled, freezeCount, isReuseStack, callerVars>>

(* DumpTraceTask: one look at the event, or the last one. *)
RunTrace ==
  /\ pc = "run"
  /\ cur = Trace
  /\ pc' = "fetch"
  /\ Finish(Trace) \/ UNCHANGED finished
  /\ UNCHANGED <<active, taskNameSet, job, cur, jankVars, appVars, freezeCount,
                 flagVars, callerVars>>

(* The lambda of StartSample, up to the test of the counter: while another
   sampler collects it waits to reuse what that one has. *)
RunFreeze ==
  /\ pc = "run"
  /\ cur = Freeze
  /\ LET reuse == isReuseStack \/ (freezeCount = 0 /\ isDumpStack) IN
     \/ /\ reuse /\ isDumpStack
        /\ isReuseStack' = TRUE
        /\ pc' = "fetch"
        /\ UNCHANGED <<isDumpStack, finished, loaded>>
     \/ /\ reuse /\ ~isDumpStack
        /\ ResetFreezeSampleFlags
        /\ pc' = "fetch"
        /\ UNCHANGED loaded
     \/ /\ ~reuse
        /\ CannotSample(freezeCount = 0)
        /\ ResetFreezeSampleFlags
        /\ pc' = "fetch"
     \/ /\ ~reuse
        /\ CanSample(freezeCount = 0)
        /\ pc' = "freezeSample"
        /\ UNCHANGED <<isDumpStack, isReuseStack, finished>>
  /\ UNCHANGED <<active, taskNameSet, job, cur, jankVars, appVars,
                 freezeCount, callerVars>>

(* The rest of it: one sample, or the file. *)
FreezeSample ==
  /\ pc = "freezeSample"
  /\ pc' = "fetch"
  /\ \/ /\ freezeCount < TARGET_COUNT
        /\ isDumpStack' = TRUE
        /\ freezeCount' = Advance(freezeCount, 1, MaxFreezeCount)
        /\ UNCHANGED <<isReuseStack, finished>>
     \/ /\ freezeCount >= TARGET_COUNT
        /\ ResetFreezeSampleFlags
        /\ freezeCount' = Advance(freezeCount, 2, MaxFreezeCount)
  /\ UNCHANGED <<active, taskNameSet, job, cur, jankVars, appVars, loaded,
                 callerVars>>

-----------------------------------------------------------------------------
Init ==
  /\ active \in Families
  /\ taskNameSet = {}
  /\ job = [n \in {Stack, App} |-> "scroll"]
  /\ finished = {}
  /\ pc = "fetch"
  /\ cur = Stack
  /\ stackEnabled = TRUE
  /\ detectorCount = 0
  /\ collectCount = 0
  /\ scrollCount = 0
  /\ reportTimes = REPORT_TIMES
  /\ scrollTimes = 1
  /\ enableStartSample = [c \in Contents |-> c \in active]
  /\ appEnabled = [c \in Contents |-> TRUE]
  /\ appCount = [c \in Contents |-> 0]
  /\ appTimes = [c \in Contents |-> REPORT_TIMES]
  /\ freezeCount = 0
  /\ isDumpStack = FALSE
  /\ isReuseStack = FALSE
  /\ loaded = FALSE
  /\ dispatch = "idle"
  /\ request = [r \in {1, 2} |-> "idle"]
  /\ resets = FALSE
  /\ behindTrace = FALSE

Callers ==
  \/ \E c \in Contents : CheckSample(c)
  \/ StartProfileMainThread
  \/ CollectTraceDetect
  \/ InsertSampleTask
  \/ \E r \in Requesters : \/ CheckTaskValid(r)
                           \/ ResetCount(r)
                           \/ StartSample(r)
                           \/ StopSample(r)
                           \/ StopCollect(r)

RunSampler ==
  \/ RunScroll
  \/ RunProfile
  \/ \E c \in Contents : RunAppStart(c)
  \/ RunTrace
  \/ RunFreeze
  \/ FreezeSample

Next ==
  \/ Callers
  \/ \E n \in Names : FetchNextTask(n)
  \/ RunSampler

(* A registered task's ticks come one after the other: each is the top again
   and again.  Task bodies return, and a call that has begun goes on. *)
Fairness ==
  /\ \A n \in Names : SF_vars(FetchNextTask(n))
  /\ WF_vars(RunSampler)
  /\ WF_vars(InsertSampleTask)
  /\ \A r \in {1, 2} : WF_vars(ResetCount(r) \/ StartSample(r) \/ StopCollect(r))

Spec == Init /\ [][Next]_vars /\ Fairness

-----------------------------------------------------------------------------

(* isStartSampleEnabled is down exactly while a jank session is registered or
   being registered: the insertion whose result nobody looks at is never
   refused for its name, and sampling is never disabled for good.  (In a
   crowded process a refusal for want of room does disable it.) *)
GateMatchesTask ==
  Crowded \notin active =>
    (~stackEnabled <=>
      Stack \in taskNameSet \/ dispatch \in {"insertMain", "insertScroll"})

(* Is one sampler alone in use in this process, beside traces perhaps, and
   never stopped? *)
Alone == \E s \in Samplers : active \ {Crowded, Twofold, Tracing} = {s}

(* When the last session of a sampler that is alone is over, the library is
   unloaded and nobody is left marked as collecting.  (Unless a TRACE_CHECKER
   was dropped before the finished sampler: FetchNextTask then runs that one
   once more, without looking at its flag, and a session that could not begin
   begins, raises g_isDumpStack and is dropped with it raised.) *)
LastOneUnloads ==
  Alone /\ taskNameSet \subseteq {Trace} /\ pc # "freezeSample" /\ ~behindTrace
    => ~loaded /\ ~isDumpStack /\ ~isReuseStack

(* report_times_per_app: no more reports than the budget of the period, also
   when a finished sampler is run once more as the second top behind another
   sampler.  (Not behind a TRACE_CHECKER, which leaves the library loaded: the
   finished sampler reports a second time.  Not beside the freeze sampler, which keeps the library loaded for that extra run; nor
   beside both slow-start samplers: the end of one's session enables the other,
   which has just begun, so that a second session of that one can follow with
   the counts of the first, while the jank sampler has the library loaded.) *)
BudgetKept ==
  ~behindTrace /\ Freeze \notin active /\ ~({Stack} \cup Contents \subseteq active) =>
    /\ reportTimes >= 0
    /\ scrollTimes >= 0
    /\ \A c \in Contents : appTimes[c] >= 0

(* A session that was started comes to its end, when its sampler is alone and
   no second StartSample, whose check came before the insertion, sets the count
   of the running session back, nor a dropped TRACE_CHECKER ran a finished one
   again.  (Then a session takes the g_isDumpStack of its own, or the one that
   the extra run left behind, for that of another sampler and waits for ever.) *)
SessionEnds ==
  \A n \in Names \ {Trace} :
    (Alone /\ n \in taskNameSet) ~>
      (n \notin taskNameSet \/ resets \/ behindTrace)

=============================================================================
