---------------------- MODULE MainThreadSampling_proofs ----------------------
(***************************************************************************)
(* Proofs about MainThreadSampling, for every number of samples and of     *)
(* reports and every kind of process.                                      *)
(***************************************************************************)
EXTENDS MainThreadSampling, TLAPS

(* The calls of DistributeEnd that are about to insert a task. *)
InsertingStack == dispatch \in {"insertMain", "insertScroll"}

InsertingApp(c) ==
  dispatch = IF c = "start" THEN "insertStart" ELSE "insertStartScroll"

(* What the samplers of the session in progress are doing: a tick that is not
   the first one collects. *)
StackCollects ==
  /\ Stack \in taskNameSet \ finished
  /\ \/ job[Stack] = "main" /\ collectCount >= 2
     \/ job[Stack] = "scroll" /\ scrollCount > 0

AppCollects == App \in taskNameSet \ finished /\ appCount[job[App]] > 0

-----------------------------------------------------------------------------
(* Types, and who is in use: only what the kind of process has is ever
   registered; the thread runs a registered sampler; only StopSample raises a
   flag that has no task. *)
Shape ==
  /\ active \subseteq Samplers \cup {Stopping, Twofold, Tracing, Crowded}
  /\ taskNameSet \subseteq Names
  /\ finished \ {Freeze} \subseteq taskNameSet
  /\ Freeze \in finished /\ Stopping \notin active => Freeze \in taskNameSet
  /\ job \in [{Stack, App} -> {"main"} \cup Contents]
  /\ job[Stack] \in {"main", "scroll"} /\ job[App] \in Contents
  /\ pc \in {"fetch", "run", "freezeSample"}
  /\ pc # "fetch" => cur \in taskNameSet
  /\ pc = "freezeSample" => cur = Freeze
  /\ enableStartSample \in [Contents -> BOOLEAN]
  /\ appEnabled \in [Contents -> BOOLEAN]
  /\ appCount \in [Contents -> Nat]
  /\ appTimes \in [Contents -> Int]
  /\ request \in [{1, 2} -> {"idle", "checked", "reset", "collecting"}]
  /\ \A c \in Contents : enableStartSample[c] => c \in active
  /\ \A c \in Contents : InsertingApp(c) => c \in active
  /\ App \in taskNameSet => job[App] \in active
  /\ InsertingStack \/ Stack \in taskNameSet => Stack \in active
  /\ Freeze \in taskNameSet => Freeze \in active
  /\ \A r \in {1, 2} : request[r] \in {"checked", "reset"} => Freeze \in active

(* The jank sampler: one session at a time, whose counters are reset before it
   is registered. *)
JankInv ==
  /\ {detectorCount, collectCount, scrollCount} \subseteq Nat
  /\ {reportTimes, scrollTimes} \subseteq Int
  /\ Stack \in taskNameSet \/ InsertingStack => ~stackEnabled
  /\ Stack \in taskNameSet => ~InsertingStack
  /\ Crowded \notin active /\ ~stackEnabled =>
       Stack \in taskNameSet \/ InsertingStack
  /\ dispatch = "insertMain" => detectorCount = 0 /\ collectCount = 0
  /\ dispatch = "insertScroll" => scrollCount = 0
  /\ Stack \in taskNameSet \ finished /\ job[Stack] = "main" =>
       detectorCount # DETECT_STACK_COUNT

(* Who collects needs the library, only the freeze sampler reuses what others
   collect, and with one slow-start content its session excludes another. *)
AppInv ==
  /\ isDumpStack => loaded
  /\ pc = "freezeSample" => loaded
  /\ Freeze \notin active => ~isReuseStack
  /\ ~(Contents \subseteq active) =>
       /\ App \in taskNameSet => ~appEnabled[job[App]]
       /\ \A c \in Contents : InsertingApp(c) =>
            ~appEnabled[c] /\ App \notin taskNameSet

-----------------------------------------------------------------------------
(* A sampler that is alone is the one that collects, and not when its flag is
   raised; no trace has made it run with its flag up. *)
UnloadInv ==
  Alone /\ ~behindTrace =>
    /\ isDumpStack => StackCollects \/ AppCollects
                      \/ Freeze \in taskNameSet \ finished
    /\ isReuseStack => Freeze \in taskNameSet \ finished
    /\ pc # "fetch" => cur \notin finished \ {Trace}
    /\ taskNameSet \subseteq {Trace} => ~loaded

(* The budget of the registered session is used up: the flag is raised, the
   first tick is over, and the thread runs it no more with the library. *)
Idles(n) == pc = "run" /\ cur = n => ~loaded

JankSpent ==
  /\ Stack \in finished
  /\ Idles(Stack)
  /\ pc = "run" /\ cur = App => App \notin finished
  /\ isDumpStack => AppCollects
  /\ job[Stack] = "main" => collectCount > 0
  /\ job[Stack] = "scroll" => scrollCount > 0

AppSpent ==
  /\ appCount[job[App]] > 0
  /\ Idles(App)
  /\ App \in finished \/ (Stack \notin active /\ ~loaded)
  /\ pc = "run" /\ cur = Stack => Stack \notin finished
  /\ isDumpStack => StackCollects

(* A call that is about to register a slow-start session whose budget was used
   up meanwhile: the library is unloaded before it runs. *)
AppStale(c) ==
  /\ Stack \notin active
  /\ appCount[c] > 0
  /\ ~isDumpStack
  /\ App \in taskNameSet => job[App] = c /\ App \in finished
  /\ App \notin taskNameSet => ~loaded

Bounded ==
  /\ ~behindTrace
  /\ Freeze \notin active
  /\ ~({Stack} \cup Contents \subseteq active)

(* A jank session was begun with something left of its budget, and spends it
   once. *)
JankLeft == IF job[Stack] = "main" THEN reportTimes > 0 ELSE scrollTimes > 0

JankBudget ==
  Bounded =>
    /\ reportTimes >= 0 /\ scrollTimes >= 0
    /\ dispatch = "insertMain" => reportTimes > 0
    /\ dispatch = "insertScroll" => scrollTimes > 0
    /\ Stack \in taskNameSet => JankLeft \/ JankSpent

(* The same of a slow-start session. *)
AppBudget ==
  Bounded =>
    /\ \A c \in Contents : appTimes[c] >= 0
    /\ \A c \in Contents : InsertingApp(c) => appTimes[c] > 0 \/ AppStale(c)
    /\ App \in taskNameSet => appTimes[job[App]] > 0 \/ AppSpent

-----------------------------------------------------------------------------
(* The steps, one by one. *)
LEMMA Steps ==
  ASSUME [Next]_vars
  PROVE  \/ \E c \in Contents : CheckSample(c)
         \/ StartProfileMainThread
         \/ CollectTraceDetect
         \/ InsertSampleTask
         \/ \E r \in {1, 2} : \/ CheckTaskValid(r) \/ ResetCount(r)
                              \/ StartSample(r) \/ StopSample(r)
                              \/ StopCollect(r)
         \/ \E n \in Names : FetchNextTask(n)
         \/ RunScroll \/ RunProfile
         \/ \E c \in Contents : RunAppStart(c)
         \/ RunTrace \/ RunFreeze \/ FreezeSample
         \/ UNCHANGED vars
<1>1. Requesters \subseteq {1, 2}
  BY DEF Requesters
<1> QED BY <1>1 DEF Next, Callers, RunSampler

(* The kind of process never changes, and what happened stays. *)
LEMMA ActiveFixed == [Next]_vars => UNCHANGED active /\ (behindTrace => behindTrace')
<1> SUFFICES ASSUME [Next]_vars PROVE UNCHANGED active /\ (behindTrace => behindTrace')
  OBVIOUS
<1>1. ASSUME \/ \E c \in Contents : CheckSample(c)
             \/ StartProfileMainThread \/ CollectTraceDetect \/ InsertSampleTask
      PROVE  UNCHANGED <<active, behindTrace>>
  BY <1>1 DEF CheckSample, StartProfileMainThread, CollectTraceDetect,
     InsertSampleTask, Insert, InsertTrace, historyVars
<1>2. ASSUME NEW r \in {1, 2}, CheckTaskValid(r) \/ ResetCount(r) \/ StartSample(r)
                                \/ StopSample(r) \/ StopCollect(r)
      PROVE  UNCHANGED <<active, behindTrace>>
  BY <1>2 DEF CheckTaskValid, ResetCount, StartSample, StopSample, StopCollect,
     historyVars
<1>3. ASSUME NEW n \in Names, FetchNextTask(n)
      PROVE  UNCHANGED active /\ (behindTrace => behindTrace')
  <2>1. CASE /\ CheckCurrentTaskLocked(n)
             /\ UNCHANGED behindTrace \/ \E second \in taskNameSet' :
                  behindTrace' = (behindTrace \/ (n = Trace /\ second \in finished))
    <3>1. UNCHANGED active
      BY <2>1 DEF CheckCurrentTaskLocked
    <3>2. behindTrace => behindTrace'
      BY <2>1, Zenon
    <3> QED BY <3>1, <3>2
  <2>2. CASE UNCHANGED <<active, callerVars>>
    BY <2>2 DEF callerVars, historyVars
  <2> QED BY <1>3, <2>1, <2>2 DEF FetchNextTask
<1>4. ASSUME \/ RunScroll \/ RunProfile \/ \E c \in Contents : RunAppStart(c)
             \/ RunTrace \/ RunFreeze \/ FreezeSample
      PROVE  UNCHANGED <<active, behindTrace>>
  BY <1>4 DEF RunScroll, RunProfile, RunAppStart, RunTrace, RunFreeze, FreezeSample,
     callerVars, historyVars
<1>5. UNCHANGED vars => UNCHANGED <<active, behindTrace>>
  BY DEF vars, callerVars, historyVars
<1> QED BY <1>1, <1>2, <1>3, <1>4, <1>5, Steps

(* CheckSample starts a slow-start session, or a scroll session, or none. *)
LEMMA CheckSampleIs ==
  ASSUME Shape, NEW c \in Contents, CheckSample(c)
  PROVE  /\ dispatch = "idle"
         /\ UNCHANGED <<active, taskNameSet, job, finished, pc, cur, freezeCount,
                        isDumpStack, isReuseStack, loaded, request>>
         /\ enableStartSample' \in [Contents -> BOOLEAN]
         /\ \A d \in Contents : enableStartSample'[d] => enableStartSample[d]
         /\ \/ AppStartSample(c)
            \/ /\ UNCHANGED <<appEnabled, appCount, appTimes>>
               /\ dispatch' \in {"idle", "profile"} /\ UNCHANGED jankVars
            \/ /\ UNCHANGED <<appEnabled, appCount, appTimes>>
               /\ Stack \in active /\ StartScrollProfile
<1>1. /\ dispatch = "idle"
      /\ UNCHANGED <<active, taskNameSet, job, finished, pc, cur, freezeCount,
                     isDumpStack, isReuseStack, loaded, request>>
  BY DEF CheckSample, flagVars
<1>2. CASE AppStartSample(c)
  BY <1>1, <1>2 DEF AppStartSample, Shape
<1>3. CASE /\ AppStartBusy(c)
           /\ dispatch' = IF c = "start" THEN "idle" ELSE "profile"
           /\ UNCHANGED <<appVars, jankVars>>
  BY <1>1, <1>3 DEF Shape, appVars
<1>4. ASSUME NEW enabled \in BOOLEAN, AppStartDeclines(c, enabled),
             enableStartSample' = [enableStartSample EXCEPT ![c] = enabled]
      PROVE  /\ enableStartSample' \in [Contents -> BOOLEAN]
             /\ \A d \in Contents : enableStartSample'[d] => enableStartSample[d]
  <2>1. enabled => enableStartSample[c]
    BY <1>4 DEF AppStartDeclines
  <2> QED BY <1>4, <2>1 DEF Shape
<1> QED BY <1>1, <1>2, <1>3, <1>4 DEF CheckSample

(* What the insertion of a task comes to. *)
InsertStack ==
  /\ InsertingStack
  /\ dispatch' = "idle"
  /\ \/ /\ Stack \notin taskNameSet
        /\ taskNameSet' = taskNameSet \cup {Stack}
        /\ job' = [job EXCEPT ![Stack] = IF dispatch = "insertMain" THEN "main"
                                         ELSE "scroll"]
     \/ MayRefuse(Stack) /\ UNCHANGED <<taskNameSet, job>>

InsertApp(c) ==
  /\ InsertingApp(c)
  /\ dispatch' \in {"idle", "profile"}
  /\ \/ /\ App \notin taskNameSet
        /\ taskNameSet' = taskNameSet \cup {App}
        /\ job' = [job EXCEPT ![App] = c]
     \/ UNCHANGED <<taskNameSet, job>>

(* InsertSampleTask is one of them, and changes nothing else. *)
LEMMA InsertIs ==
  ASSUME InsertSampleTask
  PROVE  /\ UNCHANGED <<active, finished, pc, cur, jankVars, appVars, freezeCount,
                        flagVars, request>>
         /\ \/ InsertStack
            \/ \E c \in Contents : InsertApp(c)
            \/ InsertTrace
BY DEF InsertSampleTask, InsertTrace, Insert, InsertStack, InsertApp, InsertingStack,
   InsertingApp, MayAccept, Contents

-----------------------------------------------------------------------------
(* The shape is kept by every step. *)
LEMMA ShapeNext == Shape /\ [Next]_vars => Shape'
<1> SUFFICES ASSUME Shape, [Next]_vars PROVE Shape'
  OBVIOUS
<1>c. Contents = {"start", "scroll"} /\ Names = {Stack, App, Freeze, Trace}
      /\ Stack # App /\ App # Freeze /\ Stack # Freeze /\ Trace \notin {Stack, App, Freeze}
  BY DEF Contents, Names, Stack, App, Freeze, Trace
<1>1. ASSUME NEW c \in Contents, CheckSample(c) PROVE Shape'
  <2>1. CASE AppStartSample(c)
    <3>1. c \in active /\ dispatch' = IF c = "start" THEN "insertStart"
                                      ELSE "insertStartScroll"
      BY <2>1 DEF AppStartSample, Shape
    <3>2. appCount' \in [Contents -> Nat] /\ appEnabled' \in [Contents -> BOOLEAN]
          /\ appTimes' = appTimes
      BY <2>1 DEF AppStartSample, Shape
    <3>3. ~InsertingStack' /\ \A d \in Contents : InsertingApp(d)' => d = c
      BY <3>1, <1>c DEF InsertingStack, InsertingApp
    <3> QED BY <1>1, <3>1, <3>2, <3>3, CheckSampleIs DEF Shape
  <2>2. CASE /\ UNCHANGED <<appEnabled, appCount, appTimes>>
             /\ dispatch' \in {"idle", "profile"}
    <3>1. ~InsertingStack' /\ \A d \in Contents : ~InsertingApp(d)'
      BY <2>2, <1>c DEF InsertingStack, InsertingApp
    <3> QED BY <1>1, <2>2, <3>1, CheckSampleIs DEF Shape
  <2>3. CASE /\ UNCHANGED <<appEnabled, appCount, appTimes>>
             /\ Stack \in active /\ StartScrollProfile
    <3>1. \A d \in Contents : ~InsertingApp(d)'
      BY <2>3, <1>c DEF InsertingApp, StartScrollProfile
    <3> QED BY <1>1, <2>3, <3>1, CheckSampleIs DEF Shape
  <2> QED BY <1>1, <2>1, <2>2, <2>3, CheckSampleIs
<1>2. CASE StartProfileMainThread
  <2>1. /\ dispatch' = "idle" \/ (dispatch' = "insertMain" /\ Stack \in active)
        /\ UNCHANGED <<active, taskNameSet, job, finished, pc, cur, request,
                       enableStartSample, appEnabled, appCount, appTimes>>
    BY <1>2 DEF StartProfileMainThread, appVars
  <2>2. \A d \in Contents : ~InsertingApp(d)'
    BY <2>1, <1>c DEF InsertingApp
  <2>3. InsertingStack' => Stack \in active
    BY <2>1 DEF InsertingStack
  <2> QED BY <2>1, <2>2, <2>3 DEF Shape
<1>8. CASE CollectTraceDetect
  <2>1. ~InsertingStack' /\ \A d \in Contents : ~InsertingApp(d)'
    BY <1>8, <1>c DEF CollectTraceDetect, InsertingStack, InsertingApp
  <2> QED BY <1>8, <2>1 DEF CollectTraceDetect, appVars, Shape
<1>3. CASE InsertSampleTask
  <2>0. UNCHANGED <<active, finished, pc, cur, request, enableStartSample, appEnabled,
                    appCount, appTimes>>
    BY <1>3, InsertIs DEF appVars
  <2>1. CASE InsertStack
    <3>1. ~InsertingStack' /\ \A d \in Contents : ~InsertingApp(d)'
      BY <2>1, <1>c DEF InsertStack, InsertingApp, InsertingStack
    <3>2. /\ job' \in [{Stack, App} -> {"main"} \cup Contents]
          /\ job'[Stack] \in {"main", "scroll"} /\ job'[App] = job[App]
      BY <2>1, <1>c DEF InsertStack, Shape
    <3>3. /\ taskNameSet \subseteq taskNameSet'
          /\ taskNameSet' \subseteq taskNameSet \cup {Stack}
          /\ Stack \in active
      BY <2>1 DEF InsertStack, Shape
    <3> QED BY <1>c, <2>0, <3>1, <3>2, <3>3 DEF Shape
  <2>2. ASSUME NEW c \in Contents, InsertApp(c) PROVE Shape'
    <3>1. ~InsertingStack' /\ \A d \in Contents : ~InsertingApp(d)'
      BY <2>2, <1>c DEF InsertApp, InsertingApp, InsertingStack
    <3>2. /\ job' \in [{Stack, App} -> {"main"} \cup Contents]
          /\ job'[App] \in Contents /\ job'[Stack] = job[Stack]
          /\ App \in taskNameSet' => job'[App] \in active
      BY <2>2, <1>c DEF InsertApp, Shape
    <3>3. /\ taskNameSet \subseteq taskNameSet'
          /\ taskNameSet' \subseteq taskNameSet \cup {App}
      BY <2>2 DEF InsertApp
    <3> QED BY <1>c, <2>0, <3>1, <3>2, <3>3 DEF Shape
  <2>3. CASE InsertTrace
    <3>1. ~InsertingStack' /\ \A d \in Contents : ~InsertingApp(d)'
      BY <2>3, <1>c DEF InsertTrace, InsertingApp, InsertingStack
    <3> QED BY <1>c, <2>0, <2>3, <3>1 DEF InsertTrace, Shape
  <2> QED BY <1>3, <2>1, <2>2, <2>3, InsertIs
<1>4. ASSUME NEW r \in {1, 2}, CheckTaskValid(r) \/ ResetCount(r) \/ StartSample(r)
                                \/ StopSample(r) \/ StopCollect(r)
      PROVE  Shape'
  <2>0. /\ UNCHANGED <<active, job, pc, cur, enableStartSample, appEnabled, appCount,
                       appTimes, dispatch>>
        /\ ~InsertingStack' \/ InsertingStack
        /\ \A d \in Contents : InsertingApp(d)' <=> InsertingApp(d)
    BY <1>4 DEF CheckTaskValid, ResetCount, StartSample, StopSample, StopCollect,
       appVars, InsertingStack, InsertingApp
  <2>1. /\ request' \in [{1, 2} -> {"idle", "checked", "reset", "collecting"}]
        /\ \A q \in {1, 2} : request'[q] \in {"checked", "reset"} => Freeze \in active
    BY <1>4 DEF CheckTaskValid, ResetCount, StartSample, StopSample, StopCollect, Goes,
       Shape
  <2>2. \/ UNCHANGED <<taskNameSet, finished>>
        \/ UNCHANGED taskNameSet /\ finished' = finished \cup {Freeze}
           /\ Stopping \in active
        \/ UNCHANGED finished /\ taskNameSet' = taskNameSet \cup {Freeze}
           /\ Freeze \in active
    BY <1>4 DEF CheckTaskValid, ResetCount, StartSample, StopSample, StopCollect, Goes,
       Shape, ResetFreezeSampleFlags
  <2> QED BY <1>c, <2>0, <2>1, <2>2 DEF Shape
<1>5. ASSUME NEW n \in Names, FetchNextTask(n) PROVE Shape'
  <2>0. /\ UNCHANGED <<active, job, enableStartSample, appCount, appTimes, dispatch,
                       request>>
        /\ appEnabled' \in [Contents -> BOOLEAN]
        /\ InsertingStack' <=> InsertingStack
        /\ \A d \in Contents : InsertingApp(d)' <=> InsertingApp(d)
    BY <1>5 DEF FetchNextTask, CheckCurrentTaskLocked, Shape, callerVars, appVars,
       InsertingStack, InsertingApp
  <2>1. \/ UNCHANGED <<taskNameSet, finished>>
        \/ taskNameSet' = taskNameSet \ {n} /\ finished' = finished \ {n}
    BY <1>5 DEF FetchNextTask, CheckCurrentTaskLocked
  <2>2. \/ pc' = "run" /\ cur' \in taskNameSet'
        \/ pc = "fetch" /\ UNCHANGED <<pc, cur>>
    BY <1>5 DEF FetchNextTask, Take
  <2> QED BY <2>0, <2>1, <2>2 DEF Shape
<1>6. CASE RunScroll \/ RunProfile \/ (\E c \in Contents : RunAppStart(c))
           \/ RunTrace \/ RunFreeze \/ FreezeSample
  <2>0. /\ UNCHANGED <<active, job, cur, taskNameSet, enableStartSample, appEnabled,
                       dispatch, request>>
        /\ InsertingStack' <=> InsertingStack
        /\ \A d \in Contents : InsertingApp(d)' <=> InsertingApp(d)
    BY <1>6 DEF RunScroll, RunProfile, RunAppStart, RunTrace, RunFreeze, FreezeSample, appVars,
       callerVars, InsertingStack, InsertingApp
  <2>1. cur \in taskNameSet
    BY <1>6 DEF RunScroll, RunProfile, RunAppStart, RunTrace, RunFreeze, FreezeSample,
       Running, Shape
  <2>2. finished' \in {finished, finished \cup {cur}}
    <3>1. CASE RunScroll
      BY <3>1 DEF RunScroll, Running, Finish
    <3>2. CASE RunProfile
      BY <3>2 DEF RunProfile, ProfileDetect, ProfileCollect, ProfileReport, Running,
         Finish
    <3>3. CASE \E c \in Contents : RunAppStart(c)
      BY <3>3 DEF RunAppStart, Running, Finish
    <3>4. CASE RunTrace \/ RunFreeze \/ FreezeSample
      BY <3>4 DEF RunTrace, Finish, RunFreeze, FreezeSample, ResetFreezeSampleFlags, Shape
    <3> QED BY <1>6, <3>1, <3>2, <3>3, <3>4
  <2>3. pc' = "fetch" \/ (pc' = "freezeSample" /\ cur = Freeze)
    BY <1>6 DEF RunScroll, RunProfile, RunAppStart, RunTrace, RunFreeze, FreezeSample
  <2>4. /\ appCount' \in [Contents -> Nat]
        /\ appTimes' \in [Contents -> Int]
    <3>1. ASSUME NEW c \in Contents, RunAppStart(c)
          PROVE  /\ appCount' \in [Contents -> Nat]
                 /\ appTimes' \in [Contents -> Int]
      BY <3>1 DEF RunAppStart, Shape, Spend
    <3> QED BY <1>6, <3>1 DEF RunScroll, RunProfile, RunTrace, RunFreeze, FreezeSample,
               appVars, Shape
  <2> QED BY <2>0, <2>1, <2>2, <2>3, <2>4, <1>c DEF Shape
<1>7. CASE UNCHANGED vars
  BY <1>7 DEF vars, appVars, callerVars, Shape, InsertingStack, InsertingApp
<1> QED BY <1>1, <1>2, <1>3, <1>4, <1>5, <1>6, <1>7, <1>8, Steps

-----------------------------------------------------------------------------
(* The session of the jank sampler stays the only one. *)
LEMMA JankNext == Shape /\ JankInv /\ [Next]_vars => JankInv'
<1> SUFFICES ASSUME Shape, JankInv, [Next]_vars PROVE JankInv'
  OBVIOUS
<1>c. /\ Stack # App /\ App # Freeze /\ Stack # Freeze
      /\ DETECT_STACK_COUNT \in Nat \ {0} /\ SAMPLE_COUNT \in Nat
      /\ REPORT_TIMES \in Nat /\ Trace # Stack
  BY CountsAssumption DEF Stack, App, Freeze, Trace
<1>k. ASSUME UNCHANGED <<active, job, jankVars>>,
             Stack \in taskNameSet' <=> Stack \in taskNameSet,
             Stack \in finished' <=> Stack \in finished,
             dispatch' = dispatch \/ (~InsertingStack /\ ~InsertingStack')
      PROVE  JankInv'
  BY <1>k DEF JankInv, InsertingStack, jankVars
<1>s. ASSUME dispatch \in {"idle", "profile"}, stackEnabled, stackEnabled' = FALSE,
             UNCHANGED <<active, taskNameSet, finished, job>>, InsertingStack',
             {detectorCount', collectCount', scrollCount'} \subseteq Nat,
             {reportTimes', scrollTimes'} \subseteq Int,
             dispatch' = "insertMain" => detectorCount' = 0 /\ collectCount' = 0,
             dispatch' = "insertScroll" => scrollCount' = 0
      PROVE  JankInv'
  BY <1>s DEF JankInv, InsertingStack
<1>1. ASSUME NEW c \in Contents, CheckSample(c) PROVE JankInv'
  <2>1. CASE AppStartSample(c)
    <3>1. ~InsertingStack /\ ~InsertingStack' /\ UNCHANGED jankVars
      BY <1>1, <2>1, CheckSampleIs DEF AppStartSample, InsertingStack
    <3> QED BY <1>1, <1>k, <3>1, CheckSampleIs
  <2>2. CASE dispatch' \in {"idle", "profile"} /\ UNCHANGED jankVars
    <3>1. ~InsertingStack /\ ~InsertingStack'
      BY <1>1, <2>2, CheckSampleIs DEF InsertingStack
    <3> QED BY <1>1, <1>k, <2>2, <3>1, CheckSampleIs
  <2>3. CASE StartScrollProfile
    <3>1. scrollTimes' \in Int
      BY <2>3 DEF StartScrollProfile, Refreshed, JankInv
    <3>2. dispatch = "idle" /\ UNCHANGED <<active, taskNameSet, finished, job>>
      BY <1>1, CheckSampleIs
    <3>3. /\ stackEnabled /\ stackEnabled' = FALSE /\ scrollCount' = 0
          /\ dispatch' = "insertScroll"
          /\ UNCHANGED <<detectorCount, collectCount, reportTimes>>
      BY <2>3 DEF StartScrollProfile
    <3>4. InsertingStack'
      BY <3>3 DEF InsertingStack
    <3> QED BY <1>s, <3>1, <3>2, <3>3, <3>4 DEF JankInv
  <2> QED BY <1>1, <2>1, <2>2, <2>3, CheckSampleIs
<1>2. CASE StartProfileMainThread
  <2>1. CASE dispatch' = "idle" /\ UNCHANGED jankVars
    BY <1>2, <2>1, <1>k DEF StartProfileMainThread, InsertingStack
  <2>2. CASE ~(dispatch' = "idle" /\ UNCHANGED jankVars)
    <3>1. reportTimes' \in Int
      BY <1>2, <2>2, <1>c DEF StartProfileMainThread, Refreshed, JankInv
    <3> QED BY <1>2, <2>2, <1>s, <3>1 DEF StartProfileMainThread, InsertingStack,
               JankInv
  <2> QED BY <2>1, <2>2
<1>3. CASE InsertSampleTask
  <2>0. UNCHANGED <<active, finished, jankVars>>
    BY <1>3, InsertIs
  <2>1. CASE InsertStack
    <3>1. InsertingStack /\ dispatch' = "idle" /\ ~InsertingStack'
          /\ Stack \notin taskNameSet
      BY <2>1 DEF InsertStack, InsertingStack, JankInv
    <3>2. CASE /\ taskNameSet' = taskNameSet \cup {Stack}
               /\ job' = [job EXCEPT ![Stack] = IF dispatch = "insertMain" THEN "main"
                                                ELSE "scroll"]
      <4>1. job'[Stack] = IF dispatch = "insertMain" THEN "main" ELSE "scroll"
        BY <3>2 DEF Shape
      <4>2. job'[Stack] = "main" => detectorCount # DETECT_STACK_COUNT
        BY <1>c, <4>1 DEF JankInv
      <4> QED BY <2>0, <3>1, <3>2, <4>2 DEF JankInv, jankVars
    <3>3. CASE MayRefuse(Stack) /\ UNCHANGED <<taskNameSet, job>>
      BY <2>0, <3>1, <3>3 DEF JankInv, jankVars, MayRefuse
    <3> QED BY <2>1, <3>2, <3>3 DEF InsertStack
  <2>2. ASSUME NEW c \in Contents, InsertApp(c) PROVE JankInv'
    <3>1. ~InsertingStack /\ ~InsertingStack'
      BY <2>2 DEF InsertApp, InsertingApp, InsertingStack
    <3>2. /\ Stack \in taskNameSet' <=> Stack \in taskNameSet
          /\ job'[Stack] = job[Stack]
      BY <1>c, <2>2 DEF InsertApp, Shape
    <3> QED BY <2>0, <3>1, <3>2, <2>2 DEF JankInv, jankVars, InsertingStack
  <2>3. CASE InsertTrace
    BY <1>c, <1>k, <2>0, <2>3 DEF InsertTrace, InsertingStack
  <2> QED BY <1>3, <2>1, <2>2, <2>3, InsertIs
<1>4. ASSUME NEW r \in {1, 2}, CheckTaskValid(r) \/ ResetCount(r) \/ StartSample(r)
                                \/ StopSample(r) \/ StopCollect(r)
      PROVE  JankInv'
  BY <1>4, <1>c, <1>k DEF CheckTaskValid, ResetCount, StartSample, StopSample,
     StopCollect, ResetFreezeSampleFlags
<1>5. ASSUME NEW n \in Names, FetchNextTask(n) PROVE JankInv'
  <2>1. CASE n \in finished /\ CheckCurrentTaskLocked(n)
    <3>1. CASE n = Stack
      <4>1. stackEnabled' /\ Stack \notin taskNameSet' /\ UNCHANGED dispatch
            /\ UNCHANGED <<active, job, detectorCount, collectCount, scrollCount,
                           reportTimes, scrollTimes>>
        BY <2>1, <3>1 DEF CheckCurrentTaskLocked, callerVars
      <4>2. ~InsertingStack
        BY <1>5, <3>1 DEF FetchNextTask, JankInv
      <4> QED BY <4>1, <4>2 DEF JankInv, InsertingStack
    <3>2. CASE n # Stack
      <4>1. /\ stackEnabled' <=> stackEnabled
            /\ Stack \in taskNameSet' <=> Stack \in taskNameSet
            /\ Stack \in finished' <=> Stack \in finished
            /\ UNCHANGED <<active, job, detectorCount, collectCount, scrollCount,
                           reportTimes, scrollTimes, dispatch>>
        BY <2>1, <3>2 DEF CheckCurrentTaskLocked, callerVars
      <4> QED BY <4>1 DEF JankInv, InsertingStack
    <3> QED BY <3>1, <3>2
  <2>2. CASE n \notin finished
    BY <1>5, <2>2, <1>k DEF FetchNextTask, callerVars
  <2> QED BY <1>5, <2>1, <2>2 DEF FetchNextTask
<1>6. CASE RunScroll
  <2>1. /\ UNCHANGED <<active, taskNameSet, job, stackEnabled, dispatch, detectorCount,
                       collectCount, reportTimes>>
        /\ finished \subseteq finished' /\ Stack \in taskNameSet
    BY <1>6 DEF RunScroll, Running, callerVars, Finish, Shape
  <2>2. scrollTimes' \in Int /\ scrollCount' \in Nat
    BY <1>6 DEF RunScroll, Spend, JankInv
  <2> QED BY <2>1, <2>2 DEF JankInv, InsertingStack
<1>7. CASE RunProfile
  <2>1. /\ UNCHANGED <<active, taskNameSet, job, stackEnabled, dispatch, scrollCount,
                       scrollTimes>>
        /\ finished \subseteq finished' /\ Stack \in taskNameSet
    BY <1>7 DEF RunProfile, Running, callerVars, Finish, Shape, ProfileDetect,
       ProfileCollect, ProfileReport
  <2>2. /\ reportTimes' \in Int /\ collectCount' \in Nat /\ detectorCount' \in Nat
        /\ Stack \notin finished' => detectorCount' # DETECT_STACK_COUNT
    <3>1. CASE /\ Finish(Stack)
               /\ UNCHANGED <<detectorCount, collectCount, reportTimes>>
      BY <3>1 DEF Finish, JankInv
    <3>2. CASE ProfileDetect
      <4>1. detectorCount' \in Nat
        BY <3>2, <1>c DEF ProfileDetect, Advance, MaxDetectorCount, JankInv
      <4> QED BY <3>2, <4>1 DEF ProfileDetect, Finish, JankInv
    <3>3. CASE ProfileCollect
      BY <3>3, <1>7, <1>c, <2>1 DEF ProfileCollect, Finish, JankInv, RunProfile, Running
    <3>4. CASE ProfileReport
      BY <3>4 DEF ProfileReport, Finish, Spend, JankInv
    <3> QED BY <1>7, <3>1, <3>2, <3>3, <3>4 DEF RunProfile
  <2> QED BY <2>1, <2>2 DEF JankInv, InsertingStack
<1>8. CASE (\E c \in Contents : RunAppStart(c)) \/ RunTrace \/ RunFreeze \/ FreezeSample
  <2>1. /\ UNCHANGED <<active, taskNameSet, job, jankVars, dispatch>>
        /\ Stack \in finished' <=> Stack \in finished
    BY <1>8, <1>c DEF RunAppStart, RunTrace, RunFreeze, FreezeSample, Finish,
       ResetFreezeSampleFlags, callerVars
  <2> QED BY <2>1, <1>k
<1>9. CASE UNCHANGED vars
  BY <1>9, <1>k DEF vars, callerVars
<1>10. CASE CollectTraceDetect
  BY <1>10, <1>k DEF CollectTraceDetect, InsertingStack
<1> QED BY <1>1, <1>2, <1>3, <1>4, <1>5, <1>6, <1>7, <1>8, <1>9, <1>10, Steps

(* The shape and the single jank session hold in every behaviour. *)
LEMMA JankHolds == Spec => [](Shape /\ JankInv)
<1>1. Init => Shape
  <2> SUFFICES ASSUME Init PROVE Shape
    OBVIOUS
  <2>1. active \subseteq Samplers \cup {Stopping, Twofold, Tracing, Crowded}
    BY CountsAssumption DEF Init
  <2>2. /\ job \in [{Stack, App} -> {"main"} \cup Contents]
        /\ job[Stack] = "scroll" /\ job[App] = "scroll" /\ "scroll" \in Contents
    BY DEF Init, Contents
  <2>3. ~InsertingStack /\ \A c \in Contents : ~InsertingApp(c)
    BY DEF Init, InsertingStack, InsertingApp
  <2>4. REPORT_TIMES \in Int
    BY CountsAssumption
  <2>5. /\ enableStartSample \in [Contents -> BOOLEAN]
        /\ \A c \in Contents : enableStartSample[c] => c \in active
    <3>1. enableStartSample = [c \in Contents |-> c \in active]
      BY DEF Init
    <3>2. \A c \in Contents : (c \in active) \in BOOLEAN
      OBVIOUS
    <3>3. enableStartSample \in [Contents -> BOOLEAN]
      BY <3>1, <3>2, Zenon
    <3>4. \A c \in Contents : enableStartSample[c] => c \in active
      BY <3>1
    <3> QED BY <3>3, <3>4
  <2>6. appEnabled \in [Contents -> BOOLEAN]
    BY Zenon DEF Init
  <2>7. appCount \in [Contents -> Nat] /\ appTimes \in [Contents -> Int]
    BY <2>4 DEF Init
  <2>8. /\ request \in [{1, 2} -> {"idle", "checked", "reset", "collecting"}]
        /\ \A r \in {1, 2} : request[r] = "idle"
    BY DEF Init
  <2>9. taskNameSet = {} /\ finished = {} /\ pc = "fetch"
    BY DEF Init
  <2> QED BY <2>1, <2>2, <2>3, <2>5, <2>6, <2>7, <2>8, <2>9 DEF Shape
<1>2. Init => JankInv
  BY CountsAssumption DEF Init, JankInv, InsertingStack
<1> QED BY <1>1, <1>2, ShapeNext, JankNext, PTL DEF Spec

(* GateMatchesTask, for every number of samples and kind of process: unless the
   queue may be full, sampling of slow events is disabled only while a session
   is registered or about to be. *)
THEOREM GateFits == Spec => []GateMatchesTask
<1>1. JankInv => GateMatchesTask
  BY DEF JankInv, GateMatchesTask, InsertingStack
<1> QED BY <1>1, JankHolds, PTL

-----------------------------------------------------------------------------
(* What the first tick and the later ones find of the library. *)
LEMMA SampleIs ==
  ASSUME AppInv, NEW first
  PROVE  /\ CanSample(first) => loaded'
         /\ CanSample(first) /\ ~first => loaded
         /\ CannotSample(first) /\ isDumpStack => first /\ loaded'
         /\ CannotSample(first) /\ ~first => ~loaded /\ UNCHANGED loaded
BY DEF AppInv, CanSample, CannotSample

(* An unfinished session of the jank sampler goes on collecting, or ends. *)
LEMMA StackRuns ==
  ASSUME Shape, JankInv, AppInv, RunScroll \/ RunProfile, Stack \notin finished,
         isDumpStack => StackCollects
  PROVE  isDumpStack' => StackCollects'
<1>0. Stack \in taskNameSet' /\ UNCHANGED job
  BY DEF RunScroll, RunProfile, Running, Shape
<1>1. CASE RunScroll
  <2>0. job[Stack] = "scroll" /\ (isDumpStack => scrollCount > 0)
    BY <1>1 DEF RunScroll, Running, StackCollects
  <2>1. CASE CannotSample(scrollCount = 0) /\ UNCHANGED isDumpStack
    <3>1. isDumpStack => scrollCount = 0
      BY <2>1, SampleIs
    <3> QED BY <2>0, <2>1, <3>1
  <2>2. CASE isDumpStack' = TRUE /\ scrollCount' = 1 /\ UNCHANGED finished
    BY <1>0, <2>0, <2>2 DEF StackCollects
  <2> QED BY <1>1, <2>1, <2>2 DEF RunScroll
<1>2. CASE RunProfile
  <2>0. job[Stack] = "main" /\ (isDumpStack => collectCount >= 2)
        /\ collectCount \in Nat /\ detectorCount # DETECT_STACK_COUNT
    BY <1>2, <1>0 DEF RunProfile, Running, StackCollects, JankInv
  <2>1. CASE CannotSample(FirstDetection) /\ UNCHANGED isDumpStack
    <3>1. isDumpStack => FirstDetection
      BY <2>1, SampleIs
    <3> QED BY <2>0, <2>1, <3>1 DEF FirstDetection
  <2>2. CASE ProfileDetect
    BY <2>0, <2>2 DEF ProfileDetect
  <2>3. CASE ProfileCollect
    <3>1. SAMPLE_COUNT \in Nat
      BY CountsAssumption
    <3>2. finished' = finished /\ collectCount' >= 2
      BY <2>0, <2>3, <3>1 DEF ProfileCollect
    <3> QED BY <1>0, <2>0, <3>2 DEF StackCollects
  <2>4. CASE ProfileReport
    BY <2>4 DEF ProfileReport
  <2> QED BY <1>2, <2>1, <2>2, <2>3, <2>4 DEF RunProfile
<1> QED BY <1>1, <1>2

(* So does one of the slow-start sampler. *)
LEMMA AppRuns ==
  ASSUME Shape, AppInv, NEW c \in Contents, RunAppStart(c), App \notin finished,
         isDumpStack => AppCollects
  PROVE  isDumpStack' => AppCollects'
<1>0. /\ App \in taskNameSet' /\ UNCHANGED job /\ job[App] = c
      /\ appCount \in [Contents -> Nat]
  BY DEF RunAppStart, Running, Shape
<1>1. CASE isDumpStack' => isDumpStack /\ appCount[c] = 0
  <2>1. isDumpStack => appCount[c] > 0
    BY <1>0 DEF AppCollects
  <2> QED BY <1>0, <1>1, <2>1
<1>2. CASE UNCHANGED finished /\ appCount' = [appCount EXCEPT ![c] = @ + 1]
  <2>1. appCount'[c] > 0
    BY <1>0, <1>2
  <2> QED BY <1>0, <1>2, <2>1 DEF AppCollects
<1>3. CASE isDumpStack' = FALSE
  BY <1>3
<1>4. \/ isDumpStack' => isDumpStack /\ appCount[c] = 0
      \/ UNCHANGED finished /\ appCount' = [appCount EXCEPT ![c] = @ + 1]
      \/ isDumpStack' = FALSE
  BY DEF RunAppStart
<1> QED BY <1>1, <1>2, <1>3, <1>4

(* A slow-start call that may begin finds no session, when there is but one
   content. *)
LEMMA AppAlone ==
  ASSUME Shape, AppInv, NEW c \in Contents, AppStartSample(c),
         ~(Contents \subseteq active)
  PROVE  App \notin taskNameSet
<1>1. c \in active /\ appEnabled[c]
  BY DEF AppStartSample, Shape
<1>2. App \in taskNameSet => job[App] \in Contents \cap active
  BY DEF Shape
<1>3. \A d \in Contents \cap active : d = c
  BY <1>1 DEF Contents
<1> QED BY <1>1, <1>2, <1>3 DEF AppInv

(* The library and the sessions of one content are kept. *)
LEMMA AppNext == Shape /\ AppInv /\ [Next]_vars => AppInv'
<1> SUFFICES ASSUME Shape, AppInv, [Next]_vars PROVE AppInv'
  OBVIOUS
<1>c. Stack # App /\ App # Freeze /\ Stack # Freeze
      /\ Trace # App
  BY DEF Stack, App, Freeze, Trace
<1>1. ASSUME NEW c \in Contents, CheckSample(c) PROVE AppInv'
  <2>0. UNCHANGED <<active, taskNameSet, job, pc, isDumpStack, isReuseStack, loaded>>
    BY <1>1, CheckSampleIs
  <2>1. CASE AppStartSample(c)
    <3>1. \A d \in Contents : InsertingApp(d)' => d = c
      BY <2>1 DEF AppStartSample, InsertingApp, Contents
    <3>2. appEnabled'[c] = FALSE
      BY <2>1 DEF AppStartSample, Shape
    <3> QED BY <2>0, <2>1, <3>1, <3>2, AppAlone DEF AppInv
  <2>2. CASE UNCHANGED appEnabled /\ dispatch' \in {"idle", "profile", "insertScroll"}
    <3>1. \A d \in Contents : ~InsertingApp(d)'
      BY <2>2 DEF InsertingApp
    <3> QED BY <2>0, <2>2, <3>1 DEF AppInv
  <2> QED BY <1>1, <2>1, <2>2, CheckSampleIs DEF StartScrollProfile
<1>2. CASE StartProfileMainThread
  <2>1. UNCHANGED <<active, taskNameSet, job, pc, isDumpStack, isReuseStack, loaded,
                    appEnabled>>
    BY <1>2 DEF StartProfileMainThread, appVars, flagVars
  <2>2. \A d \in Contents : ~InsertingApp(d)'
    BY <1>2 DEF InsertingApp, StartProfileMainThread
  <2> QED BY <2>1, <2>2 DEF AppInv
<1>3. CASE InsertSampleTask
  <2>0. UNCHANGED <<active, pc, isDumpStack, isReuseStack, loaded, appEnabled>>
    BY <1>3, InsertIs DEF flagVars, appVars
  <2>1. dispatch' \in {"idle", "profile"} /\ \A d \in Contents : ~InsertingApp(d)'
    BY <1>3, InsertIs DEF InsertStack, InsertApp, InsertTrace, InsertingApp
  <2>2. CASE InsertStack
    <3>1. (App \in taskNameSet' <=> App \in taskNameSet) /\ job'[App] = job[App]
      BY <1>c, <2>2 DEF InsertStack, Shape
    <3> QED BY <2>0, <2>1, <3>1 DEF AppInv
  <2>3. ASSUME NEW c \in Contents, InsertApp(c) PROVE AppInv'
    <3>1. CASE taskNameSet' = taskNameSet \cup {App} /\ job' = [job EXCEPT ![App] = c]
      <4>1. job'[App] = c
        BY <3>1 DEF Shape
      <4> QED BY <2>0, <2>1, <2>3, <4>1 DEF AppInv, InsertApp
    <3>2. CASE UNCHANGED <<taskNameSet, job>>
      BY <2>0, <2>1, <3>2 DEF AppInv
    <3> QED BY <2>3, <3>1, <3>2 DEF InsertApp
  <2>4. CASE InsertTrace
    BY <1>c, <2>0, <2>1, <2>4 DEF InsertTrace, AppInv
  <2> QED BY <1>3, <2>2, <2>3, <2>4, InsertIs
<1>4. ASSUME NEW r \in {1, 2}, CheckTaskValid(r) \/ ResetCount(r) \/ StartSample(r)
                                \/ StopSample(r) \/ StopCollect(r)
      PROVE  AppInv'
  <2>1. /\ UNCHANGED <<active, job, pc, appEnabled, dispatch, loaded>>
        /\ App \in taskNameSet' <=> App \in taskNameSet
        /\ isDumpStack' => isDumpStack
        /\ isReuseStack' => isReuseStack
    BY <1>4, <1>c DEF CheckTaskValid, ResetCount, StartSample, StopSample, StopCollect,
       appVars, flagVars, ResetFreezeSampleFlags
  <2> QED BY <2>1 DEF AppInv, InsertingApp
<1>5. ASSUME NEW n \in Names, FetchNextTask(n) PROVE AppInv'
  <2>0. pc' # "freezeSample"
    BY <1>5 DEF FetchNextTask, Take
  <2>1. CASE n \in finished /\ CheckCurrentTaskLocked(n)
    <3>0. /\ UNCHANGED <<active, job, dispatch, isDumpStack>>
          /\ isDumpStack => (loaded' <=> loaded)
          /\ isReuseStack' => isReuseStack
      BY <2>1 DEF CheckCurrentTaskLocked, callerVars
    <3>1. CASE n = App
      <4>1. App \notin taskNameSet'
        BY <2>1, <3>1 DEF CheckCurrentTaskLocked
      <4>2. ~(Contents \subseteq active) => \A c \in Contents : ~InsertingApp(c)
        BY <1>5, <3>1 DEF FetchNextTask, AppInv
      <4> QED BY <2>0, <3>0, <4>1, <4>2 DEF AppInv, InsertingApp
    <3>2. CASE n # App
      <4>1. /\ App \in taskNameSet' <=> App \in taskNameSet
            /\ \A c \in Contents : appEnabled'[c] <=> appEnabled[c]
        BY <2>1, <3>2 DEF CheckCurrentTaskLocked
      <4>2. job[App] \in Contents
        BY DEF Shape
      <4> QED BY <2>0, <3>0, <4>1, <4>2 DEF AppInv, InsertingApp
    <3> QED BY <3>1, <3>2
  <2>2. CASE n \notin finished
    BY <1>5, <2>0, <2>2 DEF FetchNextTask, flagVars, appVars, callerVars, AppInv, InsertingApp
  <2> QED BY <1>5, <2>1, <2>2 DEF FetchNextTask
<1>6. CASE RunScroll \/ RunProfile \/ (\E c \in Contents : RunAppStart(c))
           \/ RunTrace \/ RunFreeze \/ FreezeSample
  <2>1. UNCHANGED <<active, job, taskNameSet, appEnabled, dispatch>>
    BY <1>6 DEF RunScroll, RunProfile, RunAppStart, RunTrace, RunFreeze, FreezeSample,
       appVars, callerVars
  <2>2. Freeze \notin active => UNCHANGED isReuseStack
    BY <1>6 DEF RunScroll, RunProfile, RunAppStart, RunTrace, RunFreeze, FreezeSample,
       flagVars, Shape
  <2>3. isDumpStack' => loaded'
    <3>1. CASE RunScroll
      BY <3>1, SampleIs DEF RunScroll
    <3>2. CASE RunProfile
      <4>1. CASE CannotSample(FirstDetection) /\ UNCHANGED isDumpStack
        BY <4>1, SampleIs
      <4>2. CASE CanSample(FirstDetection)
        BY <4>2, SampleIs
      <4> QED BY <3>2, <4>1, <4>2 DEF RunProfile
    <3>3. ASSUME NEW c \in Contents, RunAppStart(c) PROVE isDumpStack' => loaded'
      <4>1. \/ CannotSample(appCount[c] = 0) /\ (isDumpStack' => isDumpStack)
            \/ CanSample(appCount[c] = 0)
        BY <3>3 DEF RunAppStart
      <4> QED BY <4>1, SampleIs
    <3>4. CASE RunFreeze
      <4>1. CASE ~isDumpStack'
        BY <4>1
      <4>2. CASE UNCHANGED <<isDumpStack, loaded>>
        BY <4>2 DEF AppInv
      <4>3. CASE CanSample(freezeCount = 0)
        BY <4>3, SampleIs
      <4> QED BY <3>4, <4>1, <4>2, <4>3 DEF RunFreeze, ResetFreezeSampleFlags
    <3>5. CASE FreezeSample
      BY <3>5 DEF FreezeSample, AppInv, ResetFreezeSampleFlags
    <3>6. CASE RunTrace
      BY <3>6 DEF RunTrace, flagVars, AppInv
    <3> QED BY <1>6, <3>1, <3>2, <3>3, <3>4, <3>5, <3>6
  <2>4. pc' = "freezeSample" => loaded'
    BY <1>6, SampleIs DEF RunScroll, RunProfile, RunAppStart, RunTrace, RunFreeze,
       FreezeSample
  <2> QED BY <2>1, <2>2, <2>3, <2>4 DEF AppInv, InsertingApp
<1>7. CASE UNCHANGED vars
  BY <1>7 DEF vars, appVars, flagVars, callerVars, AppInv, InsertingApp
<1>8. CASE CollectTraceDetect
  <2>1. \A d \in Contents : ~InsertingApp(d)'
    BY <1>8 DEF InsertingApp, CollectTraceDetect
  <2> QED BY <1>8, <2>1 DEF CollectTraceDetect, appVars, flagVars, AppInv
<1> QED BY <1>1, <1>2, <1>3, <1>4, <1>5, <1>6, <1>7, <1>8, Steps

(* The three hold in every behaviour. *)
LEMMA BaseHolds == Spec => [](Shape /\ JankInv /\ AppInv)
<1>1. Init => AppInv
  BY DEF Init, AppInv, InsertingApp
<1> QED BY <1>1, JankHolds, AppNext, PTL DEF Spec

-----------------------------------------------------------------------------
(* A sampler that is alone has the queue for itself. *)
LEMMA AloneIs ==
  ASSUME Shape, Alone
  PROVE  /\ \A m, n \in taskNameSet \ {Trace} : m = n
         /\ Stopping \notin active
         /\ ~(Contents \subseteq active)
<1>1. PICK s \in Samplers : active \ {Crowded, Twofold, Tracing} = {s}
  BY DEF Alone
<1>2. \A a \in active : a \in Samplers => a = s
  BY <1>1 DEF Samplers, Contents, Stack, Freeze, Crowded, Twofold, Tracing
<1>3. Stopping \notin active
  <2>1. Stopping # Crowded /\ Stopping # Twofold /\ Stopping # Tracing
    BY DEF Crowded, Twofold, Stopping, Tracing
  <2>2. Stopping \notin Samplers
    BY DEF Samplers, Contents, Stack, Freeze, Stopping
  <2> QED BY <1>1, <2>1, <2>2
<1>4. ~(Contents \subseteq active)
  BY <1>2 DEF Samplers, Contents
<1>5. ASSUME NEW m \in taskNameSet \ {Trace}, NEW n \in taskNameSet \ {Trace}
      PROVE  m = n
  <2>1. /\ Stack \in taskNameSet => s = Stack
        /\ Freeze \in taskNameSet => s = Freeze
        /\ App \in taskNameSet => s \in Contents
    BY <1>2 DEF Shape, Samplers
  <2>2. Stack \notin Contents /\ Freeze \notin Contents /\ Stack # Freeze
    BY DEF Stack, Freeze, Contents
  <2> QED BY <2>1, <2>2 DEF Shape, Names
<1> QED BY <1>3, <1>4, <1>5

(* Its flags and its library are kept in step with its session. *)
LEMMA UnloadNext ==
  Shape /\ JankInv /\ AppInv /\ UnloadInv /\ [Next]_vars => UnloadInv'
<1> SUFFICES ASSUME Shape, JankInv, AppInv, UnloadInv, [Next]_vars, Alone, Alone',
                    ~behindTrace, ~behindTrace'
             PROVE  UnloadInv'
  BY ActiveFixed DEF UnloadInv, Alone
<1>c. /\ Stack # App /\ App # Freeze /\ Stack # Freeze
      /\ Trace \notin {Stack, App, Freeze}
  BY DEF Stack, App, Freeze, Trace
<1>u. /\ isDumpStack => StackCollects \/ AppCollects \/ Freeze \in taskNameSet \ finished
      /\ isReuseStack => Freeze \in taskNameSet \ finished
      /\ pc # "fetch" => cur \notin finished \ {Trace}
      /\ taskNameSet \subseteq {Trace} => ~loaded
  BY DEF UnloadInv
<1>a. /\ \A m, n \in taskNameSet \ {Trace} : m = n
      /\ Stopping \notin active
      /\ ~(Contents \subseteq active)
  BY AloneIs
<1>k. ASSUME UNCHANGED <<finished, pc, cur, isDumpStack, isReuseStack, loaded>>,
             taskNameSet \subseteq taskNameSet',
             StackCollects => StackCollects', AppCollects => AppCollects'
      PROVE  UnloadInv'
  BY <1>k, <1>u DEF UnloadInv
<1>1. ASSUME NEW c \in Contents, CheckSample(c) PROVE UnloadInv'
  <2>0. UNCHANGED <<taskNameSet, finished, pc, cur, isDumpStack, isReuseStack, loaded,
                    job>>
    BY <1>1, CheckSampleIs
  <2>1. StackCollects => StackCollects'
    <3>1. CASE UNCHANGED jankVars
      BY <2>0, <3>1 DEF StackCollects, jankVars
    <3>2. CASE StartScrollProfile
      BY <3>2 DEF StackCollects, StartScrollProfile, JankInv
    <3> QED BY <1>1, <3>1, <3>2, CheckSampleIs DEF AppStartSample
  <2>2. AppCollects => AppCollects'
    <3>1. CASE UNCHANGED appCount
      BY <2>0, <3>1 DEF AppCollects
    <3>2. CASE AppStartSample(c)
      BY <1>a, <3>2, AppAlone DEF AppCollects
    <3> QED BY <1>1, <3>1, <3>2, CheckSampleIs
  <2> QED BY <1>k, <2>0, <2>1, <2>2
<1>2. CASE StartProfileMainThread
  <2>0. UNCHANGED <<taskNameSet, finished, pc, cur, isDumpStack, isReuseStack, loaded,
                    job, appCount>>
    BY <1>2 DEF StartProfileMainThread, flagVars, appVars
  <2>1. StackCollects => StackCollects'
    BY <1>2, <2>0 DEF StartProfileMainThread, jankVars, StackCollects, JankInv
  <2>2. AppCollects => AppCollects'
    BY <2>0 DEF AppCollects
  <2> QED BY <1>k, <2>0, <2>1, <2>2
<1>3. CASE InsertSampleTask
  <2>0. UNCHANGED <<finished, pc, cur, isDumpStack, isReuseStack, loaded, appCount,
                    collectCount, scrollCount>>
    BY <1>3, InsertIs DEF flagVars, appVars, jankVars
  <2>1. taskNameSet \subseteq taskNameSet'
    BY <1>3, InsertIs DEF InsertStack, InsertApp, InsertTrace
  <2>2. StackCollects => StackCollects'
    <3>1. Stack \in taskNameSet => job'[Stack] = job[Stack]
      BY <1>3, <1>c, InsertIs DEF InsertStack, InsertApp, InsertTrace, Shape
    <3> QED BY <2>0, <2>1, <3>1 DEF StackCollects
  <2>3. AppCollects => AppCollects'
    <3>1. App \in taskNameSet => job'[App] = job[App]
      BY <1>3, <1>c, InsertIs DEF InsertStack, InsertApp, InsertTrace, Shape
    <3> QED BY <2>0, <2>1, <3>1 DEF AppCollects
  <2> QED BY <1>k, <2>0, <2>1, <2>2, <2>3
<1>4. ASSUME NEW r \in {1, 2}, CheckTaskValid(r) \/ ResetCount(r) \/ StartSample(r)
                                \/ StopSample(r) \/ StopCollect(r)
      PROVE  UnloadInv'
  <2>1. /\ UNCHANGED <<finished, pc, cur, isDumpStack, isReuseStack, loaded, job,
                       appCount, collectCount, scrollCount>>
        /\ taskNameSet \subseteq taskNameSet'
    BY <1>4, <1>a DEF CheckTaskValid, ResetCount, StartSample, StopSample, StopCollect,
       jankVars, appVars, flagVars
  <2> QED BY <1>k, <2>1 DEF StackCollects, AppCollects
<1>5. ASSUME NEW n \in Names, FetchNextTask(n) PROVE UnloadInv'
  <2>0. pc = "fetch" /\ n \in taskNameSet
    BY <1>5 DEF FetchNextTask
  <2>1. CASE n \in finished /\ CheckCurrentTaskLocked(n) /\ n # Trace
    <3>1. ~isDumpStack /\ ~isReuseStack
      BY <1>a, <1>c, <1>u, <2>0, <2>1 DEF StackCollects, AppCollects
    <3>2. taskNameSet' \subseteq {Trace} /\ ~loaded' /\ ~isDumpStack' /\ ~isReuseStack'
      BY <1>a, <2>0, <2>1, <3>1 DEF CheckCurrentTaskLocked
    <3>3. pc' = "fetch" \/ cur' = Trace
      BY <1>5, <2>0, <2>1, <3>2 DEF FetchNextTask, Take
    <3> QED BY <3>2, <3>3 DEF UnloadInv
  <2>3. CASE n \in finished /\ CheckCurrentTaskLocked(n) /\ n = Trace
    <3>1. /\ taskNameSet' = taskNameSet \ {Trace} /\ finished' = finished \ {Trace}
          /\ (loaded' <=> loaded) /\ (isReuseStack' <=> isReuseStack)
          /\ UNCHANGED <<job, isDumpStack, collectCount, scrollCount, appCount>>
      BY <1>c, <2>3 DEF CheckCurrentTaskLocked
    <3>2. pc' # "fetch" => cur' \notin finished'
      BY <1>5, <2>0, <2>3, <3>1 DEF FetchNextTask, Take
    <3>3. /\ StackCollects => StackCollects'
          /\ AppCollects => AppCollects'
      BY <1>c, <3>1 DEF StackCollects, AppCollects
    <3> QED BY <1>c, <1>u, <3>1, <3>2, <3>3 DEF UnloadInv
  <2>2. CASE n \notin finished /\ Take(n)
             /\ UNCHANGED <<taskNameSet, job, finished, jankVars, appVars, flagVars>>
    BY <1>u, <2>2 DEF Take, UnloadInv, StackCollects, AppCollects, jankVars, appVars,
       flagVars
  <2> QED BY <1>5, <2>1, <2>2, <2>3 DEF FetchNextTask
<1>6. CASE RunScroll \/ RunProfile \/ (\E c \in Contents : RunAppStart(c))
  <2>1. /\ pc' = "fetch" /\ cur \in taskNameSet /\ cur \notin finished
        /\ UNCHANGED <<taskNameSet, isReuseStack>> /\ cur # Freeze /\ cur # Trace
    BY <1>6, <1>u, <1>c DEF RunScroll, RunProfile, RunAppStart, Running, Shape
  <2>2. ~isReuseStack
    BY <1>a, <1>c, <1>u, <2>1
  <2>3. isDumpStack' => StackCollects' \/ AppCollects'
    <3>1. CASE RunScroll \/ RunProfile
      <4>1. cur = Stack
        BY <3>1 DEF RunScroll, RunProfile, Running
      <4>2. isDumpStack => StackCollects
        BY <1>a, <1>c, <1>u, <2>1, <4>1 DEF AppCollects
      <4> QED BY <2>1, <3>1, <4>1, <4>2, StackRuns
    <3>2. ASSUME NEW c \in Contents, RunAppStart(c)
          PROVE  isDumpStack' => AppCollects'
      <4>1. cur = App
        BY <3>2 DEF RunAppStart, Running
      <4>2. isDumpStack => AppCollects
        BY <1>a, <1>c, <1>u, <2>1, <4>1 DEF StackCollects
      <4> QED BY <2>1, <3>2, <4>1, <4>2, AppRuns
    <3> QED BY <1>6, <3>1, <3>2
  <2> QED BY <2>1, <2>2, <2>3 DEF UnloadInv
<1>7. CASE RunFreeze \/ FreezeSample
  <2>1. /\ cur = Freeze /\ cur \in taskNameSet /\ cur \notin finished
        /\ UNCHANGED <<taskNameSet, cur>> /\ cur # Trace
    BY <1>7, <1>c, <1>u DEF RunFreeze, FreezeSample, Shape
  <2>2. \/ UNCHANGED finished
        \/ ~isDumpStack' /\ ~isReuseStack' /\ pc' = "fetch"
    BY <1>7 DEF RunFreeze, FreezeSample, ResetFreezeSampleFlags
  <2> QED BY <2>1, <2>2 DEF UnloadInv
<1>8. CASE UNCHANGED vars
  BY <1>8, <1>k DEF vars, jankVars, appVars, flagVars, StackCollects, AppCollects
<1>9. CASE CollectTraceDetect
  BY <1>9, <1>k DEF CollectTraceDetect, jankVars, appVars, flagVars, StackCollects,
     AppCollects
<1>10. CASE RunTrace
  <2>1. /\ UNCHANGED <<taskNameSet, job, isDumpStack, isReuseStack, loaded, collectCount,
                       scrollCount, appCount>>
        /\ finished' \subseteq finished \cup {Trace} /\ finished \subseteq finished'
        /\ pc' = "fetch"
    BY <1>10 DEF RunTrace, Finish, jankVars, appVars, flagVars
  <2> QED BY <1>c, <1>u, <2>1 DEF UnloadInv, StackCollects, AppCollects
<1> QED BY <1>1, <1>2, <1>3, <1>4, <1>5, <1>6, <1>7, <1>8, <1>9, <1>10, Steps

(* LastOneUnloads, for every number of samples: the end of the last session of
   a sampler that is alone leaves the library unloaded and no flag raised. *)
THEOREM LibraryIsUnloaded == Spec => []LastOneUnloads
<1>1. Init => UnloadInv
  BY DEF Init, UnloadInv
<1>2. UnloadInv => LastOneUnloads
  BY DEF UnloadInv, LastOneUnloads, StackCollects, AppCollects, Stack, App, Freeze,
     Trace
<1> QED BY <1>1, <1>2, BaseHolds, UnloadNext, PTL DEF Spec

-----------------------------------------------------------------------------
(* The freeze sampler's steps are not those of a process without it. *)
LEMMA NoFreeze ==
  ASSUME Shape, Freeze \notin active
  PROVE  /\ Freeze \notin taskNameSet
         /\ ~RunFreeze /\ ~FreezeSample
         /\ \A r \in {1, 2} :
              CheckTaskValid(r) \/ ResetCount(r) \/ StartSample(r) \/ StopSample(r)
                \/ StopCollect(r) =>
                  /\ UNCHANGED <<taskNameSet, job, pc, cur, jankVars, appVars, loaded,
                                 dispatch>>
                  /\ finished' = finished \/ finished' = finished \cup {Freeze}
                  /\ isDumpStack' => isDumpStack
<1>1. Freeze \notin taskNameSet
  BY DEF Shape
<1>2. ~RunFreeze /\ ~FreezeSample
  BY <1>1 DEF Shape, RunFreeze, FreezeSample
<1>3. ASSUME NEW r \in {1, 2}
      PROVE  ~CheckTaskValid(r) /\ ~ResetCount(r) /\ ~StartSample(r)
  BY DEF Shape, CheckTaskValid, ResetCount, StartSample, Goes
<1> QED BY <1>1, <1>2, <1>3 DEF StopSample, StopCollect, flagVars,
           ResetFreezeSampleFlags

(* A used-up jank budget is spent no further. *)
LEMMA JankBudgetNext ==
  Shape /\ JankInv /\ AppInv /\ JankBudget /\ [Next]_vars => JankBudget'
<1> SUFFICES ASSUME Shape, JankInv, AppInv, JankBudget, [Next]_vars, Bounded, Bounded'
             PROVE  JankBudget'
  BY ActiveFixed DEF JankBudget, Bounded
<1>c. /\ Stack # App /\ App # Freeze /\ Stack # Freeze /\ Trace \notin {Stack, App, Freeze}
      /\ REPORT_TIMES \in Nat \ {0} /\ SAMPLE_COUNT \in Nat \ {0}
  BY CountsAssumption DEF Stack, App, Freeze, Trace
<1>f. Freeze \notin active /\ ~isReuseStack /\ ~behindTrace /\ ~behindTrace'
  BY DEF Bounded, AppInv
<1>b. /\ reportTimes \in Nat /\ scrollTimes \in Nat
      /\ dispatch = "insertMain" => reportTimes > 0
      /\ dispatch = "insertScroll" => scrollTimes > 0
      /\ Stack \in taskNameSet => JankLeft \/ JankSpent
  BY DEF JankBudget, JankInv
<1>o. Stack \in taskNameSet => ~(Contents \subseteq active)
  BY DEF Bounded, Shape
<1>k. ASSUME UNCHANGED jankVars, Stack \in taskNameSet' => Stack \in taskNameSet,
             Stack \in taskNameSet => job'[Stack] = job[Stack],
             dispatch' = dispatch \/ ~InsertingStack',
             Stack \in taskNameSet' /\ JankSpent => JankSpent'
      PROVE  JankBudget'
  BY <1>k, <1>b DEF JankBudget, JankLeft, InsertingStack, jankVars
<1>1. ASSUME NEW c \in Contents, CheckSample(c) PROVE JankBudget'
  <2>0. UNCHANGED <<taskNameSet, finished, pc, cur, isDumpStack, loaded, job>>
    BY <1>1, CheckSampleIs
  <2>1. CASE AppStartSample(c)
    <3>1. Stack \in taskNameSet => App \notin taskNameSet
      BY <2>1, <1>o, AppAlone
    <3>2. Stack \in taskNameSet /\ JankSpent => JankSpent'
      BY <2>0, <2>1, <3>1 DEF JankSpent, Idles, AppCollects, AppStartSample, jankVars
    <3>3. UNCHANGED jankVars /\ ~InsertingStack'
      BY <2>1 DEF AppStartSample, InsertingStack
    <3> QED BY <1>k, <2>0, <3>2, <3>3
  <2>2. CASE UNCHANGED appCount /\ dispatch' \in {"idle", "profile"}
             /\ UNCHANGED jankVars
    <3>1. JankSpent => JankSpent'
      BY <2>0, <2>2 DEF JankSpent, Idles, AppCollects, jankVars
    <3>2. ~InsertingStack'
      BY <2>2 DEF InsertingStack
    <3> QED BY <1>k, <2>0, <2>2, <3>1, <3>2
  <2>3. CASE StartScrollProfile
    <3>1. /\ Stack \notin taskNameSet' /\ scrollTimes' > 0 /\ scrollTimes' \in Nat
          /\ UNCHANGED reportTimes /\ dispatch' = "insertScroll"
      BY <1>b, <2>0, <2>3 DEF StartScrollProfile, JankInv, Refreshed
    <3> QED BY <1>b, <3>1 DEF JankBudget
  <2> QED BY <1>1, <2>1, <2>2, <2>3, CheckSampleIs
<1>2. CASE StartProfileMainThread
  <2>0. UNCHANGED <<taskNameSet, finished, pc, cur, isDumpStack, loaded, job, appCount>>
    BY <1>2 DEF StartProfileMainThread, flagVars, appVars
  <2>1. CASE dispatch' = "idle" /\ UNCHANGED jankVars
    <3>1. JankSpent => JankSpent'
      BY <2>0, <2>1 DEF JankSpent, Idles, AppCollects, jankVars
    <3> QED BY <1>k, <2>0, <2>1, <3>1 DEF InsertingStack
  <2>2. CASE ~(dispatch' = "idle" /\ UNCHANGED jankVars)
    <3>1. /\ Stack \notin taskNameSet' /\ reportTimes' > 0 /\ reportTimes' \in Nat
          /\ UNCHANGED scrollTimes /\ dispatch' = "insertMain"
      BY <1>2, <1>b, <1>c, <2>0, <2>2 DEF StartProfileMainThread, JankInv, Refreshed
    <3> QED BY <1>b, <3>1 DEF JankBudget
  <2> QED BY <2>1, <2>2
<1>3. CASE InsertSampleTask
  <2>0. UNCHANGED <<finished, pc, cur, isDumpStack, loaded, appCount, jankVars>>
    BY <1>3, InsertIs DEF flagVars, appVars
  <2>1. CASE InsertStack
    <3>0. dispatch' = "idle" /\ Stack \notin taskNameSet /\ InsertingStack
      BY <2>1 DEF InsertStack, JankInv
    <3>1. CASE Stack \notin taskNameSet'
      BY <1>b, <2>0, <3>0, <3>1 DEF JankBudget, jankVars
    <3>2. CASE job' = [job EXCEPT ![Stack] = IF dispatch = "insertMain" THEN "main"
                                             ELSE "scroll"]
      <4>1. job'[Stack] = IF dispatch = "insertMain" THEN "main" ELSE "scroll"
        BY <3>2 DEF Shape
      <4>2. JankLeft'
        BY <1>b, <2>0, <3>0, <4>1 DEF JankLeft, jankVars, InsertingStack
      <4> QED BY <1>b, <2>0, <3>0, <4>2 DEF JankBudget, jankVars
    <3> QED BY <2>1, <3>0, <3>1, <3>2 DEF InsertStack
  <2>2. ASSUME NEW c \in Contents, InsertApp(c) PROVE JankBudget'
    <3>1. /\ Stack \in taskNameSet' <=> Stack \in taskNameSet
          /\ job'[Stack] = job[Stack]
          /\ AppCollects => AppCollects'
      BY <1>c, <2>0, <2>2 DEF InsertApp, Shape, AppCollects
    <3>2. JankSpent => JankSpent'
      BY <2>0, <3>1 DEF JankSpent, Idles, jankVars
    <3>3. ~InsertingStack'
      BY <2>2 DEF InsertApp, InsertingStack
    <3> QED BY <1>k, <2>0, <3>1, <3>2, <3>3
  <2>3. CASE InsertTrace
    <3>1. /\ Stack \in taskNameSet' <=> Stack \in taskNameSet
          /\ App \in taskNameSet => App \in taskNameSet'
          /\ UNCHANGED job /\ ~InsertingStack'
      BY <1>c, <2>3 DEF InsertTrace, InsertingStack
    <3>2. JankSpent => JankSpent'
      BY <2>0, <3>1 DEF JankSpent, Idles, AppCollects, jankVars
    <3> QED BY <1>k, <2>0, <3>1, <3>2
  <2> QED BY <1>3, <2>1, <2>2, <2>3, InsertIs
<1>4. ASSUME NEW r \in {1, 2}, CheckTaskValid(r) \/ ResetCount(r) \/ StartSample(r)
                                \/ StopSample(r) \/ StopCollect(r)
      PROVE  JankBudget'
  <2>1. /\ UNCHANGED <<taskNameSet, job, pc, cur, jankVars, appVars, loaded, dispatch>>
        /\ finished' = finished \/ finished' = finished \cup {Freeze}
        /\ isDumpStack' => isDumpStack
    BY <1>4, <1>f, NoFreeze
  <2>2. JankSpent => JankSpent'
    BY <1>c, <2>1 DEF JankSpent, Idles, AppCollects, jankVars, appVars
  <2> QED BY <1>k, <2>1, <2>2
<1>5. ASSUME NEW n \in Names, FetchNextTask(n) PROVE JankBudget'
  <2>0. pc = "fetch" /\ n \in taskNameSet /\ n \in {Stack, App, Trace}
    BY <1>5, <1>f, NoFreeze DEF FetchNextTask, Names
  <2>1. CASE n \in finished /\ CheckCurrentTaskLocked(n) /\ n # Trace
    <3>0. /\ UNCHANGED <<job, dispatch, detectorCount, collectCount, scrollCount,
                         reportTimes, scrollTimes, isDumpStack>>
          /\ taskNameSet' = taskNameSet \ {n} /\ finished' = finished \ {n}
          /\ loaded' => isDumpStack
      BY <2>1, <1>f DEF CheckCurrentTaskLocked, callerVars
    <3>1. CASE n = Stack
      BY <1>b, <3>0, <3>1 DEF JankBudget
    <3>2. CASE n = App
      <4>1. JankSpent => ~isDumpStack /\ ~loaded'
        BY <2>1, <3>0, <3>2 DEF JankSpent, AppCollects
      <4>2. pc' = "run" => cur' # App
        BY <1>5, <2>0, <2>1, <3>0, <3>2 DEF FetchNextTask, Take
      <4>3. JankSpent => JankSpent'
        BY <1>c, <3>0, <3>2, <4>1, <4>2 DEF JankSpent, Idles
      <4> QED BY <1>b, <1>c, <3>0, <3>2, <4>3 DEF JankBudget, JankLeft
    <3> QED BY <2>0, <2>1, <3>1, <3>2
  <2>2. CASE /\ n \notin finished /\ Take(n)
             /\ UNCHANGED <<taskNameSet, job, finished, jankVars, appVars, flagVars,
                            callerVars>>
    <3>1. JankSpent => JankSpent'
      BY <1>c, <2>2 DEF JankSpent, Idles, AppCollects, Take, jankVars, appVars, flagVars
    <3> QED BY <1>k, <2>2, <3>1 DEF callerVars
  <2>3. CASE n \in finished /\ CheckCurrentTaskLocked(n) /\ n = Trace
    <3>0. /\ UNCHANGED <<job, dispatch, collectCount, scrollCount, reportTimes,
                         scrollTimes, appCount, appTimes, isDumpStack>>
          /\ taskNameSet' = taskNameSet \ {Trace} /\ finished' = finished \ {Trace}
          /\ (loaded' <=> loaded)
      BY <1>c, <2>3 DEF CheckCurrentTaskLocked
    <3>1. pc' = "fetch" \/ cur' \notin finished
      BY <1>5, <1>f, <2>0, <2>3, <3>0 DEF FetchNextTask, Take
    <3>2. JankSpent => JankSpent'
      BY <1>c, <3>0, <3>1 DEF JankSpent, Idles, AppCollects
    <3> QED BY <1>b, <1>c, <3>0, <3>2 DEF JankBudget, JankLeft
  <2> QED BY <1>5, <2>1, <2>2, <2>3 DEF FetchNextTask
<1>6. CASE RunScroll
  <2>0. /\ UNCHANGED <<taskNameSet, job, reportTimes, collectCount, dispatch, appCount>>
        /\ Stack \in taskNameSet /\ job[Stack] = "scroll" /\ pc' = "fetch"
        /\ pc = "run" /\ cur = Stack
        /\ finished' \in {finished, finished \cup {Stack}}
    BY <1>6 DEF RunScroll, Running, Shape, appVars, callerVars, Finish
  <2>1. CASE JankSpent /\ ~JankLeft
    <3>1. ~loaded /\ scrollCount > 0
      BY <2>0, <2>1 DEF JankSpent, Idles
    <3>2. UNCHANGED <<isDumpStack, scrollCount, scrollTimes>>
      <4>1. scrollCount # 0
        BY <3>1
      <4>2. ~CanSample(scrollCount = 0)
        BY <3>1, <4>1 DEF CanSample
      <4> QED BY <1>6, <4>2 DEF RunScroll
    <3>3. AppCollects => AppCollects'
      BY <1>c, <2>0 DEF AppCollects
    <3>4. JankSpent'
      BY <2>0, <2>1, <3>2, <3>3 DEF JankSpent, Idles
    <3> QED BY <1>b, <2>0, <3>2, <3>4 DEF JankBudget
  <2>2. CASE JankLeft
    <3>0. scrollTimes > 0
      BY <2>0, <2>2 DEF JankLeft
    <3>1. CASE UNCHANGED scrollTimes
      BY <1>b, <2>0, <3>0, <3>1 DEF JankBudget, JankLeft
    <3>2. CASE /\ scrollCount > 0 /\ scrollTimes' = Spend(scrollTimes)
               /\ isDumpStack' = FALSE /\ Finish(Stack) /\ UNCHANGED scrollCount
      <4>1. JankSpent'
        BY <2>0, <3>2 DEF JankSpent, Idles, Finish
      <4>2. ~InsertingStack
        BY <2>0 DEF JankInv
      <4>3. scrollTimes' >= 0
        BY <1>b, <3>0, <3>2 DEF Spend
      <4> QED BY <1>b, <2>0, <4>1, <4>2, <4>3 DEF JankBudget, InsertingStack
    <3> QED BY <1>6, <3>1, <3>2 DEF RunScroll
  <2> QED BY <1>b, <2>0, <2>1, <2>2
<1>7. CASE RunProfile
  <2>0. /\ UNCHANGED <<taskNameSet, job, scrollTimes, scrollCount, dispatch, appCount>>
        /\ Stack \in taskNameSet /\ job[Stack] = "main" /\ pc' = "fetch"
        /\ pc = "run" /\ cur = Stack
    BY <1>7 DEF RunProfile, Running, Shape, appVars, callerVars
  <2>1. CASE JankSpent /\ ~JankLeft
    <3>1. ~loaded /\ ~FirstDetection
      BY <2>0, <2>1 DEF JankSpent, Idles, FirstDetection
    <3>2. UNCHANGED <<isDumpStack, collectCount, reportTimes>> /\ Finish(Stack)
      BY <1>7, <3>1, SampleIs DEF RunProfile
    <3>3. AppCollects => AppCollects'
      BY <1>c, <2>0, <3>2 DEF AppCollects, Finish
    <3>4. JankSpent'
      BY <2>0, <2>1, <3>2, <3>3 DEF JankSpent, Idles, Finish
    <3> QED BY <1>b, <2>0, <3>2, <3>4 DEF JankBudget
  <2>2. CASE JankLeft
    <3>0. reportTimes > 0
      BY <2>0, <2>2 DEF JankLeft
    <3>1. CASE UNCHANGED reportTimes
      BY <1>b, <2>0, <3>0, <3>1 DEF JankBudget, JankLeft
    <3>2. CASE ProfileReport
      <4>1. JankSpent'
        BY <1>c, <2>0, <3>2 DEF JankSpent, Idles, Finish, ProfileReport
      <4>2. ~InsertingStack
        BY <2>0 DEF JankInv
      <4>3. reportTimes' >= 0
        BY <1>b, <3>0, <3>2 DEF Spend, ProfileReport
      <4> QED BY <1>b, <2>0, <4>1, <4>2, <4>3 DEF JankBudget, InsertingStack
    <3> QED BY <1>7, <3>1, <3>2 DEF RunProfile, ProfileDetect, ProfileCollect
  <2> QED BY <1>b, <2>0, <2>1, <2>2
<1>8. ASSUME NEW c \in Contents, RunAppStart(c) PROVE JankBudget'
  <2>0. /\ UNCHANGED <<taskNameSet, job, jankVars, dispatch>>
        /\ pc = "run" /\ cur = App /\ pc' = "fetch"
        /\ Stack \in finished => Stack \in finished'
    BY <1>8 DEF RunAppStart, Running, callerVars, Finish
  <2>1. JankSpent => (isDumpStack' => AppCollects')
    BY <1>8, <2>0, AppRuns DEF JankSpent
  <2>2. JankSpent => JankSpent'
    BY <2>0, <2>1 DEF JankSpent, Idles, jankVars
  <2> QED BY <1>k, <2>0, <2>2
<1>9. CASE UNCHANGED vars
  BY <1>9, <1>k DEF vars, callerVars, appVars, flagVars, jankVars, JankSpent, Idles,
     AppCollects
<1>10. CASE CollectTraceDetect
  <2>1. UNCHANGED <<taskNameSet, finished, pc, cur, isDumpStack, loaded, job, appCount,
                    jankVars>> /\ ~InsertingStack'
    BY <1>10 DEF CollectTraceDetect, appVars, flagVars, InsertingStack
  <2>2. JankSpent => JankSpent'
    BY <2>1 DEF JankSpent, Idles, AppCollects, jankVars
  <2> QED BY <1>k, <2>1, <2>2
<1>11. CASE RunTrace
  <2>1. /\ UNCHANGED <<taskNameSet, isDumpStack, loaded, job, appCount, jankVars,
                       dispatch>>
        /\ finished' \in {finished, finished \cup {Trace}} /\ pc' = "fetch"
    BY <1>11 DEF RunTrace, Finish, appVars, flagVars, callerVars
  <2>2. JankSpent => JankSpent'
    BY <1>c, <2>1 DEF JankSpent, Idles, AppCollects, jankVars
  <2> QED BY <1>k, <2>1, <2>2
<1> QED BY <1>1, <1>2, <1>3, <1>4, <1>5, <1>6, <1>7, <1>8, <1>9, <1>10, <1>11, <1>f,
           NoFreeze, Steps

(* A used-up slow-start budget is spent no further. *)
LEMMA AppBudgetNext ==
  Shape /\ JankInv /\ AppInv /\ AppBudget /\ [Next]_vars => AppBudget'
<1> SUFFICES ASSUME Shape, JankInv, AppInv, AppBudget, [Next]_vars, Bounded, Bounded'
             PROVE  AppBudget'
  BY ActiveFixed DEF AppBudget, Bounded
<1>c. /\ Stack # App /\ App # Freeze /\ Stack # Freeze /\ Trace \notin {Stack, App, Freeze}
      /\ TARGET_COUNT \in Nat \ {0}
  BY CountsAssumption DEF Stack, App, Freeze, Trace
<1>f. /\ Freeze \notin active /\ ~isReuseStack /\ UNCHANGED active
      /\ ~behindTrace /\ ~behindTrace'
  BY ActiveFixed DEF Bounded, AppInv
<1>b. /\ \A c \in Contents : appTimes[c] \in Nat
      /\ \A c \in Contents : InsertingApp(c) => appTimes[c] > 0 \/ AppStale(c)
      /\ App \in taskNameSet => appTimes[job[App]] > 0 \/ AppSpent
      /\ job[App] \in Contents
  BY DEF AppBudget, Shape
<1>o. Stack \in active => ~(Contents \subseteq active)
  BY DEF Bounded
<1>k. ASSUME UNCHANGED appTimes, App \in taskNameSet' => App \in taskNameSet,
             App \in taskNameSet => job'[App] = job[App],
             \A c \in Contents :
               InsertingApp(c)' => \/ appTimes[c] > 0
                                   \/ InsertingApp(c) /\ (AppStale(c) => AppStale(c)'),
             App \in taskNameSet' /\ AppSpent /\ ~(appTimes[job[App]] > 0) => AppSpent'
      PROVE  AppBudget'
  BY <1>k, <1>b DEF AppBudget
<1>1. ASSUME NEW c \in Contents, CheckSample(c) PROVE AppBudget'
  <2>0. /\ UNCHANGED <<taskNameSet, finished, pc, cur, isDumpStack, loaded, job>>
    BY <1>1, CheckSampleIs
  <2>1. CASE AppStartSample(c)
    <3>1. /\ appTimes[c] > 0 /\ UNCHANGED <<appTimes, collectCount, scrollCount>>
          /\ \A d \in Contents : d # c => appCount'[d] = appCount[d]
          /\ \A d \in Contents : InsertingApp(d)' => d = c
      BY <2>1 DEF AppStartSample, jankVars, Shape, InsertingApp, Contents
    <3>2. StackCollects => StackCollects'
      BY <2>0, <3>1 DEF StackCollects
    <3>3. AppSpent /\ ~(appTimes[job[App]] > 0) => AppSpent'
      BY <1>b, <1>f, <2>0, <3>1, <3>2 DEF AppSpent, Idles
    <3> QED BY <1>k, <2>0, <3>1, <3>3
  <2>2. CASE UNCHANGED <<appEnabled, appCount, appTimes>>
             /\ dispatch' \in {"idle", "profile", "insertScroll"}
             /\ (UNCHANGED jankVars \/ StartScrollProfile)
    <3>1. StackCollects => StackCollects'
      BY <2>0, <2>2 DEF StackCollects, jankVars, StartScrollProfile, JankInv
    <3>2. AppSpent => AppSpent'
      BY <1>f, <2>0, <2>2, <3>1 DEF AppSpent, Idles
    <3>3. \A d \in Contents : ~InsertingApp(d)'
      BY <2>2 DEF InsertingApp
    <3> QED BY <1>k, <2>0, <2>2, <3>2, <3>3
  <2> QED BY <1>1, <2>1, <2>2, CheckSampleIs DEF StartScrollProfile
<1>2. CASE StartProfileMainThread
  <2>0. /\ UNCHANGED <<taskNameSet, finished, pc, cur, isDumpStack, loaded, job,
                       appCount, appTimes>>
    BY <1>2 DEF StartProfileMainThread, flagVars, appVars
  <2>1. StackCollects => StackCollects'
    BY <1>2, <2>0 DEF StartProfileMainThread, StackCollects, jankVars, JankInv
  <2>2. AppSpent => AppSpent'
    BY <1>f, <2>0, <2>1 DEF AppSpent, Idles
  <2>3. \A d \in Contents : ~InsertingApp(d)'
    BY <1>2 DEF StartProfileMainThread, InsertingApp
  <2> QED BY <1>k, <2>0, <2>2, <2>3
<1>3. CASE InsertSampleTask
  <2>0. /\ UNCHANGED <<finished, pc, cur, isDumpStack, loaded, appCount, appTimes,
                       collectCount, scrollCount>>
        /\ \A d \in Contents : ~InsertingApp(d)'
    BY <1>3, InsertIs DEF flagVars, appVars, jankVars, InsertStack, InsertApp,
       InsertTrace, InsertingApp
  <2>1. StackCollects => StackCollects'
    <3>1. Stack \in taskNameSet => Stack \in taskNameSet' /\ job'[Stack] = job[Stack]
      BY <1>3, <1>c, InsertIs DEF InsertStack, InsertApp, InsertTrace, Shape
    <3> QED BY <2>0, <3>1 DEF StackCollects
  <2>2. CASE /\ App \in taskNameSet' <=> App \in taskNameSet
             /\ job'[App] = job[App]
    <3>1. AppSpent => AppSpent'
      BY <1>f, <2>0, <2>1, <2>2 DEF AppSpent, Idles
    <3> QED BY <1>k, <2>0, <2>2, <3>1
  <2>3. ASSUME NEW c \in Contents, InsertingApp(c), App \notin taskNameSet,
               job'[App] = c
        PROVE  AppBudget'
    <3>1. CASE appTimes[c] > 0
      BY <1>b, <2>0, <2>3, <3>1 DEF AppBudget
    <3>2. CASE AppStale(c)
      <4>1. Stack \notin taskNameSet
        BY <3>2 DEF AppStale, Shape
      <4>2. AppSpent'
        BY <1>f, <2>0, <2>3, <3>2, <4>1 DEF AppStale, AppSpent, Idles, Shape
      <4> QED BY <1>b, <2>0, <4>2 DEF AppBudget
    <3> QED BY <1>b, <2>3, <3>1, <3>2
  <2>4. \/ /\ App \in taskNameSet' <=> App \in taskNameSet
           /\ job'[App] = job[App]
        \/ \E c \in Contents :
             InsertingApp(c) /\ App \notin taskNameSet /\ job'[App] = c
    BY <1>3, <1>c, InsertIs DEF InsertStack, InsertApp, InsertTrace, Shape
  <2> QED BY <2>2, <2>3, <2>4
<1>4. ASSUME NEW r \in {1, 2}, CheckTaskValid(r) \/ ResetCount(r) \/ StartSample(r)
                                \/ StopSample(r) \/ StopCollect(r)
      PROVE  AppBudget'
  <2>1. /\ UNCHANGED <<taskNameSet, job, pc, cur, appCount, appTimes, collectCount,
                       scrollCount, loaded, dispatch>>
        /\ finished' = finished \/ finished' = finished \cup {Freeze}
        /\ isDumpStack' => isDumpStack
    BY <1>4, <1>f, NoFreeze DEF jankVars, appVars
  <2>2. AppSpent => AppSpent'
    BY <1>c, <1>f, <2>1 DEF AppSpent, Idles, StackCollects
  <2>3. \A c \in Contents : AppStale(c) => AppStale(c)'
    BY <1>c, <1>f, <2>1 DEF AppStale
  <2>4. \A c \in Contents : InsertingApp(c)' => InsertingApp(c)
    BY <2>1 DEF InsertingApp
  <2> QED BY <1>k, <2>1, <2>2, <2>3, <2>4
<1>5. ASSUME NEW n \in Names, FetchNextTask(n) PROVE AppBudget'
  <2>0. pc = "fetch" /\ n \in taskNameSet /\ n \in {Stack, App, Trace}
    BY <1>5, <1>f, NoFreeze DEF FetchNextTask, Names
  <2>1. CASE n \in finished /\ CheckCurrentTaskLocked(n) /\ n # Trace
    <3>0. /\ UNCHANGED <<job, dispatch, collectCount, scrollCount, appCount, appTimes,
                         isDumpStack>>
          /\ taskNameSet' = taskNameSet \ {n} /\ finished' = finished \ {n}
          /\ loaded' => isDumpStack /\ loaded
      BY <2>1, <1>f DEF CheckCurrentTaskLocked, callerVars
    <3>1. \A c \in Contents : InsertingApp(c)' => InsertingApp(c)
      BY <3>0 DEF InsertingApp
    <3>2. CASE n = App
      <4>1. \A c \in Contents : AppStale(c) => AppStale(c)'
        BY <1>f, <3>0, <3>2 DEF AppStale
      <4> QED BY <1>k, <3>0, <3>1, <3>2, <4>1
    <3>3. CASE n = Stack
      <4>1. Stack \in active
        BY <2>0, <3>3 DEF Shape
      <4>2. AppSpent => ~isDumpStack /\ ~loaded'
        BY <2>1, <3>0, <3>3 DEF AppSpent, StackCollects
      <4>3. pc' = "run" => cur' # Stack
        BY <1>5, <2>0, <2>1, <3>0, <3>3 DEF FetchNextTask, Take
      <4>4. AppSpent => AppSpent'
        BY <1>c, <1>f, <3>0, <3>3, <4>1, <4>2, <4>3 DEF AppSpent, Idles
      <4> QED BY <1>k, <1>b, <3>0, <3>1, <4>1, <4>4 DEF AppStale
    <3> QED BY <2>0, <2>1, <3>2, <3>3
  <2>2. CASE /\ n \notin finished /\ Take(n)
             /\ UNCHANGED <<taskNameSet, job, finished, jankVars, appVars, flagVars,
                            callerVars>>
    <3>0. /\ UNCHANGED <<taskNameSet, job, finished, collectCount, scrollCount, appCount,
                         appTimes, isDumpStack, loaded, dispatch>>
          /\ pc' = "run" /\ cur' = n
      BY <2>2 DEF Take, jankVars, appVars, flagVars, callerVars
    <3>1. AppSpent => AppSpent'
      BY <1>c, <1>f, <2>2, <3>0 DEF AppSpent, Idles, StackCollects
    <3>2. \A c \in Contents : AppStale(c) => AppStale(c)'
      BY <1>f, <3>0 DEF AppStale
    <3>3. \A c \in Contents : InsertingApp(c)' => InsertingApp(c)
      BY <3>0 DEF InsertingApp
    <3> QED BY <1>k, <3>0, <3>1, <3>2, <3>3
  <2>3. CASE n \in finished /\ CheckCurrentTaskLocked(n) /\ n = Trace
    <3>0. /\ UNCHANGED <<job, dispatch, collectCount, scrollCount, reportTimes,
                         scrollTimes, appCount, appTimes, isDumpStack>>
          /\ taskNameSet' = taskNameSet \ {Trace} /\ finished' = finished \ {Trace}
          /\ (loaded' <=> loaded)
      BY <1>c, <2>3 DEF CheckCurrentTaskLocked
    <3>1. pc' = "fetch" \/ cur' \notin finished
      BY <1>5, <1>f, <2>0, <2>3, <3>0 DEF FetchNextTask, Take
    <3>2. AppSpent => AppSpent'
      BY <1>c, <1>f, <3>0, <3>1 DEF AppSpent, Idles, StackCollects
    <3>3. \A c \in Contents : AppStale(c) => AppStale(c)'
      BY <1>c, <1>f, <3>0 DEF AppStale
    <3>4. \A c \in Contents : InsertingApp(c)' => InsertingApp(c)
      BY <3>0 DEF InsertingApp
    <3> QED BY <1>c, <1>k, <3>0, <3>2, <3>3, <3>4
  <2> QED BY <1>5, <2>1, <2>2, <2>3 DEF FetchNextTask
<1>6. CASE RunScroll \/ RunProfile
  <2>0. /\ UNCHANGED <<taskNameSet, job, appCount, appTimes, dispatch>>
        /\ pc = "run" /\ cur = Stack /\ pc' = "fetch" /\ Stack \in active
    BY <1>6 DEF RunScroll, RunProfile, Running, Shape, appVars, callerVars
  <2>1. finished \subseteq finished'
    BY <1>6 DEF RunScroll, RunProfile, ProfileDetect, ProfileCollect, ProfileReport,
       Finish
  <2>2. AppSpent => (isDumpStack' => StackCollects')
    BY <1>6, <2>0, StackRuns DEF AppSpent
  <2>3. AppSpent => AppSpent'
    BY <1>f, <2>0, <2>1, <2>2 DEF AppSpent, Idles
  <2>4. \A c \in Contents : ~AppStale(c) /\ (InsertingApp(c)' => InsertingApp(c))
    BY <2>0 DEF AppStale, InsertingApp
  <2> QED BY <1>b, <1>k, <2>0, <2>3, <2>4
<1>7. ASSUME NEW c \in Contents, RunAppStart(c) PROVE AppBudget'
  <2>0. /\ UNCHANGED <<taskNameSet, job, dispatch>> /\ job[App] = c
        /\ pc = "run" /\ cur = App /\ pc' = "fetch" /\ App \in taskNameSet
        /\ finished' \in {finished, finished \cup {App}}
        /\ \A d \in Contents : InsertingApp(d)' <=> InsertingApp(d)
    BY <1>7 DEF RunAppStart, Running, callerVars, Finish, Shape, InsertingApp
  <2>t. appTimes \in [Contents -> Int] /\ appCount \in [Contents -> Nat]
    BY DEF Shape
  <2>1. CASE ~(appTimes[c] > 0)
    <3>1. ~loaded /\ appCount[c] > 0 /\ AppSpent
      BY <1>b, <2>0, <2>1 DEF AppSpent, Idles
    <3>2. ~CanSample(appCount[c] = 0)
      <4>1. appCount[c] # 0
        BY <3>1
      <4> QED BY <3>1, <4>1 DEF CanSample
    <3>3. /\ CannotSample(appCount[c] = 0) /\ Finish(App)
          /\ isDumpStack' => appCount[c] = 0
          /\ UNCHANGED <<appCount, appTimes>>
      BY <1>7, <3>2 DEF RunAppStart
    <3>4. ~isDumpStack' /\ ~loaded'
      <4>1. appCount[c] # 0
        BY <3>1
      <4> QED BY <3>1, <3>3, <4>1, SampleIs
    <3>5. AppSpent'
      BY <1>f, <2>0, <3>1, <3>3, <3>4 DEF AppSpent, Idles, Finish
    <3>6. \A d \in Contents : AppStale(d) => AppStale(d)'
      BY <1>f, <2>0, <3>3, <3>4 DEF AppStale, Finish
    <3> QED BY <1>k, <2>0, <3>3, <3>5, <3>6
  <2>2. CASE appTimes[c] > 0 /\ UNCHANGED appTimes
    <3>1. \A d \in Contents : InsertingApp(d) => appTimes[d] > 0 \/ AppStale(d)'
      <4>1. ASSUME NEW d \in Contents, AppStale(d), ~(appTimes[d] > 0) PROVE FALSE
        BY <2>0, <2>2, <4>1 DEF AppStale
      <4> QED BY <1>b, <4>1
    <3> QED BY <1>b, <2>0, <2>2, <3>1 DEF AppBudget
  <2>3. CASE /\ appTimes[c] > 0
             /\ appCount[c] >= TARGET_COUNT
             /\ \E times \in {appTimes[c], Spend(appTimes[c])} :
                  appTimes' = [appTimes EXCEPT ![c] = times]
             /\ isDumpStack' = FALSE
             /\ Finish(App)
             /\ UNCHANGED appCount
    <3>1. /\ \A d \in Contents : d # c => appTimes'[d] = appTimes[d]
          /\ appTimes'[c] >= 0
      BY <2>3, <2>t DEF Spend
    <3>2. appCount[c] > 0
      BY <1>c, <2>3, <2>t
    <3>3. AppSpent'
      BY <2>0, <2>3, <3>2 DEF AppSpent, Idles, Finish
    <3>4. InsertingApp(c) => AppStale(c)'
      <4>1. InsertingApp(c) => Stack \notin active
        BY <1>o, <2>0 DEF AppInv
      <4> QED BY <1>f, <2>0, <2>3, <3>2, <4>1 DEF AppStale, Finish
    <3>5. \A d \in Contents : InsertingApp(d)' => appTimes'[d] > 0 \/ AppStale(d)'
      <4>1. ASSUME NEW d \in Contents, d # c, InsertingApp(d) PROVE appTimes[d] > 0
        BY <1>b, <2>0, <4>1 DEF AppStale
      <4> QED BY <2>0, <3>1, <3>4, <4>1
    <3> QED BY <1>b, <3>1, <3>3, <3>5 DEF AppBudget
  <2> QED BY <1>7, <2>1, <2>2, <2>3 DEF RunAppStart
<1>8. CASE UNCHANGED vars
  <2>1. UNCHANGED <<taskNameSet, job, finished, pc, cur, collectCount, scrollCount,
                    appCount, appTimes, isDumpStack, loaded, dispatch>>
    BY <1>8 DEF vars, callerVars, appVars, flagVars, jankVars
  <2>2. AppSpent => AppSpent'
    BY <1>f, <2>1 DEF AppSpent, Idles, StackCollects
  <2>3. \A c \in Contents : AppStale(c) => AppStale(c)'
    BY <1>f, <2>1 DEF AppStale
  <2>4. \A c \in Contents : InsertingApp(c)' => InsertingApp(c)
    BY <2>1 DEF InsertingApp
  <2> QED BY <1>k, <2>1, <2>2, <2>3, <2>4
<1>9. CASE CollectTraceDetect
  <2>1. /\ UNCHANGED <<taskNameSet, finished, pc, cur, isDumpStack, loaded, job,
                       appCount, appTimes, collectCount, scrollCount>>
        /\ \A d \in Contents : ~InsertingApp(d)'
    BY <1>9 DEF CollectTraceDetect, appVars, jankVars, flagVars, InsertingApp
  <2>2. AppSpent => AppSpent'
    BY <1>f, <2>1 DEF AppSpent, Idles, StackCollects
  <2> QED BY <1>k, <2>1, <2>2
<1>10. CASE RunTrace
  <2>1. /\ UNCHANGED <<taskNameSet, isDumpStack, loaded, job, appCount, appTimes,
                       collectCount, scrollCount, dispatch>>
        /\ finished' \in {finished, finished \cup {Trace}} /\ pc' = "fetch"
    BY <1>10 DEF RunTrace, Finish, appVars, jankVars, flagVars, callerVars
  <2>2. AppSpent => AppSpent'
    BY <1>c, <1>f, <2>1 DEF AppSpent, Idles, StackCollects
  <2>3. \A c \in Contents : AppStale(c) => AppStale(c)'
    BY <1>c, <1>f, <2>1 DEF AppStale
  <2>4. \A c \in Contents : InsertingApp(c)' => InsertingApp(c)
    BY <2>1 DEF InsertingApp
  <2> QED BY <1>k, <2>1, <2>2, <2>3, <2>4
<1> QED BY <1>1, <1>2, <1>3, <1>4, <1>5, <1>6, <1>7, <1>8, <1>9, <1>10, <1>f, NoFreeze,
           Steps

(* BudgetKept, for every number of samples and of reports: no session spends a
   budget that is used up, though the thread may run a finished sampler once
   more. *)
THEOREM BudgetIsKept == Spec => []BudgetKept
<1>1. Init => JankBudget /\ AppBudget
  <2>1. REPORT_TIMES \in Nat \ {0}
    BY CountsAssumption
  <2>2. Init => JankBudget
    BY <2>1 DEF Init, JankBudget
  <2>3. Init => AppBudget
    BY <2>1 DEF Init, AppBudget, InsertingApp
  <2> QED BY <2>2, <2>3
<1>2. JankBudget /\ AppBudget => BudgetKept
  BY DEF JankBudget, AppBudget, BudgetKept, Bounded
<1> QED BY <1>1, <1>2, BaseHolds, JankBudgetNext, AppBudgetNext, PTL DEF Spec

=============================================================================
