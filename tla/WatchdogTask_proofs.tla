------------------------- MODULE WatchdogTask_proofs -------------------------
(***************************************************************************)
(* Proofs about WatchdogTask.  A behaviour of the task is one of each of   *)
(* its five parts, of which four stand still; a property of a part is      *)
(* proved from the part's own specification.                               *)
(***************************************************************************)
EXTENDS WatchdogTask, Sequences, FiniteSetTheorems, TLAPS

-----------------------------------------------------------------------------
(* Each part's specification follows from that of the task: Run goes one way,
   and the others stand still. *)
LEMMA PartsInit ==
  Init => Handler!Init /\ Count!Init /\ Binder!Init /\ Timeout!Init /\ Trace!Init
BY DEF Init

(* A step of the task is one of each part, or leaves that part alone. *)
LEMMA PartsNext ==
  [Next]_vars =>
    /\ [Handler!Next]_(Handler!vars)
    /\ [Count!Next]_(Count!vars)
    /\ [Binder!Next]_(Binder!vars)
    /\ [Timeout!Next]_(Timeout!vars)
    /\ [Trace!Next]_(Trace!vars)
<1> SUFFICES ASSUME [Next]_vars
             PROVE  /\ [Handler!Next]_(Handler!vars)
                    /\ [Count!Next]_(Count!vars)
                    /\ [Binder!Next]_(Binder!vars)
                    /\ [Timeout!Next]_(Timeout!vars)
                    /\ [Trace!Next]_(Trace!vars)
  OBVIOUS
<1>1. UNCHANGED handlerVars => UNCHANGED Handler!vars
  BY DEF handlerVars, Handler!vars, Handler!checkerVars, Handler!memoryVars
<1>2. UNCHANGED countVars => UNCHANGED Count!vars
  BY DEF countVars, Count!vars, Count!history
<1>3. UNCHANGED binderVars => UNCHANGED Binder!vars
  BY DEF binderVars, Binder!vars
<1>4. UNCHANGED timeoutVars => UNCHANGED Timeout!vars
  BY DEF timeoutVars, Timeout!vars
<1>5. UNCHANGED traceVars => UNCHANGED Trace!vars
  BY DEF traceVars, Trace!vars, Trace!contentVars, Trace!historyVars
<1> QED BY <1>1, <1>2, <1>3, <1>4, <1>5
        DEF Next, vars, RunHandlerCheckerTask, TimerCountTask, AsyncBinderSpace,
            DoCallback, DumpTraceTask

-----------------------------------------------------------------------------
(* Part one, the watched handler.  postLag and age say when the check was
   posted; a look at it moves the next tick on by one interval. *)
LookedAt == taskSlow /\ pc = "wait"

HandlerInv ==
  /\ lag \in Int
  /\ age \in 0 .. 2 * CheckInterval
  /\ postLag \in Nat
  /\ pc = "schedule" => lag >= 0
  /\ taskSlow => report \in {"warning", "block"}
  /\ ~isCompleted =>
       \/ age = 2 * CheckInterval
       \/ age + postLag >= lag + CheckInterval
                           + (IF LookedAt THEN CheckInterval ELSE 0)

(* The interval of the checks. *)
LEMMA IntervalType == CheckInterval \in Nat \ {0}
BY TaskAssumption DEF Handler!IntervalAssumption

(* The first check has not been posted yet. *)
LEMMA HandlerInit == Handler!Init => HandlerInv
BY IntervalType DEF Handler!Init, HandlerInv, LookedAt

(* Every step of the watched handler and its task keeps the invariant. *)
LEMMA HandlerNext == HandlerInv /\ [Handler!Next]_(Handler!vars) => HandlerInv'
<1> SUFFICES ASSUME HandlerInv, [Handler!Next]_(Handler!vars) PROVE HandlerInv'
  OBVIOUS
<1> USE IntervalType DEF HandlerInv, LookedAt
<1>t. Handler!ResetThreshold \in Nat
  BY TaskAssumption DEF Handler!ResetThreshold, Handler!IntervalAssumption
<1>1. CASE Handler!Elapse
  BY <1>1, <1>t DEF Handler!Elapse, Handler!Saturate, Handler!MaxAge,
     Handler!checkerVars
<1>2. CASE Handler!CheckTask
  BY <1>2 DEF Handler!CheckTask
<1>3. CASE Handler!Hang
  BY <1>3 DEF Handler!Hang, Handler!checkerVars
<1>4. CASE Handler!RunLate
  BY <1>4, <1>t DEF Handler!RunLate, Handler!checkerVars
<1>5. CASE Handler!SleepThrough
  BY <1>5 DEF Handler!SleepThrough, Handler!checkerVars
<1>6. CASE Handler!Evaluate
  <2>1. /\ UNCHANGED <<lag, isCompleted, age, postLag>> /\ lag >= 0 /\ pc' # "wait"
    BY <1>6 DEF Handler!Evaluate, Handler!ResetThreshold, Handler!EvaluateCompleted,
       Handler!HandleWaitedHalfState, Handler!HandleWaitedFullState,
       Handler!KillPeerBinderProcess
  <2>2. taskSlow' => report' \in {"warning", "block"}
    BY <1>6 DEF Handler!Evaluate, Handler!EvaluateCompleted,
       Handler!HandleWaitedHalfState, Handler!HandleWaitedFullState
  <2> QED BY <2>1, <2>2
<1>7. CASE Handler!ScheduleCheck
  <2>1. pc = "schedule" /\ pc' = "wait" /\ lag' = lag - CheckInterval /\ lag >= 0
    BY <1>7 DEF Handler!ScheduleCheck
  <2>2. CASE ~isCompleted /\ UNCHANGED <<isCompleted, taskSlow, age, postLag, report>>
    BY <2>1, <2>2
  <2>3. CASE /\ isCompleted' = FALSE /\ taskSlow' = FALSE
             /\ age' = 0 /\ postLag' = lag /\ report' = "none"
    BY <2>1, <2>3
  <2> QED BY <1>7, <2>2, <2>3 DEF Handler!ScheduleCheck, Handler!checkerVars
<1>8. CASE UNCHANGED Handler!vars
  BY <1>8 DEF Handler!vars, Handler!checkerVars
<1> QED BY <1>1, <1>2, <1>3, <1>4, <1>5, <1>6, <1>7, <1>8 DEF Handler!Next

(* BlockEarned, for every interval and every kind of task: WatchdogTask
   reports a block only of a check that it warned about at an earlier tick,
   that is still not executed, and that is two intervals old, less the delay
   of the tick that posted it. *)
THEOREM BlockIsEarned == Spec => BlockEarned
<1> DEFINE Earned == report' = "block" /\ report # "block" =>
                       /\ ~isCompleted
                       /\ report = "warning"
                       /\ age + postLag >= 2 * CheckInterval
<1>1. HandlerInv /\ [Handler!Next]_(Handler!vars) => [Earned]_(Handler!vars)
  <2> SUFFICES ASSUME HandlerInv, Handler!Next, report' = "block", report # "block"
               PROVE  /\ ~isCompleted
                      /\ report = "warning"
                      /\ age + postLag >= 2 * CheckInterval
    OBVIOUS
  <2>1. Handler!Evaluate /\ Handler!HandleWaitedFullState
    BY DEF Handler!Next, Handler!Elapse, Handler!CheckTask, Handler!Hang,
       Handler!SleepThrough, Handler!RunLate, Handler!Evaluate,
       Handler!ScheduleCheck, Handler!EvaluateCompleted, Handler!HandleWaitedHalfState
  <2>2. ~isCompleted /\ taskSlow /\ pc = "wait" /\ lag >= 0
    BY <2>1 DEF Handler!Evaluate, Handler!HandleWaitedFullState,
       Handler!GetCheckState, Handler!ResetThreshold
  <2> QED BY <2>2, IntervalType DEF HandlerInv, LookedAt
<1>2. Init => HandlerInv
  BY PartsInit, HandlerInit
<1>3. HandlerInv /\ [Next]_vars => HandlerInv' /\ [Earned]_(Handler!vars)
  BY <1>1, PartsNext, HandlerNext
<1> QED BY <1>2, <1>3, PTL DEF Spec, BlockEarned, Handler!BlockEarned

-----------------------------------------------------------------------------
(* Part two, the asynchronous binder space.  The count of the code never runs
   ahead of the looks in a row, and half of it was not passed without the
   warning that the task asks for. *)
Half == binderTask.count \div 2
Whole == Binder!LastCount

BinderInv ==
  /\ binderTask \in Binder!BinderTask
  /\ reportCount \in Nat
  /\ looks \in 0 .. Whole
  /\ reportCount <= looks
  /\ reportCount < Whole
  /\ Binder!Warns /\ reportCount >= Half => warned

(* A task's count is two at least, and its multiple twice as much. *)
LEMMA BinderCounts ==
  ASSUME binderTask \in Binder!BinderTask
  PROVE  /\ binderTask.count \in Nat
         /\ binderTask.count >= 2
         /\ Whole \in Nat
         /\ Whole >= 2 * binderTask.count
         /\ Half \in Nat
         /\ 1 <= Half
         /\ Half < binderTask.count
<1> DEFINE c == binderTask.count
           m == BINDER_SPACE_FULL_WARNING_MULTIPLE
<1>1. c \in Nat /\ c >= 2 /\ m \in Nat /\ m >= 2
  BY TaskAssumption DEF Binder!BinderSpaceAssumption, Binder!BinderTask, Binder!Counts
<1>2. Whole = c * m
  BY DEF Whole, Binder!LastCount, Binder!FullCount
<1> HIDE DEF c, m
<1>3. c * m \in Nat /\ c * m >= 2 * c
  BY <1>1
<1>4. c \div 2 \in Nat /\ 1 <= c \div 2 /\ c \div 2 < c
  BY <1>1
<1> QED BY <1>1, <1>2, <1>3, <1>4 DEF c, Half

(* Nothing has been counted yet. *)
LEMMA BinderInit == Binder!Init => BinderInv
<1> SUFFICES ASSUME Binder!Init PROVE BinderInv
  OBVIOUS
<1>1. binderTask \in Binder!BinderTask
  BY DEF Binder!Init
<1> QED BY <1>1, BinderCounts DEF Binder!Init, BinderInv

(* A look that finds the buffer too full adds one to the count and to the
   looks, and the first to reach half of the count warns whom it can. *)
LEMMA FullBuffer ==
  ASSUME BinderInv,
         Binder!HarmlessLook \/ Binder!FullLook \/ Binder!LastLook,
         looks' = IF looks < Whole THEN looks + 1 ELSE looks,
         warned \/ (Binder!Warns /\ reportCount + 1 = Half) => warned',
         UNCHANGED binderTask
  PROVE  /\ BinderInv'
         /\ reportCount + 1 <= looks'
         /\ Binder!Warns /\ reportCount + 1 >= Half => warned'
<1> USE DEF BinderInv
<1>1. Whole' = Whole /\ Half' = Half /\ Binder!Warns' = Binder!Warns
  BY DEF Whole, Half, Binder!LastCount, Binder!FullCount, Binder!Warns
<1>2. looks' \in 0 .. Whole /\ reportCount + 1 <= looks'
  BY BinderCounts
<1>3. Binder!Warns /\ reportCount + 1 >= Half => warned'
  BY BinderCounts
<1>4. CASE Binder!LastLook
  BY <1>1, <1>2, <1>3, <1>4, BinderCounts DEF Binder!LastLook
<1>5. CASE Binder!HarmlessLook \/ Binder!FullLook
  <2>1. reportCount' = reportCount + 1 /\ reportCount + 1 < Whole
    BY <1>5, BinderCounts DEF Binder!HarmlessLook, Binder!FullLook, Whole, Half,
       Binder!FullCount, Binder!BINDER_SPACE_FULL_COUNT_HALF
  <2> QED BY <1>1, <1>2, <1>3, <2>1
<1> QED BY <1>4, <1>5, <1>2, <1>3

(* What a step of the binder task is, for its counts. *)
LEMMA BinderSteps ==
  ASSUME [Binder!Next]_(Binder!vars)
  PROVE  \/ UNCHANGED <<binderTask, reportCount, fate, looks, warned>>
         \/ /\ reportCount' = 0 /\ looks' = 0 /\ warned' = FALSE
            /\ UNCHANGED <<binderTask, fate>>
         \/ /\ Binder!HarmlessLook \/ Binder!FullLook \/ Binder!LastLook
            /\ looks' = IF looks < Whole THEN looks + 1 ELSE looks
            /\ warned \/ (Binder!Warns /\ reportCount + 1 = Half) => warned'
            /\ UNCHANGED binderTask
BY DEF Binder!Next, Binder!vars, Binder!Look, Binder!AsyncBinderSpace,
   Binder!UseBuffer, Binder!Clog, Binder!Sufficient, Whole, Half,
   Binder!FullCount, Binder!BINDER_SPACE_FULL_COUNT_HALF

(* Every step of the binder task keeps the invariant. *)
LEMMA BinderNext == BinderInv /\ [Binder!Next]_(Binder!vars) => BinderInv'
<1> SUFFICES ASSUME BinderInv, [Binder!Next]_(Binder!vars) PROVE BinderInv'
  OBVIOUS
<1>1. binderTask \in Binder!BinderTask
  BY DEF BinderInv
<1>2. binderTask' = binderTask => /\ Whole' = Whole /\ Half' = Half
                                     /\ Binder!Warns' = Binder!Warns
  BY DEF Whole, Half, Binder!LastCount, Binder!FullCount, Binder!Warns
<1>3. CASE UNCHANGED <<binderTask, reportCount, fate, looks, warned>>
  BY <1>2, <1>3 DEF BinderInv
<1>4. CASE /\ reportCount' = 0 /\ looks' = 0 /\ warned' = FALSE
           /\ UNCHANGED <<binderTask, fate>>
  BY <1>1, <1>2, <1>4, BinderCounts DEF BinderInv
<1>5. CASE /\ Binder!HarmlessLook \/ Binder!FullLook \/ Binder!LastLook
           /\ looks' = IF looks < Whole THEN looks + 1 ELSE looks
           /\ warned \/ (Binder!Warns /\ reportCount + 1 = Half) => warned'
           /\ UNCHANGED binderTask
  BY <1>5, FullBuffer
<1> QED BY <1>3, <1>4, <1>5, BinderSteps

(* KillEarned, for every count and size: AsyncBinderSpace ends a process or a
   peer only when each of its last count looks, or of the whole multiple when
   the task has a callback and no recovery, found the buffer too full, and,
   when the task has a callback or XCOLLIE_FLAG_LOG, one of them warned. *)
THEOREM KillIsEarned == Spec => KillEarned
<1> DEFINE Need == IF binderTask.func /\ ~binderTask.recovery
                   THEN Binder!LastCount ELSE Binder!FullCount
           Earned == fate' # fate => (Binder!Warns => warned') /\ looks' >= Need
<1>1. BinderInv /\ [Binder!Next]_(Binder!vars) => [Earned]_(Binder!vars)
  <2> SUFFICES ASSUME BinderInv, Binder!Next, fate' # fate
               PROVE  (Binder!Warns => warned') /\ looks' >= Need
    OBVIOUS
  <2>1. /\ Binder!HarmlessLook \/ Binder!FullLook \/ Binder!LastLook
        /\ looks' = IF looks < Whole THEN looks + 1 ELSE looks
        /\ warned \/ (Binder!Warns /\ reportCount + 1 = Half) => warned'
        /\ UNCHANGED binderTask
    BY BinderSteps
  <2>2. /\ reportCount + 1 <= looks'
        /\ Binder!Warns /\ reportCount + 1 >= Half => warned'
        /\ looks' \in Int /\ reportCount \in Nat
    <3>1. Whole \in Nat /\ looks \in 0 .. Whole
      BY BinderCounts DEF BinderInv
    <3> QED BY <2>1, <3>1, FullBuffer DEF BinderInv
  <2>3. /\ binderTask.count \in Nat /\ Half \in Nat /\ Half < binderTask.count
        /\ Whole \in Nat /\ Whole >= 2 * binderTask.count
    BY BinderCounts DEF BinderInv
  <2>4. CASE Binder!FullLook
    <3>1. reportCount + 1 = binderTask.count /\ ~(binderTask.func /\ ~binderTask.recovery)
      BY <2>4 DEF Binder!FullLook, Binder!FullCount
    <3> QED BY <2>2, <2>3, <3>1 DEF Binder!FullCount
  <2>5. CASE Binder!LastLook
    <3>1. reportCount + 1 >= Whole
      BY <2>5 DEF Binder!LastLook, Whole
    <3>2. (Binder!Warns => warned') /\ looks' >= Whole /\ looks' >= binderTask.count
      BY <2>2, <2>3, <3>1
    <3> QED BY <3>2 DEF Binder!FullCount, Whole
  <2> QED BY <2>1, <2>4, <2>5 DEF Binder!HarmlessLook
<1>2. Init => BinderInv
  BY PartsInit, BinderInit
<1>3. BinderInv /\ [Next]_vars => BinderInv' /\ [Earned]_(Binder!vars)
  BY <1>1, PartsNext, BinderNext
<1> QED BY <1>2, <1>3, PTL DEF Spec, KillEarned, Binder!KillEarned

-----------------------------------------------------------------------------
(* Part three, the trace profile.  While the task of a session is alive the
   session is today's and no other begins. *)
TraceTypes ==
  /\ {day, lastEndTime, dumpCount, traceCount, session} \subseteq Nat
  /\ lastEndTime <= day
  /\ task # "none" => traceState = "COMPLETE" /\ day = lastEndTime

(* A dump is a day behind the last start of a session, or it is of the present
   session, whose end will not make room for another one. *)
DumpOK(d) ==
  /\ d.session \in Nat /\ d.time \in Nat
  /\ d.session <= session
  /\ \/ lastEndTime - d.time >= ONE_DAY_LIMIT
     \/ /\ d.session = session /\ d.time = lastEndTime
        /\ traceState = "COMPLETE"
        /\ task # "none" => dumpCount >= COLLECT_TRACE_MIN

DumpInv == TraceTypes /\ (\A d \in dumps : DumpOK(d)) /\ OneDumpPerDay

(* The limits of the trace profile. *)
LEMMA TraceConstants ==
  /\ ONE_DAY_LIMIT \in Nat \ {0}
  /\ COLLECT_TRACE_MIN \in Nat \ {0}
  /\ COLLECT_TRACE_MAX \in Nat \ {0}
BY TaskAssumption DEF Trace!TraceAssumption

(* Nothing has been dumped yet. *)
LEMMA DumpInit == Trace!Init => DumpInv
BY TraceConstants DEF Trace!Init, DumpInv, TraceTypes, OneDumpPerDay, Trace!OneDumpPerDay

(* No session begins while the task of another is alive. *)
LEMMA DetectWhenIdle ==
  ASSUME TraceTypes, Trace!CollectTraceDetect
  PROVE  task = "none" /\ (traceState = "COMPLETE" => day - lastEndTime >= ONE_DAY_LIMIT)
BY TraceConstants DEF TraceTypes, Trace!CollectTraceDetect, Trace!TooSoon

(* Every step of the trace profile keeps the invariant of the dumps. *)
LEMMA DumpNext == DumpInv /\ [Trace!Next]_(Trace!vars) => DumpInv'
<1> SUFFICES ASSUME DumpInv, [Trace!Next]_(Trace!vars) PROVE DumpInv'
  OBVIOUS
<1>t. TraceTypes /\ (\A d \in dumps : DumpOK(d)) /\ OneDumpPerDay
  BY DEF DumpInv
<1> USE TraceConstants
<1>1. CASE Trace!CollectTraceDetect
  <2>1. task = "none" /\ (traceState = "COMPLETE" => day - lastEndTime >= ONE_DAY_LIMIT)
    BY <1>1, <1>t, DetectWhenIdle
  <2>2. /\ lastEndTime' = day /\ day' = day /\ dumps' = dumps
        /\ session' \in {session, session + 1}
        /\ task' # "none" => traceState' = "COMPLETE"
        /\ dumpCount' \in {dumpCount, 0} /\ traceCount' \in {traceCount, 0}
    BY <1>1, <2>1 DEF Trace!CollectTraceDetect
  <2>3. TraceTypes'
    BY <1>t, <2>2 DEF TraceTypes
  <2>4. ASSUME NEW d \in dumps
        PROVE  DumpOK(d)'
    <3>1. DumpOK(d)
      BY <1>t
    <3>2. lastEndTime' - d.time >= ONE_DAY_LIMIT
      BY <1>t, <2>1, <2>2, <3>1 DEF DumpOK, TraceTypes
    <3> QED BY <1>t, <2>2, <3>1, <3>2 DEF DumpOK, TraceTypes
  <2> QED BY <1>t, <2>2, <2>3, <2>4 DEF DumpInv, OneDumpPerDay, Trace!OneDumpPerDay
<1>2. ASSUME NEW slow \in BOOLEAN, Trace!DumpTraceTask(slow)
      PROVE  DumpInv'
  <2>0. PICK e : e = [session |-> session, time |-> lastEndTime]
    OBVIOUS
  <2>1. /\ task = "queued" /\ task' = "ran"
        /\ UNCHANGED <<day, traceState, lastEndTime, session>>
    BY <1>2 DEF Trace!DumpTraceTask
  <2>2. traceCount' \in Nat /\ dumpCount' \in Nat /\ dumpCount' >= dumpCount
    BY <1>2, <1>t DEF Trace!DumpTraceTask, TraceTypes
  <2>3. TraceTypes'
    BY <1>t, <2>1, <2>2 DEF TraceTypes
  <2>4. \/ dumps' = dumps
        \/ dumps' = dumps \cup {e} /\ dumpCount' >= COLLECT_TRACE_MIN
    BY <1>2, <2>0 DEF Trace!DumpTraceTask
  <2>5. ASSUME NEW d \in dumps
        PROVE  DumpOK(d)'
    <3>1. DumpOK(d)
      BY <1>t
    <3> QED BY <1>t, <2>1, <2>2, <3>1 DEF DumpOK, TraceTypes
  <2>6. CASE dumps' = dumps
    BY <1>t, <2>3, <2>5, <2>6 DEF DumpInv, OneDumpPerDay, Trace!OneDumpPerDay
  <2>7. CASE dumps' = dumps \cup {e} /\ dumpCount' >= COLLECT_TRACE_MIN
    <3>1. e.session = session /\ e.time = lastEndTime
      BY <2>0
    <3>2. DumpOK(e)'
      BY <1>t, <2>1, <2>2, <2>7, <3>1 DEF DumpOK, TraceTypes
    <3>3. ASSUME NEW d \in dumps
          PROVE  /\ d.session < e.session => e.time - d.time >= ONE_DAY_LIMIT
                 /\ ~(e.session < d.session)
      <4>1. DumpOK(d)
        BY <1>t
      <4> QED BY <1>t, <3>1, <4>1 DEF DumpOK, TraceTypes
    <3>4. ~(e.session < e.session)
      BY <1>t, <3>1 DEF TraceTypes
    <3>5. OneDumpPerDay'
      <4> SUFFICES ASSUME NEW d \in dumps', NEW f \in dumps', d.session < f.session
                   PROVE  f.time - d.time >= ONE_DAY_LIMIT
        BY DEF OneDumpPerDay, Trace!OneDumpPerDay
      <4>1. CASE d \in dumps /\ f \in dumps
        BY <1>t, <4>1 DEF OneDumpPerDay, Trace!OneDumpPerDay
      <4>2. CASE d \in dumps /\ f = e
        BY <3>3, <4>2
      <4>3. CASE d = e
        BY <2>7, <3>3, <3>4, <4>3
      <4> QED BY <2>7, <4>1, <4>2, <4>3
    <3> QED BY <2>3, <2>5, <2>7, <3>2, <3>5 DEF DumpInv
  <2> QED BY <2>4, <2>6, <2>7
<1>3. CASE Trace!ReInsertTaskIfNeed
  BY <1>3, <1>t DEF Trace!ReInsertTaskIfNeed, Trace!contentVars, Trace!historyVars,
     DumpInv, TraceTypes, DumpOK, OneDumpPerDay, Trace!OneDumpPerDay
<1>4. CASE Trace!CheckCurrentTaskLocked
  <2>1. /\ task # "none" /\ task' = "none"
        /\ traceState' = IF dumpCount < COLLECT_TRACE_MIN THEN "DEFAULT" ELSE traceState
        /\ UNCHANGED <<day, lastEndTime, traceCount, dumpCount, session, dumps>>
    BY <1>4 DEF Trace!CheckCurrentTaskLocked, Trace!historyVars
  <2>2. TraceTypes'
    BY <1>t, <2>1 DEF TraceTypes
  <2>3. ASSUME NEW d \in dumps
        PROVE  DumpOK(d)'
    <3>1. DumpOK(d)
      BY <1>t
    <3> QED BY <1>t, <2>1, <3>1 DEF DumpOK, TraceTypes
  <2> QED BY <1>t, <2>1, <2>2, <2>3 DEF DumpInv, OneDumpPerDay, Trace!OneDumpPerDay
<1>5. CASE Trace!StartTrace \/ Trace!DumpTrace \/ UNCHANGED Trace!vars
  <2>1. UNCHANGED <<day, traceState, lastEndTime, traceCount, dumpCount, task,
                    session, dumps>>
    BY <1>5 DEF Trace!StartTrace, Trace!DumpTrace, Trace!vars, Trace!contentVars,
       Trace!historyVars
  <2> QED BY <1>t, <2>1
          DEF DumpInv, TraceTypes, DumpOK, OneDumpPerDay, Trace!OneDumpPerDay
<1>6. CASE Trace!Tick
  <2>1. /\ task = "none" /\ day' = day + 1
        /\ UNCHANGED <<traceState, lastEndTime, traceCount, dumpCount, task, session, dumps>>
    BY <1>6 DEF Trace!Tick, Trace!contentVars, Trace!historyVars
  <2> QED BY <1>t, <2>1
          DEF DumpInv, TraceTypes, DumpOK, OneDumpPerDay, Trace!OneDumpPerDay
<1> QED BY <1>1, <1>2, <1>3, <1>4, <1>5, <1>6 DEF Trace!Next, Trace!Watchdog

(* OneDumpPerDay, for every day limit and number of ticks: CollectTraceDetect
   and the end of TRACE_CHECKER let a second trace be dumped only a day after
   the first. *)
THEOREM DumpsAreRare == Spec => []OneDumpPerDay
<1>1. Init => DumpInv
  BY PartsInit, DumpInit
<1>2. DumpInv /\ [Next]_vars => DumpInv'
  BY PartsNext, DumpNext
<1>3. DumpInv => OneDumpPerDay
  BY DEF DumpInv
<1> QED BY <1>1, <1>2, <1>3, PTL DEF Spec

-----------------------------------------------------------------------------
(* The queue of the trace jobs.  n is the session whose StartTrace ran last:
   the starts of all later sessions wait, in their order, and the jobs of a
   session come after its start. *)
Job == [kind : {"start", "dump"}, session : Nat]

QueueOK(n) ==
  /\ n <= session
  /\ openTraceCode = 0 => n \in opened
  /\ \A i \in 1 .. Len(jobs) :
       /\ n <= jobs[i].session
       /\ jobs[i].session <= session
       /\ jobs[i].kind = "start" => n < jobs[i].session
  /\ \A i, j \in 1 .. Len(jobs) :
       i < j => /\ jobs[i].session <= jobs[j].session
                /\ jobs[j].kind = "start" => jobs[i].session < jobs[j].session
  /\ \A s \in n + 1 .. session :
       \E i \in 1 .. Len(jobs) : jobs[i].kind = "start" /\ jobs[i].session = s

QueueInv ==
  /\ session \in Nat
  /\ jobs \in Seq(Job)
  /\ DumpHasOpenTrace
  /\ \E n \in Nat : QueueOK(n)

(* No job waits. *)
LEMMA QueueInit == Trace!Init => QueueInv
<1> SUFFICES ASSUME Trace!Init PROVE QueueInv
  OBVIOUS
<1>1. session = 0 /\ jobs = <<>> /\ jobs \in Seq(Job) /\ Len(jobs) = 0
  BY DEF Trace!Init
<1>2. openTraceCode # 0 /\ captured \subseteq opened
  BY DEF Trace!Init
<1>3. QueueOK(0)
  BY <1>1, <1>2 DEF QueueOK
<1> QED BY <1>1, <1>2, <1>3 DEF QueueInv, DumpHasOpenTrace, Trace!DumpHasOpenTrace

(* A job of the queue has a session. *)
LEMMA JobType ==
  ASSUME jobs \in Seq(Job), NEW i \in 1 .. Len(jobs)
  PROVE  jobs[i].session \in Nat
<1>1. jobs[i] \in Job
  OBVIOUS
<1> QED BY <1>1 DEF Job

(* A start is queued for the session after the last one, a dump for the
   present one. *)
LEMMA QueueAppend ==
  ASSUME QueueInv, NEW e \in Job, jobs' = Append(jobs, e), e.session = session',
         \/ e.kind = "start" /\ session' = session + 1
         \/ e.kind = "dump" /\ session' = session,
         UNCHANGED <<openTraceCode, opened, captured>>
  PROVE  QueueInv'
<1>1. session \in Nat /\ session' \in Nat /\ jobs \in Seq(Job) /\ Len(jobs) \in Nat
  BY DEF QueueInv
<1>2. PICK n \in Nat : QueueOK(n)
  BY DEF QueueInv
<1>3. /\ jobs' \in Seq(Job) /\ Len(jobs') = Len(jobs) + 1
      /\ \A i \in 1 .. Len(jobs) : jobs'[i] = jobs[i]
      /\ jobs'[Len(jobs) + 1] = e
  BY <1>1
<1>4. \A i \in 1 .. Len(jobs) : jobs[i].session \in Nat /\ jobs[i].session <= session
  BY <1>1, <1>2, JobType DEF QueueOK
<1>5. /\ n <= session'
      /\ openTraceCode' = 0 => n \in opened'
  BY <1>1, <1>2 DEF QueueOK
<1>6. ASSUME NEW i \in 1 .. Len(jobs')
      PROVE  /\ n <= jobs'[i].session
             /\ jobs'[i].session <= session'
             /\ jobs'[i].kind = "start" => n < jobs'[i].session
  <2>1. CASE i = Len(jobs) + 1
    BY <1>1, <1>2, <1>3, <2>1 DEF QueueOK
  <2>2. CASE i \in 1 .. Len(jobs)
    BY <1>1, <1>2, <1>3, <1>4, <2>2 DEF QueueOK
  <2> QED BY <1>1, <1>3, <2>1, <2>2
<1>7. ASSUME NEW i \in 1 .. Len(jobs'), NEW j \in 1 .. Len(jobs'), i < j
      PROVE  /\ jobs'[i].session <= jobs'[j].session
             /\ jobs'[j].kind = "start" => jobs'[i].session < jobs'[j].session
  <2>1. i \in 1 .. Len(jobs)
    BY <1>1, <1>3, <1>7
  <2>2. CASE j = Len(jobs) + 1
    BY <1>1, <1>3, <1>4, <2>1, <2>2
  <2>3. CASE j \in 1 .. Len(jobs)
    BY <1>2, <1>3, <1>7, <2>1, <2>3 DEF QueueOK
  <2> QED BY <1>1, <1>3, <2>2, <2>3
<1>8. ASSUME NEW s \in n + 1 .. session'
      PROVE  \E i \in 1 .. Len(jobs') : jobs'[i].kind = "start" /\ jobs'[i].session = s
  <2>1. CASE s = session + 1
    <3>1. Len(jobs) + 1 \in 1 .. Len(jobs') /\ e.kind = "start" /\ e.session = s
      BY <1>1, <1>3, <2>1
    <3> QED BY <1>3, <3>1
  <2>2. CASE s \in n + 1 .. session
    <3>1. PICK i \in 1 .. Len(jobs) : jobs[i].kind = "start" /\ jobs[i].session = s
      BY <1>2, <2>2 DEF QueueOK
    <3>2. i \in 1 .. Len(jobs')
      BY <1>1, <1>3
    <3> QED BY <1>3, <3>1, <3>2
  <2> QED BY <1>1, <2>1, <2>2
<1>9. QueueOK(n)'
  BY <1>5, <1>6, <1>7, <1>8 DEF QueueOK
<1> QED BY <1>1, <1>3, <1>9 DEF QueueInv, DumpHasOpenTrace, Trace!DumpHasOpenTrace

(* The tail of the queue. *)
LEMMA TailIs ==
  ASSUME jobs \in Seq(Job), jobs # <<>>
  PROVE  /\ Tail(jobs) \in Seq(Job)
         /\ Len(jobs) \in Nat /\ Len(jobs) >= 1
         /\ Len(Tail(jobs)) = Len(jobs) - 1
         /\ Head(jobs) = jobs[1]
         /\ jobs[1] \in Job
         /\ \A i \in 1 .. Len(jobs) - 1 : Tail(jobs)[i] = jobs[i + 1]
OBVIOUS

(* StartTrace takes its job and makes its session the last one opened. *)
LEMMA QueueStarted ==
  ASSUME QueueInv, Trace!StartTrace
  PROVE  QueueInv'
<1>1. session \in Nat /\ jobs \in Seq(Job)
  BY DEF QueueInv
<1>2. PICK n \in Nat : QueueOK(n)
  BY DEF QueueInv
<1>3. PICK j : /\ jobs # <<>> /\ j = Head(jobs) /\ jobs' = Tail(jobs)
               /\ j.kind = "start"
               /\ opened' = IF openTraceCode' = 0 THEN opened \cup {j.session} ELSE opened
               /\ UNCHANGED <<session, captured>>
  BY DEF Trace!StartTrace, Trace!TakeJob
<1>4. PICK m : m = j.session
  OBVIOUS
<1>5. /\ jobs' \in Seq(Job) /\ Len(jobs) \in Nat /\ Len(jobs) >= 1
      /\ Len(jobs') = Len(jobs) - 1
      /\ jobs[1].kind = "start" /\ jobs[1].session = m /\ m \in Nat
      /\ \A i \in 1 .. Len(jobs') : jobs'[i] = jobs[i + 1]
  <2>1. j \in Job
    BY <1>1, <1>3, TailIs
  <2> QED BY <1>1, <1>3, <1>4, <2>1, TailIs DEF Job
<1>6. n < m /\ m <= session
  BY <1>2, <1>5 DEF QueueOK
<1>7. ASSUME NEW i \in 1 .. Len(jobs')
      PROVE  /\ m <= jobs'[i].session
             /\ jobs'[i].session <= session'
             /\ jobs'[i].kind = "start" => m < jobs'[i].session
  <2>1. i + 1 \in 1 .. Len(jobs) /\ 1 \in 1 .. Len(jobs) /\ 1 < i + 1
    BY <1>5
  <2> QED BY <1>2, <1>3, <1>5, <2>1 DEF QueueOK
<1>8. ASSUME NEW i \in 1 .. Len(jobs'), NEW k \in 1 .. Len(jobs'), i < k
      PROVE  /\ jobs'[i].session <= jobs'[k].session
             /\ jobs'[k].kind = "start" => jobs'[i].session < jobs'[k].session
  <2>1. i + 1 \in 1 .. Len(jobs) /\ k + 1 \in 1 .. Len(jobs) /\ i + 1 < k + 1
    BY <1>5, <1>8
  <2>2. /\ jobs[i + 1].session <= jobs[k + 1].session
        /\ jobs[k + 1].kind = "start" => jobs[i + 1].session < jobs[k + 1].session
    BY <1>2, <2>1 DEF QueueOK
  <2>3. jobs'[i] = jobs[i + 1] /\ jobs'[k] = jobs[k + 1]
    BY <1>5
  <2> QED BY <2>2, <2>3
<1>9. ASSUME NEW s \in m + 1 .. session'
      PROVE  \E i \in 1 .. Len(jobs') : jobs'[i].kind = "start" /\ jobs'[i].session = s
  <2>1. s \in n + 1 .. session /\ s # m
    BY <1>1, <1>3, <1>5, <1>6
  <2>2. PICK i \in 1 .. Len(jobs) : jobs[i].kind = "start" /\ jobs[i].session = s
    BY <1>2, <2>1 DEF QueueOK
  <2>3. i # 1
    BY <1>5, <2>1, <2>2
  <2>4. i - 1 \in 1 .. Len(jobs') /\ (i - 1) + 1 = i
    BY <1>5, <2>3
  <2> QED BY <1>5, <2>2, <2>4
<1>10. QueueOK(m)'
  BY <1>3, <1>4, <1>6, <1>7, <1>8, <1>9 DEF QueueOK
<1> QED BY <1>1, <1>3, <1>5, <1>10 DEF QueueInv, DumpHasOpenTrace, Trace!DumpHasOpenTrace

(* DumpTrace takes a job of the session that was started last. *)
LEMMA QueueDumped ==
  ASSUME QueueInv, Trace!DumpTrace
  PROVE  QueueInv'
<1>1. session \in Nat /\ jobs \in Seq(Job)
  BY DEF QueueInv
<1>2. PICK n \in Nat : QueueOK(n)
  BY DEF QueueInv
<1>3. PICK j : /\ jobs # <<>> /\ j = Head(jobs) /\ jobs' = Tail(jobs)
               /\ j.kind = "dump"
               /\ captured' = IF openTraceCode = 0 THEN captured \cup {j.session} ELSE captured
               /\ UNCHANGED <<session, opened, openTraceCode>>
  BY DEF Trace!DumpTrace, Trace!TakeJob
<1>5. /\ jobs' \in Seq(Job) /\ Len(jobs) \in Nat /\ Len(jobs) >= 1
      /\ Len(jobs') = Len(jobs) - 1
      /\ jobs[1].kind = "dump" /\ jobs[1].session = j.session /\ j.session \in Nat
      /\ \A i \in 1 .. Len(jobs') : jobs'[i] = jobs[i + 1]
  <2>1. j \in Job
    BY <1>1, <1>3, TailIs
  <2> QED BY <1>1, <1>3, <2>1, TailIs DEF Job
<1>6. j.session = n
  <2> SUFFICES ASSUME n # j.session PROVE FALSE
    OBVIOUS
  <2>1. j.session \in n + 1 .. session
    BY <1>1, <1>2, <1>5 DEF QueueOK
  <2>2. PICK i \in 1 .. Len(jobs) : jobs[i].kind = "start" /\ jobs[i].session = j.session
    BY <1>2, <2>1 DEF QueueOK
  <2>3. 1 < i /\ 1 \in 1 .. Len(jobs)
    BY <1>5, <2>2
  <2>4. jobs[1].session < jobs[i].session
    BY <1>2, <2>2, <2>3 DEF QueueOK
  <2> QED BY <1>5, <2>2, <2>4
<1>7. ASSUME NEW i \in 1 .. Len(jobs')
      PROVE  /\ n <= jobs'[i].session
             /\ jobs'[i].session <= session'
             /\ jobs'[i].kind = "start" => n < jobs'[i].session
  <2>1. i + 1 \in 1 .. Len(jobs)
    BY <1>5
  <2> QED BY <1>2, <1>3, <1>5, <2>1 DEF QueueOK
<1>8. ASSUME NEW i \in 1 .. Len(jobs'), NEW k \in 1 .. Len(jobs'), i < k
      PROVE  /\ jobs'[i].session <= jobs'[k].session
             /\ jobs'[k].kind = "start" => jobs'[i].session < jobs'[k].session
  <2>1. i + 1 \in 1 .. Len(jobs) /\ k + 1 \in 1 .. Len(jobs) /\ i + 1 < k + 1
    BY <1>5, <1>8
  <2>2. /\ jobs[i + 1].session <= jobs[k + 1].session
        /\ jobs[k + 1].kind = "start" => jobs[i + 1].session < jobs[k + 1].session
    BY <1>2, <2>1 DEF QueueOK
  <2>3. jobs'[i] = jobs[i + 1] /\ jobs'[k] = jobs[k + 1]
    BY <1>5
  <2> QED BY <2>2, <2>3
<1>9. ASSUME NEW s \in n + 1 .. session'
      PROVE  \E i \in 1 .. Len(jobs') : jobs'[i].kind = "start" /\ jobs'[i].session = s
  <2>2. PICK i \in 1 .. Len(jobs) : jobs[i].kind = "start" /\ jobs[i].session = s
    BY <1>2, <1>3 DEF QueueOK
  <2>3. i # 1
    BY <1>5, <2>2
  <2>4. i - 1 \in 1 .. Len(jobs') /\ (i - 1) + 1 = i
    BY <1>5, <2>3
  <2> QED BY <1>5, <2>2, <2>4
<1>10. QueueOK(n)'
  BY <1>2, <1>3, <1>7, <1>8, <1>9 DEF QueueOK
<1>11. captured' \subseteq opened'
  BY <1>2, <1>3, <1>6 DEF QueueInv, QueueOK, DumpHasOpenTrace, Trace!DumpHasOpenTrace
<1> QED BY <1>1, <1>3, <1>5, <1>10, <1>11
        DEF QueueInv, DumpHasOpenTrace, Trace!DumpHasOpenTrace

(* Every step of the trace profile keeps the invariant of the queue. *)
LEMMA QueueNext == QueueInv /\ [Trace!Next]_(Trace!vars) => QueueInv'
<1> SUFFICES ASSUME QueueInv, [Trace!Next]_(Trace!vars) PROVE QueueInv'
  OBVIOUS
<1>1. CASE UNCHANGED <<session, jobs, openTraceCode, opened, captured>>
  BY <1>1 DEF QueueInv, QueueOK, DumpHasOpenTrace, Trace!DumpHasOpenTrace
<1>0. session \in Nat
  BY DEF QueueInv
<1>2. CASE Trace!CollectTraceDetect
  <2>1. CASE /\ session' = session + 1
             /\ jobs' = Append(jobs, [kind |-> "start", session |-> session + 1])
             /\ UNCHANGED <<openTraceCode, opened, captured>>
    <3>1. [kind |-> "start", session |-> session + 1] \in Job
      BY <1>0 DEF Job
    <3> QED BY <2>1, <3>1, QueueAppend
  <2> QED BY <1>1, <1>2, <2>1 DEF Trace!CollectTraceDetect
<1>3. ASSUME NEW slow \in BOOLEAN, Trace!DumpTraceTask(slow)
      PROVE  QueueInv'
  <2>1. CASE /\ jobs' = Append(jobs, [kind |-> "dump", session |-> session])
             /\ UNCHANGED <<session, openTraceCode, opened, captured>>
    <3>1. [kind |-> "dump", session |-> session] \in Job
      BY <1>0 DEF Job
    <3> QED BY <2>1, <3>1, QueueAppend
  <2> QED BY <1>1, <1>3, <2>1 DEF Trace!DumpTraceTask
<1>4. CASE Trace!ReInsertTaskIfNeed \/ Trace!CheckCurrentTaskLocked \/ Trace!Tick
           \/ UNCHANGED Trace!vars
  BY <1>1, <1>4 DEF Trace!ReInsertTaskIfNeed, Trace!CheckCurrentTaskLocked, Trace!Tick,
     Trace!vars, Trace!historyVars
<1> QED BY <1>2, <1>3, <1>4, QueueStarted, QueueDumped DEF Trace!Next, Trace!Watchdog

(* DumpHasOpenTrace, for any number of sessions: though DumpTrace reads
   openTraceCode_ of whichever StartTrace ran last, it dumps only a trace that
   its own session opened. *)
THEOREM DumpIsOpened == Spec => []DumpHasOpenTrace
<1>1. Init => QueueInv
  BY PartsInit, QueueInit
<1>2. QueueInv /\ [Next]_vars => QueueInv'
  BY PartsNext, QueueNext
<1>3. QueueInv => DumpHasOpenTrace
  BY DEF QueueInv
<1> QED BY <1>1, <1>2, <1>3, PTL DEF Spec

-----------------------------------------------------------------------------
(* Part four, the timer count.  The list is what is left of the real triggers
   after Dropped of them were trimmed away; none of these begins a burst. *)
Dropped == Len(real) - Len(triggerTimes)

NoBurstAt(i) ==
  /\ i + countLimit - 1 <= Len(real)
  /\ real[i + countLimit - 1] - real[i] >= timeLimit

ListIsSuffix ==
  /\ Dropped >= 0
  /\ \A i \in 1 .. Len(triggerTimes) : triggerTimes[i] = real[i + Dropped]
  /\ \A i \in 1 .. Dropped : NoBurstAt(i)

CountInv ==
  /\ now \in Nat
  /\ triggerTimes \in Seq(Nat)
  /\ real \in Seq(Nat)
  /\ ListIsSuffix
  /\ ReportsExact

(* The arguments of SetTimerCount. *)
LEMMA CountConstants == timeLimit \in Nat \ {0} /\ countLimit \in Nat \ {0}
BY TaskAssumption DEF Count!TimerCountAssumption

(* The lengths of the two lists. *)
LEMMA CountTypes ==
  ASSUME CountInv
  PROVE  /\ Len(real) \in Nat /\ Len(triggerTimes) \in Nat
         /\ Dropped \in Nat /\ Len(real) = Len(triggerTimes) + Dropped
         /\ \A i \in 1 .. Len(real) : real[i] \in Nat
         /\ \A i \in 1 .. Len(triggerTimes) : triggerTimes[i] = real[i + Dropped]
BY DEF CountInv, ListIsSuffix, Dropped

(* An empty list is that of no triggers. *)
LEMMA NoTriggers ==
  ASSUME triggerTimes = <<>>, real = <<>>
  PROVE  triggerTimes \in Seq(Nat) /\ real \in Seq(Nat) /\ ListIsSuffix
BY DEF ListIsSuffix, Dropped

(* The search of TimerCountTask through its list finds a burst exactly when
   there is one among the real triggers. *)
LEMMA OccurredIsBurst ==
  ASSUME CountInv
  PROVE  Count!Occurred(triggerTimes) <=> Count!Burst(real)
<1> USE CountConstants
<1>t. /\ Len(real) \in Nat /\ Len(triggerTimes) \in Nat /\ Dropped \in Nat
      /\ Len(real) = Len(triggerTimes) + Dropped
      /\ \A i \in 1 .. Len(real) : real[i] \in Nat
      /\ \A i \in 1 .. Len(triggerTimes) : triggerTimes[i] = real[i + Dropped]
  BY CountTypes
<1>1. ASSUME Count!Occurred(triggerTimes)
      PROVE  Count!Burst(real)
  <2>1. PICK n \in countLimit .. Len(triggerTimes) :
          triggerTimes[n] - triggerTimes[n - countLimit + 1] < timeLimit
    BY <1>1 DEF Count!Occurred, Count!TimeInterval
  <2> DEFINE i == n - countLimit + 1
  <2>2. i \in 1 .. Len(triggerTimes) /\ n \in 1 .. Len(triggerTimes)
    BY <1>t
  <2>3. /\ i + Dropped \in 1 .. Len(real) /\ n + Dropped \in 1 .. Len(real)
        /\ (n + Dropped) - (i + Dropped) + 1 = countLimit
    BY <1>t, <2>2
  <2>4. real[n + Dropped] - real[i + Dropped] < timeLimit
    BY <1>t, <2>1, <2>2
  <2> QED BY <2>3, <2>4 DEF Count!Burst
<1>2. ASSUME Count!Burst(real)
      PROVE  Count!Occurred(triggerTimes)
  <2>1. PICK i \in 1 .. Len(real), j \in 1 .. Len(real) :
          j - i + 1 = countLimit /\ real[j] - real[i] < timeLimit
    BY <1>2 DEF Count!Burst
  <2>2. j = i + countLimit - 1 /\ real[i] \in Nat /\ real[j] \in Nat
    BY <1>t, <2>1
  <2>3. i > Dropped
    <3> SUFFICES ASSUME i <= Dropped PROVE FALSE
      BY <1>t
    <3>1. NoBurstAt(i)
      BY <1>t DEF CountInv, ListIsSuffix
    <3> QED BY <2>1, <2>2, <3>1 DEF NoBurstAt
  <2> DEFINE n == j - Dropped
  <2>4. /\ n \in countLimit .. Len(triggerTimes) /\ n \in 1 .. Len(triggerTimes)
        /\ n - countLimit + 1 \in 1 .. Len(triggerTimes)
        /\ n + Dropped = j /\ (n - countLimit + 1) + Dropped = i
    BY <1>t, <2>2, <2>3
  <2>5. triggerTimes[n] = real[j] /\ triggerTimes[n - countLimit + 1] = real[i]
    BY <1>t, <2>4
  <2> QED BY <2>1, <2>4, <2>5 DEF Count!Occurred, Count!TimeInterval
<1> QED BY <1>1, <1>2

(* A recorded trigger is the last of both lists. *)
LEMMA TriggerRecorded ==
  ASSUME CountInv, UNCHANGED <<now, missed, unfounded>>,
         triggerTimes' = Append(triggerTimes, now), real' = Append(real, now)
  PROVE  CountInv'
<1>t. /\ Len(real) \in Nat /\ Len(triggerTimes) \in Nat /\ Dropped \in Nat
      /\ Len(real) = Len(triggerTimes) + Dropped
      /\ \A i \in 1 .. Len(triggerTimes) : triggerTimes[i] = real[i + Dropped]
  BY CountTypes
<1>1. /\ triggerTimes' \in Seq(Nat) /\ real' \in Seq(Nat)
      /\ Len(triggerTimes') = Len(triggerTimes) + 1 /\ Len(real') = Len(real) + 1
      /\ \A i \in 1 .. Len(triggerTimes) : triggerTimes'[i] = triggerTimes[i]
      /\ \A i \in 1 .. Len(real) : real'[i] = real[i]
      /\ triggerTimes'[Len(triggerTimes) + 1] = now /\ real'[Len(real) + 1] = now
  BY DEF CountInv
<1>2. Dropped' = Dropped
  BY <1>t, <1>1 DEF Dropped
<1>3. ASSUME NEW i \in 1 .. Len(triggerTimes')
      PROVE  triggerTimes'[i] = real'[i + Dropped]
  <2>1. CASE i = Len(triggerTimes) + 1
    BY <1>t, <1>1, <2>1
  <2>2. CASE i \in 1 .. Len(triggerTimes)
    <3>1. i + Dropped \in 1 .. Len(real)
      BY <1>t, <2>2
    <3>2. triggerTimes'[i] = triggerTimes[i] /\ real'[i + Dropped] = real[i + Dropped]
      BY <1>1, <2>2, <3>1
    <3> QED BY <1>t, <2>2, <3>2
  <2>3. i = Len(triggerTimes) + 1 \/ i \in 1 .. Len(triggerTimes)
    <3>1. Len(triggerTimes') = Len(triggerTimes) + 1 /\ Len(triggerTimes) \in Nat
      BY <1>t, <1>1
    <3> QED BY <3>1
  <2> QED BY <2>1, <2>2, <2>3
<1>4. ASSUME NEW i \in 1 .. Dropped
      PROVE  NoBurstAt(i)'
  <2>1. NoBurstAt(i)
    BY DEF CountInv, ListIsSuffix
  <2>2. i \in 1 .. Len(real) /\ i + countLimit - 1 \in 1 .. Len(real)
    BY <1>t, <2>1, CountConstants DEF NoBurstAt
  <2>3. /\ real'[i] = real[i]
        /\ real'[i + countLimit - 1] = real[i + countLimit - 1]
    BY <1>1, <2>2
  <2>4. i + countLimit - 1 <= Len(real')
    BY <1>t, <1>1, <2>2, CountConstants
  <2> QED BY <2>1, <2>3, <2>4 DEF NoBurstAt
<1>5. ListIsSuffix'
  <2>1. Dropped' >= 0 /\ \A i \in 1 .. Dropped' : NoBurstAt(i)'
    BY <1>t, <1>2, <1>4
  <2>2. \A i \in 1 .. Len(triggerTimes') : triggerTimes'[i] = real'[i + Dropped']
    BY <1>2, <1>3
  <2> QED BY <2>1, <2>2 DEF ListIsSuffix
<1> QED BY <1>1, <1>5 DEF CountInv, ReportsExact, Count!ReportsExact

(* A run that finds no burst may trim the list to its last countLimit. *)
LEMMA ListTrimmed ==
  ASSUME CountInv, ~Count!Burst(real), UNCHANGED <<now, real>>, ReportsExact',
         triggerTimes' = Count!Trimmed(triggerTimes)
  PROVE  CountInv'
<1> USE CountConstants
<1>t. /\ Len(real) \in Nat /\ Len(triggerTimes) \in Nat /\ Dropped \in Nat
      /\ Len(real) = Len(triggerTimes) + Dropped
      /\ \A i \in 1 .. Len(real) : real[i] \in Nat
      /\ \A i \in 1 .. Len(triggerTimes) : triggerTimes[i] = real[i + Dropped]
  BY CountTypes
<1>1. CASE triggerTimes' = triggerTimes
  BY <1>1 DEF CountInv, ListIsSuffix, Dropped, NoBurstAt, ReportsExact,
     Count!ReportsExact
<1>2. CASE /\ Len(triggerTimes) > countLimit
           /\ triggerTimes' = SubSeq(triggerTimes, Len(triggerTimes) - countLimit + 1,
                                     Len(triggerTimes))
  <2> DEFINE from == Len(triggerTimes) - countLimit
  <2>1. /\ triggerTimes' \in Seq(Nat) /\ Len(triggerTimes') = countLimit
        /\ \A i \in 1 .. countLimit : triggerTimes'[i] = triggerTimes[i + from]
    <3>1. triggerTimes \in Seq(Nat)
      BY DEF CountInv
    <3> QED BY <1>t, <1>2, <3>1, SMTT(20)
  <2>2. Dropped' = Dropped + from /\ Dropped' \in Nat /\ from \in Nat
    BY <1>t, <1>2, <2>1 DEF Dropped
  <2>3. ASSUME NEW i \in 1 .. countLimit
        PROVE  triggerTimes'[i] = real[i + Dropped']
    <3>1. i + from \in 1 .. Len(triggerTimes) /\ (i + from) + Dropped = i + Dropped'
      BY <1>t, <1>2, <2>2
    <3> QED BY <1>t, <2>1, <3>1
  <2>4. ASSUME NEW i \in 1 .. Dropped'
        PROVE  NoBurstAt(i)
    <3> DEFINE j == i + countLimit - 1
    <3>1. i \in 1 .. Len(real) /\ j \in 1 .. Len(real) /\ j - i + 1 = countLimit
      BY <1>t, <1>2, <2>2
    <3>2. real[i] \in Nat /\ real[j] \in Nat
      BY <1>t, <3>1
    <3>3. ~(real[j] - real[i] < timeLimit)
      BY <3>1 DEF Count!Burst
    <3> QED BY <3>1, <3>2, <3>3 DEF NoBurstAt
  <2>5. ListIsSuffix'
    BY <2>1, <2>2, <2>3, <2>4 DEF ListIsSuffix, NoBurstAt
  <2> QED BY <2>1, <2>5 DEF CountInv, ReportsExact, Count!ReportsExact
<1> QED BY <1>t, <1>1, <1>2 DEF Count!Trimmed, Count!COUNT_LIMIT_NUM_MAX_RATIO

(* Every step of the timer count keeps the invariant. *)
LEMMA CountNext == CountInv /\ [Count!Next]_(Count!vars) => CountInv'
<1> SUFFICES ASSUME CountInv, [Count!Next]_(Count!vars) PROVE CountInv'
  OBVIOUS
<1>1. CASE UNCHANGED <<triggerTimes, real, missed, unfounded>> /\ now' \in {now, now + 1}
  BY <1>1 DEF CountInv, ListIsSuffix, Dropped, NoBurstAt, ReportsExact,
     Count!ReportsExact
<1>2. CASE triggerTimes' = <<>> /\ real' = <<>> /\ UNCHANGED <<now, missed>> /\ ~unfounded'
  <2>1. triggerTimes' \in Seq(Nat) /\ real' \in Seq(Nat) /\ ListIsSuffix'
    BY <1>2 DEF ListIsSuffix, Dropped
  <2> QED BY <1>2, <2>1 DEF CountInv, ReportsExact, Count!ReportsExact
<1>3. ASSUME NEW b \in BOOLEAN, Count!TriggerTimerCountTask(b)
      PROVE  CountInv'
  <2>1. CASE triggerTimes' = Append(triggerTimes, now) /\ real' = Append(real, now)
    BY <1>3, <2>1, TriggerRecorded DEF Count!TriggerTimerCountTask
  <2>2. CASE triggerTimes' = <<>> /\ real' = <<>>
    BY <1>2, <1>3, <2>2 DEF Count!TriggerTimerCountTask, CountInv, ReportsExact,
       Count!ReportsExact
  <2>3. CASE UNCHANGED <<triggerTimes, real>>
    BY <1>1, <1>3, <2>3 DEF Count!TriggerTimerCountTask
  <2> QED BY <1>3, <2>1, <2>2, <2>3 DEF Count!TriggerTimerCountTask
<1>4. CASE Count!TimerCountTask
  <2>1. CASE Count!Occurred(triggerTimes)
    <3>1. Count!Burst(real)
      BY <2>1, OccurredIsBurst
    <3>2. ~unfounded' /\ triggerTimes' = <<>> /\ real' = <<>> /\ UNCHANGED <<now, missed>>
      BY <1>4, <2>1, <3>1 DEF Count!TimerCountTask, CountInv, ReportsExact,
         Count!ReportsExact
    <3> QED BY <1>2, <3>2
  <2>2. CASE ~Count!Occurred(triggerTimes)
    <3>1. ~Count!Burst(real)
      BY <2>2, OccurredIsBurst
    <3>2. /\ ~missed' /\ UNCHANGED <<now, real, unfounded>>
          /\ triggerTimes' = Count!Trimmed(triggerTimes)
      BY <1>4, <2>2, <3>1 DEF Count!TimerCountTask, CountInv, ReportsExact,
         Count!ReportsExact
    <3>3. ReportsExact'
      BY <3>2 DEF CountInv, ReportsExact, Count!ReportsExact
    <3> QED BY <3>1, <3>2, <3>3, ListTrimmed
  <2> QED BY <2>1, <2>2
<1>5. CASE Count!FetchNextTask \/ Count!ReInsertTaskIfNeed \/ Count!Tick
           \/ UNCHANGED Count!vars
  BY <1>1, <1>5 DEF Count!FetchNextTask, Count!ReInsertTaskIfNeed, Count!Tick,
     Count!vars, Count!history
<1> QED BY <1>3, <1>4, <1>5 DEF Count!Next

(* ReportsExact, for every limit: though TimerCountTask trims its list, it
   reports every burst of the triggers that met the task in the queue, and
   nothing else. *)
THEOREM ReportsAreExact == Spec => []ReportsExact
<1>1. Init => CountInv
  <2>1. Count!Init => CountInv
    BY NoTriggers DEF Count!Init, CountInv, ReportsExact, Count!ReportsExact
  <2> QED BY <2>1, PartsInit
<1>2. CountInv /\ [Next]_vars => CountInv'
  BY PartsNext, CountNext
<1>3. CountInv => ReportsExact
  BY DEF CountInv
<1> QED BY <1>1, <1>2, <1>3, PTL DEF Spec

-----------------------------------------------------------------------------
(* Part five, the timeout.  Beside the report that opened the window there are
   no more recent ones than cntCallback_ allowed in all; when the window is
   over, the one that opened it has left the history. *)
Max == XCOLLIE_CALLBACK_HISTORY_MAX
Window == XCOLLIE_CALLBACK_TIMEWIN_MAX
Allowed == IF cntCallback > Max THEN Max ELSE cntCallback

OpenerIsThere == \E i \in 1 .. Len(reported) : reported[i] = windowAge

RateInv ==
  /\ windowAge \in 0 .. Window + 1
  /\ cntCallback \in 0 .. Max + 1
  /\ reported \in Seq(Nat)
  /\ windowAge > Window => Len(reported) <= Allowed
  /\ Len(reported) <= Allowed + 1
  /\ Len(reported) = Allowed + 1 => OpenerIsThere

(* The limits of IsCallbackLimit. *)
LEMMA TimeoutConstants == Max \in Nat /\ Window \in Nat
BY TaskAssumption DEF Timeout!TimeoutReportAssumption, Max, Window

(* The counters are numbers. *)
LEMMA RateTypes ==
  ASSUME RateInv
  PROVE  /\ Max \in Nat /\ Window \in Nat /\ Allowed \in 0 .. Max
         /\ Len(reported) \in Nat /\ windowAge \in 0 .. Window + 1
         /\ cntCallback \in 0 .. Max + 1
BY TimeoutConstants DEF RateInv, Allowed

(* A second later as many ages are left, or fewer: all of them only when none
   was at the end of the window. *)
LEMMA OlderReports ==
  ASSUME reported \in Seq(Nat)
  PROVE  /\ Timeout!Older(reported) \in Seq(Nat)
         /\ Len(Timeout!Older(reported)) <= Len(reported)
         /\ Len(Timeout!Older(reported)) = Len(reported) =>
              \A i \in 1 .. Len(reported) :
                reported[i] < Window /\ Timeout!Older(reported)[i] = reported[i] + 1
<1> DEFINE kept == {j \in DOMAIN reported : reported[j] < Timeout!Window}
           k == Cardinality(kept)
<1>1. Len(reported) \in Nat /\ DOMAIN reported = 1 .. Len(reported)
      /\ \A i \in 1 .. Len(reported) : reported[i] \in Nat
  OBVIOUS
<1>2. IsFiniteSet(1 .. Len(reported)) /\ Cardinality(1 .. Len(reported)) = Len(reported)
  BY <1>1, FS_Interval
<1>3. kept \in SUBSET (1 .. Len(reported))
  BY <1>1
<1>4. IsFiniteSet(kept) /\ k <= Len(reported) /\ (k = Len(reported) => kept = 1 .. Len(reported))
  BY <1>2, <1>3, FS_Subset
<1>5. k \in Nat /\ k <= Len(reported)
  BY <1>4, FS_CardinalityType
<1>6. Timeout!Older(reported) = [i \in 1 .. k |-> reported[i] + 1]
  <2>1. Timeout!Cardinality(kept) = k
    BY Zenon DEF Timeout!Cardinality, Cardinality
  <2> QED BY <2>1 DEF Timeout!Older
<1>7. k = Len(reported) => \A i \in 1 .. Len(reported) : reported[i] < Window
  BY <1>4 DEF Timeout!Window, Window
<1> HIDE DEF k, kept
<1>8. ASSUME NEW i \in 1 .. k
      PROVE  reported[i] + 1 \in Nat
  <2>1. i \in 1 .. Len(reported)
    BY <1>1, <1>5
  <2>2. reported[i] \in Nat
    BY <1>1, <2>1
  <2> QED BY <2>2
<1>9. /\ Timeout!Older(reported) \in Seq(Nat) /\ Len(Timeout!Older(reported)) = k
      /\ \A i \in 1 .. k : Timeout!Older(reported)[i] = reported[i] + 1
  BY <1>5, <1>6, <1>8
<1> QED BY <1>5, <1>7, <1>9

(* A report goes before the others; the bound of the history cuts none off. *)
LEMMA ReportAdded ==
  ASSUME RateInv
  PROVE  LET more == Timeout!Recent(<<0>> \o reported)
         IN /\ more \in Seq(Nat)
            /\ Len(more) = Len(reported) + 1
            /\ more[1] = 0
            /\ \A i \in 1 .. Len(reported) : more[i + 1] = reported[i]
<1>1. reported \in Seq(Nat) /\ Len(reported) \in Nat
  BY DEF RateInv
<1> DEFINE more == <<0>> \o reported
<1>2. /\ more \in Seq(Nat) /\ Len(more) = Len(reported) + 1 /\ more[1] = 0
      /\ \A i \in 1 .. Len(reported) : more[i + 1] = reported[i]
  BY <1>1
<1>3. Len(more) <= Max + 2
  BY <1>2, RateTypes DEF RateInv
<1>4. Timeout!Recent(more) = SubSeq(more, 1, Len(more))
  BY <1>1, <1>2, <1>3, TimeoutConstants
     DEF Timeout!Recent, Timeout!Saturated, Timeout!Crowd, Max
<1> HIDE DEF more
<1>5. SubSeq(more, 1, Len(more)) = more
  BY <1>1, <1>2
<1> QED BY <1>2, <1>4, <1>5 DEF more

(* DoCallback for a timer that logs. *)
LEMMA RateLog ==
  ASSUME RateInv, NEW rec \in BOOLEAN, Timeout!DoCallback(TRUE, rec)
  PROVE  RateInv'
<1>t. /\ Max \in Nat /\ Window \in Nat /\ Allowed \in 0 .. Max
      /\ Len(reported) \in Nat /\ windowAge \in 0 .. Window + 1
      /\ cntCallback \in 0 .. Max + 1 /\ reported \in Seq(Nat)
  BY RateTypes DEF RateInv
<1>1. \/ UNCHANGED reported
      \/ reported' = Timeout!Recent(<<0>> \o reported)
  BY DEF Timeout!DoCallback, Timeout!SendXCollieEvent
<1>2. /\ reported' \in Seq(Nat) /\ Len(reported') \in Nat
      /\ \/ reported' = reported
         \/ /\ Len(reported') = Len(reported) + 1 /\ reported'[1] = 0
            /\ \A i \in 1 .. Len(reported) : reported'[i + 1] = reported[i]
  BY <1>t, <1>1, ReportAdded
<1>3. CASE windowAge > Window
  <2>1. windowAge' = 0 /\ cntCallback' = cntCallback /\ Len(reported) <= Allowed
    BY <1>3 DEF Timeout!DoCallback, Timeout!IsCallbackLimit, Timeout!OpensWindow,
       Timeout!Window, Window, RateInv
  <2>2. Allowed' = Allowed
    BY <2>1 DEF Allowed
  <2>3. Len(reported') = Allowed + 1 => OpenerIsThere'
    <3> SUFFICES ASSUME Len(reported') = Allowed + 1 PROVE OpenerIsThere'
      OBVIOUS
    <3>1. reported'[1] = 0 /\ 1 \in 1 .. Len(reported')
      BY <1>t, <1>2, <2>1
    <3> QED BY <2>1, <3>1 DEF OpenerIsThere
  <2>4. Len(reported') <= Allowed + 1
    BY <1>t, <1>2, <2>1
  <2> QED BY <1>t, <1>2, <2>1, <2>2, <2>3, <2>4 DEF RateInv
<1>4. CASE windowAge <= Window
  <2>1. /\ windowAge' = windowAge
        /\ cntCallback' = IF cntCallback + 1 > Max + 1 THEN Max + 1 ELSE cntCallback + 1
        /\ cntCallback + 1 > Max => reported' = reported
    BY <1>t, <1>4 DEF Timeout!DoCallback, Timeout!IsCallbackLimit, Timeout!OpensWindow,
       Timeout!Window, Timeout!Saturated, Timeout!Limited, Window, Max
  <2>2. cntCallback' \in 0 .. Max + 1
    BY <1>t, <2>1
  <2>3. Allowed' = IF cntCallback + 1 > Max THEN Max ELSE Allowed + 1
    BY <1>t, <2>1 DEF Allowed
  <2>4. Allowed' \in 0 .. Max /\ Allowed' >= Allowed
    <3>1. Allowed = IF cntCallback > Max THEN Max ELSE cntCallback
      BY DEF Allowed
    <3> QED BY <1>t, <2>3, <3>1
  <2>5. Len(reported') <= Allowed' + 1
    <3>1. Len(reported) <= Allowed + 1
      BY DEF RateInv
    <3> QED BY <1>t, <1>2, <2>1, <2>3, <2>4, <3>1
  <2>6. ASSUME Len(reported') = Allowed' + 1
        PROVE  OpenerIsThere'
    <3>1. Len(reported) = Allowed + 1
      <4>1. Len(reported) <= Allowed + 1
        BY DEF RateInv
      <4> QED BY <1>t, <1>2, <2>1, <2>3, <2>4, <2>6, <4>1
    <3>2. PICK i \in 1 .. Len(reported) : reported[i] = windowAge
      BY <3>1 DEF RateInv, OpenerIsThere
    <3>3. CASE reported' = reported
      BY <2>1, <3>2, <3>3 DEF OpenerIsThere
    <3>4. CASE /\ Len(reported') = Len(reported) + 1
               /\ \A j \in 1 .. Len(reported) : reported'[j + 1] = reported[j]
      <4>1. i + 1 \in 1 .. Len(reported') /\ reported'[i + 1] = windowAge'
        BY <1>t, <2>1, <3>2, <3>4
      <4> QED BY <4>1 DEF OpenerIsThere
    <3> QED BY <1>2, <3>3, <3>4
  <2>7. windowAge' \in 0 .. Window + 1 /\ ~(windowAge' > Window)
    BY <1>t, <1>4, <2>1
  <2> QED BY <1>2, <2>2, <2>5, <2>6, <2>7 DEF RateInv
<1> QED BY <1>t, <1>3, <1>4

(* A second makes the window and the reports older. *)
LEMMA RateTick ==
  ASSUME RateInv, Timeout!Tick
  PROVE  RateInv'
<1>t. /\ Max \in Nat /\ Window \in Nat /\ Allowed \in 0 .. Max
      /\ Len(reported) \in Nat /\ windowAge \in 0 .. Window + 1
      /\ cntCallback \in 0 .. Max + 1 /\ reported \in Seq(Nat)
      /\ Len(reported) <= Allowed + 1
  BY RateTypes DEF RateInv
<1>1. /\ windowAge' = IF windowAge + 1 > Window + 1 THEN Window + 1 ELSE windowAge + 1
      /\ cntCallback' = cntCallback /\ reported' = Timeout!Older(reported)
  BY DEF Timeout!Tick, Timeout!Saturated, Timeout!Window, Window
<1>2. /\ reported' \in Seq(Nat) /\ Len(reported') \in Nat
      /\ Len(reported') <= Len(reported)
      /\ Len(reported') = Len(reported) =>
           \A i \in 1 .. Len(reported) :
             reported[i] < Window /\ reported'[i] = reported[i] + 1
  BY <1>t, <1>1, OlderReports
<1>3. windowAge' \in 0 .. Window + 1 /\ Allowed' = Allowed
  BY <1>t, <1>1 DEF Allowed
<1>4. ASSUME Len(reported') = Allowed + 1
      PROVE  windowAge' <= Window /\ OpenerIsThere'
  <2>1. Len(reported') = Len(reported) /\ Len(reported) = Allowed + 1
    BY <1>t, <1>2, <1>4
  <2>2. PICK i \in 1 .. Len(reported) : reported[i] = windowAge
    BY <2>1 DEF RateInv, OpenerIsThere
  <2>3. windowAge < Window /\ reported'[i] = windowAge + 1
    BY <1>2, <2>1, <2>2
  <2>4. windowAge' = windowAge + 1 /\ windowAge' <= Window
    BY <1>t, <1>1, <2>3
  <2> QED BY <2>1, <2>2, <2>3, <2>4 DEF OpenerIsThere
<1>5. windowAge' > Window => Len(reported') <= Allowed
  BY <1>t, <1>2, <1>3, <1>4
<1> QED BY <1>t, <1>1, <1>2, <1>3, <1>4, <1>5 DEF RateInv

(* Every step of the timeout keeps the invariant. *)
LEMMA RateNext == RateInv /\ [Timeout!Next]_(Timeout!vars) => RateInv'
<1> SUFFICES ASSUME RateInv, [Timeout!Next]_(Timeout!vars) PROVE RateInv'
  OBVIOUS
<1>1. CASE UNCHANGED <<windowAge, cntCallback, reported>>
  BY <1>1 DEF RateInv, Allowed, OpenerIsThere
<1>2. ASSUME NEW log \in BOOLEAN, NEW rec \in BOOLEAN,
             Timeout!DoCallback(log, rec)
      PROVE  RateInv'
  <2>1. CASE log = TRUE
    BY <1>2, <2>1, RateLog
  <2>2. CASE log = FALSE
    BY <1>1, <1>2, <2>2
       DEF Timeout!DoCallback, Timeout!IsCallbackLimit, Timeout!OpensWindow
  <2> QED BY <2>1, <2>2
<1>3. CASE Timeout!Exit \/ Timeout!AlarmFires \/ UNCHANGED Timeout!vars
  BY <1>1, <1>3 DEF Timeout!Exit, Timeout!AlarmFires, Timeout!vars
<1> QED BY <1>2, <1>3, RateTick DEF Timeout!Next

(* ReportRate, for every window and every limit: IsCallbackLimit lets no span
   of one window hold more than XCOLLIE_CALLBACK_HISTORY_MAX + 1 reports, also
   one that reaches across the border of two windows. *)
THEOREM RateIsBounded == Spec => []ReportRate
<1>1. Init => RateInv
  <2>1. Timeout!Init => RateInv
    BY TimeoutConstants DEF Timeout!Init, Timeout!Window, RateInv, Allowed, Window,
       OpenerIsThere
  <2> QED BY <2>1, PartsInit
<1>2. RateInv /\ [Next]_vars => RateInv'
  BY PartsNext, RateNext
<1>3. RateInv => ReportRate
  BY RateTypes DEF RateInv, ReportRate, Timeout!ReportRate, Max
<1> QED BY <1>1, <1>2, <1>3, PTL DEF Spec

=============================================================================
