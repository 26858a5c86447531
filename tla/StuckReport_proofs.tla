------------------------- MODULE StuckReport_proofs -------------------------
(***************************************************************************)
(* Proofs about StuckReport, for every interval, delay and lateness: the   *)
(* task fits the timeout, background reports are held back, and a 6S       *)
(* report comes after its 3S one.                                          *)
(***************************************************************************)
EXTENDS StuckReport, TLAPS

(* An interval that InitStuckDetection may be called with. *)
Interval == {n \in Nat : n # 0 /\ n <= MAX_TIMEOUT}

(* What a thread may be doing. *)
Call == {NoCall} \union [pc : {"set", "run"}, timeout : Interval]
        \union [pc : {"remove"}, timeout : {0}]

(* The shape of what the callers share and of their calls. *)
Shape ==
  /\ g_stuckTimeout \in Interval \union {0}
  /\ calls \in [Callers -> Call]
  /\ checkInterval \in Interval \union {0}

(* The registered task and the timeout: a call that nothing disturbed is the only
   one, and between its steps the name is free. *)
TaskInv ==
  /\ Shape
  /\ TaskMatchesTimeout
  /\ ~raced =>
       \A c \in Callers :
         /\ calls[c] # NoCall => Alone(c)
         /\ At(c, "set") => task = "none"
         /\ At(c, "run") => task = "none" /\ g_stuckTimeout = calls[c].timeout
         /\ At(c, "remove") => g_stuckTimeout = 0

(* The count of the code never gets ahead of the stuck checks in a row: its
   age runs from a moment before the last of them. *)
GraceInv ==
  /\ g_stuckTimeout \in Nat
  /\ age \in 0 .. Epoch
  /\ gap \in 0 .. MaxAge
  /\ g_backgroundReportCount \in 0 .. BACKGROUND_REPORT_COUNT_MAX
  /\ streak \in 0 .. BACKGROUND_REPORT_COUNT_MAX + 1
  /\ gap <= age
  /\ g_backgroundReportCount <= streak
  /\ BackgroundGrace

(* When the next look of the task is due. *)
NextLook == due + (IF task \in {"queued", "running"} THEN 0 ELSE checkInterval)

(* After a 3S report the next look is not due before LeastDelay is over. *)
WarnInv ==
  /\ Shape
  /\ due \in Int
  /\ due >= -MaxLate
  /\ task = "running" => due <= 0
  /\ sinceWarning \in 0 .. MAX_TIMEOUT \union {Never}
  /\ isSixSecond => sinceWarning # Never
  /\ isSixSecond /\ task # "none" =>
       sinceWarning = MAX_TIMEOUT \/ sinceWarning + NextLook >= LeastDelay
  /\ SixAfterThree

-----------------------------------------------------------------------------
(* The constants. *)
LEMMA Constants ==
  /\ CHECK_INTERVAL_TIME \in Interval
  /\ MAX_TIMEOUT \in Nat \ {0}
  /\ INI_TIMER_FIRST_SECOND \in Nat
  /\ MaxLate \in Nat
  /\ BACKGROUND_REPORT_COUNT_MAX \in Nat
  /\ MaxAge \in Nat /\ Epoch = MaxAge + 1
BY StuckReportAssumption DEF Interval, MaxAge, Epoch, RATIO

(* A timeout that is not refused is an interval. *)
LEMMA TimeoutIsInterval ==
  ASSUME NEW c, NEW s \in Seconds, OH_HiCollie_Init_StuckDetectionWithTimeout(c, s)
  PROVE  \E timeout \in Interval : InitStuckDetection(c, timeout)
<1> DEFINE timeout == (s * TIME_S_TO_MS) % Word
<1>1. s \in Nat /\ TIME_S_TO_MS \in Nat /\ Word \in Nat \ {0}
      /\ CHECK_INTERVAL_TIME \in Nat \ {0} /\ MAX_TIMEOUT \in Nat
  BY StuckReportAssumption
<1>2. s * TIME_S_TO_MS \in Nat
  BY <1>1
<1>3. timeout \in Nat
  BY <1>1, <1>2
<1>4. timeout >= CHECK_INTERVAL_TIME /\ timeout <= MAX_TIMEOUT
      /\ InitStuckDetection(c, timeout)
  BY DEF OH_HiCollie_Init_StuckDetectionWithTimeout
<1> HIDE DEF timeout
<1>5. timeout \in Interval
  BY <1>1, <1>3, <1>4 DEF Interval
<1> QED BY <1>4, <1>5

(* What a thread that calls the library may do. *)
CallStep(c) ==
  \/ \E timeout \in Interval : InitStuckDetection(c, timeout)
  \/ StopStuckDetection(c) \/ RemoveTask(c) \/ SetTimeout(c) \/ RunPeriodicalTask(c)

(* The steps, with the two ways to start in one. *)
LEMMA Steps ==
  ASSUME [Next]_vars
  PROVE  \/ \E c \in Callers : CallStep(c)
         \/ FetchNextTask \/ CheckAlive
         \/ ReportInDebug \/ HoldBack \/ Report \/ NotifyAppFault
         \/ ReInsertTaskIfNeed \/ SetForeground \/ SetAppDebug \/ BusinessThread
         \/ Tick \/ UNCHANGED vars
<1>1. ASSUME NEW c \in PlainCallers, OH_HiCollie_Init_StuckDetection(c)
      PROVE  c \in Callers /\ CallStep(c)
  BY <1>1, Constants DEF OH_HiCollie_Init_StuckDetection, CallStep, Callers
<1>2. ASSUME NEW c \in TimeoutCallers, NEW s \in Seconds,
             OH_HiCollie_Init_StuckDetectionWithTimeout(c, s)
      PROVE  c \in Callers /\ CallStep(c)
  BY <1>2, TimeoutIsInterval DEF CallStep, Callers
<1>3. ASSUME NEW c \in Callers, StopStuckDetection(c) \/ Caller(c)
      PROVE  CallStep(c)
  BY <1>3 DEF Caller, CallStep
<1> QED BY <1>1, <1>2, <1>3 DEF Next, Watchdog

-----------------------------------------------------------------------------
(* One thread goes on with its call. *)
LEMMA CallMoves ==
  ASSUME Shape, NEW c \in Callers
  PROVE  /\ \A p : calls' = [calls EXCEPT ![c].pc = p] =>
              /\ calls'[c].pc = p /\ calls'[c].timeout = calls[c].timeout
              /\ \A o \in Callers : o # c => calls'[o] = calls[o]
         /\ \A r : calls' = [calls EXCEPT ![c] = r] =>
              /\ calls'[c] = r
              /\ \A o \in Callers : o # c => calls'[o] = calls[o]
BY DEF Shape, Call, NoCall

(* Which call it is. *)
LEMMA CallIs ==
  ASSUME Shape, NEW c \in Callers
  PROVE  /\ calls[c] = NoCall <=> At(c, "idle")
         /\ At(c, "set") \/ At(c, "run") => calls[c].timeout \in Interval
         /\ At(c, "idle") \/ At(c, "set") \/ At(c, "run") \/ At(c, "remove")
BY DEF Shape, Call, NoCall, At

(* Every step keeps the shape. *)
LEMMA ShapeNext == Shape /\ [Next]_vars => Shape'
<1> SUFFICES ASSUME Shape, [Next]_vars PROVE Shape'
  OBVIOUS
<1>1. ASSUME NEW c \in Callers, NEW timeout \in Interval, InitStuckDetection(c, timeout)
      PROVE  Shape'
  <2>1. [pc |-> "set", timeout |-> timeout] \in Call
    BY DEF Call
  <2>2. UNCHANGED g_stuckTimeout /\ checkInterval' \in {0, checkInterval}
    BY <1>1 DEF InitStuckDetection, RemovePeriodicalTask, global, taskVars
  <2> QED BY <1>1, <2>1, <2>2 DEF InitStuckDetection, Shape
<1>2. ASSUME NEW c \in Callers, StopStuckDetection(c) PROVE Shape'
  <2>1. [NoCall EXCEPT !.pc = "remove"] \in Call
    BY DEF Call, NoCall
  <2>2. calls' = [calls EXCEPT ![c] = [NoCall EXCEPT !.pc = "remove"]]
    BY <1>2 DEF StopStuckDetection
  <2> QED BY <1>2, <2>1, <2>2 DEF StopStuckDetection, Shape, taskVars
<1>3. ASSUME NEW c \in Callers, RemoveTask(c) PROVE Shape'
  BY <1>3 DEF RemoveTask, RemovePeriodicalTask, Shape, Call, global, taskVars
<1>4. ASSUME NEW c \in Callers, SetTimeout(c) PROVE Shape'
  <2>1. calls[c].timeout \in Interval /\ calls[c] \in [pc : {"set"}, timeout : Interval]
    BY <1>4 DEF SetTimeout, At, Shape, Call, NoCall
  <2>2. [calls[c] EXCEPT !.pc = "run"] \in Call
    BY <2>1 DEF Call
  <2> QED BY <1>4, <2>1, <2>2 DEF SetTimeout, Shape, taskVars
<1>5. ASSUME NEW c \in Callers, RunPeriodicalTask(c) PROVE Shape'
  <2>1. calls[c].timeout \in Interval
    BY <1>5, CallIs DEF RunPeriodicalTask
  <2> QED BY <1>5, <2>1 DEF RunPeriodicalTask, Shape, Call, global, taskVars
<1>6. CASE UNCHANGED <<g_stuckTimeout, calls, checkInterval>>
  BY <1>6 DEF Shape
<1> QED BY <1>1, <1>2, <1>3, <1>4, <1>5, <1>6, Steps
     DEF CallStep, FetchNextTask, CheckAlive, ReportInDebug, HoldBack, Report,
     NotifyAppFault, ReInsertTaskIfNeed, SetForeground, SetAppDebug, BusinessThread,
     Tick, vars, global, taskVars

-----------------------------------------------------------------------------
(* Every step keeps the fit of task and timeout. *)
LEMMA TaskNext == TaskInv /\ [Next]_vars => TaskInv'
<1> SUFFICES ASSUME TaskInv, [Next]_vars PROVE TaskInv'
  OBVIOUS
<1>s. Shape /\ Shape'
  BY ShapeNext DEF TaskInv
<1>m. Settled => IF g_stuckTimeout = 0 \/ refused THEN task = "none"
                 ELSE task # "none" /\ checkInterval = g_stuckTimeout
  BY DEF TaskInv, TaskMatchesTimeout
<1>a. ~raced =>
        \A c \in Callers :
          /\ calls[c] # NoCall => Alone(c)
          /\ At(c, "set") => task = "none"
          /\ At(c, "run") => task = "none" /\ g_stuckTimeout = calls[c].timeout
          /\ At(c, "remove") => g_stuckTimeout = 0
  BY DEF TaskInv
(* A thread that is alone decides for all of them. *)
<1>o. ASSUME NEW c \in Callers, ~raced' => Alone(c),
             \A o \in Callers : o # c => calls'[o] = calls[o],
             ~raced' =>
               /\ At(c, "set")' => task' = "none"
               /\ At(c, "run")' => task' = "none" /\ g_stuckTimeout' = calls'[c].timeout
               /\ At(c, "remove")' => g_stuckTimeout' = 0
               /\ At(c, "idle")' =>
                    IF g_stuckTimeout' = 0 \/ refused' THEN task' = "none"
                    ELSE task' # "none" /\ checkInterval' = g_stuckTimeout'
      PROVE  TaskInv'
  <2> SUFFICES ASSUME ~raced' PROVE TaskInv'
    BY <1>s DEF TaskInv, TaskMatchesTimeout, Settled
  <2>1. \A o \in Callers : o # c => calls'[o] = NoCall
    BY <1>o DEF Alone
  <2>2. Alone(c)'
    BY <2>1 DEF Alone
  <2>3. \A o \in Callers : o # c => ~At(o, "set")' /\ ~At(o, "run")' /\ ~At(o, "remove")'
    BY <2>1 DEF At, NoCall
  <2>4. Settled' => At(c, "idle")'
    BY DEF Settled, At, NoCall
  <2> QED BY <1>o, <1>s, <2>1, <2>2, <2>3, <2>4 DEF TaskInv, TaskMatchesTimeout
<1>1. ASSUME NEW c \in Callers, NEW timeout \in Interval, InitStuckDetection(c, timeout)
      PROVE  TaskInv'
  <2>1. /\ calls[c] = NoCall
        /\ At(c, "set")' /\ \A o \in Callers : o # c => calls'[o] = calls[o]
    <3>1. calls' = [calls EXCEPT ![c] = [pc |-> "set", timeout |-> timeout]]
          /\ calls[c] = NoCall
      BY <1>1 DEF InitStuckDetection
    <3>2. /\ calls'[c] = [pc |-> "set", timeout |-> timeout]
          /\ \A o \in Callers : o # c => calls'[o] = calls[o]
      BY <1>s, <3>1, CallMoves
    <3> QED BY <3>1, <3>2 DEF At
  <2>2. ~raced' => Alone(c)
    BY <1>1 DEF InitStuckDetection
  <2>3. ASSUME ~raced', g_stuckTimeout # 0 PROVE task' = "none"
    BY <1>1, <2>3 DEF InitStuckDetection, RemovePeriodicalTask, IsRunning, taskVars
  <2>4. ASSUME ~raced', g_stuckTimeout = 0 PROVE task' = "none"
    <3>1. ~raced /\ UNCHANGED task /\ \A o \in Callers : calls[o] = NoCall
      BY <1>1, <2>1, <2>2, <2>4 DEF InitStuckDetection, Alone, taskVars
    <3> QED BY <1>m, <2>4, <3>1 DEF Settled
  <2> QED BY <1>o, <2>1, <2>2, <2>3, <2>4 DEF At
<1>2. ASSUME NEW c \in Callers, StopStuckDetection(c) PROVE TaskInv'
  <2>1. At(c, "remove")' /\ \A o \in Callers : o # c => calls'[o] = calls[o]
    BY <1>2, <1>s, CallMoves DEF StopStuckDetection, At
  <2> QED BY <1>2, <1>o, <2>1 DEF StopStuckDetection, At
<1>3. ASSUME NEW c \in Callers, RemoveTask(c) PROVE TaskInv'
  <2>1. At(c, "idle")' /\ \A o \in Callers : o # c => calls'[o] = calls[o]
    <3>1. calls' = [calls EXCEPT ![c] = NoCall]
      BY <1>3 DEF RemoveTask
    <3>2. calls'[c] = NoCall /\ \A o \in Callers : o # c => calls'[o] = calls[o]
      BY <1>s, <3>1, CallMoves
    <3> QED BY <3>2 DEF At, NoCall
  <2>2. At(c, "remove") /\ UNCHANGED g_stuckTimeout /\ raced' = (raced \/ IsRunning)
    BY <1>3 DEF RemoveTask, global
  <2>3. ~raced' => task' = "none"
    BY <1>3, <2>2 DEF RemoveTask, RemovePeriodicalTask, IsRunning, taskVars
  <2>4. calls[c] # NoCall
    BY <2>2 DEF At, NoCall
  <2> QED BY <1>a, <1>o, <2>1, <2>2, <2>3, <2>4 DEF At
<1>4. ASSUME NEW c \in Callers, SetTimeout(c) PROVE TaskInv'
  <2>1. /\ At(c, "run")' /\ calls'[c].timeout = calls[c].timeout
        /\ \A o \in Callers : o # c => calls'[o] = calls[o]
    BY <1>4, <1>s, CallMoves DEF SetTimeout, At
  <2>2. /\ At(c, "set") /\ UNCHANGED <<task, raced>>
        /\ g_stuckTimeout' = calls[c].timeout
    BY <1>4 DEF SetTimeout, taskVars
  <2>3. calls[c] # NoCall
    BY <2>2 DEF At, NoCall
  <2> QED BY <1>a, <1>o, <2>1, <2>2, <2>3 DEF At
<1>5. ASSUME NEW c \in Callers, RunPeriodicalTask(c) PROVE TaskInv'
  <2>1. At(c, "idle")' /\ \A o \in Callers : o # c => calls'[o] = calls[o]
    <3>1. calls' = [calls EXCEPT ![c] = NoCall]
      BY <1>5 DEF RunPeriodicalTask
    <3>2. calls'[c] = NoCall /\ \A o \in Callers : o # c => calls'[o] = calls[o]
      BY <1>s, <3>1, CallMoves
    <3> QED BY <3>2 DEF At, NoCall
  <2>2. /\ At(c, "run") /\ UNCHANGED <<g_stuckTimeout, raced>>
        /\ calls[c] # NoCall /\ calls[c].timeout \in Interval
    BY <1>5, <1>s, CallIs DEF RunPeriodicalTask, global, At, NoCall
  <2>3. ~raced => task = "none" /\ g_stuckTimeout = calls[c].timeout
    BY <1>a, <2>2
  <2>4. ASSUME ~raced
        PROVE  IF g_stuckTimeout' = 0 \/ refused' THEN task' = "none"
               ELSE task' # "none" /\ checkInterval' = g_stuckTimeout'
    <3>1. g_stuckTimeout' # 0 /\ g_stuckTimeout' = calls[c].timeout
      BY <2>2, <2>3, <2>4 DEF Interval
    <3>2. \/ task' = "queued" /\ checkInterval' = calls[c].timeout /\ ~refused'
          \/ task' = "none" /\ refused'
      BY <1>5, <2>3, <2>4 DEF RunPeriodicalTask, taskVars
    <3> QED BY <3>1, <3>2
  <2> QED BY <1>a, <1>o, <2>1, <2>2, <2>4 DEF At
<1>6. CASE \/ FetchNextTask \/ CheckAlive \/ ReportInDebug \/ HoldBack \/ Report
           \/ NotifyAppFault \/ ReInsertTaskIfNeed
  <2>1. /\ task # "none" /\ task' # "none"
        /\ UNCHANGED <<g_stuckTimeout, calls, checkInterval, raced, refused>>
    BY <1>6 DEF FetchNextTask, CheckAlive, ReportInDebug, HoldBack, Report,
       NotifyAppFault, ReInsertTaskIfNeed, global, history
  <2> QED BY <2>1 DEF TaskInv, Shape, TaskMatchesTimeout, Settled, Alone, At
<1>7. CASE SetForeground \/ SetAppDebug \/ BusinessThread \/ Tick \/ UNCHANGED vars
  <2>1. UNCHANGED <<task, g_stuckTimeout, calls, checkInterval, raced, refused>>
    BY <1>7 DEF SetForeground, SetAppDebug, BusinessThread, Tick, vars, global,
       taskVars, history
  <2> QED BY <2>1 DEF TaskInv, Shape, TaskMatchesTimeout, Settled, Alone, At
<1> QED BY <1>1, <1>2, <1>3, <1>4, <1>5, <1>6, <1>7, Steps DEF CallStep

(* TaskMatchesTimeout, for every timeout and any number of callers: a call of
   InitStuckDetection that overlaps no other, and does not meet the task while
   it is running, leaves a task that runs every g_stuckTimeout, or none when
   that is 0 or the registration was refused, whatever earlier calls did. *)
THEOREM TaskFits == Spec => []TaskMatchesTimeout
<1>1. Init => TaskInv
  BY DEF Init, TaskInv, TaskMatchesTimeout, Shape, Call, Alone, At, NoCall
<1>2. TaskInv => TaskMatchesTimeout
  BY DEF TaskInv
<1> QED BY <1>1, <1>2, TaskNext, PTL DEF Spec

-----------------------------------------------------------------------------
(* A check in the present finds the count no larger than the checks in a row
   before it. *)
LEMMA CountBehind ==
  ASSUME GraceInv
  PROVE  /\ CountBefore \in 0 .. BACKGROUND_REPORT_COUNT_MAX
         /\ Streak \in 1 .. BACKGROUND_REPORT_COUNT_MAX + 1
         /\ CountBefore < Streak
         /\ Count(CountBefore + 1) \in 0 .. BACKGROUND_REPORT_COUNT_MAX
         /\ Count(CountBefore + 1) <= Streak
<1> DEFINE B == BACKGROUND_REPORT_COUNT_MAX
           old == RATIO * g_stuckTimeout
<1>1. B \in Nat /\ old \in Nat /\ MaxAge \in Nat /\ Epoch = MaxAge + 1
  BY Constants DEF GraceInv, RATIO
<1>2. CountBefore = IF age > old THEN 0 ELSE g_backgroundReportCount
  BY DEF CountBefore
<1>3. Streak = IF gap > old THEN 1 ELSE IF streak + 1 > B + 1 THEN B + 1 ELSE streak + 1
  BY DEF Streak, Saturated
<1>4. /\ age \in Nat /\ gap \in Nat /\ gap <= age
      /\ g_backgroundReportCount \in 0 .. B /\ streak \in 0 .. B + 1
      /\ g_backgroundReportCount <= streak
  BY <1>1 DEF GraceInv
<1> HIDE DEF B, old
<1>5. CountBefore \in 0 .. B /\ Streak \in 1 .. B + 1 /\ CountBefore < Streak
  BY <1>1, <1>2, <1>3, <1>4
<1>6. Count(CountBefore + 1) = IF CountBefore + 1 > B THEN B ELSE CountBefore + 1
  BY DEF Count, Saturated, B
<1> QED BY <1>1, <1>5, <1>6 DEF B

(* Every step keeps the count behind the checks. *)
LEMMA GraceNext == Shape /\ GraceInv /\ [Next]_vars => GraceInv'
<1> SUFFICES ASSUME Shape, GraceInv, [Next]_vars PROVE GraceInv'
  OBVIOUS
<1>s. Shape
  OBVIOUS
<1>c. MaxAge \in Nat /\ Epoch = MaxAge + 1 /\ BACKGROUND_REPORT_COUNT_MAX \in Nat
  BY Constants
<1>1. ASSUME NEW c \in Callers, SetTimeout(c) PROVE GraceInv'
  <2>1. calls[c].timeout \in Nat
    BY <1>1, <1>s, CallIs DEF SetTimeout, Interval
  <2> QED BY <1>1, <1>c, <2>1 DEF SetTimeout, GraceInv, BackgroundGrace
<1>2. ASSUME NEW c \in Callers, StopStuckDetection(c) PROVE GraceInv'
  BY <1>2 DEF StopStuckDetection, GraceInv, BackgroundGrace
<1>3. CASE HoldBack
  BY <1>3, <1>c, CountBehind DEF HoldBack, GraceInv, BackgroundGrace
<1>4. CASE Report
  <2>1. ~early'
    <3>1. ~isForeground => Streak > BACKGROUND_REPORT_COUNT_MAX
      BY <1>4, <1>c, CountBehind DEF Report, CheckInBackGround
    <3>2. ~(~isForeground /\ Streak <= BACKGROUND_REPORT_COUNT_MAX)
      BY <3>1, <1>c, CountBehind
    <3> QED BY <1>4, <3>2 DEF Report, GraceInv, BackgroundGrace
  <2>2. /\ gap' = 0 /\ streak' = Streak /\ UNCHANGED <<g_stuckTimeout, age>>
        /\ g_backgroundReportCount' = Count(CountBefore + 1)
    BY <1>4 DEF Report
  <2> QED BY <1>c, <2>1, <2>2, CountBehind DEF GraceInv, BackgroundGrace
<1>5. CASE NotifyAppFault
  <2>1. age' \in {0, age} /\ gap' = 0
        /\ UNCHANGED <<g_stuckTimeout, g_backgroundReportCount, streak, early>>
    BY <1>5 DEF NotifyAppFault
  <2> QED BY <1>c, <2>1 DEF GraceInv, BackgroundGrace
<1>6. CASE Tick
  <2>1. /\ age' = IF age = Epoch THEN Epoch
                  ELSE IF age + 1 > MaxAge THEN MaxAge ELSE age + 1
        /\ gap' = IF gap + 1 > MaxAge THEN MaxAge ELSE gap + 1
        /\ UNCHANGED <<g_stuckTimeout, g_backgroundReportCount, streak, early>>
    BY <1>6 DEF Tick, Saturated
  <2>2. age \in 0 .. Epoch /\ gap \in 0 .. MaxAge /\ gap <= age
    BY DEF GraceInv
  <2>3. age' \in 0 .. Epoch /\ gap' \in 0 .. MaxAge /\ gap' <= age'
    BY <1>c, <2>1, <2>2
  <2> QED BY <2>1, <2>3 DEF GraceInv, BackgroundGrace
<1>7. CASE \/ \E c \in Callers : \/ \E timeout \in Interval : InitStuckDetection(c, timeout)
                                 \/ RemoveTask(c) \/ RunPeriodicalTask(c)
           \/ FetchNextTask \/ CheckAlive \/ ReportInDebug
           \/ ReInsertTaskIfNeed \/ SetForeground \/ SetAppDebug \/ BusinessThread
           \/ UNCHANGED vars
  <2>1. UNCHANGED <<g_stuckTimeout, age, gap, g_backgroundReportCount, streak, early>>
    BY <1>7 DEF InitStuckDetection, RemoveTask, RunPeriodicalTask, FetchNextTask,
       CheckAlive, ReportInDebug, ReInsertTaskIfNeed, SetForeground, SetAppDebug,
       BusinessThread, vars, global, history
  <2> QED BY <2>1 DEF GraceInv, BackgroundGrace
<1> QED BY <1>1, <1>2, <1>3, <1>4, <1>5, <1>6, <1>7, Steps DEF CallStep

(* BackgroundGrace, for every timeout and limit: in the background
   OH_HiCollie_Report sends nothing before the business thread was found stuck
   BACKGROUND_REPORT_COUNT_MAX times in close succession. *)
THEOREM GraceIsGiven == Spec => []BackgroundGrace
<1>1. Init => Shape /\ GraceInv
  BY Constants DEF Init, GraceInv, BackgroundGrace, Shape, Call
<1>2. GraceInv => BackgroundGrace
  BY DEF GraceInv
<1> QED BY <1>1, <1>2, GraceNext, ShapeNext, PTL DEF Spec

-----------------------------------------------------------------------------
(* What LeastDelay is the least of. *)
LEMMA LeastDelayBounds ==
  ASSUME checkInterval \in Interval \union {0}
  PROVE  /\ LeastDelay \in Int
         /\ LeastDelay <= checkInterval - MaxLate
         /\ LeastDelay <= INI_TIMER_FIRST_SECOND
         /\ LeastDelay <= MAX_TIMEOUT
BY Constants DEF LeastDelay, Interval

(* Every step keeps the next look after a 3S report at a distance. *)
LEMMA WarnNext == WarnInv /\ [Next]_vars => WarnInv'
<1> SUFFICES ASSUME WarnInv, [Next]_vars PROVE WarnInv'
  OBVIOUS
<1>s. Shape /\ Shape'
  BY ShapeNext DEF WarnInv
<1>c. MAX_TIMEOUT \in Nat /\ INI_TIMER_FIRST_SECOND \in Nat /\ MaxLate \in Nat
  BY Constants
<1>t. /\ checkInterval \in Nat /\ due \in Int /\ due >= -MaxLate
      /\ sinceWarning \in 0 .. MAX_TIMEOUT \union {Never} /\ ~unwarned
  BY DEF WarnInv, Shape, Interval, SixAfterThree
<1>d. /\ LeastDelay \in Int
      /\ LeastDelay <= checkInterval - MaxLate
      /\ LeastDelay <= MAX_TIMEOUT
  BY LeastDelayBounds DEF WarnInv, Shape
<1>1. ASSUME NEW c \in Callers,
             (\E timeout \in Interval : InitStuckDetection(c, timeout)) \/ RemoveTask(c)
      PROVE  WarnInv'
  <2>1. /\ \/ task' = "none" /\ due' = 0
           \/ UNCHANGED taskVars
        /\ UNCHANGED <<sinceWarning, isSixSecond, unwarned>>
    BY <1>1 DEF InitStuckDetection, RemoveTask, RemovePeriodicalTask, appVars
  <2> QED BY <1>c, <1>s, <2>1 DEF WarnInv, NextLook, LeastDelay, SixAfterThree, taskVars
<1>2. ASSUME NEW c \in Callers, RunPeriodicalTask(c) PROVE WarnInv'
  <2>0. UNCHANGED <<sinceWarning, isSixSecond, unwarned>>
    BY <1>2 DEF RunPeriodicalTask, appVars
  <2>1. CASE task' = "queued" /\ due' = INI_TIMER_FIRST_SECOND
    <3>1. /\ task' = "queued" /\ due' = INI_TIMER_FIRST_SECOND
          /\ UNCHANGED <<sinceWarning, isSixSecond, unwarned>>
      BY <2>0, <2>1
    <3>2. LeastDelay' \in Int /\ LeastDelay' <= INI_TIMER_FIRST_SECOND
      <4>1. checkInterval' \in Nat
        BY <1>s DEF Shape, Interval
      <4>2. LeastDelay' = IF checkInterval' - MaxLate < INI_TIMER_FIRST_SECOND
                          THEN checkInterval' - MaxLate ELSE INI_TIMER_FIRST_SECOND
        BY DEF LeastDelay
      <4>3. checkInterval' - MaxLate \in Int
        BY <1>c, <4>1
      <4>4. CASE checkInterval' - MaxLate < INI_TIMER_FIRST_SECOND
        <5>1. LeastDelay' = checkInterval' - MaxLate
          BY <4>2, <4>4
        <5> QED BY <1>c, <4>3, <4>4, <5>1
      <4>5. CASE ~(checkInterval' - MaxLate < INI_TIMER_FIRST_SECOND)
        <5>1. LeastDelay' = INI_TIMER_FIRST_SECOND
          BY <4>2, <4>5
        <5> QED BY <1>c, <5>1
      <4> QED BY <4>4, <4>5
    <3>3. NextLook' = INI_TIMER_FIRST_SECOND
      BY <1>c, <3>1 DEF NextLook
    <3>4. isSixSecond' => sinceWarning' \in Nat
      BY <1>c, <3>1 DEF WarnInv
    <3>5. isSixSecond' => sinceWarning' + NextLook' >= LeastDelay'
      BY <1>c, <3>2, <3>3, <3>4
    <3> QED BY <1>c, <1>s, <3>1, <3>5 DEF WarnInv, SixAfterThree
  <2>2. CASE UNCHANGED taskVars
    BY <1>s, <2>0, <2>2 DEF WarnInv, NextLook, LeastDelay, SixAfterThree, taskVars
  <2> QED BY <1>2, <2>1, <2>2 DEF RunPeriodicalTask
<1>3. ASSUME NEW c \in Callers, StopStuckDetection(c) \/ SetTimeout(c) PROVE WarnInv'
  <2>1. UNCHANGED <<taskVars, sinceWarning, isSixSecond, unwarned>>
    BY <1>3 DEF StopStuckDetection, SetTimeout, appVars
  <2> QED BY <1>s, <2>1 DEF WarnInv, NextLook, LeastDelay, SixAfterThree, taskVars
<1>4. CASE FetchNextTask
  <2>1. /\ task = "queued" /\ task' = "running" /\ due <= 0
        /\ UNCHANGED <<checkInterval, due, sinceWarning, isSixSecond, unwarned>>
    BY <1>4 DEF FetchNextTask, appVars, history
  <2> QED BY <1>s, <2>1 DEF WarnInv, NextLook, LeastDelay, SixAfterThree
<1>5. CASE CheckAlive
  BY <1>5, <1>s DEF CheckAlive, WarnInv, SixAfterThree
<1>6. CASE ReportInDebug \/ HoldBack
  <2>1. /\ task = "running" /\ task' = "ran"
        /\ UNCHANGED <<checkInterval, due, sinceWarning, isSixSecond, unwarned>>
    BY <1>6 DEF ReportInDebug, HoldBack, appVars, history
  <2>2. NextLook = due /\ NextLook' = due + checkInterval
    BY <1>t, <2>1 DEF NextLook
  <2>3. isSixSecond' => sinceWarning \in Int
    BY <1>c, <2>1 DEF WarnInv
  <2>4. isSixSecond' => sinceWarning' = MAX_TIMEOUT
                        \/ sinceWarning' + NextLook' >= LeastDelay
    BY <1>t, <1>d, <2>1, <2>2, <2>3 DEF WarnInv
  <2>5. LeastDelay' = LeastDelay
    BY <2>1 DEF LeastDelay
  <2> QED BY <1>s, <2>1, <2>4, <2>5 DEF WarnInv, SixAfterThree
<1>7. CASE Report
  <2>1. /\ task = "running" /\ task' \in {"notify6S", "notify3S"}
        /\ isSixSecond' = ~isSixSecond
        /\ sinceWarning' = IF isSixSecond THEN Never ELSE 0
        /\ UNCHANGED <<checkInterval, due>>
    BY <1>7 DEF Report
  <2>2. isSixSecond => sinceWarning # Never /\ ~(sinceWarning < LeastDelay)
    <3>1. SUFFICES ASSUME isSixSecond
                   PROVE  sinceWarning # Never /\ sinceWarning >= LeastDelay
                          /\ sinceWarning \in Int
      BY <1>d
    <3>2. sinceWarning # Never /\ sinceWarning \in Nat
      BY <1>c, <3>1 DEF WarnInv
    <3>3. due <= 0 /\ NextLook = due
      BY <1>t, <2>1 DEF WarnInv, NextLook
    <3>4. sinceWarning = MAX_TIMEOUT \/ sinceWarning + NextLook >= LeastDelay
      BY <2>1, <3>1 DEF WarnInv
    <3> QED BY <1>c, <1>t, <1>d, <3>2, <3>3, <3>4
  <2>3. ~unwarned'
    BY <1>7, <1>t, <2>2 DEF Report
  <2>4. isSixSecond' => sinceWarning' = 0
    BY <2>1
  <2>5. NextLook' = due + checkInterval /\ LeastDelay' = LeastDelay
    BY <1>t, <2>1 DEF NextLook, LeastDelay
  <2>6. isSixSecond' => sinceWarning' + NextLook' >= LeastDelay'
    BY <1>c, <1>t, <1>d, <2>4, <2>5
  <2>7. sinceWarning' \in 0 .. MAX_TIMEOUT \union {Never} /\ 0 # Never
    BY <1>c, <2>1 DEF Never
  <2> QED BY <1>s, <2>1, <2>3, <2>4, <2>6, <2>7 DEF WarnInv, SixAfterThree
<1>8. CASE NotifyAppFault
  <2>1. /\ task \in {"notify3S", "notify6S"} /\ task' = "ran"
        /\ UNCHANGED <<checkInterval, due, sinceWarning, isSixSecond, unwarned>>
    BY <1>8 DEF NotifyAppFault
  <2>2. NextLook' = NextLook /\ LeastDelay' = LeastDelay
    BY <2>1 DEF NextLook, LeastDelay
  <2> QED BY <1>s, <2>1, <2>2 DEF WarnInv, SixAfterThree
<1>9. CASE ReInsertTaskIfNeed
  <2>1. /\ task = "ran" /\ task' = "queued" /\ due' = due + checkInterval
        /\ UNCHANGED <<checkInterval, sinceWarning, isSixSecond, unwarned>>
    BY <1>9 DEF ReInsertTaskIfNeed, appVars, history
  <2>2. NextLook' = NextLook /\ LeastDelay' = LeastDelay
    BY <1>t, <2>1 DEF NextLook, LeastDelay
  <2>3. due' \in Int /\ due' >= -MaxLate
    BY <1>c, <1>t, <2>1
  <2> QED BY <1>s, <2>1, <2>2, <2>3 DEF WarnInv, SixAfterThree
<1>10. CASE Tick
  <2>1. /\ task = "none" \/ due > -MaxLate
        /\ due' = IF task = "none" THEN due ELSE due - 1
        /\ sinceWarning' = IF sinceWarning = Never THEN Never
                           ELSE IF sinceWarning + 1 > MAX_TIMEOUT THEN MAX_TIMEOUT
                           ELSE sinceWarning + 1
        /\ UNCHANGED <<task, checkInterval, isSixSecond, unwarned>>
    BY <1>10 DEF Tick, Saturated, appVars
  <2>2. due' \in Int /\ due' >= -MaxLate /\ due' <= due
    BY <1>c, <1>t, <2>1
  <2>3. /\ sinceWarning' \in 0 .. MAX_TIMEOUT \union {Never}
        /\ sinceWarning # Never => sinceWarning' # Never
    BY <1>c, <1>t, <2>1 DEF Never
  <2>4. LeastDelay' = LeastDelay
    BY <2>1 DEF LeastDelay
  <2>5. task # "none" => NextLook' = NextLook - 1 /\ NextLook \in Int
    BY <1>t, <2>1 DEF NextLook
  <2>6. ASSUME isSixSecond', task' # "none"
        PROVE  sinceWarning' = MAX_TIMEOUT \/ sinceWarning' + NextLook' >= LeastDelay'
    <3>1. sinceWarning \in 0 .. MAX_TIMEOUT /\ sinceWarning # Never
      BY <2>1, <2>6 DEF WarnInv
    <3>2. sinceWarning = MAX_TIMEOUT \/ sinceWarning + NextLook >= LeastDelay
      BY <2>1, <2>6 DEF WarnInv
    <3>3. sinceWarning' = IF sinceWarning + 1 > MAX_TIMEOUT THEN MAX_TIMEOUT
                          ELSE sinceWarning + 1
      BY <2>1, <3>1
    <3>4. NextLook' = NextLook - 1 /\ NextLook \in Int
      BY <2>1, <2>5, <2>6
    <3> QED BY <1>c, <1>d, <2>4, <3>1, <3>2, <3>3, <3>4
  <2>7. task' = "running" => due' <= 0
    BY <1>t, <2>1 DEF WarnInv
  <2> QED BY <1>s, <2>1, <2>2, <2>3, <2>6, <2>7 DEF WarnInv, SixAfterThree
<1>11. CASE SetForeground \/ SetAppDebug \/ BusinessThread \/ UNCHANGED vars
  <2>1. UNCHANGED <<task, checkInterval, due, sinceWarning, isSixSecond,
                    unwarned>>
    BY <1>11 DEF SetForeground, SetAppDebug, BusinessThread, vars, taskVars, appVars,
       history
  <2> QED BY <1>s, <2>1 DEF WarnInv, NextLook, LeastDelay, SixAfterThree
<1> QED BY <1>1, <1>2, <1>3, <1>4, <1>5, <1>6, <1>7, <1>8, <1>9, <1>10, <1>11, Steps
     DEF CallStep

(* SixAfterThree, for every interval and lateness: the 6S report that ends the
   application follows the 3S report of the same stall, LeastDelay or more
   after it. *)
THEOREM WarningComesFirst == Spec => []SixAfterThree
<1>1. Init => WarnInv
  BY Constants DEF Init, WarnInv, Shape, Call, SixAfterThree, Never
<1>2. WarnInv => SixAfterThree
  BY DEF WarnInv
<1> QED BY <1>1, <1>2, WarnNext, PTL DEF Spec

=============================================================================
