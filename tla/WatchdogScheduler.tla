------------------------- MODULE WatchdogScheduler -------------------------
(***************************************************************************)
(* The scheduler of WatchdogInner: the priority queue of tasks, the set of *)
(* registered names, the watchdog thread that fetches, runs and re-inserts *)
(* tasks, the condition variable it sleeps on, and Stop.                   *)
(*                                                                         *)
(* Every API call holds lock_ from the construction of its task to its     *)
(* return, so it is one action.  The library's own sampling and trace      *)
(* tasks are constructed before lock_ is taken, their id with a load and a *)
(* store between which others run: three steps.  (With one such task at a  *)
(* time it makes no difference that the increment of an API call is one    *)
(* step: a sampler's load and store that fall into it give the ids of a    *)
(* load before it and a store after it.)  So ids can be shared; a task is  *)
(* known by its key, which the code does not have.  The watchdog thread    *)
(* holds lock_ only in FetchNextTask and in ReInsertTaskIfNeed: its loop   *)
(* is one action per stretch between the points where another thread can   *)
(* come in.                                                                *)
(*                                                                         *)
(* checkerQueue is a set: the heap's order among equal ticks is taken to   *)
(* be arbitrary.                                                           *)
(***************************************************************************)
EXTENDS Integers, FiniteSets

CONSTANTS
  UserNames,        \* names given by callers of the public API
  SampleNames,      \* names of the sample-stack tasks, erased from outside
  SamplerNames,     \* names of the tasks that end by raising a flag
  Delays,           \* delays and timeouts callers ask for
  Intervals,        \* intervals callers ask for
  IpcIntervals,     \* MIN_IPC_CHECK_INTERVAL .. MAX_IPC_CHECK_INTERVAL
  MAX_WATCH_NUM,    \* 128 in the code
  DEFAULT_TIMEOUT,  \* sleep when there is nothing to wait for
  KICK_INTERVAL,    \* KICK_WATCHDOG_INTERVAL
  IPC_INTERVAL,     \* default interval of the IPC-full check
  UINT_MOD,         \* 2^32: the width of "unsigned int timeout"
  UINT64_MAX,       \* initial nextWeakUpTime_
  JoinIpcFull,      \* is this process in JOIN_IPC_FULL_UIDS?
  KickWatchdog,     \* g_kickWatchdog: does this process kick hungtask?
  MaxTasks,         \* bound: tasks the callers ever construct
  MaxTime           \* bound: the horizon of the clock

IpcFull == "IPC_FULL_TASK"
Kick    == "KICK_WATCHDOG_TASK"
Names   == UserNames \cup SampleNames \cup SamplerNames \cup {IpcFull, Kick}

ASSUME ConstantsAssumption ==
  /\ Delays \subseteq Nat
  /\ Intervals \subseteq Nat
  /\ IpcIntervals \subseteq Nat \ {0}
  /\ MAX_WATCH_NUM \in Nat \ {0}
  /\ DEFAULT_TIMEOUT \in Nat \ {0}
  /\ KICK_INTERVAL \in Nat \ {0}
  /\ IPC_INTERVAL \in Nat \ {0}
  /\ UINT_MOD \in Nat \ {0}
  /\ UINT64_MAX \in Nat
  /\ JoinIpcFull \in BOOLEAN
  /\ KickWatchdog \in BOOLEAN
  /\ MaxTasks \in Nat
  /\ MaxTime \in Nat

ASSUME NamesAssumption ==
  /\ UserNames \cap SampleNames = {}
  /\ UserNames \cap SamplerNames = {}
  /\ SampleNames \cap SamplerNames = {}
  /\ {IpcFull, Kick} \cap (UserNames \cup SampleNames \cup SamplerNames) = {}

VARIABLES
  now,              \* GetCurrentTickMillseconds()
  checkerQueue,     \* checkerQueue_
  taskNameSet,      \* taskNameSet_
  curId,            \* WatchdogTask::curId
  making,           \* the samplers whose task is being constructed
  nextWeakUpTime,   \* nextWeakUpTime_
  isNeedStop,       \* isNeedStop_
  finished,         \* the samplers whose "task complete" flag is raised
  pc,               \* where the watchdog thread is
  wnow,             \* Start()'s local now (0 when out of scope)
  running,          \* Start()'s local task: {} or one task
  left,             \* Start()'s local leftTimeMill (0 when consumed)
  wakeAt,           \* when condition_.wait_for times out
  stopper,          \* progress of the thread that called Stop()
  cancelled,        \* history: timers CancelTimer found waiting
  ran,              \* history: one-shot tasks whose Run() was entered
  keys,             \* history: how many tasks were taken to insert
  waitKey           \* history: keys when the thread went to sleep

threadVars  == <<pc, wnow, running, left, wakeAt>>
historyVars == <<cancelled, ran, keys, waitKey>>
vars == <<now, checkerQueue, taskNameSet, curId, making, nextWeakUpTime,
          isNeedStop, finished, threadVars, stopper, historyVars>>

Kinds == {"thread", "oneshot", "periodic", "timer", "count"}

(* A WatchdogTask.  due is the moment its caller asked for, key its number
   among the tasks taken to insert. *)
Task == [id : Nat, key : Nat, name : Names, kind : Kinds, timeout : Nat,
         checkInterval : Nat, nextTickTime : Nat, due : Nat]

isOneshotTask(t) == t.kind \in {"oneshot", "timer"}

(* The WatchdogTask constructors. *)
NewTask(n, k, timeout, interval, tick, due) ==
  [id |-> curId + 1, key |-> keys + 1, name |-> n, kind |-> k,
   timeout |-> timeout, checkInterval |-> interval, nextTickTime |-> tick,
   due |-> due]

(* Every task that is waiting or being run. *)
Live == checkerQueue \cup running

(* The tasks top() may return. *)
Tops(q) == {t \in q : \A u \in q : t.nextTickTime <= u.nextTickTime}

-----------------------------------------------------------------------------
(* The thread leaves wait_for. *)
WakeUp ==
  /\ pc' = "loop"
  /\ wakeAt' = 0
  /\ waitKey' = 0

(* Mutant of NotifyAll: the notification is forgotten. *)
NoNotify == UNCHANGED <<pc, wakeAt, waitKey>>

(* condition_.notify_all(): only a thread inside wait_for is woken. *)
NotifyAll == IF pc = "wait" THEN WakeUp ELSE UNCHANGED <<pc, wakeAt, waitKey>>

IsTaskExistLocked(n) == n \in taskNameSet

(* Mutant of IsExceedMaxTaskLocked: the names are counted, not the tasks. *)
ExceedByNames == Cardinality(taskNameSet) >= MAX_WATCH_NUM

IsExceedMaxTaskLocked == Cardinality(checkerQueue) >= MAX_WATCH_NUM

(* Mutant of Accepts: the name is not looked up. *)
AcceptsAnyName(t) == ~IsExceedMaxTaskLocked

(* Is the task taken, or refused for its name or for want of room? *)
Accepts(t) ==
  /\ isOneshotTask(t) \/ ~IsTaskExistLocked(t.name)
  /\ ~IsExceedMaxTaskLocked

(* What InsertWatchdogTaskLocked does to the queue and to the names. *)
Push(t) ==
  /\ keys' = t.key
  /\ \/ /\ Accepts(t)
        /\ checkerQueue' = checkerQueue \cup {t}
        /\ taskNameSet' = IF isOneshotTask(t) THEN taskNameSet
                          ELSE taskNameSet \cup {t.name}
     \/ /\ ~Accepts(t)
        /\ UNCHANGED <<checkerQueue, taskNameSet>>

(* CreateWatchdogThreadIfNeed, then the notification of a sleeping thread
   that would wake too late for t. *)
InsertWatchdogTaskLocked(t) ==
  /\ Push(t)
  /\ \/ /\ Accepts(t) /\ pc = "none"
        /\ pc' = "ipcCheck"
        /\ UNCHANGED <<wakeAt, waitKey>>
     \/ /\ Accepts(t) /\ pc # "none" /\ t.nextTickTime < nextWeakUpTime
        /\ NotifyAll
     \/ /\ ~Accepts(t) \/ (pc # "none" /\ t.nextTickTime >= nextWeakUpTime)
        /\ UNCHANGED <<pc, wakeAt, waitKey>>
  /\ UNCHANGED <<now, nextWeakUpTime, isNeedStop, finished, wnow, running,
                 left, stopper, cancelled, ran>>

(* Room for one more construction within the bound. *)
MayConstruct == keys + Cardinality(making) < MaxTasks

(* A call that constructs its task under lock_ and inserts it. *)
Construct(t) ==
  /\ MayConstruct
  /\ curId' = curId + 1
  /\ UNCHANGED making
  /\ InsertWatchdogTaskLocked(t)

AddThread(n, i) ==
  Construct(NewTask(n, "thread", 0, i, now, now))

RunOneShotTask(n, d) ==
  Construct(NewTask(n, "oneshot", 0, 0, now + d, now + d))

(* The constructor takes an unsigned int: the timeout is cut to its width. *)
RunXCollieTask(n, timeout) ==
  /\ timeout # 0
  /\ LET cut == timeout % UINT_MOD IN
       Construct(
         NewTask(n, "timer", cut, 0, now + cut, now + timeout))

RunPeriodicalTask(n, i, d) ==
  Construct(NewTask(n, "periodic", 0, i, now + d, now + d))

SetTimerCountTask(n, timeLimit) ==
  /\ timeLimit # 0
  /\ Construct(
       NewTask(n, "count", 0, (timeLimit % UINT_MOD) \div 2, now, now))

AddIpcFull(i) ==
  Construct(NewTask(IpcFull, "thread", 0, i, now, now))

(* A sampler, StartSample or a trace session constructs its task without
   lock_ (StartProfileMainThread holds it: the three steps in a row):
   id = ++curId, *)
LoadId(n) ==
  /\ MayConstruct
  /\ \A m \in making : m.name # n
  /\ making' = making \cup
       {[name |-> n, id |-> curId + 1, tick |-> 0, stored |-> FALSE]}
  /\ UNCHANGED <<now, checkerQueue, taskNameSet, curId, nextWeakUpTime,
                 isNeedStop, finished, threadVars, stopper, historyVars>>

(* which may set curId back, and then the tick; *)
StoreId(m) ==
  /\ ~m.stored
  /\ curId' = m.id
  /\ making' = (making \ {m}) \cup {[m EXCEPT !.tick = now, !.stored = TRUE]}
  /\ UNCHANGED <<now, checkerQueue, taskNameSet, nextWeakUpTime, isNeedStop,
                 finished, threadVars, stopper, historyVars>>

(* then it takes lock_ to insert the task. *)
InsertSampler(m, i) ==
  /\ m.stored
  /\ making' = making \ {m}
  /\ UNCHANGED curId
  /\ InsertWatchdogTaskLocked(
       [NewTask(m.name, "periodic", 0, i, m.tick, m.tick) EXCEPT !.id = m.id])

(* Mutant of RemoveXCollieTask: the test of timeout is inverted. *)
RemoveOnlyZeroTimeout(i) ==
  /\ checkerQueue' = {t \in checkerQueue : t.id # i \/ t.timeout # 0}
  /\ cancelled' = cancelled \cup
       {t.key : t \in {u \in checkerQueue : u.id = i /\ u.timeout # 0}}
  /\ UNCHANGED <<now, taskNameSet, curId, making, nextWeakUpTime, isNeedStop,
                 finished, threadVars, stopper, ran, keys, waitKey>>

(* CancelTimer, of all timers with that id.  A timer whose cut timeout is 0
   is not found. *)
RemoveXCollieTask(i) ==
  /\ checkerQueue' = {t \in checkerQueue : t.id # i \/ t.timeout = 0}
  /\ cancelled' = cancelled \cup
       {t.key : t \in {u \in checkerQueue : u.id = i /\ u.timeout # 0}}
  /\ UNCHANGED <<now, taskNameSet, curId, making, nextWeakUpTime, isNeedStop,
                 finished, threadVars, stopper, ran, keys, waitKey>>

(* RemovePeriodicalTask and RemoveThread: only waiting tasks are found. *)
RemoveInnerTask(n) ==
  LET found == {t \in checkerQueue : t.name = n} IN
  /\ checkerQueue' = checkerQueue \ found
  /\ taskNameSet' = IF \E t \in found : ~isOneshotTask(t)
                    THEN taskNameSet \ {n} ELSE taskNameSet
  /\ UNCHANGED <<now, curId, making, nextWeakUpTime, isNeedStop, finished,
                 threadVars, stopper, historyVars>>

(* A sample-stack task that counted to its maximum, or FfrtCallback when it
   did not find the task, takes the name out of taskNameSet_. *)
EraseTaskName(n) ==
  /\ taskNameSet' = taskNameSet \ {n}
  /\ UNCHANGED <<now, checkerQueue, curId, making, nextWeakUpTime, isNeedStop,
                 finished, threadVars, stopper, historyVars>>

-----------------------------------------------------------------------------
(* The watchdog thread starts with InitDefaultTask. *)
IpcCheck ==
  /\ pc = "ipcCheck"
  /\ pc' = "addKick"
  /\ IF JoinIpcFull
     THEN /\ Push(NewTask(IpcFull, "thread", 0, IPC_INTERVAL, now, now))
          /\ curId' = curId + 1
     ELSE UNCHANGED <<checkerQueue, taskNameSet, curId, keys>>
  /\ UNCHANGED <<now, making, nextWeakUpTime, isNeedStop, finished, wnow,
                 running, left, wakeAt, stopper, cancelled, ran, waitKey>>

AddKickWatchdog ==
  /\ pc = "addKick"
  /\ pc' = "loop"
  /\ IF KickWatchdog
     THEN /\ Push(NewTask(Kick, "periodic", 0, KICK_INTERVAL, now, now))
          /\ curId' = curId + 1
     ELSE UNCHANGED <<checkerQueue, taskNameSet, curId, keys>>
  /\ UNCHANGED <<now, making, nextWeakUpTime, isNeedStop, finished, wnow,
                 running, left, wakeAt, stopper, cancelled, ran, waitKey>>

(* while (!isNeedStop_): read the clock, before taking lock_. *)
StartIteration ==
  /\ pc = "loop"
  /\ pc' = IF isNeedStop THEN "exited" ELSE "fetch"
  /\ wnow' = IF isNeedStop THEN wnow ELSE now
  /\ UNCHANGED <<now, checkerQueue, taskNameSet, curId, making, nextWeakUpTime,
                 isNeedStop, finished, running, left, wakeAt, stopper,
                 historyVars>>

(* FetchNextTask returned a positive time to sleep. *)
SleepFor(l) ==
  /\ left' = l
  /\ nextWeakUpTime' = wnow + l
  /\ wnow' = 0
  /\ pc' = "decide"
  /\ UNCHANGED <<running, ran>>

(* Mutant of LeftTime: the operands are swapped. *)
SwappedLeftTime(t) == wnow - t.nextTickTime

(* The time until t is due; the kick task shortens a long sleep. *)
LeftTime(t) ==
  IF t.name = Kick /\ t.nextTickTime - wnow > KICK_INTERVAL /\ KickWatchdog
  THEN KICK_INTERVAL ELSE t.nextTickTime - wnow

(* CheckCurrentTaskLocked: a sampler whose flag is raised is dropped, with
   its name and its flag. *)
CheckCurrentTaskLocked(top) == top.name \in finished

DropFinished(top) ==
  IF CheckCurrentTaskLocked(top)
  THEN /\ taskNameSet' = taskNameSet \ {top.name}
       /\ finished' = finished \ {top.name}
  ELSE UNCHANGED <<taskNameSet, finished>>

(* The queue after the check of its top, and the top it has then: the second
   top is not checked again. *)
Rest(top) ==
  IF CheckCurrentTaskLocked(top) THEN checkerQueue \ {top} ELSE checkerQueue

NextTops(top) == IF CheckCurrentTaskLocked(top) THEN Tops(Rest(top)) ELSE {top}

(* FetchNextTask returned 0: the due task t leaves the queue to be run. *)
TakeTask(t) ==
  /\ running' = {t}
  /\ nextWeakUpTime' = wnow
  /\ pc' = "run"
  /\ ran' = IF isOneshotTask(t) THEN ran \cup {t.key} ELSE ran
  /\ UNCHANGED <<left, wnow>>

FetchStopped ==
  /\ isNeedStop
  /\ checkerQueue' = {}
  /\ SleepFor(DEFAULT_TIMEOUT)
  /\ UNCHANGED <<taskNameSet, finished>>

FetchEmpty ==
  /\ ~isNeedStop
  /\ checkerQueue = {}
  /\ SleepFor(DEFAULT_TIMEOUT)
  /\ UNCHANGED <<checkerQueue, taskNameSet, finished>>

FetchTop(top) ==
  /\ ~isNeedStop
  /\ DropFinished(top)
  /\ \/ /\ Rest(top) = {}
        /\ checkerQueue' = {}
        /\ SleepFor(DEFAULT_TIMEOUT)
     \/ \E t \in NextTops(top) :
          /\ t.nextTickTime > wnow
          /\ checkerQueue' = Rest(top)
          /\ SleepFor(LeftTime(t))
     \/ \E t \in NextTops(top) :
          /\ t.nextTickTime <= wnow
          /\ checkerQueue' = Rest(top) \ {t}
          /\ TakeTask(t)

FetchNextTask ==
  /\ pc = "fetch"
  /\ \/ FetchStopped
     \/ FetchEmpty
     \/ \E top \in Tops(checkerQueue) : FetchTop(top)
  /\ UNCHANGED <<now, curId, making, isNeedStop, wakeAt, stopper, cancelled,
                 keys, waitKey>>

(* The tick of a task that missed more than two intervals restarts at now.
   A timer-count task is not subject to this check. *)
IsLate(t) ==
  /\ t.kind # "count"
  /\ t.checkInterval # 0
  /\ wnow - t.nextTickTime > 2 * t.checkInterval

(* task.Run(now), outside lock_: the body runs unless the task is late.  What
   the body does to the scheduler are the API calls that interleave here;
   a sampler may raise its flag. *)
Run ==
  /\ pc = "run"
  /\ pc' = "reinsert"
  /\ \E t \in running :
       \/ /\ IsLate(t)
          /\ running' = {[t EXCEPT !.nextTickTime = wnow]}
          /\ UNCHANGED finished
       \/ /\ ~IsLate(t)
          /\ UNCHANGED running
          /\ \/ UNCHANGED finished
             \/ /\ t.name \in SamplerNames
                /\ finished' = finished \cup {t.name}
  /\ UNCHANGED <<now, checkerQueue, taskNameSet, curId, making, nextWeakUpTime,
                 isNeedStop, wnow, left, wakeAt, stopper, historyVars>>

(* Mutant of ReInsertTaskIfNeed: the tick is not advanced. *)
ReInsertSameTick ==
  /\ pc = "reinsert"
  /\ pc' = "loop"
  /\ running' = {}
  /\ wnow' = 0
  /\ \E t \in running :
       checkerQueue' = IF t.checkInterval # 0 /\ t.name \in taskNameSet
                       THEN checkerQueue \cup {t} ELSE checkerQueue
  /\ UNCHANGED <<now, taskNameSet, curId, making, nextWeakUpTime, isNeedStop,
                 finished, left, wakeAt, stopper, historyVars>>

ReInsertTaskIfNeed ==
  /\ pc = "reinsert"
  /\ pc' = "loop"
  /\ running' = {}
  /\ wnow' = 0
  /\ \E t \in running :
       checkerQueue' =
         IF t.checkInterval # 0 /\ t.name \in taskNameSet
         THEN checkerQueue \cup
                {[t EXCEPT !.nextTickTime = @ + t.checkInterval]}
         ELSE checkerQueue
  /\ UNCHANGED <<now, taskNameSet, curId, making, nextWeakUpTime, isNeedStop,
                 finished, left, wakeAt, stopper, historyVars>>

(* else if (isNeedStop_) break; *)
CheckNeedStop ==
  /\ pc = "decide"
  /\ pc' = IF isNeedStop THEN "exited" ELSE "preWait"
  /\ UNCHANGED <<now, checkerQueue, taskNameSet, curId, making, nextWeakUpTime,
                 isNeedStop, finished, wnow, running, left, wakeAt, stopper,
                 historyVars>>

(* condition_.wait_for(lock, leftTimeMill): what was notified before this
   step is lost. *)
WaitFor ==
  /\ pc = "preWait"
  /\ pc' = "wait"
  /\ wakeAt' = now + left
  /\ left' = 0
  /\ waitKey' = keys
  /\ UNCHANGED <<now, checkerQueue, taskNameSet, curId, making, nextWeakUpTime,
                 isNeedStop, finished, wnow, running, stopper, cancelled,
                 ran, keys>>

(* Mutant of WaitTimeout: condition_.wait instead of wait_for. *)
WaitWithoutTimeout == FALSE /\ WakeUp /\ UNCHANGED vars

(* The wait ends with its timeout; the horizon of the clock stands for all
   the time beyond it. *)
WaitTimeout ==
  /\ pc = "wait"
  /\ now >= wakeAt \/ now = MaxTime
  /\ WakeUp
  /\ UNCHANGED <<now, checkerQueue, taskNameSet, curId, making, nextWeakUpTime,
                 isNeedStop, finished, wnow, running, left, stopper,
                 cancelled, ran, keys>>

-----------------------------------------------------------------------------
(* Stop(): raise the flag, notify, join. *)
StopRaise ==
  /\ stopper = "idle"
  /\ stopper' = "notify"
  /\ isNeedStop' = TRUE
  /\ UNCHANGED <<now, checkerQueue, taskNameSet, curId, making, nextWeakUpTime,
                 finished, threadVars, historyVars>>

StopNotify ==
  /\ stopper = "notify"
  /\ stopper' = "join"
  /\ NotifyAll
  /\ UNCHANGED <<now, checkerQueue, taskNameSet, curId, making, nextWeakUpTime,
                 isNeedStop, finished, wnow, running, left, cancelled, ran,
                 keys>>

StopJoin ==
  /\ stopper = "join"
  /\ pc \in {"none", "exited"}
  /\ stopper' = "done"
  /\ UNCHANGED <<now, checkerQueue, taskNameSet, curId, making, nextWeakUpTime,
                 isNeedStop, finished, threadVars, historyVars>>

Tick ==
  /\ now < MaxTime
  /\ now' = now + 1
  /\ UNCHANGED <<checkerQueue, taskNameSet, curId, making, nextWeakUpTime,
                 isNeedStop, finished, threadVars, stopper, historyVars>>

-----------------------------------------------------------------------------
Init ==
  /\ now = 0
  /\ checkerQueue = {}
  /\ taskNameSet = {}
  /\ curId = 0
  /\ making = {}
  /\ nextWeakUpTime = UINT64_MAX
  /\ isNeedStop = FALSE
  /\ finished = {}
  /\ pc = "none"
  /\ wnow = 0
  /\ running = {}
  /\ left = 0
  /\ wakeAt = 0
  /\ stopper = "idle"
  /\ cancelled = {}
  /\ ran = {}
  /\ keys = 0
  /\ waitKey = 0

Client ==
  \/ \E n \in UserNames, i \in Intervals : AddThread(n, i)
  \/ \E n \in UserNames, d \in Delays : RunOneShotTask(n, d)
  \/ \E n \in UserNames, d \in Delays : RunXCollieTask(n, d)
  \/ \E n \in UserNames, d \in Delays : SetTimerCountTask(n, d)
  \/ \E n \in UserNames \cup SampleNames, i \in Intervals, d \in Delays :
       RunPeriodicalTask(n, i, d)
  \/ \E i \in IpcIntervals : AddIpcFull(i)
  \/ \E i \in 1 .. MaxTasks : RemoveXCollieTask(i)
  \/ \E n \in UserNames \cup SampleNames : RemoveInnerTask(n)
  \/ \E n \in SampleNames : EraseTaskName(n)

Sampler ==
  \/ \E n \in SamplerNames : LoadId(n)
  \/ \E m \in making : StoreId(m)
  \/ \E m \in making, i \in Intervals : InsertSampler(m, i)

Thread ==
  \/ IpcCheck
  \/ AddKickWatchdog
  \/ StartIteration
  \/ FetchNextTask
  \/ Run
  \/ ReInsertTaskIfNeed
  \/ CheckNeedStop
  \/ WaitFor
  \/ WaitTimeout

Stop == StopRaise \/ StopNotify \/ StopJoin

Next == Client \/ Sampler \/ Thread \/ Stop \/ Tick

(* The thread is scheduled and the task bodies return; notify and join are
   steps of a thread that is inside Stop(). *)
Fairness ==
  /\ WF_vars(Thread)
  /\ WF_vars(Tick)
  /\ WF_vars(StopNotify)
  /\ WF_vars(StopJoin)

Spec == Init /\ [][Next]_vars /\ Fairness

-----------------------------------------------------------------------------
ThreadStates == {"none", "ipcCheck", "addKick", "loop", "fetch", "run",
                 "reinsert", "decide", "preWait", "wait", "exited"}

(* Type correctness, and a task is held by the thread exactly between
   FetchNextTask and the end of ReInsertTaskIfNeed. *)
TypeOK ==
  /\ now \in Nat
  /\ checkerQueue \in SUBSET Task
  /\ IsFiniteSet(checkerQueue)
  /\ taskNameSet \in SUBSET Names
  /\ curId \in Nat
  /\ making \in SUBSET [name : SamplerNames, id : Nat, tick : Nat,
                        stored : BOOLEAN]
  /\ nextWeakUpTime \in Nat
  /\ isNeedStop \in BOOLEAN
  /\ finished \in SUBSET SamplerNames
  /\ pc \in ThreadStates
  /\ wnow \in Nat
  /\ running \in SUBSET Task
  /\ \A t, u \in running : t = u
  /\ running # {} <=> pc \in {"run", "reinsert"}
  /\ left \in Nat
  /\ wakeAt \in Nat
  /\ stopper \in {"idle", "notify", "join", "done"}
  /\ cancelled \in SUBSET Nat
  /\ ran \in SUBSET Nat
  /\ keys \in Nat
  /\ waitKey \in Nat

(* Does the name of t belong to t alone? *)
OwnsName(t) == ~isOneshotTask(t) /\ t.name \notin SampleNames

(* A name is registered at most once among the waiting and the running
   tasks, and is in taskNameSet_ as long as its task may come back: the check
   of InsertWatchdogTaskLocked cannot be passed while ReInsertTaskIfNeed
   still owes a task.  Sample-stack names, erased from outside, are exempt. *)
NamesOwned ==
  \A t \in Live : OwnsName(t) =>
    /\ t.name \in taskNameSet
    /\ \A u \in Live : ~isOneshotTask(u) /\ u.name = t.name => u = t

(* ReInsertTaskIfNeed pushes without looking at MAX_WATCH_NUM; the queue and
   the task in flight still never exceed the limit by more than one. *)
CapacityBound ==
  Cardinality(checkerQueue) + Cardinality(running) <= MAX_WATCH_NUM + 1

(* The one-shot tasks and timers of the queue are the waiting timers of a
   TimerService; a task that is fetched to be run has fired. *)
Timers == INSTANCE TimerService
  WITH now       <- now,
       taken     <- keys,
       waiting   <- {t \in checkerQueue : isOneshotTask(t)},
       fired     <- ran,
       cancelled <- cancelled,
       stopped   <- isNeedStop,
       Names     <- Names

(* The scheduler implements the timer service: a one-shot task or timer runs
   at most once, never before the moment its caller asked for, never after
   CancelTimer found it waiting under its id and never after Stop, and no step
   of the watchdog thread, of another task or of another caller makes it
   disappear from the queue in any other way. *)
TimerContract == Timers!Spec

(* A task inserted while the thread sleeps wakes it when the sleep was
   planned to last beyond the task's tick. *)
SleeperNotified ==
  pc = "wait" =>
    \A t \in checkerQueue : t.key > waitKey => t.nextTickTime >= nextWeakUpTime

(* Every tick of a waiting task is served (the task run, removed or dropped)
   unless the watchdog is stopped, whatever is inserted and in whatever
   window of the loop: a lost notification delays, it does not starve. *)
EveryTickServed ==
  \A i \in 1 .. MaxTasks + 2, k \in 0 .. MaxTime :
    (\E t \in checkerQueue : t.key = i /\ t.nextTickTime = k)
      ~> (isNeedStop \/ ~\E t \in checkerQueue : t.key = i /\ t.nextTickTime = k)

(* Stop() returns: the thread leaves its loop and is joined, also when the
   notification came before the thread was asleep. *)
StopReturns == (stopper # "idle") ~> (stopper = "done")

=============================================================================
