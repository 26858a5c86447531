---------------------- MODULE WatchdogScheduler_proofs ----------------------
(***************************************************************************)
(* Proofs about WatchdogScheduler, for every number of names, every limit  *)
(* and every horizon; at the end about TaskIds, for any number of callers. *)
(***************************************************************************)
EXTENDS WatchdogScheduler, FiniteSetTheorems, TLAPS

(* No requested time is lost when it is cut to an unsigned int. *)
DelaysFit == \A d \in Delays : d < UINT_MOD

(* Only callers make one-shot tasks; they have no interval.  Only timers have
   a timeout. *)
OneShotShape(t) ==
  /\ isOneshotTask(t) =>
       /\ t.name \in UserNames
       /\ t.checkInterval = 0
       /\ DelaysFit => t.due <= t.nextTickTime
  /\ t.timeout # 0 => isOneshotTask(t)

(* A task about to be inserted. *)
Fresh(t) == t \in Task /\ t.key = keys + 1 /\ OneShotShape(t)

(* The samplers whose task is being constructed. *)
Making == [name : SamplerNames, id : Nat, tick : Nat, stored : BOOLEAN]

(* What LoadId and StoreId change, and nothing else: no proof here rests on
   the ids, which may be shared. *)
IdStep ==
  /\ curId' \in Nat /\ making' \in SUBSET Making
  /\ UNCHANGED <<now, checkerQueue, taskNameSet, nextWeakUpTime, isNeedStop,
                 finished, threadVars, stopper, historyVars>>

(* Every step, with the calls that insert a task gathered into one case. *)
Steps ==
  \/ /\ \E t \in Task : Fresh(t) /\ InsertWatchdogTaskLocked(t)
     /\ curId' \in Nat /\ making' \in SUBSET Making
  \/ IdStep
  \/ \E i \in 1 .. MaxTasks : RemoveXCollieTask(i)
  \/ \E n \in UserNames \cup SampleNames : RemoveInnerTask(n)
  \/ \E n \in SampleNames : EraseTaskName(n)
  \/ Thread
  \/ Stop
  \/ Tick

-----------------------------------------------------------------------------
(* The constructors build tasks whose key is the next one. *)
LEMMA NewTaskFresh ==
  ASSUME TypeOK, NEW n \in Names, NEW k \in Kinds, NEW timeout \in Nat,
         NEW interval \in Nat, NEW tick \in Nat, NEW due \in Nat,
         k \in {"oneshot", "timer"} =>
           n \in UserNames /\ interval = 0 /\ (DelaysFit => due <= tick),
         timeout # 0 => k = "timer"
  PROVE  Fresh(NewTask(n, k, timeout, interval, tick, due))
<1> DEFINE t == NewTask(n, k, timeout, interval, tick, due)
<1>1. t \in Task /\ t.key = keys + 1
  BY DEF TypeOK, NewTask, Task
<1>2. OneShotShape(t)
  BY DEF OneShotShape, isOneshotTask, NewTask
<1> QED BY <1>1, <1>2 DEF Fresh

(* Cutting to the width of an unsigned int and halving stay in Nat. *)
LEMMA CutType ==
  ASSUME NEW d \in Nat
  PROVE  d % UINT_MOD \in Nat /\ (d % UINT_MOD) \div 2 \in Nat
BY ConstantsAssumption

(* A time that fits is not changed by the cut. *)
LEMMA CutIdentity ==
  ASSUME NEW d \in Delays, DelaysFit
  PROVE  d % UINT_MOD = d
BY ConstantsAssumption DEF DelaysFit

(* The calls that insert a task all insert a fresh one. *)
LEMMA NextIsSteps == TypeOK /\ Next => Steps
<1> SUFFICES ASSUME TypeOK, Next PROVE Steps
  OBVIOUS
<1>n. UserNames \subseteq Names /\ SampleNames \subseteq Names
      /\ SamplerNames \subseteq Names /\ IpcFull \in Names
  BY DEF Names
<1>k. {"thread", "oneshot", "periodic", "timer", "count"} \subseteq Kinds
  BY DEF Kinds
<1>t. now \in Nat /\ curId \in Nat /\ making \in SUBSET Making
  BY DEF TypeOK, Making
<1>c. ASSUME NEW t \in Task, Fresh(t), Construct(t)
      PROVE  Steps
  BY <1>c, <1>t DEF Construct, Steps
<1>1. ASSUME NEW n \in UserNames, NEW i \in Intervals, AddThread(n, i)
      PROVE  Steps
  <2>1. Fresh(NewTask(n, "thread", 0, i, now, now))
    BY NewTaskFresh, ConstantsAssumption, <1>n, <1>k, <1>t
  <2> QED BY <1>1, <2>1, <1>c DEF AddThread, Fresh
<1>2. ASSUME NEW n \in UserNames, NEW d \in Delays, RunOneShotTask(n, d)
      PROVE  Steps
  <2>0. now + d \in Nat
    BY ConstantsAssumption, <1>t
  <2>1. Fresh(NewTask(n, "oneshot", 0, 0, now + d, now + d))
    BY NewTaskFresh, <1>n, <1>k, <2>0
  <2> QED BY <1>2, <2>1, <1>c DEF RunOneShotTask, Fresh
<1>3. ASSUME NEW n \in UserNames, NEW d \in Delays, RunXCollieTask(n, d)
      PROVE  Steps
  <2>0. d \in Nat /\ now + d \in Nat
    BY ConstantsAssumption, <1>t
  <2>1. d % UINT_MOD \in Nat
    BY <2>0, CutType
  <2>2. now + (d % UINT_MOD) \in Nat
    BY <1>t, <2>1
  <2>3. Fresh(NewTask(n, "timer", d % UINT_MOD, 0, now + (d % UINT_MOD), now + d))
    <3>1. DelaysFit => now + d <= now + (d % UINT_MOD)
      BY CutIdentity, <2>0
    <3> QED BY NewTaskFresh, <1>n, <1>k, <2>0, <2>1, <2>2, <3>1
  <2> QED BY <1>3, <2>3, <1>c DEF RunXCollieTask, Fresh
<1>4. ASSUME NEW n \in UserNames, NEW d \in Delays, SetTimerCountTask(n, d)
      PROVE  Steps
  <2>1. (d % UINT_MOD) \div 2 \in Nat
    BY ConstantsAssumption, CutType
  <2>2. Fresh(NewTask(n, "count", 0, (d % UINT_MOD) \div 2, now, now))
    BY NewTaskFresh, <1>n, <1>k, <1>t, <2>1
  <2> QED BY <1>4, <2>2, <1>c DEF SetTimerCountTask, Fresh
<1>5. ASSUME NEW n \in UserNames \cup SampleNames,
             NEW i \in Intervals, NEW d \in Delays, RunPeriodicalTask(n, i, d)
      PROVE  Steps
  <2>0. now + d \in Nat /\ i \in Nat
    BY ConstantsAssumption, <1>t
  <2>1. Fresh(NewTask(n, "periodic", 0, i, now + d, now + d))
    BY NewTaskFresh, <1>n, <1>k, <2>0
  <2> QED BY <1>5, <2>1, <1>c DEF RunPeriodicalTask, Fresh
<1>6. ASSUME NEW i \in IpcIntervals, AddIpcFull(i)
      PROVE  Steps
  <2>1. Fresh(NewTask(IpcFull, "thread", 0, i, now, now))
    BY NewTaskFresh, ConstantsAssumption, <1>n, <1>k, <1>t
  <2> QED BY <1>6, <2>1, <1>c DEF AddIpcFull, Fresh
<1>7. ASSUME NEW n \in SamplerNames, LoadId(n)
      PROVE  Steps
  <2>1. [name |-> n, id |-> curId + 1, tick |-> 0, stored |-> FALSE] \in Making
    BY <1>t DEF Making
  <2>2. curId' \in Nat /\ making' \in SUBSET Making
    BY <1>7, <1>t, <2>1 DEF LoadId
  <2> QED BY <1>7, <2>2 DEF LoadId, IdStep, Steps
<1>8. ASSUME NEW m \in making, StoreId(m)
      PROVE  Steps
  <2>1. m \in Making /\ [m EXCEPT !.tick = now, !.stored = TRUE] \in Making
    BY <1>t DEF Making
  <2>2. curId' \in Nat /\ making' \in SUBSET Making
    BY <1>8, <1>t, <2>1 DEF StoreId, Making
  <2> QED BY <1>8, <2>2 DEF StoreId, IdStep, Steps
<1>9. ASSUME NEW m \in making, NEW i \in Intervals, InsertSampler(m, i)
      PROVE  Steps
  <2> DEFINE t == NewTask(m.name, "periodic", 0, i, m.tick, m.tick)
             s == [t EXCEPT !.id = m.id]
  <2>1. m.name \in Names /\ m.tick \in Nat /\ m.id \in Nat /\ i \in Nat
    BY <1>t, <1>n, ConstantsAssumption DEF Making
  <2>2. Fresh(t)
    BY NewTaskFresh, <1>k, <2>1
  <2>3. /\ s \in Task /\ s.key = t.key /\ s.kind = t.kind /\ s.name = t.name
        /\ s.timeout = t.timeout
    BY <2>1, <2>2 DEF Fresh, Task
  <2>4. t.kind = "periodic" /\ t.timeout = 0
    BY DEF NewTask
  <2>5. Fresh(s)
    BY <2>2, <2>3, <2>4 DEF Fresh, OneShotShape, isOneshotTask
  <2>6. InsertWatchdogTaskLocked(s)
    BY <1>9 DEF InsertSampler
  <2>7. curId' \in Nat /\ making' \in SUBSET Making
    BY <1>9, <1>t DEF InsertSampler
  <2> QED BY <2>3, <2>5, <2>6, <2>7 DEF Steps
<1> QED BY <1>1, <1>2, <1>3, <1>4, <1>5, <1>6, <1>7, <1>8, <1>9
        DEF Next, Client, Sampler, Steps

-----------------------------------------------------------------------------
(* Inserting a fresh task keeps the types. *)
LEMMA PushType ==
  ASSUME TypeOK, NEW t \in Task, Fresh(t), Push(t)
  PROVE  /\ checkerQueue' \in SUBSET Task
         /\ IsFiniteSet(checkerQueue')
         /\ taskNameSet' \in SUBSET Names
         /\ keys' \in Nat
<1>1. IsFiniteSet(checkerQueue \cup {t})
  BY FS_AddElement DEF TypeOK
<1>2. t.name \in Names /\ t.key \in Nat
  BY DEF Task
<1> QED BY <1>1, <1>2 DEF TypeOK, Push

(* FetchNextTask keeps the types. *)
LEMMA FetchType == TypeOK /\ FetchNextTask => TypeOK'
<1> SUFFICES ASSUME TypeOK, FetchNextTask PROVE TypeOK'
  OBVIOUS
<1> USE DEF TypeOK, ThreadStates
<1>u. /\ pc = "fetch"
      /\ UNCHANGED <<now, curId, making, isNeedStop, wakeAt, stopper, cancelled,
                     keys, waitKey>>
  BY DEF FetchNextTask
<1>r. running = {}
  BY <1>u
<1>s. ASSUME NEW l \in Nat, SleepFor(l)
      PROVE  /\ left' \in Nat /\ nextWeakUpTime' \in Nat /\ wnow' \in Nat
             /\ pc' = "decide" /\ running' = {} /\ ran' \in SUBSET Nat
  BY <1>s, <1>r DEF SleepFor
<1>1. CASE FetchStopped
  <2>1. IsFiniteSet(checkerQueue')
    BY <1>1, FS_EmptySet DEF FetchStopped
  <2> QED BY <1>1, <1>u, <1>s, <2>1, ConstantsAssumption DEF FetchStopped
<1>2. CASE FetchEmpty
  BY <1>2, <1>u, <1>s, ConstantsAssumption DEF FetchEmpty
<1>3. ASSUME NEW top \in Tops(checkerQueue), FetchTop(top)
      PROVE  TypeOK'
  <2>1. /\ taskNameSet' \in SUBSET Names
        /\ finished' \in SUBSET SamplerNames
        /\ Rest(top) \in SUBSET Task
    BY <1>3 DEF FetchTop, DropFinished, Rest
  <2>2. IsFiniteSet(Rest(top))
    BY <1>3, FS_RemoveElement DEF Rest
  <2>t. ASSUME NEW t \in NextTops(top) PROVE t \in Task
    BY <2>1 DEF NextTops, Tops
  <2>3. CASE Rest(top) = {} /\ checkerQueue' = {} /\ SleepFor(DEFAULT_TIMEOUT)
    BY <2>1, <2>2, <2>3, <1>u, <1>s, ConstantsAssumption
  <2>4. ASSUME NEW t \in NextTops(top), t.nextTickTime > wnow,
               checkerQueue' = Rest(top), SleepFor(LeftTime(t))
        PROVE  TypeOK'
    <3>1. t.nextTickTime \in Nat
      BY <2>t DEF Task
    <3>2. LeftTime(t) \in Nat
      BY <2>4, <3>1, ConstantsAssumption DEF LeftTime
    <3> QED BY <2>1, <2>2, <2>4, <3>2, <1>u, <1>s
  <2>5. ASSUME NEW t \in NextTops(top),
               checkerQueue' = Rest(top) \ {t}, TakeTask(t)
        PROVE  TypeOK'
    <3>1. t \in Task /\ t.key \in Nat
      BY <2>t DEF Task
    <3>2. IsFiniteSet(Rest(top) \ {t})
      BY <2>2, FS_RemoveElement
    <3> QED BY <2>1, <2>5, <3>1, <3>2, <1>u DEF TakeTask
  <2> QED BY <1>3, <2>3, <2>4, <2>5 DEF FetchTop
<1> QED BY <1>1, <1>2, <1>3 DEF FetchNextTask

(* The type invariant is inductive. *)
LEMMA TypeStep == TypeOK /\ [Next]_vars => TypeOK'
<1> SUFFICES ASSUME TypeOK, [Next]_vars PROVE TypeOK'
  OBVIOUS
<1>0. CASE UNCHANGED vars
  BY <1>0 DEF TypeOK, vars, threadVars, historyVars
<1>1. ASSUME NEW t \in Task, Fresh(t), InsertWatchdogTaskLocked(t),
             curId' \in Nat, making' \in SUBSET Making
      PROVE  TypeOK'
  <2>1. /\ checkerQueue' \in SUBSET Task
        /\ IsFiniteSet(checkerQueue')
        /\ taskNameSet' \in SUBSET Names
        /\ keys' \in Nat
    BY <1>1, PushType DEF InsertWatchdogTaskLocked
  <2> QED BY <1>1, <2>1 DEF TypeOK, InsertWatchdogTaskLocked, NotifyAll,
             WakeUp, ThreadStates, Making
<1>18. CASE IdStep
  BY <1>18 DEF IdStep, TypeOK, Making, threadVars, historyVars
<1>2. ASSUME NEW i \in 1 .. MaxTasks, RemoveXCollieTask(i)
      PROVE  TypeOK'
  <2>1. IsFiniteSet(checkerQueue') /\ checkerQueue' \in SUBSET Task
    BY <1>2, FS_Subset DEF RemoveXCollieTask, TypeOK
  <2>2. cancelled' \in SUBSET Nat
    BY <1>2 DEF RemoveXCollieTask, TypeOK, Task
  <2> QED BY <1>2, <2>1, <2>2 DEF RemoveXCollieTask, TypeOK, threadVars
<1>3. ASSUME NEW n \in UserNames \cup SampleNames, RemoveInnerTask(n)
      PROVE  TypeOK'
  <2>1. IsFiniteSet(checkerQueue') /\ checkerQueue' \in SUBSET Task
    BY <1>3, FS_Subset DEF RemoveInnerTask, TypeOK
  <2> QED BY <1>3, <2>1 DEF RemoveInnerTask, TypeOK, threadVars, historyVars
<1>4. ASSUME NEW n \in SampleNames, EraseTaskName(n)
      PROVE  TypeOK'
  BY <1>4 DEF EraseTaskName, TypeOK, threadVars, historyVars
<1>5. CASE IpcCheck
  <2>1. Fresh(NewTask(IpcFull, "thread", 0, IPC_INTERVAL, now, now))
    BY NewTaskFresh, ConstantsAssumption DEF Names, Kinds, TypeOK
  <2>2. /\ checkerQueue' \in SUBSET Task
        /\ IsFiniteSet(checkerQueue')
        /\ taskNameSet' \in SUBSET Names
        /\ keys' \in Nat
    BY <1>5, <2>1, PushType DEF IpcCheck, TypeOK, Fresh
  <2> QED BY <1>5, <2>2 DEF IpcCheck, TypeOK, ThreadStates
<1>6. CASE AddKickWatchdog
  <2>1. Fresh(NewTask(Kick, "periodic", 0, KICK_INTERVAL, now, now))
    BY NewTaskFresh, ConstantsAssumption DEF Names, Kinds, TypeOK
  <2>2. /\ checkerQueue' \in SUBSET Task
        /\ IsFiniteSet(checkerQueue')
        /\ taskNameSet' \in SUBSET Names
        /\ keys' \in Nat
    BY <1>6, <2>1, PushType DEF AddKickWatchdog, TypeOK, Fresh
  <2> QED BY <1>6, <2>2 DEF AddKickWatchdog, TypeOK, ThreadStates
<1>7. CASE StartIteration
  BY <1>7 DEF StartIteration, TypeOK, ThreadStates, historyVars
<1>8. CASE FetchNextTask
  BY <1>8, FetchType
<1>9. CASE Run
  <2>1. PICK t \in running :
          \/ running' = {[t EXCEPT !.nextTickTime = wnow]} /\ UNCHANGED finished
          \/ UNCHANGED running /\ finished' \in SUBSET SamplerNames
    BY <1>9 DEF Run, TypeOK
  <2>2. [t EXCEPT !.nextTickTime = wnow] \in Task
    BY <2>1 DEF TypeOK, Task
  <2>3. /\ running' \in SUBSET Task
        /\ \A u, v \in running' : u = v
        /\ running' # {}
        /\ finished' \in SUBSET SamplerNames
    BY <2>1, <2>2 DEF TypeOK
  <2> QED BY <1>9, <2>3 DEF Run, TypeOK, ThreadStates, historyVars
<1>10. CASE ReInsertTaskIfNeed
  <2>1. PICK t \in running :
          checkerQueue' =
            IF t.checkInterval # 0 /\ t.name \in taskNameSet
            THEN checkerQueue \cup {[t EXCEPT !.nextTickTime = @ + t.checkInterval]}
            ELSE checkerQueue
    BY <1>10 DEF ReInsertTaskIfNeed
  <2>2. [t EXCEPT !.nextTickTime = @ + t.checkInterval] \in Task
    BY <2>1 DEF TypeOK, Task
  <2>3. IsFiniteSet(checkerQueue') /\ checkerQueue' \in SUBSET Task
    BY <2>1, <2>2, FS_AddElement DEF TypeOK
  <2> QED BY <1>10, <2>3 DEF ReInsertTaskIfNeed, TypeOK, ThreadStates, historyVars
<1>11. CASE CheckNeedStop
  BY <1>11 DEF CheckNeedStop, TypeOK, ThreadStates, historyVars
<1>12. CASE WaitFor
  BY <1>12 DEF WaitFor, TypeOK, ThreadStates
<1>13. CASE WaitTimeout
  BY <1>13 DEF WaitTimeout, WakeUp, TypeOK, ThreadStates
<1>14. CASE StopRaise
  BY <1>14 DEF StopRaise, TypeOK, threadVars, historyVars
<1>15. CASE StopNotify
  BY <1>15 DEF StopNotify, NotifyAll, WakeUp, TypeOK, ThreadStates
<1>16. CASE StopJoin
  BY <1>16 DEF StopJoin, TypeOK, threadVars, historyVars
<1>17. CASE Tick
  BY <1>17 DEF Tick, TypeOK, threadVars, historyVars
<1> QED BY <1>0, <1>1, <1>2, <1>3, <1>4, <1>5, <1>6, <1>7, <1>8, <1>9, <1>10,
           <1>11, <1>12, <1>13, <1>14, <1>15, <1>16, <1>17, <1>18, NextIsSteps
        DEF Steps, Thread, Stop

(* TypeOK holds in every behaviour of the scheduler. *)
THEOREM TypeCorrect == Spec => []TypeOK
<1>1. Init => TypeOK
  <2> SUFFICES ASSUME Init PROVE TypeOK
    OBVIOUS
  <2>1. IsFiniteSet(checkerQueue)
    BY FS_EmptySet DEF Init
  <2>2. /\ running \in SUBSET Task
        /\ \A t, u \in running : t = u
        /\ running # {} <=> pc \in {"run", "reinsert"}
    BY DEF Init
  <2>3. isNeedStop \in BOOLEAN
    BY DEF Init
  <2>4. checkerQueue \in SUBSET Task /\ taskNameSet \in SUBSET Names
        /\ finished \in SUBSET SamplerNames /\ cancelled \in SUBSET Nat
        /\ ran \in SUBSET Nat
        /\ making \in SUBSET [name : SamplerNames, id : Nat, tick : Nat,
                              stored : BOOLEAN]
    BY DEF Init
  <2>5. pc \in ThreadStates /\ stopper \in {"idle", "notify", "join", "done"}
    BY DEF Init, ThreadStates
  <2>6. now \in Nat /\ curId \in Nat /\ keys \in Nat /\ nextWeakUpTime \in Nat /\ wnow \in Nat
        /\ left \in Nat /\ wakeAt \in Nat /\ waitKey \in Nat
    BY ConstantsAssumption DEF Init
  <2> QED BY <2>1, <2>2, <2>3, <2>4, <2>5, <2>6 DEF TypeOK
<1> QED BY <1>1, TypeStep, PTL DEF Spec

-----------------------------------------------------------------------------
(* The thread holds one task in "run" and "reinsert", and none elsewhere. *)
LEMMA RunningCard ==
  ASSUME TypeOK
  PROVE  /\ running = {} => Cardinality(running) = 0
         /\ running # {} => Cardinality(running) = 1
         /\ IsFiniteSet(running)
<1>1. CASE running = {}
  BY <1>1, FS_EmptySet
<1>2. CASE running # {}
  <2>1. PICK t \in running : TRUE
    BY <1>2
  <2>2. running = {t}
    BY <2>1 DEF TypeOK
  <2> QED BY <2>2, FS_Singleton
<1> QED BY <1>1, <1>2

(* A queue that only loses tasks does not grow. *)
LEMMA SubsetCard ==
  ASSUME NEW S, NEW T, IsFiniteSet(T), S \subseteq T
  PROVE  /\ IsFiniteSet(S)
         /\ Cardinality(S) \in Nat
         /\ Cardinality(T) \in Nat
         /\ Cardinality(S) <= Cardinality(T)
BY FS_Subset, FS_CardinalityType

(* One more element makes a set larger by at most one. *)
LEMMA AddCard ==
  ASSUME NEW S, NEW x, IsFiniteSet(S)
  PROVE  Cardinality(S \cup {x}) <= Cardinality(S) + 1
<1>1. Cardinality(S) \in Nat
  BY FS_CardinalityType
<1>2. Cardinality(S \cup {x}) = IF x \in S THEN Cardinality(S) ELSE Cardinality(S) + 1
  BY FS_AddElement
<1> QED BY <1>1, <1>2

(* Push respects MAX_WATCH_NUM; a refused task leaves the queue alone. *)
LEMMA PushCard ==
  ASSUME TypeOK, NEW t \in Task, Push(t)
  PROVE  \/ checkerQueue' = checkerQueue
         \/ Cardinality(checkerQueue') <= MAX_WATCH_NUM
<1>1. CASE ~Accepts(t)
  BY <1>1 DEF Push
<1>2. CASE Accepts(t)
  <2>1. Cardinality(checkerQueue) < MAX_WATCH_NUM
    BY <1>2, ConstantsAssumption, FS_CardinalityType
       DEF Accepts, IsExceedMaxTaskLocked, TypeOK
  <2>2. Cardinality(checkerQueue \cup {t}) <= Cardinality(checkerQueue) + 1
    BY AddCard DEF TypeOK
  <2>3. /\ Cardinality(checkerQueue) \in Nat
        /\ Cardinality(checkerQueue \cup {t}) \in Nat
    BY FS_AddElement, FS_CardinalityType DEF TypeOK
  <2> QED BY <1>2, <2>1, <2>2, <2>3, ConstantsAssumption DEF Push
<1> QED BY <1>1, <1>2

(* CapacityBound is preserved by every step. *)
LEMMA CapacityStep == TypeOK /\ TypeOK' /\ CapacityBound /\ [Next]_vars
                        => CapacityBound'
<1> SUFFICES ASSUME TypeOK, TypeOK', CapacityBound, [Next]_vars
             PROVE  CapacityBound'
  OBVIOUS
<1>q. /\ Cardinality(checkerQueue) \in Nat
      /\ Cardinality(checkerQueue') \in Nat
  BY FS_CardinalityType DEF TypeOK
<1>r. /\ running = {} => Cardinality(running) = 0
      /\ running # {} => Cardinality(running) = 1
  BY RunningCard
<1>s. /\ running' = {} => Cardinality(running') = 0
      /\ running' # {} => Cardinality(running') = 1
  <2>1. CASE running' = {}
    BY <2>1, FS_EmptySet
  <2>2. CASE running' # {}
    <3>1. PICK t \in running' : TRUE
      BY <2>2
    <3>2. running' = {t}
      BY <3>1 DEF TypeOK
    <3> QED BY <3>2, FS_Singleton
  <2> QED BY <2>1, <2>2
<1>m. MAX_WATCH_NUM \in Nat
  BY ConstantsAssumption
<1>a. ASSUME UNCHANGED running, checkerQueue' \subseteq checkerQueue
      PROVE  CapacityBound'
  <2>1. Cardinality(checkerQueue') <= Cardinality(checkerQueue)
    BY <1>a, SubsetCard DEF TypeOK
  <2> QED BY <1>a, <2>1, <1>q, <1>r, <1>m DEF CapacityBound
<1>b. ASSUME NEW t \in Task, Push(t), UNCHANGED running
      PROVE  CapacityBound'
  <2>1. CASE checkerQueue' = checkerQueue
    BY <2>1, <1>a, <1>b
  <2>2. CASE Cardinality(checkerQueue') <= MAX_WATCH_NUM
    BY <2>2, <1>q, <1>s, <1>m DEF CapacityBound
  <2> QED BY <1>b, <2>1, <2>2, PushCard
<1>0. CASE UNCHANGED vars
  BY <1>0, <1>a DEF vars, threadVars
<1>1. ASSUME NEW t \in Task, Fresh(t), InsertWatchdogTaskLocked(t)
      PROVE  CapacityBound'
  BY <1>1, <1>b DEF InsertWatchdogTaskLocked
<1>14. CASE IdStep
  BY <1>14, <1>a DEF IdStep, threadVars
<1>2. ASSUME NEW i \in 1 .. MaxTasks, RemoveXCollieTask(i)
      PROVE  CapacityBound'
  BY <1>2, <1>a DEF RemoveXCollieTask, threadVars
<1>3. ASSUME NEW n \in UserNames \cup SampleNames, RemoveInnerTask(n)
      PROVE  CapacityBound'
  BY <1>3, <1>a DEF RemoveInnerTask, threadVars
<1>4. ASSUME NEW n \in SampleNames, EraseTaskName(n)
      PROVE  CapacityBound'
  BY <1>4, <1>a DEF EraseTaskName, threadVars
<1>5. CASE IpcCheck
  <2>1. NewTask(IpcFull, "thread", 0, IPC_INTERVAL, now, now) \in Task
    BY NewTaskFresh, ConstantsAssumption DEF Names, Kinds, TypeOK, Fresh
  <2> QED BY <1>5, <2>1, <1>a, <1>b DEF IpcCheck
<1>6. CASE AddKickWatchdog
  <2>1. NewTask(Kick, "periodic", 0, KICK_INTERVAL, now, now) \in Task
    BY NewTaskFresh, ConstantsAssumption DEF Names, Kinds, TypeOK, Fresh
  <2> QED BY <1>6, <2>1, <1>a, <1>b DEF AddKickWatchdog
<1>7. CASE StartIteration
  BY <1>7, <1>a DEF StartIteration
<1>8. CASE FetchNextTask
  <2>r. running = {}
    BY <1>8 DEF FetchNextTask, TypeOK
  <2>1. CASE FetchStopped
    BY <2>1, <1>a DEF FetchStopped, SleepFor
  <2>2. CASE FetchEmpty
    BY <2>2, <1>a DEF FetchEmpty, SleepFor
  <2>3. ASSUME NEW top \in Tops(checkerQueue), FetchTop(top)
        PROVE  CapacityBound'
    <3>1. Rest(top) \subseteq checkerQueue
      BY DEF Rest
    <3>2. ASSUME NEW t \in NextTops(top),
                 checkerQueue' = Rest(top) \ {t}, TakeTask(t)
          PROVE  CapacityBound'
      <4>1. t \in checkerQueue /\ checkerQueue' \subseteq checkerQueue \ {t}
        BY <3>1, <3>2 DEF NextTops, Tops
      <4>2. Cardinality(checkerQueue \ {t}) = Cardinality(checkerQueue) - 1
        BY <4>1, FS_RemoveElement DEF TypeOK
      <4>3. IsFiniteSet(checkerQueue \ {t})
        BY FS_RemoveElement DEF TypeOK
      <4>4. Cardinality(checkerQueue') <= Cardinality(checkerQueue) - 1
        BY <4>1, <4>2, <4>3, SubsetCard
      <4>5. Cardinality(checkerQueue) <= MAX_WATCH_NUM + 1
        BY <2>r, <1>r, <1>q, <1>m DEF CapacityBound
      <4>6. Cardinality(running') <= 1
        BY <1>s
      <4> QED BY <4>4, <4>5, <4>6, <1>q, <1>s, <1>m DEF CapacityBound
    <3> QED BY <2>3, <3>1, <3>2, <1>a DEF FetchTop, SleepFor
  <2> QED BY <1>8, <2>1, <2>2, <2>3 DEF FetchNextTask
<1>9. CASE Run
  <2>1. running # {} /\ running' # {} /\ checkerQueue' = checkerQueue
    BY <1>9 DEF Run, TypeOK
  <2> QED BY <2>1, <1>q, <1>r, <1>s, <1>m DEF CapacityBound
<1>10. CASE ReInsertTaskIfNeed
  <2>1. running # {} /\ running' = {}
    BY <1>10 DEF ReInsertTaskIfNeed, TypeOK
  <2>2. PICK u : checkerQueue' \in {checkerQueue, checkerQueue \cup {u}}
    BY <1>10 DEF ReInsertTaskIfNeed
  <2>3. Cardinality(checkerQueue') <= Cardinality(checkerQueue) + 1
    BY <2>2, <1>q, FS_AddElement DEF TypeOK
  <2> QED BY <2>1, <2>3, <1>q, <1>r, <1>s, <1>m DEF CapacityBound
<1>11. CASE CheckNeedStop \/ WaitFor \/ WaitTimeout
  BY <1>11, <1>a DEF CheckNeedStop, WaitFor, WaitTimeout
<1>12. CASE Stop
  BY <1>12, <1>a DEF Stop, StopRaise, StopNotify, StopJoin, threadVars
<1>13. CASE Tick
  BY <1>13, <1>a DEF Tick, threadVars
<1> QED BY <1>0, <1>1, <1>2, <1>3, <1>4, <1>5, <1>6, <1>7, <1>8, <1>9, <1>10,
           <1>11, <1>12, <1>13, <1>14, NextIsSteps DEF Steps, Thread

(* The queue and the task in flight exceed MAX_WATCH_NUM by at most one,
   although ReInsertTaskIfNeed never looks at the limit. *)
THEOREM CapacityHolds == Spec => []CapacityBound
<1>1. Init => CapacityBound
  BY FS_EmptySet, ConstantsAssumption DEF Init, CapacityBound
<1>2. TypeOK /\ CapacityBound /\ [Next]_vars => CapacityBound'
  BY TypeStep, CapacityStep
<1> QED BY <1>1, <1>2, TypeCorrect, PTL DEF Spec

-----------------------------------------------------------------------------
(* Keys identify tasks, and none is ahead of the count. *)
UniqueKeys ==
  /\ \A t \in Live : t.key <= keys
  /\ \A t, u \in Live : t.key = u.key => t = u
  /\ checkerQueue \cap running = {}

(* What makes NamesOwned and TimerContract inductive: keys identify tasks,
   one-shot tasks never carry the name of a sampler, and a waiting one-shot
   task has neither run nor been cancelled. *)
Pending ==
  /\ wnow <= now
  /\ \A i \in ran \cup cancelled : i <= keys
  /\ \A t \in checkerQueue :
       isOneshotTask(t) => t.key \notin ran /\ t.key \notin cancelled

IInv ==
  /\ UniqueKeys
  /\ \A t \in Live : OneShotShape(t)
  /\ NamesOwned
  /\ Pending

(* A step that only takes tasks out of the queue keeps IInv, as long as the
   names it erases have no owner left. *)
LEMMA ShrinkStep ==
  ASSUME TypeOK, IInv,
         checkerQueue' \subseteq checkerQueue,
         UNCHANGED <<running, keys, ran>>,
         wnow' <= now',
         cancelled' = cancelled \/ cancelled' \subseteq
           cancelled \cup {t.key : t \in checkerQueue \ checkerQueue'},
         \A t \in Live' : OwnsName(t) => t.name \in taskNameSet'
  PROVE  IInv'
<1>1. Live' \subseteq Live
  BY DEF Live
<1>2. UniqueKeys'
  BY <1>1 DEF UniqueKeys, IInv
<1>3. \A t \in Live' : OneShotShape(t)
  BY <1>1 DEF IInv
<1>4. NamesOwned'
  BY <1>1 DEF NamesOwned, IInv
<1>5. \A i \in ran' \cup cancelled' : i <= keys'
  BY DEF IInv, Pending, UniqueKeys, Live
<1>6. ASSUME NEW t \in checkerQueue', isOneshotTask(t)
      PROVE  t.key \notin ran' /\ t.key \notin cancelled'
  BY <1>6 DEF IInv, Pending, UniqueKeys, Live
<1> QED BY <1>2, <1>3, <1>4, <1>5, <1>6 DEF IInv, Pending

(* Inserting a fresh task keeps IInv: its key is new, and so is its name. *)
LEMMA PushStep ==
  ASSUME TypeOK, IInv, NEW t \in Task, Fresh(t), Push(t),
         UNCHANGED <<running, ran, cancelled, wnow, now>>
  PROVE  IInv'
<1>i. \A u \in Live : u.key \in Nat /\ u.key <= keys /\ u \in Task
  BY DEF IInv, UniqueKeys, Live, TypeOK, Task
<1>c. keys \in Nat /\ keys' = keys + 1 /\ t.key = keys + 1
  BY DEF TypeOK, Push, Fresh
<1>1. CASE ~Accepts(t)
  <2>1. UNCHANGED <<checkerQueue, taskNameSet>>
    BY <1>1 DEF Push
  <2>2. Live' = Live
    BY <2>1 DEF Live
  <2>3. UniqueKeys'
    BY <2>1, <2>2, <1>i, <1>c DEF IInv, UniqueKeys
  <2>4. NamesOwned'
    BY <2>1, <2>2 DEF IInv, NamesOwned
  <2>5. Pending'
    BY <2>1, <1>c DEF IInv, Pending, TypeOK
  <2> QED BY <2>2, <2>3, <2>4, <2>5 DEF IInv
<1>2. CASE Accepts(t)
  <2>1. /\ checkerQueue' = checkerQueue \cup {t}
        /\ taskNameSet' = IF isOneshotTask(t) THEN taskNameSet
                          ELSE taskNameSet \cup {t.name}
    BY <1>2 DEF Push
  <2>2. Live' = Live \cup {t}
    BY <2>1 DEF Live
  <2>3. UniqueKeys'
    BY <2>1, <2>2, <1>i, <1>c DEF IInv, UniqueKeys, Live
  <2>4. \A u \in Live' : OneShotShape(u)
    BY <2>2 DEF IInv, Fresh
  <2>5. ASSUME NEW u \in Live, OwnsName(u), ~isOneshotTask(t)
        PROVE  t.name # u.name
    BY <1>2, <2>5 DEF IInv, NamesOwned, Accepts, IsTaskExistLocked
  <2>6. ASSUME NEW u \in Live', OwnsName(u) PROVE u.name \in taskNameSet'
    BY <2>1, <2>2, <2>6 DEF IInv, NamesOwned, OwnsName
  <2>7. ASSUME NEW u \in Live', OwnsName(u), NEW v \in Live',
               ~isOneshotTask(v), v.name = u.name
        PROVE  v = u
    <3>1. CASE u = t /\ v \in Live
      BY <3>1, <2>5, <2>7 DEF OwnsName
    <3>2. CASE v = t /\ u \in Live
      BY <3>2, <2>5, <2>7
    <3>3. CASE u \in Live /\ v \in Live
      BY <3>3, <2>7 DEF IInv, NamesOwned
    <3> QED BY <2>2, <3>1, <3>2, <3>3
  <2>8. NamesOwned'
    BY <2>6, <2>7 DEF NamesOwned
  <2>9. Pending'
    BY <2>1, <1>c DEF IInv, Pending, TypeOK
  <2> QED BY <2>3, <2>4, <2>8, <2>9 DEF IInv
<1> QED BY <1>1, <1>2

(* Steps of the thread that replace the task it holds by a copy with another
   tick, or that push such a copy back. *)
LEMMA CopyStep ==
  ASSUME TypeOK, IInv, NEW t \in running, NEW k \in Nat, NEW c,
         c = [t EXCEPT !.nextTickTime = k], t.checkInterval # 0,
         Live' = checkerQueue \cup {c},
         \/ running' = {c} /\ checkerQueue' = checkerQueue
         \/ running' = {} /\ checkerQueue' = checkerQueue \cup {c},
         UNCHANGED <<keys, ran, cancelled, taskNameSet>>,
         wnow' <= now'
  PROVE  IInv'
<1>t. t \in Live /\ t \in Task /\ t \notin checkerQueue
  BY DEF Live, TypeOK, IInv, UniqueKeys
<1>c. /\ c.key = t.key /\ c.name = t.name /\ c.kind = t.kind
      /\ c.checkInterval = t.checkInterval /\ c.timeout = t.timeout
  BY <1>t DEF Task
<1>o. /\ ~isOneshotTask(t) /\ ~isOneshotTask(c)
      /\ OwnsName(c) <=> OwnsName(t)
  BY <1>t, <1>c DEF IInv, OneShotShape, OwnsName, isOneshotTask
<1>q. \A u \in checkerQueue : u \in Live /\ u # t /\ u.key # t.key
  BY <1>t DEF IInv, UniqueKeys, Live
<1>1. UniqueKeys'
  <2>1. \A u \in Live' : u.key <= keys'
    BY <1>c, <1>q, <1>t DEF IInv, UniqueKeys
  <2>2. ASSUME NEW u \in Live', NEW v \in Live', u.key = v.key
        PROVE  u = v
    <3>1. CASE u \in checkerQueue /\ v \in checkerQueue
      BY <3>1, <2>2, <1>q DEF IInv, UniqueKeys
    <3>2. CASE u = c /\ v \in checkerQueue
      BY <3>2, <2>2, <1>q, <1>c
    <3>3. CASE v = c /\ u \in checkerQueue
      BY <3>3, <2>2, <1>q, <1>c
    <3> QED BY <3>1, <3>2, <3>3
  <2>3. c \notin checkerQueue
    BY <1>c, <1>q
  <2> QED BY <2>1, <2>2, <2>3 DEF UniqueKeys
<1>2. \A u \in Live' : OneShotShape(u)
  BY <1>o, <1>c, <1>t, <1>q DEF IInv, OneShotShape
<1>3. ASSUME NEW u \in checkerQueue, ~isOneshotTask(u), u.name = t.name
      PROVE  ~OwnsName(t) /\ ~OwnsName(u)
  BY <1>3, <1>q, <1>t, <1>o DEF IInv, NamesOwned, OwnsName
<1>4. ASSUME NEW u \in Live', OwnsName(u)
      PROVE  /\ u.name \in taskNameSet'
             /\ \A v \in Live' : ~isOneshotTask(v) /\ v.name = u.name => v = u
  <2>1. CASE u = c
    BY <2>1, <1>4, <1>3, <1>c, <1>o, <1>t DEF IInv, NamesOwned
  <2>2. CASE u \in checkerQueue
    BY <2>2, <1>4, <1>3, <1>c, <1>o, <1>q DEF IInv, NamesOwned, OwnsName
  <2> QED BY <2>1, <2>2
<1>5. NamesOwned'
  BY <1>4 DEF NamesOwned
<1>6. Pending'
  BY <1>o DEF IInv, Pending
<1> QED BY <1>1, <1>2, <1>5, <1>6 DEF IInv

(* FetchNextTask keeps IInv. *)
LEMMA FetchStep == TypeOK /\ IInv /\ FetchNextTask => IInv'
<1> SUFFICES ASSUME TypeOK, IInv, FetchNextTask PROVE IInv'
  OBVIOUS
<1>u. UNCHANGED <<now, keys, cancelled>> /\ running = {}
  BY DEF FetchNextTask, TypeOK
<1>n. now \in Nat /\ wnow \in Nat /\ wnow <= now
  BY DEF TypeOK, IInv, Pending
<1>s. ASSUME NEW l, SleepFor(l), checkerQueue' \subseteq checkerQueue,
             \A t \in Live' : OwnsName(t) => t.name \in taskNameSet'
      PROVE  IInv'
  <2>1. UNCHANGED <<running, ran>> /\ wnow' <= now'
    BY <1>s, <1>u, <1>n DEF SleepFor
  <2> QED BY <2>1, <1>s, <1>u, ShrinkStep
<1>1. CASE FetchStopped
  BY <1>1, <1>s, <1>u DEF FetchStopped, SleepFor, Live
<1>2. CASE FetchEmpty
  BY <1>2, <1>s, <1>u DEF FetchEmpty, SleepFor, Live
<1>3. ASSUME NEW top \in Tops(checkerQueue), FetchTop(top)
      PROVE  IInv'
  <2>t. top \in checkerQueue /\ top \in Live /\ top \in Task
    BY DEF Tops, Live, TypeOK
  <2>r. Rest(top) \subseteq checkerQueue
    BY DEF Rest
  <2>1. ASSUME NEW u \in Rest(top), OwnsName(u)
        PROVE  u.name \in taskNameSet'
    <3>0. u \in Live /\ u.name \in taskNameSet
      BY <2>1, <2>r DEF IInv, NamesOwned, Live
    <3>1. CASE CheckCurrentTaskLocked(top)
      <4>1. top.name \in SamplerNames
        BY <3>1 DEF CheckCurrentTaskLocked, TypeOK
      <4>2. ~isOneshotTask(top)
        BY <4>1, <2>t, NamesAssumption DEF IInv, OneShotShape
      <4>3. u # top
        BY <3>1, <2>1 DEF Rest
      <4>4. u.name # top.name
        BY <4>2, <4>3, <3>0, <2>1, <2>t DEF IInv, NamesOwned
      <4> QED BY <3>0, <3>1, <4>4, <1>3 DEF FetchTop, DropFinished
    <3>2. CASE ~CheckCurrentTaskLocked(top)
      BY <3>0, <3>2, <1>3 DEF FetchTop, DropFinished
    <3> QED BY <3>1, <3>2
  <2>2. CASE checkerQueue' = {} /\ SleepFor(DEFAULT_TIMEOUT)
    BY <2>2, <1>s, <1>u DEF SleepFor, Live
  <2>3. ASSUME NEW t \in NextTops(top), checkerQueue' = Rest(top),
               SleepFor(LeftTime(t))
        PROVE  IInv'
    <3>1. Live' = Rest(top)
      BY <2>3, <1>u DEF Live, SleepFor
    <3> QED BY <2>1, <2>3, <2>r, <3>1, <1>s
  <2>4. ASSUME NEW t \in NextTops(top), checkerQueue' = Rest(top) \ {t},
               TakeTask(t)
        PROVE  IInv'
    <3>1. t \in Rest(top) /\ t \in Live
      BY <2>4, <2>t, <2>r DEF NextTops, Tops, Rest, Live
    <3>2. Live' = Rest(top) /\ Live' \subseteq Live
      BY <3>1, <2>4, <2>r DEF TakeTask, Live
    <3>3. UniqueKeys'
      BY <3>2, <2>4, <1>u DEF IInv, UniqueKeys, TakeTask
    <3>4. \A u \in Live' : OneShotShape(u)
      BY <3>2 DEF IInv
    <3>5. NamesOwned'
      BY <3>2, <2>1 DEF IInv, NamesOwned
    <3>6. Pending'
      <4>1. t.key <= keys
        BY <3>1 DEF IInv, UniqueKeys
      <4>2. wnow' <= now'
        BY <2>4, <1>n, <1>u DEF TakeTask
      <4>3. \A i \in ran' \cup cancelled' : i <= keys'
        BY <4>1, <2>4, <1>u DEF IInv, Pending, TakeTask
      <4>4. ASSUME NEW u \in checkerQueue', isOneshotTask(u)
            PROVE  u.key \notin ran' /\ u.key \notin cancelled'
        <5>1. u \in checkerQueue /\ u \in Live /\ u # t
          BY <2>4, <4>4, <2>r DEF Live
        <5>2. u.key # t.key
          BY <5>1, <3>1 DEF IInv, UniqueKeys
        <5> QED BY <5>1, <5>2, <4>4, <2>4, <1>u DEF IInv, Pending, TakeTask
      <4> QED BY <4>2, <4>3, <4>4 DEF Pending
    <3> QED BY <3>3, <3>4, <3>5, <3>6 DEF IInv
  <2> QED BY <1>3, <2>2, <2>3, <2>4 DEF FetchTop
<1> QED BY <1>1, <1>2, <1>3 DEF FetchNextTask

(* The strengthened invariant is inductive: one step per action. *)
LEMMA IInvStep == TypeOK /\ IInv /\ [Next]_vars => IInv'
<1> SUFFICES ASSUME TypeOK, IInv, [Next]_vars PROVE IInv'
  OBVIOUS
<1>w. wnow <= now /\ now \in Nat /\ wnow \in Nat
  BY DEF IInv, Pending, TypeOK
<1>a. ASSUME UNCHANGED <<checkerQueue, taskNameSet, running, keys, ran, cancelled>>,
             wnow' <= now'
      PROVE  IInv'
  <2>1. \A t \in Live' : OwnsName(t) => t.name \in taskNameSet'
    BY <1>a DEF Live, IInv, NamesOwned
  <2> QED BY <1>a, <2>1, ShrinkStep
<1>0. CASE UNCHANGED vars
  BY <1>0, <1>a, <1>w DEF vars, threadVars, historyVars
<1>1. ASSUME NEW t \in Task, Fresh(t), InsertWatchdogTaskLocked(t)
      PROVE  IInv'
  BY <1>1, PushStep DEF InsertWatchdogTaskLocked
<1>14. CASE IdStep
  BY <1>14, <1>a, <1>w DEF IdStep, threadVars, historyVars
<1>2. ASSUME NEW i \in 1 .. MaxTasks, RemoveXCollieTask(i)
      PROVE  IInv'
  <2>1. /\ checkerQueue' \subseteq checkerQueue
        /\ UNCHANGED <<running, keys, ran, wnow, now, taskNameSet>>
    BY <1>2 DEF RemoveXCollieTask, threadVars
  <2>2. cancelled' \subseteq
          cancelled \cup {t.key : t \in checkerQueue \ checkerQueue'}
    BY <1>2 DEF RemoveXCollieTask
  <2>3. \A t \in Live' : OwnsName(t) => t.name \in taskNameSet'
    BY <2>1 DEF Live, IInv, NamesOwned
  <2> QED BY <2>1, <2>2, <2>3, <1>w, ShrinkStep
<1>3. ASSUME NEW n \in UserNames \cup SampleNames, RemoveInnerTask(n)
      PROVE  IInv'
  <2>1. /\ checkerQueue' = {t \in checkerQueue : t.name # n}
        /\ checkerQueue' \subseteq checkerQueue
        /\ UNCHANGED <<running, keys, ran, wnow, now, cancelled>>
    BY <1>3 DEF RemoveInnerTask, threadVars, historyVars
  <2>2. ASSUME NEW t \in Live', OwnsName(t)
        PROVE  t.name \in taskNameSet'
    <3>1. t \in Live /\ t.name \in taskNameSet
      BY <2>1, <2>2 DEF Live, IInv, NamesOwned
    <3>2. CASE \E u \in checkerQueue : u.name = n /\ ~isOneshotTask(u)
      <4>1. PICK u \in checkerQueue : u.name = n /\ ~isOneshotTask(u)
        BY <3>2
      <4>2. u \in Live /\ u \notin running /\ u \notin checkerQueue'
        BY <4>1, <2>1 DEF Live, IInv, UniqueKeys
      <4>3. t # u
        BY <4>2, <2>1, <2>2 DEF Live
      <4>4. t.name # n
        BY <4>1, <4>2, <4>3, <3>1, <2>2 DEF IInv, NamesOwned
      <4> QED BY <3>1, <4>4, <1>3 DEF RemoveInnerTask
    <3>3. CASE ~\E u \in checkerQueue : u.name = n /\ ~isOneshotTask(u)
      BY <3>1, <3>3, <1>3 DEF RemoveInnerTask
    <3> QED BY <3>2, <3>3
  <2> QED BY <2>1, <2>2, <1>w, ShrinkStep
<1>4. ASSUME NEW n \in SampleNames, EraseTaskName(n)
      PROVE  IInv'
  <2>1. /\ checkerQueue' \subseteq checkerQueue
        /\ UNCHANGED <<checkerQueue, running, keys, ran, wnow, now, cancelled>>
    BY <1>4 DEF EraseTaskName, threadVars, historyVars
  <2>2. \A t \in Live' : OwnsName(t) => t.name \in taskNameSet'
    BY <1>4, <2>1 DEF EraseTaskName, Live, IInv, NamesOwned, OwnsName
  <2> QED BY <2>1, <2>2, <1>w, ShrinkStep
<1>5. CASE IpcCheck
  <2>1. Fresh(NewTask(IpcFull, "thread", 0, IPC_INTERVAL, now, now))
    BY NewTaskFresh, ConstantsAssumption DEF Names, Kinds, TypeOK
  <2> QED BY <1>5, <2>1, <1>a, <1>w, PushStep DEF IpcCheck, historyVars, Fresh
<1>6. CASE AddKickWatchdog
  <2>1. Fresh(NewTask(Kick, "periodic", 0, KICK_INTERVAL, now, now))
    BY NewTaskFresh, ConstantsAssumption DEF Names, Kinds, TypeOK
  <2> QED BY <1>6, <2>1, <1>a, <1>w, PushStep DEF AddKickWatchdog, historyVars, Fresh
<1>7. CASE StartIteration
  BY <1>7, <1>a, <1>w DEF StartIteration, historyVars
<1>8. CASE FetchNextTask
  BY <1>8, FetchStep
<1>9. CASE Run
  <2>1. UNCHANGED <<checkerQueue, taskNameSet, keys, ran, cancelled, wnow, now>>
    BY <1>9 DEF Run, historyVars
  <2>2. PICK t \in running :
          \/ /\ IsLate(t)
             /\ running' = {[t EXCEPT !.nextTickTime = wnow]}
          \/ UNCHANGED running
    BY <1>9 DEF Run
  <2>3. CASE UNCHANGED running
    BY <2>1, <2>3, <1>a, <1>w
  <2>4. CASE IsLate(t) /\ running' = {[t EXCEPT !.nextTickTime = wnow]}
    <3>1. t.checkInterval # 0
      BY <2>4 DEF IsLate
    <3>2. Live' = checkerQueue \cup {[t EXCEPT !.nextTickTime = wnow]}
      BY <2>1, <2>4 DEF Live
    <3> QED BY <2>1, <2>4, <3>1, <3>2, <1>w, CopyStep
  <2> QED BY <2>2, <2>3, <2>4
<1>10. CASE ReInsertTaskIfNeed
  <2>1. /\ UNCHANGED <<taskNameSet, keys, ran, cancelled, now>>
        /\ wnow' <= now' /\ running' = {}
    BY <1>10, <1>w DEF ReInsertTaskIfNeed, historyVars
  <2>2. PICK t \in running :
          checkerQueue' =
            IF t.checkInterval # 0 /\ t.name \in taskNameSet
            THEN checkerQueue \cup {[t EXCEPT !.nextTickTime = @ + t.checkInterval]}
            ELSE checkerQueue
    BY <1>10 DEF ReInsertTaskIfNeed
  <2>3. CASE t.checkInterval # 0 /\ t.name \in taskNameSet
    <3>1. t.nextTickTime + t.checkInterval \in Nat
      BY <2>2 DEF TypeOK, Task
    <3>2. /\ checkerQueue' = checkerQueue \cup
               {[t EXCEPT !.nextTickTime = t.nextTickTime + t.checkInterval]}
          /\ Live' = checkerQueue'
      BY <2>1, <2>2, <2>3 DEF Live
    <3> QED BY <2>1, <2>3, <3>1, <3>2, CopyStep
  <2>4. CASE ~(t.checkInterval # 0 /\ t.name \in taskNameSet)
    <3>1. checkerQueue' = checkerQueue /\ Live' = checkerQueue
      BY <2>1, <2>2, <2>4 DEF Live
    <3>2. Live' \subseteq Live
      BY <3>1 DEF Live
    <3>3. UniqueKeys'
      BY <2>1, <3>1, <3>2 DEF IInv, UniqueKeys
    <3>4. NamesOwned'
      BY <2>1, <3>2 DEF IInv, NamesOwned
    <3>5. Pending'
      BY <2>1, <3>1 DEF IInv, Pending
    <3> QED BY <3>2, <3>3, <3>4, <3>5 DEF IInv
  <2> QED BY <2>3, <2>4
<1>11. CASE CheckNeedStop \/ WaitFor \/ WaitTimeout
  BY <1>11, <1>a, <1>w DEF CheckNeedStop, WaitFor, WaitTimeout, historyVars
<1>12. CASE Stop
  BY <1>12, <1>a, <1>w DEF Stop, StopRaise, StopNotify, StopJoin, threadVars,
     historyVars
<1>13. CASE Tick
  BY <1>13, <1>a, <1>w DEF Tick, threadVars, historyVars
<1> QED BY <1>0, <1>1, <1>2, <1>3, <1>4, <1>5, <1>6, <1>7, <1>8, <1>9, <1>10,
           <1>11, <1>12, <1>13, <1>14, NextIsSteps DEF Steps, Thread

(* The strengthened invariant holds in every behaviour. *)
LEMMA IInvHolds == Spec => [](TypeOK /\ IInv)
<1>1. Init => IInv
  BY DEF Init, IInv, UniqueKeys, NamesOwned, Pending, Live
<1> QED BY <1>1, IInvStep, TypeCorrect, PTL DEF Spec

(* A registered name belongs to one task, from its insertion to the moment it
   is removed or dropped, through every run and re-insertion. *)
THEOREM NamesHold == Spec => []NamesOwned
BY IInvHolds, PTL DEF IInv

-----------------------------------------------------------------------------
(* No step leaves the thread asleep beyond the tick of a new task: an insertion
   that does not wake it is of a task that can wait. *)
LEMMA SleeperStep ==
  TypeOK /\ IInv /\ SleeperNotified /\ [Next]_vars => SleeperNotified'
<1> SUFFICES ASSUME TypeOK, IInv, SleeperNotified, [Next]_vars, pc' = "wait"
             PROVE  \A t \in checkerQueue' : t.key > waitKey' =>
                      t.nextTickTime >= nextWeakUpTime'
  BY DEF SleeperNotified
<1>k. ASSUME pc = "wait", checkerQueue' \subseteq checkerQueue,
             UNCHANGED <<waitKey, nextWeakUpTime>>
      PROVE  \A t \in checkerQueue' : t.key > waitKey' =>
               t.nextTickTime >= nextWeakUpTime'
  BY <1>k DEF SleeperNotified
<1>1. ASSUME NEW t \in Task, Fresh(t), InsertWatchdogTaskLocked(t)
      PROVE  \A u \in checkerQueue' : u.key > waitKey' =>
               u.nextTickTime >= nextWeakUpTime'
  <2>1. ~Accepts(t) \/ t.nextTickTime >= nextWeakUpTime
    BY <1>1 DEF InsertWatchdogTaskLocked, NotifyAll, WakeUp
  <2>2. pc = "wait" /\ UNCHANGED <<waitKey, nextWeakUpTime>>
    BY <1>1 DEF InsertWatchdogTaskLocked, NotifyAll, WakeUp
  <2>3. CASE checkerQueue' = checkerQueue
    BY <2>2, <2>3, <1>k
  <2>4. CASE Accepts(t) /\ checkerQueue' = checkerQueue \cup {t}
    BY <2>1, <2>2, <2>4 DEF SleeperNotified
  <2> QED BY <1>1, <2>3, <2>4 DEF InsertWatchdogTaskLocked, Push
<1>7. CASE IdStep
  BY <1>7, <1>k DEF IdStep, threadVars, historyVars
<1>2. ASSUME NEW i \in 1 .. MaxTasks, RemoveXCollieTask(i)
      PROVE  pc = "wait" /\ checkerQueue' \subseteq checkerQueue
             /\ UNCHANGED <<waitKey, nextWeakUpTime>>
  BY <1>2 DEF RemoveXCollieTask, threadVars
<1>3. ASSUME NEW n \in UserNames \cup SampleNames, RemoveInnerTask(n)
      PROVE  pc = "wait" /\ checkerQueue' \subseteq checkerQueue
             /\ UNCHANGED <<waitKey, nextWeakUpTime>>
  BY <1>3 DEF RemoveInnerTask, threadVars, historyVars
<1>4. ASSUME NEW n \in SampleNames, EraseTaskName(n)
      PROVE  pc = "wait" /\ checkerQueue' \subseteq checkerQueue
             /\ UNCHANGED <<waitKey, nextWeakUpTime>>
  BY <1>4 DEF EraseTaskName, threadVars, historyVars
<1>5. CASE Thread
  <2>1. pc = "preWait" /\ waitKey' = keys /\ checkerQueue' = checkerQueue
    BY <1>5 DEF Thread, IpcCheck, AddKickWatchdog, StartIteration, FetchNextTask,
       FetchStopped, FetchEmpty, FetchTop, SleepFor, TakeTask, Run,
       ReInsertTaskIfNeed, CheckNeedStop, WaitFor, WaitTimeout, WakeUp
  <2>2. \A t \in checkerQueue : ~(t.key > keys)
    BY DEF IInv, UniqueKeys, Live, TypeOK, Task
  <2> QED BY <2>1, <2>2
<1>6. CASE Stop \/ Tick \/ UNCHANGED vars
  <2>1. pc = "wait" /\ UNCHANGED <<checkerQueue, waitKey, nextWeakUpTime>>
    BY <1>6 DEF Stop, StopRaise, StopNotify, StopJoin, Tick, NotifyAll, WakeUp, vars,
       threadVars, historyVars
  <2> QED BY <2>1, <1>k
<1> QED BY <1>1, <1>2, <1>3, <1>4, <1>5, <1>6, <1>7, <1>k, NextIsSteps DEF Steps

(* SleeperNotified, for every limit and horizon: InsertWatchdogTaskLocked lets
   the thread sleep on only when the new task is due after it. *)
THEOREM SleeperIsNotified == Spec => []SleeperNotified
<1>1. Init => SleeperNotified
  BY DEF Init, SleeperNotified
<1> QED BY <1>1, SleeperStep, IInvHolds, PTL DEF Spec

-----------------------------------------------------------------------------
(* The waiting timers of the TimerService. *)
Waiting == {t \in checkerQueue : isOneshotTask(t)}

(* What no step may change unless it is a step of the TimerService. *)
timerVars == <<now, keys, Waiting, ran, cancelled, isNeedStop>>

(* Inserting a task sets a timer or counts a request. *)
LEMMA PushRefines ==
  ASSUME NEW t, t.key = keys + 1, Push(t),
         UNCHANGED <<now, ran, cancelled, isNeedStop>>
  PROVE  Timers!Next
<1>1. CASE Accepts(t) /\ isOneshotTask(t)
  <2>1. t \in Waiting' /\ Waiting' = Waiting \cup {t}
    BY <1>1 DEF Push, Waiting
  <2>2. Timers!Set(t)
    BY <2>1 DEF Push, Timers!Set, Waiting
  <2> QED BY <2>1, <2>2 DEF Timers!Next, Waiting
<1>2. CASE ~(Accepts(t) /\ isOneshotTask(t))
  <2>1. Waiting' = Waiting
    BY <1>2 DEF Push, Waiting
  <2>2. Timers!Refuse
    BY <2>1 DEF Push, Timers!Refuse, Waiting
  <2> QED BY <2>2 DEF Timers!Next
<1> QED BY <1>1, <1>2

(* FetchNextTask fires the timer it takes, discards all of them after Stop,
   and else leaves them alone: the sampler it may drop is no timer. *)
LEMMA FetchRefines ==
  ASSUME DelaysFit, TypeOK, IInv, FetchNextTask
  PROVE  Timers!Next \/ UNCHANGED timerVars
<1>u. UNCHANGED <<now, keys, isNeedStop, cancelled>>
  BY DEF FetchNextTask
<1>1. CASE FetchStopped
  <2>1. Waiting' = {} /\ UNCHANGED ran
    BY <1>1 DEF FetchStopped, SleepFor, Waiting
  <2>2. Timers!Discard
    BY <1>1, <1>u, <2>1 DEF FetchStopped, Timers!Discard, Waiting
  <2> QED BY <2>2 DEF Timers!Next
<1>2. CASE FetchEmpty
  BY <1>2, <1>u DEF FetchEmpty, SleepFor, timerVars, Waiting
<1>3. ASSUME NEW top \in Tops(checkerQueue), FetchTop(top)
      PROVE  Timers!Next \/ UNCHANGED timerVars
  <2>0. top \in checkerQueue /\ top \in Live /\ top \in Task
    BY DEF Tops, Live, TypeOK
  <2>1. {t \in Rest(top) : isOneshotTask(t)} = Waiting
    <3>1. CASE CheckCurrentTaskLocked(top)
      <4>1. ~isOneshotTask(top)
        BY <3>1, <2>0, NamesAssumption
           DEF CheckCurrentTaskLocked, TypeOK, IInv, OneShotShape
      <4> QED BY <4>1 DEF Rest, Waiting
    <3>2. CASE ~CheckCurrentTaskLocked(top)
      BY <3>2 DEF Rest, Waiting
    <3> QED BY <3>1, <3>2
  <2>2. ASSUME NEW l, SleepFor(l), checkerQueue' = Rest(top)
        PROVE  UNCHANGED timerVars
    BY <2>1, <2>2, <1>u DEF SleepFor, timerVars, Waiting
  <2>3. ASSUME NEW t \in NextTops(top), t.nextTickTime <= wnow,
               checkerQueue' = Rest(top) \ {t}, TakeTask(t)
        PROVE  Timers!Next \/ UNCHANGED timerVars
    <3>0. t \in checkerQueue /\ t \in Live /\ t \in Task
      BY <2>0 DEF NextTops, Tops, Rest, Live, TypeOK
    <3>1. CASE ~isOneshotTask(t)
      BY <3>1, <2>1, <2>3, <1>u DEF TakeTask, timerVars, Waiting
    <3>2. CASE isOneshotTask(t)
      <4>1. t \in Waiting /\ Waiting' = Waiting \ {t}
        BY <3>0, <3>2, <2>1, <2>3 DEF Waiting
      <4>2. t.due \in Nat /\ t.nextTickTime \in Nat
        BY <3>0 DEF Task
      <4>3. t.due <= now
        BY <4>2, <3>0, <3>2, <2>3 DEF IInv, OneShotShape, Pending, TypeOK
      <4>4. t.key \notin ran \cup cancelled
        BY <3>0, <3>2 DEF IInv, Pending
      <4>5. ran' = ran \cup {t.key} /\ ~isNeedStop
        BY <3>2, <2>3, <1>3 DEF TakeTask, FetchTop
      <4>6. Timers!Fire(t)
        BY <4>1, <4>3, <4>4, <4>5, <1>u DEF Timers!Fire, Waiting
      <4> QED BY <4>1, <4>6 DEF Timers!Next, Waiting
    <3> QED BY <3>1, <3>2
  <2> QED BY <1>3, <2>2, <2>3 DEF FetchTop
<1> QED BY <1>1, <1>2, <1>3 DEF FetchNextTask

(* The tasks ReInsertTaskIfNeed brings back are no timers. *)
LEMMA ReInsertRefines ==
  ASSUME TypeOK, IInv, ReInsertTaskIfNeed
  PROVE  UNCHANGED timerVars
<1>1. PICK t \in running :
        checkerQueue' =
          IF t.checkInterval # 0 /\ t.name \in taskNameSet
          THEN checkerQueue \cup {[t EXCEPT !.nextTickTime = @ + t.checkInterval]}
          ELSE checkerQueue
  BY DEF ReInsertTaskIfNeed
<1>2. t \in Live /\ t \in Task
  BY DEF Live, TypeOK
<1>3. CASE t.checkInterval # 0
  <2>1. ~isOneshotTask(t)
    BY <1>2, <1>3 DEF IInv, OneShotShape
  <2>2. ~isOneshotTask([t EXCEPT !.nextTickTime = @ + t.checkInterval])
    BY <2>1, <1>2 DEF isOneshotTask, Task
  <2>3. Waiting' = Waiting
    BY <1>1, <2>2 DEF Waiting
  <2> QED BY <2>3 DEF ReInsertTaskIfNeed, timerVars, historyVars
<1>4. CASE t.checkInterval = 0
  BY <1>1, <1>4 DEF ReInsertTaskIfNeed, timerVars, historyVars, Waiting
<1> QED BY <1>3, <1>4

(* CancelTimer cancels the timers that wait under that id. *)
LEMMA CancelRefines ==
  ASSUME TypeOK, IInv, NEW i \in 1 .. MaxTasks, RemoveXCollieTask(i)
  PROVE  Timers!Next
<1> DEFINE found == {u \in checkerQueue : u.id = i /\ u.timeout # 0}
<1>1. UNCHANGED <<now, keys, ran, isNeedStop>>
  BY DEF RemoveXCollieTask
<1>2. /\ checkerQueue' = checkerQueue \ found
      /\ cancelled' = cancelled \cup {t.key : t \in found}
  BY DEF RemoveXCollieTask
<1>3. found \subseteq Waiting
  BY DEF IInv, OneShotShape, Live, Waiting
<1>4. Waiting' = Waiting \ found
  BY <1>2 DEF Waiting
<1>5. \A t, u \in found : t.id = u.id
  OBVIOUS
<1>6. Timers!Cancel(found)
  BY <1>1, <1>2, <1>3, <1>4, <1>5 DEF Timers!Cancel, Waiting
<1>7. found \in SUBSET Waiting
  BY <1>3
<1> QED BY <1>6, <1>7 DEF Timers!Next, Waiting

(* Every step of the scheduler is a step of the timer service or leaves its
   state alone. *)
LEMMA TimerStep ==
  ASSUME DelaysFit, TypeOK, IInv, [Next]_vars
  PROVE  Timers!Next \/ UNCHANGED timerVars
<1>a. ASSUME UNCHANGED <<now, keys, checkerQueue, ran, cancelled, isNeedStop>>
      PROVE  UNCHANGED timerVars
  BY <1>a DEF timerVars, Waiting
<1>0. CASE UNCHANGED vars
  BY <1>0, <1>a DEF vars, historyVars
<1>1. ASSUME NEW t \in Task, Fresh(t), InsertWatchdogTaskLocked(t)
      PROVE  Timers!Next
  BY <1>1, PushRefines DEF InsertWatchdogTaskLocked, Fresh
<1>2. ASSUME NEW i \in 1 .. MaxTasks, RemoveXCollieTask(i)
      PROVE  Timers!Next
  BY <1>2, CancelRefines
<1>13. CASE IdStep
  BY <1>13, <1>a DEF IdStep, historyVars
<1>3. ASSUME NEW n \in UserNames \cup SampleNames, RemoveInnerTask(n)
      PROVE  Timers!Next
  <2>1. /\ checkerQueue' = {t \in checkerQueue : t.name # n}
        /\ UNCHANGED <<now, keys, ran, cancelled, isNeedStop>>
    BY <1>3 DEF RemoveInnerTask, historyVars
  <2>2. Waiting' = {t \in Waiting : t.name # n}
    BY <2>1 DEF Waiting
  <2>3. Timers!Remove(n)
    BY <2>1, <2>2 DEF Timers!Remove, Waiting
  <2>4. n \in Names
    BY DEF Names
  <2> QED BY <2>3, <2>4 DEF Timers!Next
<1>4. ASSUME NEW n \in SampleNames, EraseTaskName(n)
      PROVE  UNCHANGED timerVars
  BY <1>4, <1>a DEF EraseTaskName, historyVars
<1>5. CASE IpcCheck
  <2>1. CASE JoinIpcFull
    BY <1>5, <2>1, PushRefines DEF IpcCheck, NewTask, historyVars
  <2>2. CASE ~JoinIpcFull
    BY <1>5, <2>2, <1>a DEF IpcCheck, historyVars
  <2> QED BY <2>1, <2>2
<1>6. CASE AddKickWatchdog
  <2>1. CASE KickWatchdog
    BY <1>6, <2>1, PushRefines DEF AddKickWatchdog, NewTask, historyVars
  <2>2. CASE ~KickWatchdog
    BY <1>6, <2>2, <1>a DEF AddKickWatchdog, historyVars
  <2> QED BY <2>1, <2>2
<1>7. CASE FetchNextTask
  BY <1>7, FetchRefines
<1>8. CASE ReInsertTaskIfNeed
  BY <1>8, ReInsertRefines
<1>9. CASE StartIteration \/ Run \/ CheckNeedStop \/ WaitFor \/ WaitTimeout
  BY <1>9, <1>a DEF StartIteration, Run, CheckNeedStop, WaitFor, WaitTimeout,
     historyVars
<1>10. CASE StopRaise
  <2>1. Timers!Stop
    BY <1>10 DEF StopRaise, Timers!Stop, historyVars
  <2> QED BY <2>1 DEF Timers!Next
<1>11. CASE StopNotify \/ StopJoin
  BY <1>11, <1>a DEF StopNotify, StopJoin, historyVars
<1>12. CASE Tick
  <2>1. Timers!Tick
    BY <1>12 DEF Tick, Timers!Tick, historyVars
  <2> QED BY <2>1 DEF Timers!Next
<1> QED BY <1>0, <1>1, <1>2, <1>3, <1>4, <1>5, <1>6, <1>7, <1>8, <1>9, <1>10,
           <1>11, <1>12, <1>13, NextIsSteps DEF Steps, Thread, Stop

(* The scheduler implements the timer service when the requested times fit an
   unsigned int: a one-shot task fires at most once, not before its time, not
   after it was cancelled or Stop was called, and leaves in no other way than
   the service says.  A cancellation takes every timer waiting under the id. *)
THEOREM TimersRefined == DelaysFit => (Spec => TimerContract)
<1> SUFFICES ASSUME DelaysFit PROVE Spec => TimerContract
  OBVIOUS
<1>1. Init => Timers!Init
  BY DEF Init, Timers!Init
<1>2. TypeOK /\ IInv /\ [Next]_vars => [Timers!Next]_(Timers!vars)
  BY TimerStep DEF timerVars, Waiting, Timers!vars
<1> QED BY <1>1, <1>2, IInvHolds, PTL DEF Spec, TimerContract, Timers!Spec

-----------------------------------------------------------------------------
(* The ids again, taken one load and one store at a time as in TaskIds, in a
   process without samplers: every construction is under the lock. *)
CONSTANTS Callers, NoCaller, MaxId
VARIABLES counter, holder, at, loaded, queued, handle

Ids == INSTANCE TaskIds WITH
  Users <- Callers, Samplers <- {}, NoOne <- NoCaller, curId <- counter,
  lock <- holder, pc <- at, reg <- loaded, checkerQueue <- queued,
  timer <- handle

IdTypes ==
  /\ counter \in Nat
  /\ at \in [Callers -> {"idle", "load", "store", "insert"}]
  /\ loaded \in [Callers -> Nat]
  /\ handle \in [Callers -> Nat]
  /\ queued \subseteq [id : Nat \ {0}, owner : Callers]

(* Who constructs holds the lock, and the counter is as it was loaded; the id
   it goes on to insert is nobody's yet. *)
Constructing ==
  \A u \in Callers :
    /\ at[u] # "idle" => holder = u
    /\ at[u] = "store" => loaded[u] = counter
    /\ at[u] = "insert" =>
         /\ loaded[u] = counter
         /\ counter # 0
         /\ \A t \in queued : t.id # counter
         /\ \A v \in Callers : handle[v] # counter

(* Ids come from the counter, and a waiting timer with the id a caller was
   given is that caller's. *)
Given ==
  /\ \A t \in queued : t.id <= counter
  /\ \A u \in Callers : handle[u] <= counter
  /\ \A u \in Callers, t \in queued : t.id = handle[u] => t.owner = u

IdInv == IdTypes /\ Constructing /\ Given

(* Taking an id keeps what is known of the ids. *)
LEMMA TakeIdStep ==
  ASSUME IdInv, NoCaller \notin Callers, NEW u \in Callers,
         Ids!SetTimer(u) \/ Ids!Load(u) \/ Ids!Store(u)
  PROVE  IdInv'
<1>1. IdTypes /\ Constructing /\ Given
  BY DEF IdInv
<1>2. CASE Ids!SetTimer(u)
  <2>1. IdTypes'
    BY <1>1, <1>2 DEF IdTypes, Ids!SetTimer
  <2>2. \A v \in Callers : at[v] = "idle"
    BY <1>1, <1>2 DEF Constructing, Ids!SetTimer
  <2>3. Constructing'
    BY <1>1, <1>2, <2>2 DEF IdTypes, Constructing, Ids!SetTimer
  <2>4. Given'
    BY <1>1, <1>2 DEF Given, Ids!SetTimer
  <2> QED BY <2>1, <2>3, <2>4 DEF IdInv
<1>3. CASE Ids!Load(u)
  <2>1. IdTypes'
    BY <1>1, <1>3 DEF IdTypes, Ids!Load
  <2>2. Constructing'
    BY <1>1, <1>3 DEF IdTypes, Constructing, Ids!Load
  <2>3. Given'
    BY <1>1, <1>3 DEF Given, Ids!Load
  <2> QED BY <2>1, <2>2, <2>3 DEF IdInv
<1>4. CASE Ids!Store(u)
  <2>1. counter' = counter + 1 /\ loaded' = [loaded EXCEPT ![u] = counter + 1]
    BY <1>1, <1>4 DEF IdTypes, Constructing, Ids!Store
  <2>2. IdTypes'
    BY <1>1, <1>4, <2>1 DEF IdTypes, Ids!Store
  <2>3. \A v \in Callers : v # u => at[v] = "idle"
    BY <1>1, <1>4 DEF Constructing, Ids!Store
  <2>4. Constructing'
    <3>1. \A v \in Callers : at'[v] # "idle" => holder' = v
      BY <1>1, <1>4 DEF IdTypes, Constructing, Ids!Store
    <3>2. \A v \in Callers : at'[v] # "store"
      BY <1>1, <1>4, <2>3 DEF IdTypes, Ids!Store
    <3>3. \A v \in Callers : at'[v] = "insert" => loaded'[v] = counter'
      BY <1>1, <1>4, <2>1, <2>3 DEF IdTypes, Ids!Store
    <3>4. /\ counter' # 0
          /\ \A t \in queued' : t.id # counter'
          /\ \A v \in Callers : handle'[v] # counter'
      BY <1>1, <1>4, <2>1 DEF IdTypes, Given, Ids!Store
    <3> QED BY <3>1, <3>2, <3>3, <3>4 DEF Constructing
  <2>5. Given'
    BY <1>1, <1>4, <2>1 DEF IdTypes, Given, Ids!Store
  <2> QED BY <2>2, <2>4, <2>5 DEF IdInv
<1> QED BY <1>2, <1>3, <1>4

(* So do the insertion of a timer, its cancellation and its run. *)
LEMMA UseIdStep ==
  ASSUME IdInv, NoCaller \notin Callers,
         \/ \E u \in Callers : Ids!InsertTimer(u) \/ Ids!RemoveXCollieTask(u)
         \/ \E t \in queued : Ids!FetchNextTask(t)
  PROVE  IdInv'
<1>1. IdTypes /\ Constructing /\ Given
  BY DEF IdInv
<1>2. ASSUME NEW u \in Callers, Ids!InsertTimer(u) PROVE IdInv'
  <2>1. /\ loaded[u] = counter /\ counter # 0 /\ counter \in Nat
        /\ \A v \in Callers : handle[v] # counter
    BY <1>1, <1>2 DEF IdTypes, Constructing, Ids!InsertTimer
  <2>2. /\ queued' = queued \cup {[id |-> counter, owner |-> u]}
        /\ handle' = [handle EXCEPT ![u] = counter]
    BY <1>2, <2>1 DEF Ids!InsertTimer
  <2>3. IdTypes'
    BY <1>1, <1>2, <2>1, <2>2 DEF IdTypes, Ids!InsertTimer
  <2>4. \A v \in Callers : at'[v] = "idle"
    BY <1>1, <1>2 DEF IdTypes, Constructing, Ids!InsertTimer
  <2>5. Constructing'
    BY <2>4 DEF Constructing
  <2>6. \A t \in queued : t.id # counter
    BY <1>1, <1>2 DEF Constructing, Ids!InsertTimer
  <2>7. Given'
    BY <1>1, <1>2, <2>1, <2>2, <2>6 DEF IdTypes, Given, Ids!InsertTimer
  <2> QED BY <2>3, <2>5, <2>7 DEF IdInv
<1>3. ASSUME NEW u \in Callers, Ids!RemoveXCollieTask(u) PROVE IdInv'
  <2>1. /\ queued' \subseteq queued
        /\ handle' = [handle EXCEPT ![u] = 0]
        /\ UNCHANGED <<counter, holder, at, loaded>>
    BY <1>3 DEF Ids!RemoveXCollieTask
  <2>2. IdTypes'
    BY <1>1, <2>1 DEF IdTypes
  <2>3. \A v \in Callers : handle'[v] = handle[v] \/ handle'[v] = 0
    BY <1>1, <2>1 DEF IdTypes
  <2>4. Constructing'
    BY <1>1, <2>1, <2>3 DEF Constructing
  <2>5. Given'
    BY <1>1, <2>1, <2>3 DEF IdTypes, Given
  <2> QED BY <2>2, <2>4, <2>5 DEF IdInv
<1>4. ASSUME NEW t \in queued, Ids!FetchNextTask(t) PROVE IdInv'
  <2>1. queued' \subseteq queued /\ UNCHANGED <<counter, holder, at, loaded, handle>>
    BY <1>4 DEF Ids!FetchNextTask
  <2>2. IdTypes' /\ Constructing' /\ Given'
    BY <1>1, <2>1 DEF IdTypes, Constructing, Given
  <2> QED BY <2>2 DEF IdInv
<1> QED BY <1>2, <1>3, <1>4

(* CancelHitsOwn, for any number of callers, where every task is constructed
   under the lock: the lock alone makes the plain counter safe, so that
   CancelTimer takes no timer but the one its caller set.  What breaks it in
   the program are the constructions outside the lock. *)
THEOREM LockSuffices ==
  NoCaller \notin Callers => (Ids!Spec => Ids!CancelHitsOwn)
<1> SUFFICES ASSUME NoCaller \notin Callers PROVE Ids!Spec => Ids!CancelHitsOwn
  OBVIOUS
<1>1. Ids!Init => IdInv
  BY DEF Ids!Init, Ids!Threads, IdInv, IdTypes, Constructing, Given
<1>2. IdInv /\ [Ids!Next]_(Ids!vars) => IdInv'
  <2>1. IdInv /\ Ids!Next => IdInv'
    BY TakeIdStep, UseIdStep DEF Ids!Next, Ids!Threads
  <2>2. IdInv /\ UNCHANGED Ids!vars => IdInv'
    BY DEF Ids!vars, IdInv, IdTypes, Constructing, Given
  <2> QED BY <2>1, <2>2
<1>3. IdInv =>
        \A u \in Callers : Ids!RemoveXCollieTask(u) =>
          \A t \in queued \ queued' : t.owner = u
  BY DEF IdInv, Given, Ids!RemoveXCollieTask
<1> QED BY <1>1, <1>2, <1>3, PTL DEF Ids!Spec, Ids!CancelHitsOwn

=============================================================================
