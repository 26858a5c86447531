---------------------------- MODULE HandlerCheck ----------------------------
(***************************************************************************)
(* One watched handler: HandlerChecker and the part of WatchdogTask that   *)
(* evaluates it.  At every tick the watchdog thread looks whether the      *)
(* check it posted was executed (EvaluateCheckerState), reports a          *)
(* SERVICE_WARNING the first time and a SERVICE_BLOCK, with the death of   *)
(* the process, from the second time on, and posts a new check when the    *)
(* last one is done (ScheduleCheck).  The handler's thread executes the    *)
(* check at any moment in between.                                         *)
(*                                                                         *)
(* Time is relative, so that behaviours go on for ever: lag is now -       *)
(* nextTickTime, age the time since the check was posted; both stop at the *)
(* values beyond which the code makes no difference.                       *)
(***************************************************************************)
EXTENDS Integers

CONSTANTS
  CheckInterval,    \* checkInterval
  LOW_MEMORY_CHECK_WINDOW,
  MAX_LOW_MEMORY_FREEZE_TIME,
  SUSPEND_THRESHOLD, \* blockedThresholdMs of a build with SUSPEND_CHECK_ENABLE
  Configs           \* the kinds of task that are checked

(* ipc: the task is IPC_FULL_TASK; func: it has a callback; callback: the
   thread has a timeOutCallback; recovery: XCOLLIE_FLAG_RECOVERY; debug:
   IsProcessDebug(); lowMemoryCheck: the low-memory strategy applies;
   suspend: built with SUSPEND_CHECK_ENABLE. *)
ConfigType == [ipc : BOOLEAN, func : BOOLEAN, callback : BOOLEAN,
               recovery : BOOLEAN, debug : BOOLEAN, foundation : BOOLEAN,
               lowMemoryCheck : BOOLEAN, suspend : BOOLEAN]

IntervalAssumption ==
  /\ CheckInterval \in Nat \ {0}
  /\ LOW_MEMORY_CHECK_WINDOW \in Nat
  /\ MAX_LOW_MEMORY_FREEZE_TIME \in Nat
  /\ SUSPEND_THRESHOLD \in Nat
  /\ Configs \subseteq ConfigType

VARIABLES
  config,           \* the task's configuration, fixed
  lag,              \* now - nextTickTime
  pc,               \* "wait" for the tick, "schedule", or "dead"
  isCompleted,      \* isCompleted_
  taskSlow,         \* taskSlow_
  posted,           \* the handler's queue holds the check
  hung,             \* the handler's thread never takes another task
  recovery,         \* flag & XCOLLIE_FLAG_RECOVERY
  age,              \* time since the last check was posted
  postLag,          \* history: lag when it was posted
  report,           \* history: the last verdict on the current check
  lowAge,           \* now - lastLowMemoryTime
  freezeAge,        \* now - lastLowMemoryFreezeTime, or NoFreeze
  hadSendEvent      \* hadSendEvent

checkerVars == <<isCompleted, taskSlow, posted>>
memoryVars  == <<lowAge, freezeAge, hadSendEvent>>
vars == <<config, lag, pc, checkerVars, hung, recovery, age, postLag, report,
          memoryVars>>

(* blockedThresholdMs: two intervals, or a fixed time. *)
ResetThreshold == IF config.suspend THEN SUSPEND_THRESHOLD ELSE 2 * CheckInterval

MaxAge         == 2 * CheckInterval       \* bound: older is the same
NoFreeze       == -1

Saturate(x, bound) == IF x < bound THEN x + 1 ELSE x

-----------------------------------------------------------------------------
(* One unit of time passes for every clock. *)
Elapse ==
  /\ pc # "dead"
  /\ lag' = Saturate(lag, ResetThreshold + 1)
  /\ age' = Saturate(age, MaxAge)
  /\ lowAge' = Saturate(lowAge, LOW_MEMORY_CHECK_WINDOW + 1)
  /\ freezeAge' = IF freezeAge = NoFreeze THEN NoFreeze
                  ELSE Saturate(freezeAge, MAX_LOW_MEMORY_FREEZE_TIME + 1)
  /\ UNCHANGED <<config, pc, checkerVars, hung, recovery, postLag, report,
                 hadSendEvent>>

(* The handler's thread executes the posted check. *)
CheckTask ==
  /\ pc # "dead"
  /\ posted
  /\ ~hung
  /\ posted' = FALSE
  /\ isCompleted' = TRUE
  /\ UNCHANGED <<config, lag, pc, taskSlow, hung, recovery, age, postLag,
                 report, memoryVars>>

(* From now on it executes nothing: a deadlock, a call that does not return,
   or no IPC thread that becomes free. *)
Hang ==
  /\ ~hung
  /\ hung' = TRUE
  /\ UNCHANGED <<config, lag, pc, checkerVars, recovery, age, postLag, report,
                 memoryVars>>

-----------------------------------------------------------------------------
(* The memory watermark is read at every run of the task. *)
ReadMemory ==
  \/ lowAge' = lowAge
  \/ config.lowMemoryCheck /\ lowAge' = 0

(* Start(): where the clock shows that the system slept since the last tick
   (IsInSleep) this one is not run and the next follows an interval later.  A
   lag that is saturated stands for every longer one. *)
SleepThrough ==
  /\ config.suspend
  /\ pc = "wait"
  /\ lag >= 0
  /\ \/ lag' = lag - CheckInterval
     \/ lag > ResetThreshold /\ lag' \in lag - CheckInterval .. lag
  /\ UNCHANGED <<config, pc, checkerVars, hung, recovery, age, postLag, report,
                 memoryVars>>

(* Run(): a tick that is late by more than the threshold is skipped. *)
RunLate ==
  /\ pc = "wait"
  /\ lag > ResetThreshold
  /\ lag' = -CheckInterval
  /\ ReadMemory
  /\ UNCHANGED <<config, pc, checkerVars, hung, recovery, age, postLag, report,
                 freezeAge, hadSendEvent>>

(* Mutant of GetCheckState: no WAITED_HALF for the first look. *)
AlwaysWaiting == IF isCompleted THEN "COMPLETED" ELSE "WAITING"

GetCheckState ==
  IF isCompleted THEN "COMPLETED"
  ELSE IF ~taskSlow THEN "WAITED_HALF" ELSE "WAITING"

IsLowMemoryStatus ==
  config.lowMemoryCheck /\ lowAge' <= LOW_MEMORY_CHECK_WINDOW

(* Mutant of ShouldSkipExitForLowMemory: no limit. *)
SkipExitForEver == IsLowMemoryStatus

(* The process may ignore a block while memory is low, but not for longer
   than MAX_LOW_MEMORY_FREEZE_TIME. *)
ShouldSkipExitForLowMemory ==
  IsLowMemoryStatus /\ freezeAge <= MAX_LOW_MEMORY_FREEZE_TIME

(* lastLowMemoryFreezeTime after ShouldSkipExitForLowMemory. *)
UpdateFreezeTime ==
  freezeAge' = IF ~IsLowMemoryStatus THEN freezeAge
               ELSE IF freezeAge = NoFreeze THEN 0
               ELSE IF ShouldSkipExitForLowMemory THEN freezeAge
               ELSE NoFreeze

(* ShouldSkipSendEventForLowMemory: under low memory the event is sent once. *)
UpdateSendEvent == hadSendEvent' = (hadSendEvent \/ IsLowMemoryStatus)

(* KillPeerBinderProcess and LeftTimeExitProcess: foundation may kill its
   peer instead of itself, and a process under debug does not exit. *)
KillPeerBinderProcess ==
  \/ config.foundation /\ pc' = "schedule"
  \/ config.debug /\ pc' = "schedule"
  \/ ~config.debug /\ pc' = "dead"

(* The callback of the IPC-full task runs, and takes RECOVERY off the flag. *)
RunFunc == recovery' = (recovery /\ ~config.func)

EvaluateCompleted ==
  /\ GetCheckState = "COMPLETED"
  /\ taskSlow' = FALSE
  /\ freezeAge' = IF config.lowMemoryCheck THEN NoFreeze ELSE freezeAge
  /\ hadSendEvent' = (hadSendEvent /\ ~config.lowMemoryCheck)
  /\ pc' = "schedule"
  /\ UNCHANGED <<recovery, report>>

(* First look at a check that is not done: timeOutCallback or SERVICE_WARNING. *)
HandleWaitedHalfState ==
  /\ GetCheckState = "WAITED_HALF"
  /\ taskSlow' = TRUE
  /\ RunFunc
  /\ report' = "warning"
  /\ pc' = "schedule"
  /\ UNCHANGED <<freezeAge, hadSendEvent>>

(* Later looks: timeOutCallback alone, or SERVICE_BLOCK and the end. *)
HandleWaitedFullState ==
  /\ GetCheckState = "WAITING"
  /\ UNCHANGED taskSlow
  /\ RunFunc
  /\ report' = "block"
  /\ \/ /\ config.callback
        /\ pc' = "schedule"
        /\ UNCHANGED <<freezeAge, hadSendEvent>>
     \/ /\ ~config.callback /\ config.ipc
        /\ IF recovery' THEN KillPeerBinderProcess ELSE pc' = "schedule"
        /\ UNCHANGED <<freezeAge, hadSendEvent>>
     \/ /\ ~config.callback /\ ~config.ipc
        /\ UpdateSendEvent
        /\ UpdateFreezeTime
        /\ IF ShouldSkipExitForLowMemory THEN pc' = "schedule"
           ELSE KillPeerBinderProcess

(* Run() of a task that is due: EvaluateCheckerState. *)
Evaluate ==
  /\ pc = "wait"
  /\ lag \in 0 .. ResetThreshold
  /\ ReadMemory
  /\ \/ EvaluateCompleted
     \/ HandleWaitedHalfState
     \/ HandleWaitedFullState
  /\ UNCHANGED <<config, lag, isCompleted, posted, hung, age, postLag>>

(* ScheduleCheck, then ReInsertTaskIfNeed: a new check is posted only when
   the last one is done; a failure of PostTask is logged and forgotten. *)
ScheduleCheck ==
  /\ pc = "schedule"
  /\ pc' = "wait"
  /\ lag' = lag - CheckInterval
  /\ \/ /\ ~isCompleted
        /\ UNCHANGED <<checkerVars, age, postLag, report>>
     \/ /\ isCompleted
        /\ isCompleted' = FALSE
        /\ taskSlow' = FALSE
        /\ posted' \in BOOLEAN
        /\ age' = 0
        /\ postLag' = lag
        /\ report' = "none"
  /\ UNCHANGED <<config, hung, recovery, memoryVars>>

-----------------------------------------------------------------------------
Init ==
  /\ config \in Configs
  /\ lag = 0
  /\ pc = "wait"
  /\ isCompleted = TRUE
  /\ taskSlow = FALSE
  /\ posted = FALSE
  /\ hung = FALSE
  /\ recovery = config.recovery
  /\ age = 0
  /\ postLag = 0
  /\ report = "none"
  /\ lowAge = LOW_MEMORY_CHECK_WINDOW + 1
  /\ freezeAge = NoFreeze
  /\ hadSendEvent = FALSE

Next ==
  \/ Elapse
  \/ CheckTask
  \/ Hang
  \/ SleepThrough
  \/ RunLate
  \/ Evaluate
  \/ ScheduleCheck

Spec == Init /\ [][Next]_vars

-----------------------------------------------------------------------------

(* The verdict on a check never jumps to block, whenever the handler's thread
   completes the check before it: the same check, still not executed, was
   warned about at an earlier tick.  And it comes two intervals after the
   posting, less the delay with which the posting tick ran, since how late a
   tick may run bounds how early the next one follows. *)
BlockEarned ==
  [][report' = "block" /\ report # "block" =>
       /\ ~isCompleted
       /\ report = "warning"
       /\ age + postLag >= 2 * CheckInterval]_vars

(* A handler that hangs for ever is found: the process dies, or for a task
   that does not kill, the block is reported.  The low-memory strategy
   postpones the death of a process whose memory stays low, it does not
   cancel it. *)
HangIsFound ==
  /\ hung ~> (pc = "dead" \/ report = "block")
  /\ (hung /\ config.lowMemoryCheck /\ ~config.debug /\ ~config.foundation
       /\ ~config.callback /\ ~config.ipc) ~> (pc = "dead")

=============================================================================
