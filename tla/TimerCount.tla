----------------------------- MODULE TimerCount -----------------------------
(***************************************************************************)
(* A timer-count task: callers trigger an event by name, the watchdog      *)
(* thread looks every half timeLimit whether countLimit of them fell       *)
(* within timeLimit, and reports.  While the watchdog thread runs the task *)
(* it works on a copy it took out of the queue.                            *)
(***************************************************************************)
EXTENDS Integers, Sequences

CONSTANTS
  timeLimit,        \* the arguments of SetTimerCount
  countLimit,
  MaxTriggers,      \* bound: triggers ever
  MaxTime           \* bound: the horizon of the clock

TimerCountAssumption ==
  /\ {timeLimit, countLimit} \subseteq Nat \ {0}
  /\ {MaxTriggers, MaxTime} \subseteq Nat

COUNT_LIMIT_NUM_MAX_RATIO == 2
TIME_LIMIT_NUM_MAX_RATIO == 2

VARIABLES
  now,            \* the clock
  triggerTimes,   \* of the task, in the queue or in the thread's copy
  nextTickTime,   \* of the task
  state,          \* "queued", "running", "ran"; "ended" when not re-inserted
  real,           \* history: triggers that met the task in the queue since
                  \* the last report or the last cancel that met it there
  missed,         \* history: did a run end without the report it owed?
  unfounded,      \* history: was there a report of a burst that never was?
  triggers        \* history: triggers so far

history == <<real, missed, unfounded, triggers>>
vars == <<now, triggerTimes, nextTickTime, state, history>>

checkInterval == timeLimit \div TIME_LIMIT_NUM_MAX_RATIO

-----------------------------------------------------------------------------
(* TriggerTimerCountTask looks for the task in the queue: while it runs it
   is not there, and the trigger or the cancel is dropped. *)
TriggerTimerCountTask(bTrigger) ==
  /\ state \in {"queued", "running", "ran"}
  /\ triggers < MaxTriggers
  /\ triggers' = triggers + 1
  /\ \/ /\ state = "queued" /\ bTrigger
        /\ triggerTimes' = Append(triggerTimes, now)
        /\ real' = Append(real, now)
     \/ /\ state = "queued" /\ ~bTrigger
        /\ triggerTimes' = <<>>
        /\ real' = <<>>
     \/ /\ state # "queued"
        /\ UNCHANGED <<triggerTimes, real>>
  /\ UNCHANGED <<now, nextTickTime, state, missed, unfounded>>

FetchNextTask ==
  /\ state = "queued"
  /\ nextTickTime <= now
  /\ state' = "running"
  /\ UNCHANGED <<now, triggerTimes, nextTickTime, history>>

-----------------------------------------------------------------------------
(* The interval between the last and the first of countLimit triggers that
   end at position n. *)
TimeInterval(times, n) == times[n] - times[n - countLimit + 1]

\* mutant of Occurred: only the newest countLimit triggers are looked at
OccurredNewest(times) ==
  Len(times) >= countLimit /\ TimeInterval(times, Len(times)) < timeLimit

Occurred(times) ==
  \E n \in countLimit .. Len(times) : TimeInterval(times, n) < timeLimit

Trimmed(times) ==
  IF Len(times) > countLimit * COUNT_LIMIT_NUM_MAX_RATIO
  THEN SubSeq(times, Len(times) - countLimit + 1, Len(times)) ELSE times

(* What a burst is, without the list: countLimit triggers, in a span shorter
   than timeLimit. *)
Burst(times) ==
  \E i, j \in 1 .. Len(times) : j - i + 1 = countLimit
                               /\ times[j] - times[i] < timeLimit

(* TimerCountTask on the copy. *)
TimerCountTask ==
  /\ state = "running"
  /\ state' = "ran"
  /\ \/ /\ Occurred(triggerTimes)
        /\ triggerTimes' = <<>>
        /\ real' = <<>>
        /\ unfounded' = (unfounded \/ ~Burst(real))
        /\ UNCHANGED missed
     \/ /\ ~Occurred(triggerTimes)
        /\ triggerTimes' = Trimmed(triggerTimes)
        /\ missed' = (missed \/ Burst(real))
        /\ UNCHANGED <<real, unfounded>>
  /\ UNCHANGED <<now, nextTickTime, triggers>>

(* ReInsertTaskIfNeed: a timeLimit below the ratio runs once only. *)
ReInsertTaskIfNeed ==
  /\ state = "ran"
  /\ state' = IF checkInterval = 0 THEN "ended" ELSE "queued"
  /\ nextTickTime' = nextTickTime + checkInterval
  /\ UNCHANGED <<now, triggerTimes, history>>

Tick ==
  /\ now < MaxTime
  /\ now' = now + 1
  /\ UNCHANGED <<triggerTimes, nextTickTime, state, history>>

-----------------------------------------------------------------------------
Init ==
  /\ now = 0
  /\ triggerTimes = <<>>
  /\ nextTickTime = 0
  /\ state = "queued"
  /\ real = <<>>
  /\ missed = FALSE
  /\ unfounded = FALSE
  /\ triggers = 0

Next ==
  \/ \E b \in BOOLEAN : TriggerTimerCountTask(b)
  \/ FetchNextTask
  \/ TimerCountTask
  \/ ReInsertTaskIfNeed
  \/ Tick

Spec == Init /\ [][Next]_vars

-----------------------------------------------------------------------------

(* Every burst of triggers that met the task in the queue is reported by the
   run that follows it, though the list is trimmed and older triggers lie
   before it; and a report is about countLimit triggers that really fell
   within timeLimit and were neither reported before nor cancelled by a call
   that found the task. *)
ReportsExact == ~missed /\ ~unfounded

=============================================================================
