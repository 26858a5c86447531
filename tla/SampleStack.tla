---------------------------- MODULE SampleStack -----------------------------
(***************************************************************************)
(* Stacks sampled between a warning and its block report.  A warning       *)
(* registers a sample-stack task; the watchdog thread runs it              *)
(* SAMPLE_STACK_MAX_COUNT times, each time adding a stack to SampleStackMap; *)
(* the block report takes the stacks and removes the task.  A warning comes *)
(* from an FFRT callback, on a thread of its own, or from the watchdog      *)
(* thread itself (SendEvent of a blocked handler).                          *)
(*                                                                         *)
(* A key stands for a sampleStackName, a sample for one stack, a value for *)
(* the sequence of its samples.  The task ticks whenever it is queued: the *)
(* watchdog thread may lag behind as it likes.                             *)
(***************************************************************************)
EXTENDS Integers, Sequences, FiniteSets, Functions

CONSTANTS
  FfrtKeys,                   \* keys of FFRT tasks
  HandlerKeys,                \* keys of watched handlers
  LongKeys,                   \* those longer than MAX_NAME_SIZE
  SAMPLE_STACK_MAP_MAX_SIZE,  \* 3 in the code
  EXPIRE_MS,                  \* SAMPLE_STACK_MAP_EXPIRE_MS
  VALUE_MAX_SIZE,             \* SAMPLE_STACK_MAP_VALUE_MAX_SIZE, in samples
  SAMPLE_STACK_MAX_COUNT,     \* 10 in the code
  MaxSamples,                 \* bound: stacks ever taken
  MaxWarnings,                \* bound: warnings ever given
  MaxTime                     \* bound: the horizon of the clock

Keys == FfrtKeys \cup HandlerKeys

ASSUME SampleStackAssumption ==
  /\ FfrtKeys \cap HandlerKeys = {}
  /\ LongKeys \subseteq Keys
  /\ {SAMPLE_STACK_MAP_MAX_SIZE, SAMPLE_STACK_MAX_COUNT} \subseteq Nat \ {0}
  /\ {EXPIRE_MS, VALUE_MAX_SIZE, MaxSamples, MaxWarnings, MaxTime}
       \subseteq Nat

VARIABLES
  now,          \* the clock
  entries,      \* entries_ of SampleStackMap
  names,        \* taskNameSet_, the sample-stack names in it
  queue,        \* the sample-stack tasks in checkerQueue_
  running,      \* the one the watchdog thread runs: {} or {task}
  phase,        \* how far its lambda is
  hand,         \* the value the lambda holds
  taskIdCnt,    \* FFRT tasks and handlers with a warning and no block yet
  callback,     \* per key, where its block report is
  reported,     \* samples sent with a block report
  samples,      \* history: stacks taken
  warnings      \* history: warnings given

taskVars == <<names, queue>>
runVars  == <<running, phase, hand>>
vars == <<now, entries, names, queue, running, phase, hand, taskIdCnt,
          callback, reported, samples, warnings>>

Slots == 1 .. SAMPLE_STACK_MAP_MAX_SIZE

Free == [valid |-> FALSE, timestamp |-> 0, value |-> <<>>]

(* The name a task is registered under: GetLimitedSizeName cuts it. *)
GetLimitedSizeName(k) == IF k \in LongKeys THEN <<k, "cut">> ELSE <<k>>

Name(k) == <<k>>

-----------------------------------------------------------------------------
(* SampleStackMap.  An entry that is not valid is free, whatever it holds. *)
ExpireOldEntries ==
  [i \in Slots |-> IF entries[i].valid /\ now - entries[i].timestamp > EXPIRE_MS
                   THEN Free ELSE entries[i]]

Holding(es, k) == {i \in Slots : es[i].valid /\ es[i].key = k}

(* The slots Set may choose: the key's own, else the last free one, else
   the first of the oldest. *)
SlotFor(es, k) ==
  LET own    == Holding(es, k)
      free   == {i \in Slots : ~es[i].valid}
      oldest == {i \in Slots : \A j \in Slots :
                   \/ es[i].timestamp < es[j].timestamp
                   \/ es[i].timestamp = es[j].timestamp /\ i <= j}
  IN IF own # {} THEN own
     ELSE IF free # {} THEN {i \in free : \A j \in free : j <= i}
     ELSE oldest

Set(k, v) ==
  IF Len(v) > VALUE_MAX_SIZE
  THEN entries' = entries
  ELSE LET es == ExpireOldEntries IN
       \E i \in SlotFor(es, k) :
         entries' = [es EXCEPT ![i] = [valid |-> TRUE, key |-> k, value |-> v,
                                       timestamp |-> now]]

\* mutant of GetAndRemove: the value is copied and the entry stays
GetAndKeep(k) == entries' = ExpireOldEntries

GetAndRemove(k) ==
  LET es == ExpireOldEntries IN
  entries' = [i \in Slots |-> IF i \in Holding(es, k) THEN Free ELSE es[i]]

Found(k) ==
  LET es == ExpireOldEntries
      is == Holding(es, k)
  IN IF is = {} THEN <<>> ELSE es[CHOOSE i \in is : TRUE].value

-----------------------------------------------------------------------------
(* InsertSampleStackTaskImpl: RunPeriodicalTask refuses a registered name
   and a full queue. *)
InsertSampleStackTask(k) ==
  LET n == GetLimitedSizeName(k) IN
  \/ /\ n \notin names
     /\ names' = names \cup {n}
     /\ queue' = queue \cup {[name |-> n, key |-> k, count |-> 0,
                              id |-> warnings + 1]}
  \/ UNCHANGED <<names, queue>>

(* RemoveInnerTask looks for the uncut name. *)
RemoveInnerTask(k) ==
  LET gone == {t \in queue : t.name = Name(k)} IN
  /\ queue' = queue \ gone
  /\ names' = IF gone = {} THEN names ELSE names \ {Name(k)}

(* The first call of FfrtCallback for a task; or SendEvent of
   SERVICE_WARNING, on the watchdog thread and as often as the handler is
   slow again. *)
Warn(k) ==
  /\ \/ k \in FfrtKeys /\ k \notin taskIdCnt
     \/ k \in HandlerKeys /\ running = {}
  /\ callback[k] = "idle"
  /\ warnings < MaxWarnings
  /\ warnings' = warnings + 1
  /\ taskIdCnt' = taskIdCnt \cup {k}
  /\ InsertSampleStackTask(k)
  /\ UNCHANGED <<now, entries, runVars, callback, reported, samples>>

(* The second call: the stacks are taken first. *)
Block(k) ==
  /\ k \in FfrtKeys \/ running = {}
  /\ k \in taskIdCnt
  /\ callback[k] = "idle"
  /\ callback' = [callback EXCEPT ![k] = "remove"]
  /\ reported' = reported \cup Range(Found(k))
  /\ GetAndRemove(k)
  /\ UNCHANGED <<now, taskVars, runVars, taskIdCnt, samples, warnings>>

(* ... then the task is removed; an FFRT callback that did not find it goes
   on to erase its name. *)
BlockRemove(k) ==
  /\ callback[k] = "remove"
  /\ RemoveInnerTask(k)
  /\ LET missed == queue' = queue /\ k \in FfrtKeys IN
     /\ callback' = [callback EXCEPT ![k] = IF missed THEN "erase" ELSE "idle"]
     /\ taskIdCnt' = IF missed THEN taskIdCnt ELSE taskIdCnt \ {k}
  /\ UNCHANGED <<now, entries, runVars, reported, samples, warnings>>

BlockErase(k) ==
  /\ callback[k] = "erase"
  /\ names' = names \ {Name(k)}
  /\ callback' = [callback EXCEPT ![k] = "idle"]
  /\ taskIdCnt' = taskIdCnt \ {k}
  /\ UNCHANGED <<now, entries, queue, runVars, reported, samples, warnings>>

-----------------------------------------------------------------------------
(* The watchdog thread fetches a task; not in the middle of a SendEvent of
   its own. *)
FetchNextTask(k) ==
  /\ running = {}
  /\ \A h \in HandlerKeys : callback[h] = "idle"
  /\ \E t \in {t \in queue : t.key = k} :
       /\ queue' = queue \ {t}
       /\ running' = {t}
  /\ phase' = "sample"
  /\ UNCHANGED <<now, entries, names, hand, taskIdCnt, callback, reported,
                 samples, warnings>>

(* GetBacktraceStringByTid gives no stack, or one that is put behind those
   taken out of the map. *)
TakeSample ==
  /\ phase = "sample"
  /\ \E t \in running :
     \/ /\ phase' = "count"
        /\ UNCHANGED <<entries, hand, samples>>
     \/ /\ samples < MaxSamples
        /\ samples' = samples + 1
        /\ hand' = Append(Found(t.key), samples + 1)
        /\ GetAndRemove(t.key)
        /\ phase' = "put"
  /\ UNCHANGED <<now, taskVars, running, taskIdCnt, callback, reported,
                 warnings>>

PutSamples ==
  /\ phase = "put"
  /\ \E t \in running : Set(t.key, hand)
  /\ hand' = <<>>
  /\ phase' = "count"
  /\ UNCHANGED <<now, taskVars, running, taskIdCnt, callback, reported,
                 samples, warnings>>

\* mutant of CountSample: the limit is never reached
CountSampleForEver ==
  /\ phase = "count"
  /\ phase' = "reinsert"
  /\ UNCHANGED <<now, entries, taskVars, running, hand, taskIdCnt, callback,
                 reported, samples, warnings>>

(* The lambda's counter; at its limit the lambda erases the uncut name. *)
CountSample ==
  /\ phase = "count"
  /\ phase' = "reinsert"
  /\ \E t \in running :
       LET c == IF t.count < SAMPLE_STACK_MAX_COUNT THEN t.count + 1
                ELSE t.count
       IN /\ running' = {[t EXCEPT !.count = c]}
          /\ names' = IF c >= SAMPLE_STACK_MAX_COUNT
                      THEN names \ {Name(t.key)} ELSE names
  /\ UNCHANGED <<now, entries, queue, hand, taskIdCnt, callback, reported,
                 samples, warnings>>

\* mutant of ReInsertTaskIfNeed: the task at its limit keeps its name only
ReInsertNever ==
  /\ phase = "reinsert"
  /\ phase' = "idle"
  /\ running' = {}
  /\ UNCHANGED <<now, entries, taskVars, hand, taskIdCnt, callback, reported,
                 samples, warnings>>

ReInsertTaskIfNeed ==
  /\ phase = "reinsert"
  /\ phase' = "idle"
  /\ running' = {}
  /\ queue' = queue \cup {t \in running : t.name \in names}
  /\ UNCHANGED <<now, entries, names, hand, taskIdCnt, callback, reported,
                 samples, warnings>>

Tick ==
  /\ now < MaxTime
  /\ now' = now + 1
  /\ UNCHANGED <<entries, taskVars, runVars, taskIdCnt, callback, reported,
                 samples, warnings>>

-----------------------------------------------------------------------------
Init ==
  /\ now = 0
  /\ entries = [i \in Slots |-> Free]
  /\ names = {}
  /\ queue = {}
  /\ running = {}
  /\ phase = "idle"
  /\ hand = <<>>
  /\ taskIdCnt = {}
  /\ callback = [k \in Keys |-> "idle"]
  /\ reported = {}
  /\ samples = 0
  /\ warnings = 0

Run ==
  \/ TakeSample
  \/ PutSamples
  \/ CountSample
  \/ ReInsertTaskIfNeed

Report(k) == BlockRemove(k) \/ BlockErase(k)

Next ==
  \/ Run
  \/ \E k \in Keys : FetchNextTask(k) \/ Warn(k) \/ Block(k) \/ Report(k)
  \/ Tick

Spec == Init /\ [][Next]_vars

(* The watchdog thread goes on, a callback that has begun ends, and no task
   of the queue waits for ever: the queue is ordered by time. *)
FairSpec ==
  /\ Spec
  /\ WF_vars(Run)
  /\ \A k \in Keys : WF_vars(Report(k)) /\ SF_vars(FetchNextTask(k))

-----------------------------------------------------------------------------

(* The lambda takes a value out and puts it back while block reports take
   values too: a stack is in one place, and is reported at most once. *)
SampleOnce ==
  LET InMap == UNION {Range(entries[i].value) : i \in
                        {i \in Slots : entries[i].valid}} IN
  /\ \A i, j \in Slots : i # j /\ entries[i].valid /\ entries[j].valid =>
       Range(entries[i].value) \cap Range(entries[j].value) = {}
  /\ reported \cap InMap = {}
  /\ Range(hand) \cap (reported \cup InMap) = {}

(* A registered name always has its task, queued or running: without one it
   would refuse every later InsertSampleStackTaskImpl. *)
NameHasTask ==
  \A n \in names : \E t \in queue \cup running : t.name = n

(* "reach max count, skip reinsert": whatever reports race with it, every
   sample-stack task ends and gives its name back, unless the name was cut:
   the lambda and the reports erase the uncut one. *)
SamplingEnds ==
  \A k \in Keys \ LongKeys : Name(k) \in names ~> Name(k) \notin names

=============================================================================
