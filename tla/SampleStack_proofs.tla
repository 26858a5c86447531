------------------------- MODULE SampleStack_proofs -------------------------
(***************************************************************************)
(* Proofs about the stacks of warnings: the registered names and the       *)
(* stacks themselves, for every number of keys, slots, samples, warnings   *)
(* and any time.                                                           *)
(***************************************************************************)
EXTENDS SampleStack, TLAPS

Task == [name : {GetLimitedSizeName(k) : k \in Keys}, key : Keys, count : Nat,
         id : Nat]

Entry == {Free} \cup [valid : {TRUE}, key : Keys, value : Seq(Nat), timestamp : Nat]

(* The stacks of a slot that counts. *)
Held(i) == IF entries[i].valid THEN Range(entries[i].value) ELSE {}

(* The tasks are records, and the watchdog thread runs one at a time. *)
TasksOK ==
  /\ warnings \in Nat
  /\ queue \cup running \subseteq Task
  /\ \A t, u \in running : t = u

(* The shape of what holds stacks. *)
StacksOK ==
  /\ now \in Nat
  /\ samples \in Nat
  /\ hand \in Seq(Nat)
  /\ entries \in [Slots -> Entry]

(* SampleOnce, made inductive: every stack in a slot, in the hand of the lambda
   or in a report was taken before, so the next one is in none of them. *)
StackOnce ==
  /\ \A i \in Slots : Held(i) \subseteq 1 .. samples
  /\ reported \cup Range(hand) \subseteq 1 .. samples
  /\ \A i, j \in Slots : i # j => Held(i) \cap Held(j) = {}
  /\ \A i \in Slots : Held(i) \cap (reported \cup Range(hand)) = {}
  /\ reported \cap Range(hand) = {}

-----------------------------------------------------------------------------
(* Tasks. *)

(* A task keeps its name and its shape when the lambda counts. *)
LEMMA CountIs ==
  ASSUME NEW t \in Task, NEW c \in Nat
  PROVE  /\ [t EXCEPT !.count = c] \in Task
         /\ [t EXCEPT !.count = c].name = t.name
  BY DEF Task

(* The tasks stay what they are, whoever registers or removes them. *)
LEMMA TasksStay == TasksOK /\ [Next]_vars => TasksOK'
<1> SUFFICES ASSUME TasksOK, [Next]_vars PROVE TasksOK'
  OBVIOUS
<1> USE DEF TasksOK
<1>1. ASSUME NEW k \in Keys, Warn(k) PROVE TasksOK'
  <2>1. [name |-> GetLimitedSizeName(k), key |-> k, count |-> 0, id |-> warnings + 1]
          \in Task
    BY DEF Task
  <2> QED BY <1>1, <2>1 DEF Warn, InsertSampleStackTask, runVars
<1>2. ASSUME NEW k \in Keys, FetchNextTask(k) PROVE TasksOK'
  BY <1>2 DEF FetchNextTask
<1>3. ASSUME NEW k \in Keys, Block(k) PROVE TasksOK'
  BY <1>3 DEF Block, taskVars, runVars
<1>4. ASSUME NEW k \in Keys, BlockRemove(k) PROVE TasksOK'
  BY <1>4 DEF BlockRemove, RemoveInnerTask, runVars
<1>5. ASSUME NEW k \in Keys, BlockErase(k) PROVE TasksOK'
  BY <1>5 DEF BlockErase, runVars
<1>6. CASE TakeSample
  BY <1>6 DEF TakeSample, taskVars
<1>7. CASE PutSamples
  BY <1>7 DEF PutSamples, taskVars
<1>8. CASE CountSample
  <2>1. PICK t \in running :
          LET c == IF t.count < SAMPLE_STACK_MAX_COUNT THEN t.count + 1 ELSE t.count
          IN running' = {[t EXCEPT !.count = c]}
    BY <1>8 DEF CountSample
  <2>2. t \in Task /\ t.count \in Nat
    BY DEF Task
  <2>3. UNCHANGED <<warnings, queue>>
    BY <1>8 DEF CountSample
  <2> QED BY <2>1, <2>2, <2>3, CountIs
<1>9. CASE ReInsertTaskIfNeed
  BY <1>9 DEF ReInsertTaskIfNeed
<1>10. CASE Tick
  BY <1>10 DEF Tick, taskVars, runVars
<1>11. CASE UNCHANGED vars
  BY <1>11 DEF vars
<1> QED BY <1>1, <1>2, <1>3, <1>4, <1>5, <1>6, <1>7, <1>8, <1>9, <1>10, <1>11
        DEF Next, Run, Report

(* A step that takes a name's task away takes the name away too. *)
LEMMA NameHasTaskNext == TasksOK /\ NameHasTask /\ [Next]_vars => NameHasTask'
<1> SUFFICES ASSUME TasksOK, NameHasTask, [Next]_vars PROVE NameHasTask'
  OBVIOUS
<1> USE DEF NameHasTask
<1>1. ASSUME NEW k \in Keys, Warn(k) PROVE NameHasTask'
  <2>1. CASE UNCHANGED <<names, queue>>
    BY <1>1, <2>1 DEF Warn, runVars
  <2>2. CASE /\ names' = names \cup {GetLimitedSizeName(k)}
             /\ queue' = queue \cup {[name |-> GetLimitedSizeName(k), key |-> k,
                                      count |-> 0, id |-> warnings + 1]}
    <3> DEFINE new == [name |-> GetLimitedSizeName(k), key |-> k, count |-> 0,
                       id |-> warnings + 1]
    <3>0. new.name = GetLimitedSizeName(k)
      OBVIOUS
    <3>1. new \in queue'
      BY <2>2
    <3> HIDE DEF new
    <3>2. running' = running /\ queue \subseteq queue'
      BY <1>1, <2>2 DEF Warn, runVars
    <3> QED BY <2>2, <3>0, <3>1, <3>2
  <2> QED BY <1>1, <2>1, <2>2 DEF Warn, InsertSampleStackTask
<1>2. ASSUME NEW k \in Keys, FetchNextTask(k) PROVE NameHasTask'
  BY <1>2 DEF FetchNextTask
<1>3. ASSUME NEW k \in Keys, Block(k) PROVE NameHasTask'
  BY <1>3 DEF Block, taskVars, runVars
<1>4. ASSUME NEW k \in Keys, BlockRemove(k) PROVE NameHasTask'
  <2>1. /\ running' = running
        /\ \A t \in queue : t.name # Name(k) => t \in queue'
        /\ \/ UNCHANGED <<names, queue>>
           \/ names' = names \ {Name(k)}
    BY <1>4 DEF BlockRemove, RemoveInnerTask, runVars
  <2> QED BY <2>1
<1>5. ASSUME NEW k \in Keys, BlockErase(k) PROVE NameHasTask'
  BY <1>5 DEF BlockErase, runVars
<1>6. CASE TakeSample
  BY <1>6 DEF TakeSample, taskVars
<1>7. CASE PutSamples
  BY <1>7 DEF PutSamples, taskVars
<1>8. CASE CountSample
  <2>1. PICK t \in running :
          LET c == IF t.count < SAMPLE_STACK_MAX_COUNT THEN t.count + 1 ELSE t.count
          IN running' = {[t EXCEPT !.count = c]}
    BY <1>8 DEF CountSample
  <2>2. t \in Task /\ t.count \in Nat /\ \A u \in running : u = t
    BY DEF Task, TasksOK
  <2>3. \A u \in running : \E v \in running' : v.name = u.name
    BY <2>1, <2>2, CountIs
  <2>4. queue' = queue /\ names' \subseteq names
    BY <1>8 DEF CountSample
  <2> QED BY <2>3, <2>4
<1>9. CASE ReInsertTaskIfNeed
  BY <1>9 DEF ReInsertTaskIfNeed
<1>10. CASE Tick
  BY <1>10 DEF Tick, taskVars, runVars
<1>11. CASE UNCHANGED vars
  BY <1>11 DEF vars
<1> QED BY <1>1, <1>2, <1>3, <1>4, <1>5, <1>6, <1>7, <1>8, <1>9, <1>10, <1>11
        DEF Next, Run, Report

(* NameHasTask, for any number of keys, warnings and reports: no name is left
   behind that would refuse every later warning of its key. *)
THEOREM NamesHaveTasks == Spec => []NameHasTask
<1>1. Init => TasksOK /\ NameHasTask
  BY DEF Init, TasksOK, NameHasTask
<1> QED BY <1>1, TasksStay, NameHasTaskNext, PTL DEF Spec

-----------------------------------------------------------------------------
(* Stacks. *)

(* The empty sequence holds nothing, and Append adds one element. *)
LEMMA RangeIs ==
  /\ Range(<<>>) = {}
  /\ \A s \in Seq(Nat), x \in Nat : Range(Append(s, x)) = Range(s) \cup {x}
<1>1. Range(<<>>) = {}
  BY DEF Range
<1>2. ASSUME NEW s \in Seq(Nat), NEW x \in Nat
      PROVE  Range(Append(s, x)) = Range(s) \cup {x}
  <2>1. /\ DOMAIN s = 1 .. Len(s) /\ Len(s) \in Nat
        /\ DOMAIN Append(s, x) = 1 .. (Len(s) + 1)
        /\ \A i \in 1 .. Len(s) : Append(s, x)[i] = s[i]
        /\ Append(s, x)[Len(s) + 1] = x
    OBVIOUS
  <2>2. \A i \in 1 .. (Len(s) + 1) : i \in 1 .. Len(s) \/ i = Len(s) + 1
    BY <2>1
  <2>3. \A i \in 1 .. Len(s) : i \in 1 .. (Len(s) + 1)
    BY <2>1
  <2>4. Len(s) + 1 \in 1 .. (Len(s) + 1)
    BY <2>1
  <2>5. ASSUME NEW y \in Range(Append(s, x)) PROVE y \in Range(s) \cup {x}
    BY <2>1, <2>2 DEF Range
  <2>6. ASSUME NEW y \in Range(s) PROVE y \in Range(Append(s, x))
    BY <2>1, <2>3 DEF Range
  <2>7. x \in Range(Append(s, x))
    BY <2>1, <2>4 DEF Range
  <2> QED BY <2>5, <2>6, <2>7
<1> QED BY <1>1, <1>2

(* Expiry only frees entries. *)
LEMMA ExpireIs ==
  ASSUME entries \in [Slots -> Entry]
  PROVE  /\ ExpireOldEntries \in [Slots -> Entry]
         /\ \A i \in Slots : ExpireOldEntries[i] \in {Free, entries[i]}
  BY DEF ExpireOldEntries, Entry

(* GetAndRemove only frees entries, and what it found is no longer there. *)
LEMMA RemoveIs ==
  ASSUME entries \in [Slots -> Entry], NEW k, GetAndRemove(k)
  PROVE  /\ entries' \in [Slots -> Entry]
         /\ \A i \in Slots : entries'[i] \in {Free, entries[i]}
         /\ \/ Found(k) = <<>>
            \/ \E i \in Slots : /\ entries[i].valid /\ entries'[i] = Free
                                /\ Found(k) = entries[i].value
<1> DEFINE es == ExpireOldEntries
<1>1. es \in [Slots -> Entry] /\ \A i \in Slots : es[i] \in {Free, entries[i]}
  BY ExpireIs
<1>2. entries' = [i \in Slots |-> IF i \in Holding(es, k) THEN Free ELSE es[i]]
  BY DEF GetAndRemove
<1>3. Found(k) = IF Holding(es, k) = {} THEN <<>>
                 ELSE es[CHOOSE i \in Holding(es, k) : TRUE].value
  BY DEF Found
<1>4. \A i \in Holding(es, k) : i \in Slots /\ es[i].valid
  BY DEF Holding
<1> HIDE DEF es
<1>5. Free \in Entry /\ ~Free.valid
  BY DEF Entry, Free
<1>6. CASE Holding(es, k) = {}
  BY <1>1, <1>2, <1>3, <1>5, <1>6
<1>7. CASE Holding(es, k) # {}
  <2>1. PICK i \in Holding(es, k) : Found(k) = es[i].value
    BY <1>3, <1>7
  <2>2. i \in Slots /\ es[i] = entries[i] /\ entries[i].valid
    BY <1>1, <1>4, <1>5, <2>1
  <2> QED BY <1>1, <1>2, <1>5, <2>1, <2>2
<1> QED BY <1>6, <1>7

(* Set puts the value into one slot at most and frees others at most. *)
LEMMA SetIs ==
  ASSUME entries \in [Slots -> Entry], now \in Nat, NEW k \in Keys, NEW v \in Seq(Nat),
         Set(k, v)
  PROVE  /\ entries' \in [Slots -> Entry]
         /\ \/ entries' = entries
            \/ \E i \in Slots :
                 /\ entries'[i].valid /\ entries'[i].value = v
                 /\ \A j \in Slots : j # i => entries'[j] \in {Free, entries[j]}
<1> DEFINE es == ExpireOldEntries
           new == [valid |-> TRUE, key |-> k, value |-> v, timestamp |-> now]
<1>1. es \in [Slots -> Entry] /\ \A i \in Slots : es[i] \in {Free, entries[i]}
  BY ExpireIs
<1>2. new \in Entry /\ new.valid /\ new.value = v
  BY DEF Entry
<1>3. \A i \in SlotFor(es, k) : i \in Slots
  BY DEF SlotFor, Holding
<1>4. \/ entries' = entries
      \/ \E i \in SlotFor(es, k) : entries' = [es EXCEPT ![i] = new]
  BY DEF Set
<1> HIDE DEF es, new
<1>5. ASSUME NEW i \in Slots, entries' = [es EXCEPT ![i] = new]
      PROVE  /\ entries' \in [Slots -> Entry]
             /\ entries'[i].valid /\ entries'[i].value = v
             /\ \A j \in Slots : j # i => entries'[j] \in {Free, entries[j]}
  <2>1. entries'[i] = new /\ \A j \in Slots : j # i => entries'[j] = es[j]
    BY <1>1, <1>5
  <2>2. entries' \in [Slots -> Entry]
    BY <1>1, <1>2, <1>5
  <2> QED BY <1>1, <1>2, <2>1, <2>2
<1> QED BY <1>3, <1>4, <1>5

(* A step that only frees slots leaves no more stacks in them. *)
LEMMA FreeHolds ==
  ASSUME \A i \in Slots : entries'[i] \in {Free, entries[i]}
  PROVE  \A i \in Slots : Held(i)' \subseteq Held(i)
  BY DEF Held, Free

(* No step duplicates a stack. *)
LEMMA StackOnceNext ==
  TasksOK /\ StacksOK /\ StackOnce /\ [Next]_vars => (StacksOK /\ StackOnce)'
<1> SUFFICES ASSUME TasksOK, StacksOK, StackOnce, [Next]_vars
             PROVE  (StacksOK /\ StackOnce)'
  OBVIOUS
<1>r. Range(<<>>) = {} /\ <<>> \in Seq(Nat)
  BY RangeIs
<1>s. ASSUME UNCHANGED <<entries, hand, reported, samples>>, now' \in Nat
      PROVE  (StacksOK /\ StackOnce)'
  BY <1>s DEF StacksOK, StackOnce, Held
<1>n. now \in Nat
  BY DEF StacksOK
<1>v. \A i \in Slots : entries[i].valid => entries[i].value \in Seq(Nat)
                                            /\ Range(entries[i].value) = Held(i)
  <2>1. ASSUME NEW e \in Entry, e.valid PROVE e.value \in Seq(Nat)
    <3>1. ~Free.valid
      BY DEF Free
    <3> QED BY <2>1, <3>1 DEF Entry
  <2> QED BY <2>1 DEF StacksOK, Held
<1>1. ASSUME NEW k \in Keys,
             FetchNextTask(k) \/ Warn(k) \/ BlockRemove(k) \/ BlockErase(k)
      PROVE  (StacksOK /\ StackOnce)'
  BY <1>1, <1>n, <1>s DEF FetchNextTask, Warn, BlockRemove, BlockErase, runVars
<1>2. CASE CountSample \/ ReInsertTaskIfNeed \/ Tick \/ UNCHANGED vars
  BY <1>2, <1>n, <1>s DEF CountSample, ReInsertTaskIfNeed, Tick, runVars, vars
<1>3. ASSUME NEW k \in Keys, Block(k) PROVE (StacksOK /\ StackOnce)'
  <2>1. /\ GetAndRemove(k) /\ reported' = reported \cup Range(Found(k))
        /\ UNCHANGED <<now, hand, samples>>
    BY <1>3 DEF Block, runVars
  <2>2. /\ entries' \in [Slots -> Entry]
        /\ \A i \in Slots : entries'[i] \in {Free, entries[i]}
        /\ \/ Found(k) = <<>>
           \/ \E i \in Slots : /\ entries[i].valid /\ entries'[i] = Free
                               /\ Found(k) = entries[i].value
    BY <2>1, RemoveIs DEF StacksOK
  <2>3. \A i \in Slots : Held(i)' \subseteq Held(i)
    BY <2>2, FreeHolds
  <2>4. \/ Range(Found(k)) = {}
        \/ \E i \in Slots : Held(i)' = {} /\ Range(Found(k)) = Held(i)
    BY <1>r, <1>v, <2>2 DEF Held, Free
  <2> QED BY <2>1, <2>2, <2>3, <2>4 DEF StacksOK, StackOnce
<1>4. CASE TakeSample
  <2>1. CASE UNCHANGED <<entries, hand, samples>>
    BY <1>4, <1>n, <1>s, <2>1 DEF TakeSample
  <2>2. ASSUME NEW t \in running, samples' = samples + 1,
               hand' = Append(Found(t.key), samples + 1), GetAndRemove(t.key)
        PROVE  (StacksOK /\ StackOnce)'
    <3>1. UNCHANGED <<now, reported>>
      BY <1>4 DEF TakeSample
    <3>2. /\ entries' \in [Slots -> Entry]
          /\ \A i \in Slots : entries'[i] \in {Free, entries[i]}
          /\ \/ Found(t.key) = <<>>
             \/ \E i \in Slots : /\ entries[i].valid /\ entries'[i] = Free
                                 /\ Found(t.key) = entries[i].value
      BY <2>2, RemoveIs DEF StacksOK
    <3>3. \A i \in Slots : Held(i)' \subseteq Held(i)
      BY <3>2, FreeHolds
    <3>4. /\ Found(t.key) \in Seq(Nat)
          /\ \/ Range(Found(t.key)) = {}
             \/ \E i \in Slots : Held(i)' = {} /\ Range(Found(t.key)) = Held(i)
      <4>1. ASSUME NEW i \in Slots, entries'[i] = Free PROVE Held(i)' = {}
        BY <4>1 DEF Held, Free
      <4> QED BY <1>r, <1>v, <3>2, <4>1
    <3>5. samples \in Nat /\ samples + 1 \in Nat
      BY DEF StacksOK
    <3>6. hand' \in Seq(Nat) /\ Range(hand') = Range(Found(t.key)) \cup {samples + 1}
      BY <2>2, <3>4, <3>5, RangeIs
    <3>7. StacksOK'
      BY <1>n, <2>2, <3>1, <3>2, <3>5, <3>6 DEF StacksOK
    <3>8. /\ \A x \in 1 .. samples : x \in 1 .. samples' /\ x # samples + 1
          /\ samples + 1 \in 1 .. samples'
      BY <2>2, <3>5
    <3>9. StackOnce'
      BY <3>1, <3>3, <3>4, <3>6, <3>8 DEF StackOnce
    <3> QED BY <3>7, <3>9
  <2> QED BY <1>4, <2>1, <2>2 DEF TakeSample
<1>5. CASE PutSamples
  <2>1. PICK t \in running : Set(t.key, hand)
    BY <1>5 DEF PutSamples
  <2>2. hand' = <<>> /\ UNCHANGED <<now, reported, samples>>
    BY <1>5 DEF PutSamples
  <2>3. t.key \in Keys
    BY DEF TasksOK, Task
  <2>4. /\ entries' \in [Slots -> Entry]
        /\ \/ entries' = entries
           \/ \E i \in Slots :
                /\ entries'[i].valid /\ entries'[i].value = hand
                /\ \A j \in Slots : j # i => entries'[j] \in {Free, entries[j]}
    BY <2>1, <2>3, SetIs DEF StacksOK
  <2>5. StacksOK'
    BY <1>n, <1>r, <2>2, <2>4 DEF StacksOK
  <2>6. Range(hand') = {}
    BY <1>r, <2>2
  <2>7. CASE entries' = entries
    BY <2>2, <2>5, <2>6, <2>7 DEF StackOnce, Held
  <2>8. ASSUME NEW i \in Slots, entries'[i].valid, entries'[i].value = hand,
               \A j \in Slots : j # i => entries'[j] \in {Free, entries[j]}
        PROVE  StackOnce'
    <3>1. Held(i)' = Range(hand)
      BY <2>8 DEF Held
    <3>2. \A j \in Slots : j # i => Held(j)' \subseteq Held(j)
      BY <2>8 DEF Held, Free
    <3> QED BY <2>2, <2>6, <3>1, <3>2 DEF StackOnce
  <2> QED BY <2>4, <2>5, <2>7, <2>8
<1> QED BY <1>1, <1>2, <1>3, <1>4, <1>5 DEF Next, Run, Report

(* SampleOnce, whatever the sizes: a stack is in one slot, in the hand of the
   lambda or in a report, and a report takes it out of the map for good. *)
THEOREM StacksGoOnce == Spec => []SampleOnce
<1>1. Init => TasksOK /\ StacksOK /\ StackOnce
  <2> SUFFICES ASSUME Init PROVE TasksOK /\ StacksOK /\ StackOnce
    OBVIOUS
  <2>1. TasksOK
    BY DEF Init, TasksOK
  <2>2. StacksOK
    BY DEF Init, StacksOK, Entry
  <2>3. /\ \A i \in Slots : Held(i) = {}
        /\ reported = {} /\ Range(hand) = {}
    BY RangeIs DEF Init, Held, Free
  <2> QED BY <2>1, <2>2, <2>3 DEF StackOnce
<1>2. StackOnce => SampleOnce
  <2> SUFFICES ASSUME StackOnce PROVE SampleOnce
    OBVIOUS
  <2>1. \A i \in Slots : entries[i].valid => Range(entries[i].value) = Held(i)
    BY DEF Held
  <2> QED BY <2>1 DEF StackOnce, SampleOnce
<1> QED BY <1>1, <1>2, TasksStay, StackOnceNext, PTL DEF Spec

=============================================================================
