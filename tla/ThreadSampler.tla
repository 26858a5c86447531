--------------------------- MODULE ThreadSampler ----------------------------
(***************************************************************************)
(* The ring buffer of libthread_sampler: the watchdog thread requests a    *)
(* sample and signals the main thread, the signal handler copies the stack *)
(* into the next slot, and the watchdog thread unwinds what it finds.      *)
(* There is no lock: the three times of a slot say whose it is.            *)
(*                                                                         *)
(* A stack is a number, a time is zero or not.  Atomics are taken to be    *)
(* sequentially consistent.  The handler is three steps, so that the copy  *)
(* can be met half done, and done but not yet published.                   *)
(***************************************************************************)
EXTENDS Integers, Sequences

CONSTANTS
  SAMPLER_MAX_BUFFER_SZ,  \* slots, 2 in the code
  MaxSnapshots,           \* bound: snapshots ever taken
  MaxSignals              \* bound: signals pending at once

ASSUME BufferAssumption ==
  /\ SAMPLER_MAX_BUFFER_SZ \in Nat \ {0}
  /\ {MaxSnapshots, MaxSignals} \subseteq Nat

VARIABLES
  init,         \* init_, and the buffer is mapped
  slots,        \* the ThreadUnwindContexts
  writeIndex,   \* writeIndex_
  readIndex,    \* readIndex_
  signals,      \* MUSL_SIGNAL_SAMPLE_STACK pending for the main thread
  handler,      \* the signal handler: "idle", "copy" or "publish"
  filling,      \* the slot it fills
  pc,           \* the watchdog thread inside the library
  reading,      \* the slot it holds
  stray,        \* history: this session began with an old signal pending
  taken,        \* history: snapshots taken
  base,         \* history: snapshots taken before this session
  list          \* timeStampedPcsList_

handlerVars == <<signals, handler, filling>>
readerVars  == <<pc, reading>>
logVars     == <<taken, base, list>>
vars == <<init, slots, writeIndex, readIndex, handlerVars, readerVars,
          stray, logVars>>

Index == 0 .. SAMPLER_MAX_BUFFER_SZ - 1

Torn == 0     \* what a half-copied stack unwinds to

EmptySlot == [requestTime |-> FALSE, snapshotTime |-> FALSE,
              processTime |-> FALSE, buffer |-> Torn]

After(i) == (i + 1) % SAMPLER_MAX_BUFFER_SZ

-----------------------------------------------------------------------------
(* Init, after InitThreadSamplerFuncs has armed the handler. *)
InitSampler ==
  /\ ~init
  /\ init' = TRUE
  /\ slots' = [i \in Index |-> EmptySlot]
  /\ stray' = (signals > 0)
  /\ UNCHANGED <<writeIndex, readIndex, handlerVars, readerVars, logVars>>

(* GetWriteContext finds a slot that waits for no one. *)
GetWriteContext ==
  LET s == slots[writeIndex] IN
  ~(s.requestTime /\ (~s.snapshotTime \/ ~s.processTime))

(* Sample: the request, unless the slot is busy; queueing the signal may
   fail.  Then the buffer is processed. *)
SendSampleRequest ==
  /\ init
  /\ pc = "idle"
  /\ pc' = "process"
  /\ \/ /\ GetWriteContext
        /\ signals < MaxSignals
        /\ slots' = [slots EXCEPT ![writeIndex].requestTime = TRUE]
        /\ signals' \in {signals, signals + 1}
     \/ /\ ~GetWriteContext
        /\ UNCHANGED <<slots, signals>>
  /\ UNCHANGED <<init, writeIndex, readIndex, handler, filling, reading,
                 stray, logVars>>

(* CollectStack processes the buffer before it prints the list. *)
CollectStack ==
  /\ init
  /\ pc = "idle"
  /\ pc' = "process"
  /\ UNCHANGED <<init, slots, writeIndex, readIndex, handlerVars, reading,
                 stray, logVars>>

\* mutant of GetReadContext: the end of the copy is not awaited
ReadUnfinished ==
  /\ pc = "process"
  /\ LET s == slots[readIndex] IN
     \/ /\ s.requestTime
        /\ reading' = readIndex
        /\ readIndex' = After(readIndex)
        /\ pc' = "unwind"
     \/ /\ ~s.requestTime
        /\ pc' = "idle"
        /\ UNCHANGED <<reading, readIndex>>
  /\ UNCHANGED <<init, slots, writeIndex, handlerVars, stray, logVars>>

(* GetReadContext: take the next slot that is requested and filled, or end
   the loop of ProcessStackBuffer. *)
GetReadContext ==
  /\ pc = "process"
  /\ LET s == slots[readIndex] IN
     \/ /\ s.requestTime /\ s.snapshotTime
        /\ reading' = readIndex
        /\ readIndex' = After(readIndex)
        /\ pc' = "unwind"
     \/ /\ ~(s.requestTime /\ s.snapshotTime)
        /\ pc' = "idle"
        /\ UNCHANGED <<reading, readIndex>>
  /\ UNCHANGED <<init, slots, writeIndex, handlerVars, stray, logVars>>

DoUnwind ==
  /\ pc = "unwind"
  /\ pc' = "clearRequest"
  /\ list' = Append(list, slots[reading].buffer)
  /\ UNCHANGED <<init, slots, writeIndex, readIndex, handlerVars, reading,
                 stray, taken, base>>

(* The three stores that give the slot back. *)
Release(at, field, value, next) ==
  /\ pc = at
  /\ pc' = next
  /\ slots' = [slots EXCEPT ![reading][field] = value]
  /\ UNCHANGED <<init, writeIndex, readIndex, handlerVars, reading, stray,
                 logVars>>

ReleaseSlot ==
  \/ Release("clearRequest", "requestTime", FALSE, "clearSnapshot")
  \/ Release("clearSnapshot", "snapshotTime", FALSE, "setProcess")
  \/ Release("setProcess", "processTime", TRUE, "process")

\* mutant of Deinit: the list of the session is kept
DeinitKeepsList ==
  /\ init /\ pc = "idle" /\ handler = "idle"
  /\ init' = FALSE
  /\ base' = taken
  /\ writeIndex' = 0
  /\ readIndex' = 0
  /\ UNCHANGED <<slots, handlerVars, readerVars, stray, taken, list>>

(* Deinit of WatchdogInner, from the same thread: disarming the handler waits
   for it to end; then the buffer is unmapped and the list cleared.  A signal
   that is pending stays so.  The indexes start again at 0 because
   WatchdogInner closes the library, which is taken to unload it. *)
Deinit ==
  /\ init
  /\ pc = "idle"
  /\ handler = "idle"
  /\ init' = FALSE
  /\ list' = <<>>
  /\ base' = taken
  /\ writeIndex' = 0
  /\ readIndex' = 0
  /\ UNCHANGED <<slots, handlerVars, readerVars, stray, taken>>

-----------------------------------------------------------------------------
(* The signal arrives: the handler is not armed, the slot is not yet
   processed, or the thread is not on its own stack; else it copies. *)
WriteContext ==
  /\ signals > 0
  /\ handler = "idle"
  /\ signals' = signals - 1
  /\ LET s == slots[writeIndex] IN
     \/ UNCHANGED <<handler, filling, slots>>
     \/ /\ init
        /\ ~(s.snapshotTime /\ ~s.processTime)
        /\ taken < MaxSnapshots
        /\ handler' = "copy"
        /\ filling' = writeIndex
        /\ slots' = [slots EXCEPT ![writeIndex].buffer = Torn]
  /\ UNCHANGED <<init, writeIndex, readIndex, readerVars, stray, logVars>>

(* The copy is complete, with the submitter's id beside it. *)
EndCopy ==
  /\ handler = "copy"
  /\ handler' = "publish"
  /\ taken' = taken + 1
  /\ slots' = [slots EXCEPT ![filling].buffer = taken + 1]
  /\ writeIndex' = After(filling)
  /\ UNCHANGED <<init, readIndex, signals, filling, readerVars, stray, base,
                 list>>

PublishSnapshot ==
  /\ handler = "publish"
  /\ handler' = "idle"
  /\ slots' = [slots EXCEPT ![filling].snapshotTime = TRUE,
                            ![filling].processTime = FALSE]
  /\ UNCHANGED <<init, writeIndex, readIndex, signals, filling, readerVars,
                 stray, logVars>>

-----------------------------------------------------------------------------
Init ==
  /\ init = FALSE
  /\ slots = [i \in Index |-> EmptySlot]
  /\ writeIndex = 0
  /\ readIndex = 0
  /\ signals = 0
  /\ handler = "idle"
  /\ filling = 0
  /\ pc = "idle"
  /\ reading = 0
  /\ stray = FALSE
  /\ taken = 0
  /\ base = 0
  /\ list = <<>>

Library ==
  \/ InitSampler
  \/ SendSampleRequest
  \/ CollectStack
  \/ GetReadContext
  \/ DoUnwind
  \/ ReleaseSlot
  \/ Deinit

Next == Library \/ WriteContext \/ EndCopy \/ PublishSnapshot

Spec == Init /\ [][Next]_vars

-----------------------------------------------------------------------------

(* ProcessStackBuffer unwinds a slot without a lock: from GetReadContext to
   the first of its three stores the signal handler is not writing there,
   unless the session began with a signal of an earlier one pending. *)
ReaderOwnsSlot ==
  ~stray /\ pc \in {"unwind", "clearRequest"}
    => ~(handler # "idle" /\ filling = reading)

(* The ring buffer implements the log: whatever the signal's delay, the list
   of Sample and CollectStack holds the snapshots of this session, each one
   whole, once and in its order, none left out.  CollectStack relies on it
   when it prints the submitter's id number i beside stack number i.  In a
   session that began with an old signal pending there is no such promise. *)
Log == INSTANCE SampleLog

LogSpec == Log!Init /\ [][stray \/ Log!Next]_logVars

=============================================================================
