----------------------------- MODULE FreezeLog -----------------------------
(***************************************************************************)
(* The log an application adds to its freeze events: XcollieMgr keeps the  *)
(* application's handler and asks it for a log, at most once a minute for  *)
(* each freeze type, in a worker thread that it waits for no longer than   *)
(* CALLBACK_WAIT_TIME; OH_HiCollie_AssociateProcessReport writes an event  *)
(* with that log, itself at most once a minute.                            *)
(*                                                                         *)
(* Every call is a thread of its own; all may be under way together.  Time *)
(* is relative: the ages stop one above ReportInterval, beyond which the   *)
(* code makes no difference.                                               *)
(***************************************************************************)
EXTENDS Integers, FiniteSets

CONSTANTS
  Calls,              \* the calls ever made, each by some thread
  Types,              \* freeze types with a slot in lastCallTime_
  InvalidType,        \* a type ReadDataFromBuffer refuses
  Handlers,           \* functions the application may install
  None,               \* no handler
  ReportInterval,     \* one minute: reportIntervalMs, TIME_MIN_TO_S
  CALLBACK_WAIT_TIME,
  BootAges            \* how long the steady clock has run when it all starts

ASSUME FreezeLogAssumption ==
  /\ {ReportInterval, CALLBACK_WAIT_TIME} \subseteq Nat \ {0}
  /\ CALLBACK_WAIT_TIME <= ReportInterval     \* 1 and 60 seconds in the code
  /\ BootAges \subseteq 0 .. ReportInterval + 1
  /\ None \notin Handlers /\ InvalidType \notin Types

VARIABLES
  handler,            \* handler_
  callAge,            \* now - lastCallTime_[type]
  reportAge,          \* now - g_lastWatchTimeReport3S/6S
  call,               \* the calling threads
  worker,             \* the worker thread of a call
  ready,              \* SharedState.ready of a call
  result,             \* SharedState.result of a call
  sent,               \* history: now - the last accepted manual report
  tooOften            \* history: was a later one accepted within a minute?

history == <<sent, tooOften>>
shared == <<worker, ready, result>>
vars == <<handler, callAge, reportAge, call, shared, history>>

MaxAge == ReportInterval + 1
NoLog == "none"
Log   == "log"
Idle == [pc |-> "new", type |-> InvalidType, left |-> 0, log |-> NoLog]

Step(c, pc) == call' = [call EXCEPT ![c].pc = pc]

-----------------------------------------------------------------------------
(* SetHandler, under mutex_. *)
SetHandler(h) ==
  /\ handler' = h
  /\ UNCHANGED <<callAge, reportAge, call, shared, history>>

(* A thread calls ReadDataFromBuffer: OH_HiCollie_Report,
   OH_HiCollie_ReportInputBlock and the application framework do so at once,
   OH_HiCollie_AssociateProcessReport (manual) after its own limit. *)
Begin(c, type, manual) ==
  /\ call[c].pc = "new"
  /\ manual => type \in Types
  /\ call' = [call EXCEPT ![c].pc = IF manual THEN "check" ELSE "limit",
                          ![c].type = type]
  /\ UNCHANGED <<handler, callAge, reportAge, shared, history>>

(* CheckManualReportDuration takes no lock: the comparison and the assignment
   of lastReportTime are two steps. *)
CheckReport(c) ==
  /\ call[c].pc = "check"
  /\ LET accepted == reportAge[call[c].type] > ReportInterval IN
     /\ Step(c, IF accepted THEN "stamp" ELSE "refused")
     /\ tooOften' = (tooOften \/ (/\ accepted
                                  /\ sent[call[c].type] <= ReportInterval))
  /\ UNCHANGED <<handler, callAge, reportAge, shared, sent>>

\* mutant of StampReport: lastReportTime is not set
StampNothing(c) ==
  /\ call[c].pc = "stamp"
  /\ sent' = [sent EXCEPT ![call[c].type] = 0]
  /\ Step(c, "limit")
  /\ UNCHANGED <<handler, callAge, reportAge, shared, tooOften>>

StampReport(c) ==
  /\ call[c].pc = "stamp"
  /\ reportAge' = [reportAge EXCEPT ![call[c].type] = 0]
  /\ sent' = [sent EXCEPT ![call[c].type] = 0]
  /\ Step(c, "limit")
  /\ UNCHANGED <<handler, callAge, shared, tooOften>>

\* mutant of CheckCallDuration: an accepted call leaves no stamp
CheckCallWithoutStamp(c) ==
  /\ call[c].pc = "limit"
  /\ Step(c, IF call[c].type \in Types /\ callAge[call[c].type] > ReportInterval
             THEN "fetch" ELSE "done")
  /\ UNCHANGED <<handler, callAge, reportAge, shared, history>>

(* The type check and CheckCallDuration, under mutex_. *)
CheckCallDuration(c) ==
  LET type == call[c].type
      accepted == type \in Types /\ callAge[type] > ReportInterval
  IN /\ call[c].pc = "limit"
     /\ callAge' = IF accepted THEN [callAge EXCEPT ![type] = 0] ELSE callAge
     /\ Step(c, IF accepted THEN "fetch" ELSE "done")
     /\ UNCHANGED <<handler, reportAge, shared, history>>

(* The handler is read, under mutex_ again; the worker is started on it. *)
FetchHandler(c) ==
  /\ call[c].pc = "fetch"
  /\ call' = [call EXCEPT ![c].pc = IF handler = None THEN "done" ELSE "wait",
                          ![c].left = CALLBACK_WAIT_TIME]
  /\ worker' = IF handler = None THEN worker
               ELSE [worker EXCEPT ![c] = "started"]
  /\ UNCHANGED <<handler, callAge, reportAge, ready, result, history>>

-----------------------------------------------------------------------------
(* The worker: mmap may fail, the handler may take for ever, it may claim
   more than MAX_BUFFER_SIZE. *)
Answer(c, log) ==
  /\ ready' = [ready EXCEPT ![c] = TRUE]
  /\ result' = [result EXCEPT ![c] = log]
  /\ worker' = [worker EXCEPT ![c] = "ended"]

MmapFails(c) ==
  /\ worker[c] = "started"
  /\ Answer(c, NoLog)
  /\ UNCHANGED <<handler, callAge, reportAge, call, history>>

CallHandler(c) ==
  /\ worker[c] = "started"
  /\ worker' = [worker EXCEPT ![c] = "handler"]
  /\ UNCHANGED <<handler, callAge, reportAge, call, ready, result, history>>

(* Too large an answer ends the worker without ready. *)
HandlerReturns(c) ==
  /\ worker[c] = "handler"
  /\ \/ Answer(c, Log)
     \/ worker' = [worker EXCEPT ![c] = "ended"] /\ UNCHANGED <<ready, result>>
  /\ UNCHANGED <<handler, callAge, reportAge, call, history>>

-----------------------------------------------------------------------------
(* wait_for looks at ready once more when it times out. *)
Joined(c) ==
  /\ call[c].pc = "wait"
  /\ ready[c]
  /\ call' = [call EXCEPT ![c].pc = "done", ![c].log = result[c]]
  /\ UNCHANGED <<handler, callAge, reportAge, shared, history>>

\* mutant of Detached: the predicate is awaited without a limit
DetachedNever(c) == FALSE /\ UNCHANGED vars

Detached(c) ==
  /\ call[c].pc = "wait"
  /\ ~ready[c]
  /\ call[c].left = 0
  /\ Step(c, "done")
  /\ UNCHANGED <<handler, callAge, reportAge, shared, history>>

Older(ages) == [t \in DOMAIN ages |->
                  IF ages[t] = MaxAge THEN MaxAge ELSE ages[t] + 1]

(* A second does not pass while a thread is between two statements; a worker
   may stay where it is for ever. *)
Prompt(c) ==
  \/ call[c].pc \in {"new", "done", "refused"}
  \/ call[c].pc = "wait" /\ ~ready[c] /\ call[c].left > 0

Tick ==
  /\ \A c \in Calls : Prompt(c)
  /\ callAge' = Older(callAge)
  /\ reportAge' = Older(reportAge)
  /\ sent' = Older(sent)
  /\ call' = [c \in Calls |->
                [call[c] EXCEPT !.left = IF @ = 0 THEN 0 ELSE @ - 1]]
  /\ UNCHANGED <<handler, shared, tooOften>>

-----------------------------------------------------------------------------
(* lastCallTime_ and the two report times are 0; the steady clock counts
   from boot. *)
Init ==
  /\ handler = None
  /\ \E boot \in BootAges : /\ callAge = [t \in Types |-> boot]
                            /\ reportAge = [t \in Types |-> boot]
  /\ call = [c \in Calls |-> Idle]
  /\ worker = [c \in Calls |-> "none"]
  /\ ready = [c \in Calls |-> FALSE]
  /\ result = [c \in Calls |-> NoLog]
  /\ sent = [t \in Types |-> MaxAge]
  /\ tooOften = FALSE

Caller(c) ==
  \/ CheckReport(c)
  \/ StampReport(c)
  \/ CheckCallDuration(c)
  \/ FetchHandler(c)
  \/ Joined(c)
  \/ Detached(c)

Next ==
  \/ \E h \in Handlers \union {None} : SetHandler(h)
  \/ \E c \in Calls, t \in Types \union {InvalidType}, m \in BOOLEAN :
       Begin(c, t, m)
  \/ \E c \in Calls : Caller(c)
  \/ \E c \in Calls : MmapFails(c) \/ CallHandler(c) \/ HandlerReturns(c)
  \/ Tick

Spec == Init /\ [][Next]_vars

(* A calling thread goes on and time passes; a worker may never answer. *)
FairSpec == Spec /\ WF_vars(Tick) /\ \A c \in Calls : WF_vars(Caller(c))

-----------------------------------------------------------------------------

(* Of the threads that ask about one freeze type, one at most is on its way
   to the application's handler, however they interleave and though the
   handler is read in a second critical section after the limit. *)
AskedOnce ==
  \A c, d \in Calls :
    (c # d /\ {call[c].pc, call[d].pc} \subseteq {"fetch", "wait"})
      => call[c].type # call[d].type

(* A call comes back though the handler hangs. *)
CallReturns ==
  \A c \in Calls : call[c].pc # "new" ~> call[c].pc \in {"done", "refused"}

(* OH_HiCollie_AssociateProcessReport refuses what comes "too frequently": a
   report whose check begins when another of its type has been accepted
   within the minute is refused, whatever other reports were racing then.
   (Two whose checks overlap may both be accepted: nothing locks them.) *)
ReportsRare == ~tooOften

=============================================================================
