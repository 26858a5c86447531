--------------------------- MODULE TimeoutReport ---------------------------
(***************************************************************************)
(* What the watchdog thread does when an XCollie timer runs out:           *)
(* DoCallback calls the caller's function, asks IsCallbackLimit whether    *)
(* this is one report too many, sends the event and, in a service, arms    *)
(* the alarm and starts the thread that ends the process.                  *)
(*                                                                         *)
(* Time is relative: windowAge is now - timeCallback_, alarm and sleepers  *)
(* count down, and the history keeps the ages of past reports.             *)
(***************************************************************************)
EXTENDS Integers, Sequences, FiniteSets

CONSTANTS
  XCOLLIE_CALLBACK_HISTORY_MAX,
  XCOLLIE_CALLBACK_TIMEWIN_MAX,
  LEFT_TIME_EXIT_ALARM_SECONDS,   \* the delay of alarm()
  DelayBeforeExit                 \* the exit thread's sleep

TimeoutReportAssumption ==
  {XCOLLIE_CALLBACK_HISTORY_MAX, XCOLLIE_CALLBACK_TIMEWIN_MAX,
   LEFT_TIME_EXIT_ALARM_SECONDS, DelayBeforeExit} \subseteq Nat

VARIABLES
  app,              \* getuid() > UID_TYPE_THRESHOLD, fixed
  debug,            \* IsProcessDebug(), fixed
  windowAge,        \* now - timeCallback_
  cntCallback,      \* cntCallback_
  alarm,            \* seconds until SIGALRM, or Off
  sleepers,         \* what the exit threads still sleep
  exited,           \* the process has ended
  reported          \* history: ages of the timeouts that were reported

vars == <<app, debug, windowAge, cntCallback, alarm, sleepers, exited, reported>>

Off == -1
Window == XCOLLIE_CALLBACK_TIMEWIN_MAX
Crowd  == XCOLLIE_CALLBACK_HISTORY_MAX + 2   \* bound: ages kept in a history

Saturated(n, bound) == IF n > bound THEN bound ELSE n

\* The ages still inside the window a second later: the newest come first.
Older(ages) ==
  [i \in 1 .. Cardinality({j \in DOMAIN ages : ages[j] < Window}) |-> ages[i] + 1]

Recent(ages) == SubSeq(ages, 1, Saturated(Len(ages), Crowd))

-----------------------------------------------------------------------------
(* IsCallbackLimit: only timeouts that log count.  The first one after a
   window opens the next window; cntCallback_ is never set back. *)
OpensWindow(log) == log /\ windowAge > Window

\* mutant of Limited: the old value of the counter is compared
LimitedOffByOne(log) ==
  log /\ ~OpensWindow(log) /\ cntCallback > XCOLLIE_CALLBACK_HISTORY_MAX

Limited(log) ==
  /\ log
  /\ ~OpensWindow(log)
  /\ cntCallback + 1 > XCOLLIE_CALLBACK_HISTORY_MAX

IsCallbackLimit(log) ==
  /\ windowAge' = IF OpensWindow(log) THEN 0 ELSE windowAge
  /\ cntCallback' = IF log /\ ~OpensWindow(log)
                    THEN Saturated(cntCallback + 1,
                                   XCOLLIE_CALLBACK_HISTORY_MAX + 1)
                    ELSE cntCallback

(* The event: a process under heap dump or debugger sends none. *)
SendXCollieEvent ==
  reported' = IF debug THEN reported ELSE Recent(<<0>> \o reported)

(* LeftTimeExitProcess, in a thread of its own: a debugged process is left
   alone by the thread. *)
StartExitThread ==
  sleepers' = IF debug THEN sleepers ELSE sleepers \union {DelayBeforeExit}

\* mutant of Recover: the exit thread is never started
RecoverByAlarm ==
  alarm' = LEFT_TIME_EXIT_ALARM_SECONDS /\ UNCHANGED sleepers

Recover == alarm' = LEFT_TIME_EXIT_ALARM_SECONDS /\ StartExitThread

(* DoCallback for a timer with the flags log and recovery; the caller's func
   has run before. *)
DoCallback(log, recovery) ==
  LET recovers == ~Limited(log) /\ ~app /\ recovery
  IN /\ ~exited
     /\ IsCallbackLimit(log)
     /\ \/ recovers /\ Recover
        \/ ~recovers /\ UNCHANGED <<alarm, sleepers>>
     /\ \/ log /\ ~Limited(log) /\ SendXCollieEvent
        \/ ~(log /\ ~Limited(log)) /\ UNCHANGED reported
     /\ UNCHANGED <<app, debug, exited>>

(* _exit(0) by an exit thread that slept enough, or SIGALRM, which nothing
   in the process handles. *)
Exit ==
  /\ ~exited
  /\ 0 \in sleepers
  /\ exited' = TRUE
  /\ UNCHANGED <<app, debug, windowAge, cntCallback, alarm, sleepers, reported>>

AlarmFires ==
  /\ ~exited
  /\ alarm = 0
  /\ exited' = TRUE
  /\ UNCHANGED <<app, debug, windowAge, cntCallback, alarm, sleepers, reported>>

Tick ==
  /\ ~exited
  /\ alarm # 0
  /\ windowAge' = Saturated(windowAge + 1, Window + 1)
  /\ alarm' = IF alarm = Off THEN Off ELSE alarm - 1
  /\ sleepers' = {IF s = 0 THEN 0 ELSE s - 1 : s \in sleepers}
  /\ reported' = Older(reported)
  /\ UNCHANGED <<app, debug, cntCallback, exited>>

-----------------------------------------------------------------------------
Init ==
  /\ app \in BOOLEAN
  /\ debug \in BOOLEAN
  /\ windowAge = Window + 1          \* timeCallback_ is 0
  /\ cntCallback = 0
  /\ alarm = Off
  /\ sleepers = {}
  /\ exited = FALSE
  /\ reported = <<>>

Next ==
  \/ \E log, recovery \in BOOLEAN : DoCallback(log, recovery)
  \/ Exit
  \/ AlarmFires
  \/ Tick

Spec == Init /\ [][Next]_vars

-----------------------------------------------------------------------------

(* However the timeouts fall, also across the border of two windows, no span
   of one window holds more than XCOLLIE_CALLBACK_HISTORY_MAX + 1 reports. *)
ReportRate == Len(reported) <= XCOLLIE_CALLBACK_HISTORY_MAX + 1

(* Once DoCallback has begun the recovery the process ends, though more
   timeouts keep setting the alarm back. *)
RecoveryExits == (alarm # Off /\ ~debug) ~> exited

=============================================================================
