----------------------- MODULE ReportContents_proofs ------------------------
(***************************************************************************)
(* Proofs about what goes into the report of a freeze.                     *)
(*                                                                         *)
(* First FreezeLog, the log of the application's handler, for any number   *)
(* of threads: one of them at a time is on its way to the handler of a     *)
(* freeze type, and no report is accepted within a minute of another.  No  *)
(* lock is held from the limit to the end of the wait.  What keeps two     *)
(* threads apart is time: a thread is gone before the limit lets the next  *)
(* one in.  The invariant ties a thread's remaining wait to the age of the *)
(* stamp it left.                                                          *)
(*                                                                         *)
(* Then BinderChain, the chain of binder calls, for every table: the       *)
(* processes found are exactly those waited for, the thread named as the   *)
(* end is the end, and who is killed was waited for.  The invariant says   *)
(* that what a process found waits for is found or still to be looked at.  *)
(***************************************************************************)
EXTENDS FreezeLog, BinderChain, SequenceTheorems, FunctionTheorems,
        FiniteSetTheorems, TLAPS

Call == [pc : {"new", "check", "stamp", "refused", "limit", "fetch", "wait",
               "done"},
         type : Types \union {InvalidType}, left : Nat, log : {NoLog, Log}]

TypeOK ==
  /\ callAge \in [Types -> 0 .. MaxAge]
  /\ reportAge \in [Types -> 0 .. MaxAge]
  /\ sent \in [Types -> 0 .. MaxAge]
  /\ call \in [Calls -> Call]
  /\ result \in [Calls -> {NoLog, Log}]

(* A call beyond the limit has stamped its type, and its stamp is no older
   than it has waited. *)
Stamped ==
  \A c \in Calls :
    /\ call[c].pc \in {"check", "stamp"} => call[c].type \in Types
    /\ call[c].pc = "fetch" => call[c].type \in Types /\ callAge[call[c].type] = 0
    /\ call[c].pc = "wait" =>
         /\ call[c].type \in Types
         /\ callAge[call[c].type] + call[c].left <= CALLBACK_WAIT_TIME

(* The time the limit goes by is no older than the last report. *)
NoOlder == \A t \in Types : reportAge[t] <= sent[t]

IInv == TypeOK /\ Stamped /\ AskedOnce /\ NoOlder /\ ReportsRare

-----------------------------------------------------------------------------
(* The constants of the two limits. *)
LEMMA Constants ==
  /\ ReportInterval \in Nat \ {0}
  /\ CALLBACK_WAIT_TIME \in Nat \ {0}
  /\ CALLBACK_WAIT_TIME <= ReportInterval
  /\ MaxAge = ReportInterval + 1
BY FreezeLogAssumption DEF MaxAge

(* A second makes every age one more, up to MaxAge. *)
LEMMA OlderIs ==
  ASSUME NEW ages \in [Types -> 0 .. MaxAge]
  PROVE  /\ Older(ages) \in [Types -> 0 .. MaxAge]
         /\ \A t \in Types :
              Older(ages)[t] = IF ages[t] = MaxAge THEN MaxAge ELSE ages[t] + 1
BY Constants DEF Older

(* Storing a program counter. *)
LEMMA StepIs ==
  ASSUME TypeOK, NEW c \in Calls, NEW p, Step(c, p)
  PROVE  /\ call'[c].pc = p
         /\ call'[c].type = call[c].type
         /\ \A d \in Calls \ {c} : call'[d] = call[d]
         /\ (p \in {"new", "check", "stamp", "refused", "limit", "fetch", "wait", "done"}
              => call' \in [Calls -> Call])
BY DEF TypeOK, Call, Step

(* Storing a whole call. *)
LEMMA CallStored ==
  ASSUME TypeOK, NEW c \in Calls, NEW r \in Call, call' = [call EXCEPT ![c] = r]
  PROVE  /\ call'[c] = r
         /\ \A d \in Calls \ {c} : call'[d] = call[d]
         /\ call' \in [Calls -> Call]
BY DEF TypeOK

-----------------------------------------------------------------------------
(* The invariant holds at the start. *)
LEMMA InitIInv == Init => IInv
<1> SUFFICES ASSUME Init PROVE IInv
  OBVIOUS
<1>1. TypeOK
  <2>1. Idle \in Call
    BY DEF Idle, Call
  <2>2. BootAges \subseteq 0 .. MaxAge /\ MaxAge \in 0 .. MaxAge
    BY Constants, FreezeLogAssumption
  <2> QED BY <2>1, <2>2 DEF Init, TypeOK
<1>2. Stamped /\ AskedOnce
  BY DEF Init, Idle, Stamped, AskedOnce
<1>3. NoOlder
  BY <1>1, Constants DEF TypeOK, Init, NoOlder
<1> QED BY <1>1, <1>2, <1>3 DEF IInv, Init, ReportsRare

(* A call that does not get beyond the limit disturbs nothing the others rely
   on. *)
LEMMA CallMoves ==
  ASSUME TypeOK, Stamped, AskedOnce, NEW c \in Calls,
         UNCHANGED callAge,
         \A d \in Calls \ {c} : call'[d] = call[d],
         \/ call'[c].pc \notin {"check", "stamp", "fetch", "wait"}
         \/ call'[c].pc \in {"check", "stamp"} /\ call'[c].type \in Types
  PROVE  Stamped' /\ AskedOnce'
<1>1. Stamped'
  <2> SUFFICES ASSUME NEW d \in Calls
               PROVE  /\ call'[d].pc \in {"check", "stamp"} => call'[d].type \in Types
                      /\ call'[d].pc = "fetch" => call'[d].type \in Types /\ callAge'[call'[d].type] = 0
                      /\ call'[d].pc = "wait" =>
                           /\ call'[d].type \in Types
                           /\ callAge'[call'[d].type] + call'[d].left <= CALLBACK_WAIT_TIME
    BY DEF Stamped
  <2> QED BY DEF Stamped
<1>2. AskedOnce'
  <2> SUFFICES ASSUME NEW a \in Calls, NEW b \in Calls, a # b,
                      {call'[a].pc, call'[b].pc} \subseteq {"fetch", "wait"}
               PROVE  call'[a].type # call'[b].type
    BY DEF AskedOnce
  <2>1. a # c /\ b # c
    OBVIOUS
  <2> QED BY <2>1 DEF AskedOnce
<1> QED BY <1>1, <1>2

(* The limit lets a call pass only when no other of its type is beyond it. *)
LEMMA LimitStep ==
  ASSUME IInv, NEW c \in Calls, CheckCallDuration(c)
  PROVE  IInv'
<1>t. TypeOK /\ Stamped /\ AskedOnce /\ NoOlder /\ ReportsRare
  BY DEF IInv
<1> DEFINE type == call[c].type
           accepted == type \in Types /\ callAge[type] > ReportInterval
<1>1. /\ call'[c].pc = IF accepted THEN "fetch" ELSE "done"
      /\ call'[c].type = type
      /\ \A d \in Calls \ {c} : call'[d] = call[d]
      /\ call' \in [Calls -> Call]
  BY <1>t, StepIs DEF CheckCallDuration
<1>2. UNCHANGED <<reportAge, result, sent, tooOften>>
  BY DEF CheckCallDuration, shared, history
<1>3. CASE ~accepted
  <2>1. UNCHANGED callAge
    BY <1>3 DEF CheckCallDuration
  <2>2. Stamped' /\ AskedOnce'
    BY <1>t, <1>1, <1>3, <2>1, CallMoves
  <2> QED BY <1>t, <1>1, <1>2, <2>1, <2>2 DEF IInv, TypeOK, NoOlder, ReportsRare
<1>4. CASE accepted
  <2>1. callAge' = [callAge EXCEPT ![type] = 0]
    BY <1>4 DEF CheckCallDuration
  <2>2. TypeOK'
    <3>1. 0 \in 0 .. MaxAge
      BY Constants
    <3> QED BY <1>t, <1>1, <1>2, <2>1, <3>1 DEF TypeOK
  <2>3. ASSUME NEW d \in Calls \ {c}, call[d].pc \in {"fetch", "wait"}
        PROVE  call[d].type # type
    <3>1. call[d].left \in Nat /\ callAge[type] \in 0 .. MaxAge
      BY <1>t, <1>4 DEF TypeOK, Call
    <3> QED BY <1>t, <1>4, <2>3, <3>1, Constants DEF Stamped
  <2>4. Stamped'
    <3> SUFFICES ASSUME NEW d \in Calls
                 PROVE  /\ call'[d].pc \in {"check", "stamp"} => call'[d].type \in Types
                        /\ call'[d].pc = "fetch" => call'[d].type \in Types /\ callAge'[call'[d].type] = 0
                        /\ call'[d].pc = "wait" =>
                             /\ call'[d].type \in Types
                             /\ callAge'[call'[d].type] + call'[d].left <= CALLBACK_WAIT_TIME
      BY DEF Stamped
    <3>1. CASE d = c
      BY <1>t, <1>1, <1>4, <2>1, <3>1 DEF TypeOK
    <3>2. CASE d # c
      BY <1>t, <1>1, <2>1, <2>3, <3>2 DEF Stamped, TypeOK
    <3> QED BY <3>1, <3>2
  <2>5. AskedOnce'
    <3> SUFFICES ASSUME NEW a \in Calls, NEW b \in Calls, a # b,
                        {call'[a].pc, call'[b].pc} \subseteq {"fetch", "wait"}
                 PROVE  call'[a].type # call'[b].type
      BY DEF AskedOnce
    <3>1. CASE a = c
      BY <1>1, <2>3, <3>1
    <3>2. CASE b = c
      BY <1>1, <2>3, <3>2
    <3>3. CASE a # c /\ b # c
      BY <1>t, <1>1, <3>3 DEF AskedOnce
    <3> QED BY <3>1, <3>2, <3>3
  <2> QED BY <1>t, <1>2, <2>2, <2>4, <2>5 DEF IInv, NoOlder, ReportsRare
<1> QED BY <1>3, <1>4

(* Fetching the handler begins the wait, with the stamp of this second. *)
LEMMA FetchStep ==
  ASSUME IInv, NEW c \in Calls, FetchHandler(c)
  PROVE  IInv'
<1>t. TypeOK /\ Stamped /\ AskedOnce /\ NoOlder /\ ReportsRare
  BY DEF IInv
<1>1. /\ call[c].pc = "fetch"
      /\ call'[c].pc \in {"done", "wait"}
      /\ call'[c].type = call[c].type
      /\ call'[c].left = CALLBACK_WAIT_TIME
      /\ \A d \in Calls \ {c} : call'[d] = call[d]
      /\ call' \in [Calls -> Call]
  <2> DEFINE r == [call[c] EXCEPT !.pc = IF handler = None THEN "done" ELSE "wait",
                                  !.left = CALLBACK_WAIT_TIME]
  <2>1. call[c] \in Call
    BY <1>t DEF TypeOK
  <2>2. r \in Call /\ r.pc \in {"done", "wait"} /\ r.type = call[c].type
        /\ r.left = CALLBACK_WAIT_TIME
    BY <2>1, Constants DEF Call
  <2>3. call[c].pc = "fetch" /\ call' = [call EXCEPT ![c] = r]
    BY <1>t DEF FetchHandler, TypeOK
  <2> HIDE DEF r
  <2> QED BY <1>t, <2>2, <2>3, CallStored
<1>2. UNCHANGED <<callAge, reportAge, result, sent, tooOften>>
  BY DEF FetchHandler, history
<1>3. Stamped'
  <2> SUFFICES ASSUME NEW d \in Calls
               PROVE  /\ call'[d].pc \in {"check", "stamp"} => call'[d].type \in Types
                      /\ call'[d].pc = "fetch" => call'[d].type \in Types /\ callAge'[call'[d].type] = 0
                      /\ call'[d].pc = "wait" =>
                           /\ call'[d].type \in Types
                           /\ callAge'[call'[d].type] + call'[d].left <= CALLBACK_WAIT_TIME
    BY DEF Stamped
  <2>1. CASE d = c
    BY <1>t, <1>1, <1>2, <2>1, Constants DEF Stamped
  <2>2. CASE d # c
    BY <1>t, <1>1, <1>2, <2>2 DEF Stamped
  <2> QED BY <2>1, <2>2
<1>4. AskedOnce'
  <2> SUFFICES ASSUME NEW a \in Calls, NEW b \in Calls, a # b,
                      {call'[a].pc, call'[b].pc} \subseteq {"fetch", "wait"}
               PROVE  call'[a].type # call'[b].type
    BY DEF AskedOnce
  <2>1. {call[a].pc, call[b].pc} \subseteq {"fetch", "wait"}
    BY <1>1
  <2>2. call'[a].type = call[a].type /\ call'[b].type = call[b].type
    BY <1>1
  <2> QED BY <1>t, <2>1, <2>2 DEF AskedOnce
<1>5. TypeOK' /\ NoOlder' /\ ReportsRare'
  BY <1>t, <1>1, <1>2 DEF TypeOK, NoOlder, ReportsRare
<1> QED BY <1>3, <1>4, <1>5 DEF IInv

(* A second passes only while every call beyond the limit still waits. *)
LEMMA TickStep ==
  ASSUME IInv, Tick
  PROVE  IInv'
<1>t. TypeOK /\ Stamped /\ AskedOnce /\ NoOlder /\ ReportsRare
  BY DEF IInv
<1>1. ASSUME NEW c \in Calls
      PROVE  /\ call'[c].pc = call[c].pc
             /\ call'[c].type = call[c].type
             /\ call'[c].left = IF call[c].left = 0 THEN 0 ELSE call[c].left - 1
             /\ call'[c] \in Call
             /\ call[c].left \in Nat
             /\ Prompt(c)
  <2>1. call[c] \in Call
    BY <1>t DEF TypeOK
  <2>2. call'[c] = [call[c] EXCEPT !.left = IF @ = 0 THEN 0 ELSE @ - 1] /\ Prompt(c)
    BY DEF Tick
  <2> QED BY <2>1, <2>2 DEF Call
<1>2. TypeOK'
  <2>1. call' \in [Calls -> Call]
    BY <1>1 DEF Tick
  <2> QED BY <1>t, <2>1, OlderIs DEF Tick, TypeOK, shared
<1>3. Stamped'
  <2> SUFFICES ASSUME NEW d \in Calls
               PROVE  /\ call'[d].pc \in {"check", "stamp"} => call'[d].type \in Types
                      /\ call'[d].pc = "fetch" => call'[d].type \in Types /\ callAge'[call'[d].type] = 0
                      /\ call'[d].pc = "wait" =>
                           /\ call'[d].type \in Types
                           /\ callAge'[call'[d].type] + call'[d].left <= CALLBACK_WAIT_TIME
    BY DEF Stamped
  <2>1. call[d].pc \notin {"check", "stamp", "fetch"}
    BY <1>1 DEF Prompt
  <2>2. CASE call[d].pc = "wait"
    <3>1. call[d].left > 0 /\ call[d].type \in Types
      BY <1>1, <1>t, <2>2 DEF Prompt, Stamped
    <3>2. callAge[call[d].type] + call[d].left <= CALLBACK_WAIT_TIME
      BY <1>t, <2>2 DEF Stamped
    <3>3. callAge'[call[d].type] <= callAge[call[d].type] + 1
      <4>1. callAge' = Older(callAge) /\ callAge \in [Types -> 0 .. MaxAge]
        BY <1>t DEF Tick, TypeOK
      <4> QED BY <3>1, <4>1, OlderIs, Constants
    <3>4. callAge'[call[d].type] \in Nat /\ callAge[call[d].type] \in Nat
      BY <1>t, <1>2, <3>1 DEF TypeOK
    <3> QED BY <1>1, <2>2, <3>1, <3>2, <3>3, <3>4, Constants
  <2> QED BY <1>1, <2>1, <2>2
<1>4. AskedOnce'
  <2> SUFFICES ASSUME NEW a \in Calls, NEW b \in Calls, a # b,
                      {call'[a].pc, call'[b].pc} \subseteq {"fetch", "wait"}
               PROVE  call'[a].type # call'[b].type
    BY DEF AskedOnce
  <2> QED BY <1>t, <1>1 DEF AskedOnce
<1>5. NoOlder'
  <2> SUFFICES ASSUME NEW t \in Types PROVE reportAge'[t] <= sent'[t]
    BY DEF NoOlder
  <2>1. reportAge[t] <= sent[t] /\ reportAge[t] \in 0 .. MaxAge /\ sent[t] \in 0 .. MaxAge
    BY <1>t DEF NoOlder, TypeOK
  <2>2. /\ reportAge'[t] = IF reportAge[t] = MaxAge THEN MaxAge ELSE reportAge[t] + 1
        /\ sent'[t] = IF sent[t] = MaxAge THEN MaxAge ELSE sent[t] + 1
    <3>1. /\ reportAge' = Older(reportAge) /\ sent' = Older(sent)
          /\ reportAge \in [Types -> 0 .. MaxAge] /\ sent \in [Types -> 0 .. MaxAge]
      BY <1>t DEF Tick, TypeOK
    <3> QED BY <3>1, OlderIs
  <2> QED BY <2>1, <2>2, Constants
<1> QED BY <1>t, <1>2, <1>3, <1>4, <1>5 DEF IInv, Tick, ReportsRare

(* The steps of a call before the limit and at its end. *)
LEMMA OtherSteps ==
  ASSUME IInv, NEW c \in Calls,
         \/ \E t \in Types \union {InvalidType}, m \in BOOLEAN : Begin(c, t, m)
         \/ CheckReport(c) \/ StampReport(c) \/ Joined(c) \/ Detached(c)
  PROVE  IInv'
<1>t. TypeOK /\ Stamped /\ AskedOnce /\ NoOlder /\ ReportsRare
  BY DEF IInv
<1>1. ASSUME NEW t \in Types \union {InvalidType}, NEW m \in BOOLEAN, Begin(c, t, m)
      PROVE  IInv'
  <2>1. /\ call'[c].pc \in {"check", "limit"}
        /\ call'[c].pc = "check" => call'[c].type \in Types
        /\ \A d \in Calls \ {c} : call'[d] = call[d]
        /\ call' \in [Calls -> Call]
    <3> DEFINE r == [call[c] EXCEPT !.pc = IF m THEN "check" ELSE "limit", !.type = t]
    <3>1. call[c] \in Call
      BY <1>t DEF TypeOK
    <3>2. m => t \in Types
      BY <1>1 DEF Begin
    <3>3. r \in Call /\ r.pc \in {"check", "limit"} /\ (r.pc = "check" => r.type \in Types)
      BY <3>1, <3>2 DEF Call
    <3>4. call' = [call EXCEPT ![c] = r]
      BY <1>t, <1>1 DEF Begin, TypeOK
    <3> HIDE DEF r
    <3> QED BY <1>t, <3>3, <3>4, CallStored
  <2>2. UNCHANGED <<callAge, reportAge, result, sent, tooOften>>
    BY <1>1 DEF Begin, shared, history
  <2>3. Stamped' /\ AskedOnce'
    BY <1>t, <2>1, <2>2, CallMoves
  <2> QED BY <1>t, <2>1, <2>2, <2>3 DEF IInv, TypeOK, NoOlder, ReportsRare
<1>2. CASE CheckReport(c)
  <2> DEFINE accepted == reportAge[call[c].type] > ReportInterval
  <2>0. call[c].type \in Types
    BY <1>t, <1>2 DEF CheckReport, Stamped
  <2>1. /\ call'[c].pc \in {"stamp", "refused"}
        /\ call'[c].type = call[c].type
        /\ \A d \in Calls \ {c} : call'[d] = call[d]
        /\ call' \in [Calls -> Call]
    <3>1. Step(c, IF accepted THEN "stamp" ELSE "refused")
      BY <1>2 DEF CheckReport
    <3> QED BY <1>t, <3>1, StepIs
  <2>2. UNCHANGED <<callAge, reportAge, result, sent>>
    BY <1>2 DEF CheckReport, shared
  <2>3. Stamped' /\ AskedOnce'
    BY <1>t, <2>0, <2>1, <2>2, CallMoves
  <2>4. ~tooOften'
    <3>1. accepted => ~(sent[call[c].type] <= ReportInterval)
      BY <1>t, <2>0, Constants DEF NoOlder, TypeOK
    <3> QED BY <1>t, <1>2, <3>1 DEF CheckReport, ReportsRare
  <2> QED BY <1>t, <2>1, <2>2, <2>3, <2>4 DEF IInv, TypeOK, NoOlder, ReportsRare
<1>3. CASE StampReport(c)
  <2>0. call[c].type \in Types
    BY <1>t, <1>3 DEF StampReport, Stamped
  <2>1. /\ call'[c].pc = "limit"
        /\ \A d \in Calls \ {c} : call'[d] = call[d]
        /\ call' \in [Calls -> Call]
    BY <1>t, <1>3, StepIs DEF StampReport
  <2>2. UNCHANGED <<callAge, result, tooOften>>
    BY <1>3 DEF StampReport, shared
  <2>3. Stamped' /\ AskedOnce'
    BY <1>t, <2>1, <2>2, CallMoves
  <2>4. NoOlder'
    BY <1>t, <1>3, <2>0 DEF StampReport, NoOlder, TypeOK
  <2>5. TypeOK'
    <3>1. 0 \in 0 .. MaxAge
      BY Constants
    <3> QED BY <1>t, <1>3, <2>1, <2>2, <3>1 DEF StampReport, TypeOK
  <2> QED BY <1>t, <2>2, <2>3, <2>4, <2>5 DEF IInv, ReportsRare
<1>4. CASE Joined(c) \/ Detached(c)
  <2>1. /\ call'[c].pc = "done"
        /\ \A d \in Calls \ {c} : call'[d] = call[d]
        /\ call' \in [Calls -> Call]
    <3>1. CASE Joined(c)
      <4> DEFINE r == [call[c] EXCEPT !.pc = "done", !.log = result[c]]
      <4>1. call[c] \in Call /\ result[c] \in {NoLog, Log}
        BY <1>t DEF TypeOK
      <4>2. r \in Call /\ r.pc = "done"
        BY <4>1 DEF Call
      <4>3. call' = [call EXCEPT ![c] = r]
        BY <1>t, <3>1 DEF Joined, TypeOK
      <4> HIDE DEF r
      <4> QED BY <1>t, <4>2, <4>3, CallStored
    <3>2. CASE Detached(c)
      BY <1>t, <3>2, StepIs DEF Detached
    <3> QED BY <1>4, <3>1, <3>2
  <2>2. UNCHANGED <<callAge, reportAge, result, sent, tooOften>>
    BY <1>4 DEF Joined, Detached, shared, history
  <2>3. Stamped' /\ AskedOnce'
    BY <1>t, <2>1, <2>2, CallMoves
  <2> QED BY <1>t, <2>1, <2>2, <2>3 DEF IInv, TypeOK, NoOlder, ReportsRare
<1> QED BY <1>1, <1>2, <1>3, <1>4

(* The application's handler and its worker leave the calls alone. *)
LEMMA ElsewhereSteps ==
  ASSUME IInv,
         \/ \E h \in Handlers \union {None} : SetHandler(h)
         \/ \E c \in Calls : MmapFails(c) \/ CallHandler(c) \/ HandlerReturns(c)
         \/ UNCHANGED vars
  PROVE  IInv'
<1>1. UNCHANGED <<callAge, reportAge, call, sent, tooOften>>
  BY DEF SetHandler, MmapFails, CallHandler, HandlerReturns, history, vars
<1>2. result' \in [Calls -> {NoLog, Log}]
  BY DEF IInv, TypeOK, SetHandler, MmapFails, CallHandler, HandlerReturns, Answer,
         shared, vars
<1> QED BY <1>1, <1>2 DEF IInv, TypeOK, Stamped, AskedOnce, NoOlder, ReportsRare

(* Every step keeps the invariant. *)
LEMMA NextIInv == IInv /\ [Next]_vars => IInv'
BY LimitStep, FetchStep, TickStep, OtherSteps, ElsewhereSteps DEF Next, Caller

(* The invariant is one of the specification. *)
LEMMA Invariant == Spec => []IInv
<1>1. Init => IInv
  BY InitIInv
<1>2. IInv /\ [Next]_vars => IInv'
  BY NextIInv
<1> QED BY <1>1, <1>2, PTL DEF Spec

(* AskedOnce, for any number of threads: of those that ask about one freeze
   type, one at most is between CheckCallDuration and the end of its wait. *)
THEOREM OneAsks == Spec => []AskedOnce
<1>1. IInv => AskedOnce
  BY DEF IInv
<1> QED BY <1>1, Invariant, PTL

(* ReportsRare, for any number of threads: CheckManualReportDuration refuses a
   report when another of its type was stamped within the minute, whatever
   other checks were racing then. *)
THEOREM ReportsAreRare == Spec => []ReportsRare
<1>1. IInv => ReportsRare
  BY DEF IInv
<1> QED BY <1>1, Invariant, PTL

-----------------------------------------------------------------------------
(***************************************************************************)
(* The second part: BinderChain.                                           *)
(***************************************************************************)
Line == [client : Threads, server : Servers, wait : Waits]
Item == [line : Line, getTerminal : BOOLEAN]

(* The table: a process's transactions are those of its threads, a thread has
   one at most. *)
TableInv ==
  /\ manager \in [Pids -> Seq(Line)]
  /\ \A p \in Pids : \A t \in Range(manager[p]) : t.client.pid = p
  /\ \A t \in Transactions : t.client.pid # t.server.pid
  /\ \A t, u \in Transactions : t.client = u.client => t = u

ChainTypes ==
  /\ phase \in {"read", "search", "kill", "end"}
  /\ reported \in BOOLEAN
  /\ syncPids \subseteq Pids
  /\ terminalBinder \in Servers \cup {NoThread}
  /\ todo \in Seq(Item)
  /\ phase = "read" => ~reported
  /\ reported => todo = <<>>
  /\ phase = "read" => syncPids = {} /\ terminalBinder = NoThread

-----------------------------------------------------------------------------
(* What Reached promises: it consists of nodes, *)
LEMMA ReachedNode ==
  ASSUME NEW R, NEW x, NEW N
  PROVE  Reached(R, x, N) \subseteq N
BY DEF Reached

(* is closed, *)
LEMMA ReachedStep ==
  ASSUME NEW R, NEW x, NEW N, NEW e \in R, e[2] \in N,
         e[1] = x \/ e[1] \in Reached(R, x, N)
  PROVE  e[2] \in Reached(R, x, N)
BY DEF Reached

(* no larger than any other closed set, *)
LEMMA ReachedLeast ==
  ASSUME NEW R, NEW x, NEW N, NEW S \in SUBSET N,
         \A e \in R : e[1] \in S \cup {x} => e[2] \in S
  PROVE  Reached(R, x, N) \subseteq S
BY DEF Reached

(* and closed under itself. *)
LEMMA ReachedTrans ==
  ASSUME NEW R, NEW x, NEW N, NEW y \in Reached(R, x, N),
         NEW z \in Reached(R, y, N)
  PROVE  z \in Reached(R, x, N)
<1>1. z \in N
  BY DEF Reached
<1>2. ASSUME NEW S \in SUBSET N,
             \A e \in R : e[1] \in S \cup {x} => e[2] \in S
      PROVE  z \in S
  <2>1. y \in S
    BY <1>2 DEF Reached
  <2>2. \A e \in R : e[1] \in S \cup {y} => e[2] \in S
    BY <1>2, <2>1
  <2> QED BY <2>2 DEF Reached
<1> QED BY <1>1, <1>2 DEF Reached

(* All ways from x go through y if all its edges lead there. *)
LEMMA ReachedFirst ==
  ASSUME NEW R, NEW x, NEW N, NEW y \in N,
         \A e \in R : e[2] \in N,
         \A e \in R : e[1] = x => e[2] = y
  PROVE  Reached(R, x, N) \subseteq {y} \cup Reached(R, y, N)
<1> DEFINE S == {y} \cup Reached(R, y, N)
<1>1. S \in SUBSET N
  BY ReachedNode
<1>2. ASSUME NEW e \in R, e[1] \in S \cup {x}
      PROVE  e[2] \in S
  <2>1. CASE e[1] = x
    BY <2>1
  <2>2. CASE e[1] \in S
    BY <2>2, ReachedStep
  <2> QED BY <1>2, <2>1, <2>2
<1> HIDE DEF S
<1>3. Reached(R, x, N) \subseteq S
  BY <1>1, <1>2, ReachedLeast
<1> QED BY <1>3 DEF S

(* A server is one of the processes. *)
LEMMA ServerPid == \A s \in Servers : s.pid \in Pids
BY BinderChainAssumption DEF Servers, Pids

(* Transactions and their edges. *)
LEMMA TransactionIs ==
  ASSUME TableInv
  PROVE  /\ \A t : t \in Transactions <=> \E p \in Pids : t \in Range(manager[p])
         /\ \A t \in Transactions :
              /\ t \in Line /\ t.client.pid \in Pids /\ t.server.pid \in Pids
              /\ t \in Range(manager[t.client.pid])
<1>1. \A t : t \in Transactions <=> \E p \in Pids : t \in Range(manager[p])
  BY DEF Transactions
<1>2. ASSUME NEW p \in Pids, NEW t \in Range(manager[p])
      PROVE  t \in Line /\ t.client.pid = p
  <2>1. manager[p] \in Seq(Line)
    BY DEF TableInv
  <2>2. Range(manager[p]) \subseteq Line
    BY <2>1, RangeOfSeq
  <2> QED BY <2>2 DEF TableInv
<1>3. ASSUME NEW t \in Line
      PROVE  t.client.pid \in Pids /\ t.server.pid \in Pids
  BY ServerPid DEF Line, Pids
<1> QED BY <1>1, <1>2, <1>3

(* Waiting goes on from a process, *)
LEMMA BehindPidStep ==
  ASSUME TableInv, NEW t \in Transactions, NEW p,
         t.client.pid = p \/ t.client.pid \in BehindPid(p)
  PROVE  t.server.pid \in BehindPid(p)
<1>1. <<t.client.pid, t.server.pid>> \in ProcessWaitsFor
  BY DEF ProcessWaitsFor
<1>2. t.server.pid \in Pids
  BY TransactionIs
<1> QED BY <1>1, <1>2, ReachedStep DEF BehindPid

(* and from a thread. *)
LEMMA BehindStep ==
  ASSUME TableInv, NEW t \in Transactions, NEW x,
         t.client = x \/ t.client \in Behind(x)
  PROVE  t.server \in Behind(x)
<1>1. <<t.client, t.server>> \in WaitsFor
  BY DEF WaitsFor
<1>2. t.server \in Servers
  BY TransactionIs DEF Line
<1> QED BY <1>1, <1>2, ReachedStep DEF Behind

-----------------------------------------------------------------------------
(* The thread whose transaction the search for the end goes on with. *)
LastEnd == IF terminalBinder = NoThread THEN Event ELSE terminalBinder

(* t is to be looked at with getTerminal, before any look without it. *)
Ahead(t, s) ==
  LET Look(i) == s[i].line = t /\ s[i].getTerminal
  IN /\ \E i \in 1 .. Len(s) : Look(i)
     /\ \A j \in 1 .. Len(s) :
          s[j].line = t /\ ~s[j].getTerminal => \E i \in 1 .. j - 1 : Look(i)

(* What is found is awaited; what a process found waits for is found or is
   still to be looked at. *)
SearchOK ==
  /\ syncPids \subseteq BehindPid(Self)
  /\ \A n \in Range(todo) :
       n.line \in Transactions /\ n.line.client.pid \in syncPids \cup {Self}
  /\ \A t \in Transactions : t.client.pid \in syncPids \cup {Self} =>
       t.server.pid \in syncPids \/ \E n \in Range(todo) : n.line = t
  /\ \A p \in syncPids : \E t \in Transactions :
       t.server.pid = p /\ t.client.pid \in syncPids \cup {Self}
  /\ terminalBinder \in Behind(Event) \cup {NoThread}
  /\ terminalBinder # NoThread =>
       /\ terminalBinder.pid \in syncPids
       /\ \A t \in Transactions : t.client = Event => t.server.pid \in syncPids

(* Chains that do not meet: the way on from the last end is free. *)
ApartOK ==
  \A t \in Transactions : t.client = LastEnd =>
    t.server.pid \notin syncPids /\ Ahead(t, todo)

(* One waiting thread for each process: all that was found leads to the last
   end, if that waits. *)
SingleOK ==
  \A t \in Transactions : t.client = LastEnd =>
    /\ t.server.pid \notin syncPids => Ahead(t, todo)
    /\ \A p \in syncPids \ {LastEnd.pid} : LastEnd.pid \in BehindPid(p)
    /\ terminalBinder = NoThread => syncPids = {}

SearchInv ==
  phase = "search" \/ reported =>
    /\ SearchOK
    /\ ChainsApart => ApartOK
    /\ OneWaiterEach => SingleOK

(* The line found for the kill; who is killed is its server. *)
VictimInv ==
  /\ peer # {} => phase \in {"kill", "end"}
  /\ \A line \in peer :
       /\ line.client = Self /\ line.wait >= MIN_WAIT_NUM
       /\ line.old => \E t \in Transactions :
            t.client.pid = Self /\ t.server.pid = line.server
  /\ killed # {} => phase = "end"
  /\ \A p \in killed : p # Self /\ \E line \in peer : p = line.server

ChainInv == TableInv /\ ChainTypes /\ SearchInv /\ VictimInv

-----------------------------------------------------------------------------
(* Ahead, at a visit of the first line. *)
LEMMA AheadHead ==
  ASSUME NEW t, NEW s \in Seq(Item), s # <<>>, Ahead(t, s), Head(s).line = t
  PROVE  Head(s).getTerminal
<1>1. Head(s) = s[1] /\ 1 \in 1 .. Len(s)
  OBVIOUS
<1>2. ASSUME ~s[1].getTerminal PROVE FALSE
  <2>1. \E i \in 1 .. 1 - 1 : s[i].line = t /\ s[i].getTerminal
    BY <1>1, <1>2 DEF Ahead
  <2> QED BY <2>1
<1> QED BY <1>1, <1>2

(* What comes later stays ahead when others are put before it. *)
LEMMA AheadLater ==
  ASSUME NEW t, NEW a \in Seq(Item), NEW s \in Seq(Item), s # <<>>,
         Ahead(t, s), Head(s).line # t,
         \A i \in 1 .. Len(a) : a[i].line # t
  PROVE  Ahead(t, a \o Tail(s))
<1> DEFINE r == a \o Tail(s)
<1>1. /\ Tail(s) \in Seq(Item) /\ Len(Tail(s)) = Len(s) - 1
      /\ \A i \in 1 .. Len(Tail(s)) : Tail(s)[i] = s[i + 1]
  BY HeadTailProperties
<1>2. /\ Len(r) = Len(a) + Len(s) - 1
      /\ \A i \in 1 .. Len(a) + Len(s) - 1 :
           r[i] = IF i <= Len(a) THEN a[i] ELSE s[i - Len(a) + 1]
  <2>1. /\ Len(r) = Len(a) + Len(Tail(s))
        /\ \A i \in 1 .. Len(a) + Len(Tail(s)) :
             r[i] = IF i <= Len(a) THEN a[i] ELSE Tail(s)[i - Len(a)]
    BY <1>1, ConcatProperties
  <2> HIDE DEF r
  <2>2. \A i \in 1 .. Len(a) + Len(s) - 1 :
          i > Len(a) => Tail(s)[i - Len(a)] = s[i - Len(a) + 1]
    BY <1>1
  <2> QED BY <1>1, <2>1, <2>2
<1> HIDE DEF r
<1>3. s[1].line # t /\ Len(s) \in Nat /\ Len(a) \in Nat
  OBVIOUS
<1>4. ASSUME NEW k \in 1 .. Len(s), s[k].line = t, s[k].getTerminal
      PROVE  /\ k - 1 + Len(a) \in 1 .. Len(r)
             /\ r[k - 1 + Len(a)].line = t /\ r[k - 1 + Len(a)].getTerminal
  <2>1. k # 1
    BY <1>3, <1>4
  <2>2. k - 1 + Len(a) \in 1 .. Len(a) + Len(s) - 1 /\ k - 1 + Len(a) > Len(a)
    BY <1>3, <2>1
  <2> DEFINE i == k - 1 + Len(a)
  <2>3. /\ i \in 1 .. Len(a) + Len(s) - 1 /\ ~(i <= Len(a))
        /\ i - Len(a) + 1 = k
    BY <1>3, <2>2
  <2> HIDE DEF i
  <2>4. i \in 1 .. Len(r) /\ r[i] = s[k]
    BY <1>2, <2>3
  <2> QED BY <1>4, <2>4 DEF i
<1>5. \E i \in 1 .. Len(r) : r[i].line = t /\ r[i].getTerminal
  <2>1. PICK k \in 1 .. Len(s) : s[k].line = t /\ s[k].getTerminal
    BY DEF Ahead
  <2> QED BY <1>4, <2>1
<1>6. ASSUME NEW j \in 1 .. Len(r), r[j].line = t, ~r[j].getTerminal
      PROVE  \E i \in 1 .. j - 1 : r[i].line = t /\ r[i].getTerminal
  <2> DEFINE k == j - Len(a) + 1
  <2>1. j > Len(a) /\ r[j] = s[k] /\ k \in 1 .. Len(s)
    BY <1>2, <1>3, <1>6
  <2>2. PICK i \in 1 .. k - 1 : s[i].line = t /\ s[i].getTerminal
    BY <1>6, <2>1 DEF Ahead
  <2>3. i \in 1 .. Len(s) /\ i - 1 + Len(a) <= j - 1
    BY <1>3, <2>1
  <2>4. /\ i - 1 + Len(a) \in 1 .. Len(r)
        /\ r[i - 1 + Len(a)].line = t /\ r[i - 1 + Len(a)].getTerminal
    BY <1>4, <2>2, <2>3
  <2>5. i - 1 + Len(a) \in 1 .. j - 1
    BY <1>3, <2>3, <2>4
  <2> QED BY <2>4, <2>5
<1> QED BY <1>5, <1>6 DEF Ahead, r

(* A line behind a server found while looking for the end is ahead. *)
LEMMA AheadBehind ==
  ASSUME NEW t, NEW a \in Seq(Item), NEW b \in Seq(Item), NEW c \in Seq(Item),
         Len(a) = Len(b),
         \A i \in 1 .. Len(a) : a[i].line = b[i].line /\ a[i].getTerminal,
         \E i \in 1 .. Len(a) : a[i].line = t
  PROVE  Ahead(t, (a \o b) \o c)
<1> DEFINE r == (a \o b) \o c
<1>1. /\ Len(r) = Len(a) + Len(b) + Len(c)
      /\ \A i \in 1 .. Len(a) : r[i] = a[i]
      /\ \A i \in Len(a) + 1 .. Len(a) + Len(b) : r[i] = b[i - Len(a)]
  <2> DEFINE d == a \o b
  <2>1. /\ d \in Seq(Item) /\ Len(d) = Len(a) + Len(b)
        /\ \A i \in 1 .. Len(a) + Len(b) :
             d[i] = IF i <= Len(a) THEN a[i] ELSE b[i - Len(a)]
    BY ConcatProperties
  <2> HIDE DEF d
  <2> DEFINE f == d \o c
  <2>2. /\ Len(f) = Len(d) + Len(c)
        /\ \A i \in 1 .. Len(d) + Len(c) :
             f[i] = IF i <= Len(d) THEN d[i] ELSE c[i - Len(d)]
    BY <2>1, ConcatProperties
  <2>3. r = f
    BY DEF d
  <2> HIDE DEF r, f
  <2>4. Len(a) \in Nat /\ Len(b) \in Nat /\ Len(c) \in Nat
    OBVIOUS
  <2>5. \A i \in 1 .. Len(a) + Len(b) : r[i] = d[i]
    BY <2>1, <2>2, <2>3, <2>4
  <2>6. ASSUME NEW i \in 1 .. Len(a) PROVE r[i] = a[i]
    <3>1. i \in 1 .. Len(a) + Len(b) /\ i <= Len(a)
      BY <2>4
    <3> QED BY <2>1, <2>5, <3>1
  <2>7. ASSUME NEW i \in Len(a) + 1 .. Len(a) + Len(b)
        PROVE  r[i] = b[i - Len(a)]
    <3>1. i \in 1 .. Len(a) + Len(b) /\ ~(i <= Len(a))
      BY <2>4
    <3> QED BY <2>1, <2>5, <3>1
  <2> QED BY <2>1, <2>2, <2>3, <2>6, <2>7
<1> HIDE DEF r
<1>2. PICK k \in 1 .. Len(a) : a[k].line = t
  OBVIOUS
<1>3. k \in 1 .. Len(r) /\ r[k].line = t /\ r[k].getTerminal
  BY <1>1, <1>2
<1>4. ASSUME NEW j \in 1 .. Len(r), r[j].line = t, ~r[j].getTerminal
      PROVE  \E i \in 1 .. j - 1 : r[i].line = t /\ r[i].getTerminal
  <2>1. j > Len(a)
    BY <1>1, <1>4
  <2>2. k \in 1 .. j - 1
    BY <2>1
  <2> QED BY <1>3, <2>2
<1> QED BY <1>3, <1>4 DEF Ahead, r

(* The items a call adds. *)
LEMMA LinesOfIs ==
  ASSUME TableInv, NEW p \in Pids, NEW g \in BOOLEAN
  PROVE  /\ LinesOf(p, g) \in Seq(Item)
         /\ Len(LinesOf(p, g)) = Len(manager[p])
         /\ \A i \in 1 .. Len(manager[p]) :
              /\ LinesOf(p, g)[i].line = manager[p][i]
              /\ LinesOf(p, g)[i].getTerminal = g
         /\ \A n \in Range(LinesOf(p, g)) : n.line \in Range(manager[p])
         /\ \A t \in Range(manager[p]) : \E n \in Range(LinesOf(p, g)) : n.line = t
<1>1. manager[p] \in Seq(Line)
  BY DEF TableInv
<1>2. /\ DOMAIN manager[p] = 1 .. Len(manager[p]) /\ Len(manager[p]) \in Nat
      /\ \A i \in 1 .. Len(manager[p]) : manager[p][i] \in Line
  BY <1>1
<1> DEFINE e(i) == [line |-> manager[p][i], getTerminal |-> g]
<1>3. LinesOf(p, g) = [i \in 1 .. Len(manager[p]) |-> e(i)]
  BY <1>2 DEF LinesOf
<1>4. \A i \in 1 .. Len(manager[p]) : e(i) \in Item
  BY <1>2 DEF Item
<1>5. \A i : e(i).line = manager[p][i] /\ e(i).getTerminal = g
  OBVIOUS
<1> HIDE DEF e
<1>6. LinesOf(p, g) \in Seq(Item) /\ Len(LinesOf(p, g)) = Len(manager[p])
  BY <1>2, <1>3, <1>4
<1>7. \A i \in 1 .. Len(manager[p]) : LinesOf(p, g)[i] = e(i)
  BY <1>3
<1>8. \A n \in Range(LinesOf(p, g)) : \E i \in 1 .. Len(manager[p]) : n = e(i)
  BY <1>3 DEF Range
<1>9. \A i \in 1 .. Len(manager[p]) : e(i) \in Range(LinesOf(p, g))
  BY <1>3 DEF Range
<1>10. Range(manager[p]) = {manager[p][i] : i \in 1 .. Len(manager[p])}
  BY <1>1, RangeEquality
<1> QED BY <1>5, <1>6, <1>7, <1>8, <1>9, <1>10

(* What BehindServer adds to the work: lines of the server's process. *)
LEMMA BehindIs ==
  ASSUME TableInv, NEW n \in Item
  PROVE  /\ n.line.server.pid \in Pids
         /\ BehindServer(n) \in Seq(Item)
         /\ \A m \in Range(BehindServer(n)) :
              m.line \in Range(manager[n.line.server.pid])
         /\ \A t \in Range(manager[n.line.server.pid]) :
              \E m \in Range(BehindServer(n)) : m.line = t
<1> DEFINE q == n.line.server.pid
           a == IF Deep(n) THEN LinesOf(q, TRUE) ELSE <<>>
           b == LinesOf(q, FALSE)
<1>1. q \in Pids
  BY ServerPid DEF Item, Line
<1> HIDE DEF q
<1>2. /\ b \in Seq(Item)
      /\ \A m \in Range(b) : m.line \in Range(manager[q])
      /\ \A t \in Range(manager[q]) : \E m \in Range(b) : m.line = t
  BY <1>1, LinesOfIs
<1>3. a \in Seq(Item) /\ \A m \in Range(a) : m.line \in Range(manager[q])
  <2>1. CASE Deep(n)
    BY <1>1, <2>1, LinesOfIs
  <2>2. CASE ~Deep(n)
    <3>1. a = <<>>
      BY <2>2
    <3> HIDE DEF a
    <3> QED BY <3>1 DEF Range
  <2> QED BY <2>1, <2>2
<1> HIDE DEF a, b
<1>4. a \o b \in Seq(Item) /\ Range(a \o b) = Range(a) \cup Range(b)
  BY <1>2, <1>3, ConcatProperties, RangeConcatenation
<1>5. BehindServer(n) = a \o b
  BY DEF BehindServer, a, b, q
<1> QED BY <1>1, <1>2, <1>3, <1>4, <1>5 DEF q

(* Taking the first element off takes nothing else away. *)
LEMMA RangeOfTail ==
  ASSUME NEW s \in Seq(Item), s # <<>>
  PROVE  Range(s) = {Head(s)} \cup Range(Tail(s))
<1>1. /\ Head(s) = s[1] /\ Tail(s) \in Seq(Item) /\ Len(s) >= 1
      /\ Len(Tail(s)) = Len(s) - 1
      /\ \A i \in 1 .. Len(Tail(s)) : Tail(s)[i] = s[i + 1]
  BY HeadTailProperties
<1>2. /\ Range(s) = {s[i] : i \in 1 .. Len(s)}
      /\ Range(Tail(s)) = {Tail(s)[i] : i \in 1 .. Len(Tail(s))}
  <2>1. Range(s) = {s[i] : i \in 1 .. Len(s)}
    BY RangeEquality
  <2> DEFINE r == Tail(s)
  <2>2. r \in Seq(Item)
    BY <1>1
  <2> HIDE DEF r
  <2>3. Range(r) = {r[i] : i \in 1 .. Len(r)}
    BY <2>2, RangeEquality
  <2> QED BY <2>1, <2>3 DEF r
<1>3. ASSUME NEW i \in 1 .. Len(s)
      PROVE  s[i] \in {Head(s)} \cup Range(Tail(s))
  <2>1. CASE i = 1
    BY <1>1, <2>1
  <2>2. CASE i # 1
    <3>1. i - 1 \in 1 .. Len(Tail(s)) /\ Tail(s)[i - 1] = s[i]
      BY <1>1, <2>2
    <3> QED BY <1>2, <3>1
  <2> QED BY <2>1, <2>2
<1>4. ASSUME NEW i \in 1 .. Len(Tail(s))
      PROVE  Tail(s)[i] \in Range(s)
  <2>1. i + 1 \in 1 .. Len(s)
    BY <1>1
  <2> QED BY <1>1, <1>2, <2>1
<1>5. Head(s) \in Range(s)
  BY <1>1, <1>2
<1> QED BY <1>2, <1>3, <1>4, <1>5

(* Nothing but reading changes the table. *)
LEMMA TableSame ==
  ASSUME manager' = manager
  PROVE  /\ Transactions' = Transactions
         /\ \A p : BehindPid(p)' = BehindPid(p)
         /\ \A x : Behind(x)' = Behind(x)
         /\ ChainsApart' <=> ChainsApart
         /\ OneWaiterEach' <=> OneWaiterEach
         /\ TableInv' <=> TableInv
<1>1. Transactions' = Transactions
  BY DEF Transactions
<1>2. \A p : BehindPid(p)' = BehindPid(p)
  BY <1>1 DEF BehindPid, ProcessWaitsFor
<1>3. \A x : Behind(x)' = Behind(x)
  BY <1>1 DEF Behind, WaitsFor
<1>4. ChainsApart' <=> ChainsApart
  BY <1>1, <1>2 DEF ChainsApart
<1>5. OneWaiterEach' <=> OneWaiterEach
  BY <1>1 DEF OneWaiterEach
<1>6. TableInv' <=> TableInv
  BY <1>1 DEF TableInv
<1> QED BY <1>1, <1>2, <1>3, <1>4, <1>5, <1>6

(* A visit: the first line is skipped, or its server is added. *)
LEMMA VisitIs ==
  ASSUME TableInv, ChainTypes, VisitLine, NEW n, n = Head(todo)
  PROVE  /\ n \in Item /\ n \in Range(todo)
         /\ n.line.server \in Servers /\ n.line.server.pid \in Pids
         /\ Tail(todo) \in Seq(Item)
         /\ Range(todo) = {n} \cup Range(Tail(todo))
         /\ manager' = manager /\ Event' = Event
         /\ phase' = phase /\ phase = "search" /\ reported' = reported
         /\ n.line.server.pid \in syncPids =>
              /\ todo' = Tail(todo) /\ syncPids' = syncPids
              /\ terminalBinder' = terminalBinder
         /\ n.line.server.pid \notin syncPids =>
              /\ syncPids' = syncPids \cup {n.line.server.pid}
              /\ terminalBinder' = IF Deep(n) THEN n.line.server
                                   ELSE terminalBinder
              /\ todo' = BehindServer(n) \o Tail(todo)
              /\ todo' \in Seq(Item)
              /\ Range(todo') = Range(BehindServer(n)) \cup Range(Tail(todo))
<1>1. todo \in Seq(Item) /\ todo # <<>>
  BY DEF ChainTypes, VisitLine
<1>2. n \in Item /\ Tail(todo) \in Seq(Item)
  BY <1>1, HeadTailProperties
<1>3. Range(todo) = {n} \cup Range(Tail(todo))
  BY <1>1, RangeOfTail
<1>4. n.line.server \in Servers /\ n.line.server.pid \in Pids
  BY <1>2, ServerPid DEF Item, Line
<1>5. /\ manager' = manager /\ Event' = Event
      /\ phase' = phase /\ phase = "search" /\ reported' = reported
  BY DEF VisitLine, table, Event
<1>6. n.line.server.pid \in syncPids =>
        /\ todo' = Tail(todo) /\ syncPids' = syncPids
        /\ terminalBinder' = terminalBinder
  BY DEF VisitLine, found
<1>7. n.line.server.pid \notin syncPids =>
        /\ syncPids' = syncPids \cup {n.line.server.pid}
        /\ terminalBinder' = IF Deep(n) THEN n.line.server
                             ELSE terminalBinder
        /\ todo' = BehindServer(n) \o Tail(todo)
  BY DEF VisitLine
<1>8. BehindServer(n) \in Seq(Item)
  BY <1>2, BehindIs
<1>9. /\ BehindServer(n) \o Tail(todo) \in Seq(Item)
      /\ Range(BehindServer(n) \o Tail(todo))
           = Range(BehindServer(n)) \cup Range(Tail(todo))
  <2> DEFINE a == BehindServer(n)
             b == Tail(todo)
  <2>1. a \in Seq(Item) /\ b \in Seq(Item)
    BY <1>2, <1>8
  <2> HIDE DEF a, b
  <2>2. a \o b \in Seq(Item) /\ Range(a \o b) = Range(a) \cup Range(b)
    BY <2>1, ConcatProperties, RangeConcatenation
  <2> QED BY <2>2 DEF a, b
<1> QED BY <1>2, <1>3, <1>4, <1>5, <1>6, <1>7, <1>9

-----------------------------------------------------------------------------
(* A visit keeps SearchOK. *)
LEMMA VisitSearchOK ==
  ASSUME TableInv, ChainTypes, SearchOK, VisitLine
  PROVE  SearchOK'
<1> DEFINE n == Head(todo)
           u == n.line
           q == u.server.pid
<1>1. /\ n \in Item /\ n \in Range(todo)
      /\ u.server \in Servers /\ q \in Pids
      /\ Range(todo) = {n} \cup Range(Tail(todo))
      /\ manager' = manager /\ Event' = Event
      /\ q \in syncPids =>
           /\ todo' = Tail(todo) /\ syncPids' = syncPids
           /\ terminalBinder' = terminalBinder
      /\ q \notin syncPids =>
           /\ syncPids' = syncPids \cup {q}
           /\ terminalBinder' = IF Deep(n) THEN u.server ELSE terminalBinder
           /\ Range(todo') = Range(BehindServer(n)) \cup Range(Tail(todo))
  BY VisitIs
<1>2. /\ \A m \in Range(BehindServer(n)) : m.line \in Range(manager[q])
      /\ \A t \in Range(manager[q]) : \E m \in Range(BehindServer(n)) : m.line = t
  BY <1>1, BehindIs
<1>3. /\ Transactions' = Transactions /\ Behind(Event)' = Behind(Event)
      /\ BehindPid(Self)' = BehindPid(Self)
  <2>1. /\ Transactions' = Transactions
        /\ \A p : BehindPid(p)' = BehindPid(p)
        /\ \A x : Behind(x)' = Behind(x)
    BY <1>1, TableSame
  <2>2. Behind(Event)' = Behind(Event)
    BY <1>1, <2>1 DEF Behind, WaitsFor
  <2> QED BY <2>1, <2>2
<1>4. u \in Transactions /\ u.client.pid \in syncPids \cup {Self}
  BY <1>1 DEF SearchOK
<1> HIDE DEF n, u, q
<1>5. q = u.server.pid /\ u = n.line
  BY DEF q, u
<1>6. CASE q \in syncPids
  <2>1. /\ todo' = Tail(todo) /\ syncPids' = syncPids
        /\ terminalBinder' = terminalBinder
    BY <1>1, <1>6
  <2>2. ASSUME NEW t \in Transactions, t.client.pid \in syncPids \cup {Self},
               t.server.pid \notin syncPids
        PROVE  \E m \in Range(Tail(todo)) : m.line = t
    <3>1. PICK m \in Range(todo) : m.line = t
      BY <2>2 DEF SearchOK
    <3>2. m # n
      BY <1>5, <1>6, <2>2, <3>1
    <3> QED BY <1>1, <3>1, <3>2
  <2>3. \A m \in Range(Tail(todo)) :
          m.line \in Transactions /\ m.line.client.pid \in syncPids \cup {Self}
    BY <1>1 DEF SearchOK
  <2>4. /\ syncPids \subseteq BehindPid(Self)
        /\ \A p \in syncPids : \E t \in Transactions :
             t.server.pid = p /\ t.client.pid \in syncPids \cup {Self}
        /\ terminalBinder \in Behind(Event) \cup {NoThread}
        /\ terminalBinder # NoThread =>
             /\ terminalBinder.pid \in syncPids
             /\ \A t \in Transactions : t.client = Event =>
                  t.server.pid \in syncPids
    BY DEF SearchOK
  <2> QED BY <1>1, <1>3, <2>1, <2>2, <2>3, <2>4 DEF SearchOK
<1>7. CASE q \notin syncPids
  <2>1. /\ syncPids' = syncPids \cup {q}
        /\ terminalBinder' = IF Deep(n) THEN u.server ELSE terminalBinder
        /\ Range(todo') = Range(BehindServer(n)) \cup Range(Tail(todo))
    BY <1>1, <1>7
  <2>2. syncPids' \subseteq BehindPid(Self)
    <3>1. u.client.pid = Self \/ u.client.pid \in BehindPid(Self)
      BY <1>4 DEF SearchOK
    <3>2. u.server.pid \in BehindPid(Self)
      BY <1>4, <3>1, BehindPidStep
    <3> QED BY <1>5, <2>1, <3>2 DEF SearchOK
  <2>3. ASSUME NEW m \in Range(todo')
        PROVE  /\ m.line \in Transactions
               /\ m.line.client.pid \in syncPids' \cup {Self}
    <3>1. CASE m \in Range(Tail(todo))
      BY <1>1, <2>1, <3>1 DEF SearchOK
    <3>2. CASE m \in Range(BehindServer(n))
      <4>1. m.line \in Range(manager[q])
        BY <1>2, <3>2
      <4>2. m.line.client.pid = q
        BY <1>1, <4>1 DEF TableInv
      <4>3. m.line \in Transactions
        BY <1>1, <4>1, TransactionIs
      <4> QED BY <2>1, <4>2, <4>3
    <3> QED BY <2>1, <2>3, <3>1, <3>2
  <2>4. ASSUME NEW t \in Transactions, t.client.pid \in syncPids' \cup {Self},
               t.server.pid \notin syncPids'
        PROVE  \E m \in Range(todo') : m.line = t
    <3>1. CASE t.client.pid = q
      <4>1. t \in Range(manager[q])
        BY <3>1, TransactionIs
      <4> QED BY <1>2, <2>1, <4>1
    <3>2. CASE t.client.pid # q
      <4>1. PICK m \in Range(todo) : m.line = t
        BY <2>1, <2>4, <3>2 DEF SearchOK
      <4>2. m # n
        BY <1>5, <2>1, <2>4, <4>1
      <4> QED BY <1>1, <2>1, <4>1, <4>2
    <3> QED BY <3>1, <3>2
  <2>5. \A p \in syncPids' : \E t \in Transactions :
          t.server.pid = p /\ t.client.pid \in syncPids' \cup {Self}
    BY <1>4, <1>5, <2>1 DEF SearchOK
  <2>6. /\ terminalBinder' \in Behind(Event) \cup {NoThread}
        /\ terminalBinder' # NoThread =>
             /\ terminalBinder'.pid \in syncPids'
             /\ \A t \in Transactions : t.client = Event =>
                  t.server.pid \in syncPids'
    <3>1. CASE ~Deep(n)
      BY <2>1, <3>1 DEF SearchOK
    <3>2. CASE Deep(n)
      <4>1. u.client = Event \/ u.client = terminalBinder
        BY <1>5, <3>2 DEF Deep
      <4>2. u.client # NoThread
        <5>1. u.client.pid \in Pids
          BY <1>4, TransactionIs
        <5>2. NoThread.pid = -1 /\ -1 \notin Pids
          BY BinderChainAssumption DEF NoThread, Pids
        <5> QED BY <5>1, <5>2
      <4>3. u.client = Event \/ u.client \in Behind(Event)
        BY <4>1, <4>2 DEF SearchOK
      <4>4. u.server \in Behind(Event)
        BY <1>4, <4>3, BehindStep
      <4>5. ASSUME NEW t \in Transactions, t.client = Event
            PROVE  t.server.pid \in syncPids'
        <5>1. CASE terminalBinder # NoThread
          BY <2>1, <4>5, <5>1 DEF SearchOK
        <5>2. CASE terminalBinder = NoThread
          <6>1. t = u
            BY <1>4, <4>1, <4>2, <4>5, <5>2 DEF TableInv
          <6> QED BY <1>5, <2>1, <6>1
        <5> QED BY <5>1, <5>2
      <4> QED BY <1>5, <2>1, <3>2, <4>4, <4>5
    <3> QED BY <3>1, <3>2
  <2> QED BY <1>1, <1>3, <2>2, <2>3, <2>4, <2>5, <2>6 DEF SearchOK
<1> QED BY <1>6, <1>7

(* What a visit does to a transaction that is to be looked at. *)
LEMMA VisitAhead ==
  ASSUME TableInv, ChainTypes, VisitLine, NEW n, n = Head(todo),
         NEW t \in Transactions, Ahead(t, todo), n.line # t,
         n.line.server.pid \in syncPids \/ t.client.pid # n.line.server.pid
  PROVE  Ahead(t, todo')
<1> DEFINE q == n.line.server.pid
<1>1. /\ n \in Item /\ q \in Pids
      /\ Tail(todo) \in Seq(Item)
      /\ q \in syncPids => todo' = Tail(todo)
      /\ q \notin syncPids => todo' = BehindServer(n) \o Tail(todo)
  BY VisitIs
<1>2. todo \in Seq(Item) /\ todo # <<>>
  BY DEF ChainTypes, VisitLine
<1>3. CASE q \in syncPids
  <2>1. <<>> \in Seq(Item) /\ \A i \in 1 .. Len(<<>>) : <<>>[i].line # t
    OBVIOUS
  <2>2. Ahead(t, <<>> \o Tail(todo))
    BY <1>2, <2>1, AheadLater
  <2>3. <<>> \o Tail(todo) = Tail(todo)
    BY <1>1, ConcatEmptySeq
  <2> QED BY <1>1, <1>3, <2>2, <2>3
<1>4. CASE q \notin syncPids
  <2> DEFINE a == BehindServer(n)
  <2>1. /\ a \in Seq(Item)
        /\ \A m \in Range(a) : m.line \in Range(manager[q])
    BY <1>1, BehindIs
  <2>2. t.client.pid # q
    BY <1>4
  <2> HIDE DEF a
  <2>3. ASSUME NEW i \in 1 .. Len(a) PROVE a[i].line # t
    <3>1. a[i] \in Range(a)
      BY <2>1, RangeEquality
    <3>2. a[i].line.client.pid = q
      BY <1>1, <2>1, <3>1 DEF TableInv
    <3> QED BY <2>2, <3>2
  <2>4. Ahead(t, a \o Tail(todo))
    BY <1>2, <2>1, <2>3, AheadLater
  <2> QED BY <1>1, <1>4, <2>4 DEF a
<1> QED BY <1>3, <1>4

(* A call that looks for the end puts the lines of its process ahead. *)
LEMMA VisitDeep ==
  ASSUME TableInv, ChainTypes, VisitLine, NEW n, n = Head(todo),
         n.line.server.pid \notin syncPids, Deep(n),
         NEW t \in Transactions, t.client.pid = n.line.server.pid
  PROVE  Ahead(t, todo')
<1> DEFINE q == n.line.server.pid
           a == LinesOf(q, TRUE)
           b == LinesOf(q, FALSE)
<1>1. /\ q \in Pids /\ Tail(todo) \in Seq(Item)
      /\ todo' = BehindServer(n) \o Tail(todo)
  BY VisitIs
<1>2. BehindServer(n) = a \o b
  BY DEF BehindServer
<1>3. /\ a \in Seq(Item) /\ Len(a) = Len(manager[q])
      /\ \A i \in 1 .. Len(manager[q]) :
           a[i].line = manager[q][i] /\ a[i].getTerminal = TRUE
  BY <1>1, LinesOfIs
<1>4. /\ b \in Seq(Item) /\ Len(b) = Len(manager[q])
      /\ \A i \in 1 .. Len(manager[q]) : b[i].line = manager[q][i]
  BY <1>1, LinesOfIs
<1>5. \E i \in 1 .. Len(manager[q]) : manager[q][i] = t
  <2>1. t \in Range(manager[q])
    BY TransactionIs
  <2> DEFINE m == manager[q]
  <2>2. m \in Seq(Line)
    BY <1>1 DEF TableInv
  <2> HIDE DEF m
  <2>3. Range(m) = {m[i] : i \in 1 .. Len(m)}
    BY <2>2, RangeEquality
  <2> QED BY <2>1, <2>3 DEF m
<1> HIDE DEF q, a, b
<1>6. /\ Len(a) = Len(b)
      /\ \A i \in 1 .. Len(a) : a[i].line = b[i].line /\ a[i].getTerminal
      /\ \E i \in 1 .. Len(a) : a[i].line = t
  BY <1>3, <1>4, <1>5
<1>7. Ahead(t, (a \o b) \o Tail(todo))
  BY <1>1, <1>3, <1>4, <1>6, AheadBehind
<1> QED BY <1>1, <1>2, <1>7

(* A transaction of the last end is not passed without the search for the
   end. *)
LEMMA VisitLast ==
  ASSUME TableInv, ChainTypes, VisitLine, NEW n, n = Head(todo),
         n.line.client = LastEnd, Ahead(n.line, todo)
  PROVE  Deep(n)
<1>1. n.getTerminal
  BY AheadHead DEF ChainTypes, VisitLine
<1> QED BY <1>1 DEF Deep, LastEnd

(* The event's thread is of this process. *)
LEMMA EventPid == Event.pid = Self /\ Self \in Pids
BY BinderChainAssumption DEF Event

(* NoThread is nobody. *)
LEMMA NoThreadIs == NoThread.pid \notin Pids /\ NoThread \notin Servers
<1>1. NoThread.pid = -1 /\ -1 \notin Pids
  BY BinderChainAssumption DEF NoThread, Pids
<1>2. \A t \in Servers : t.pid \in Pids
  BY ServerPid
<1> QED BY <1>1, <1>2

(* A visit keeps ApartOK, if the chains do not meet. *)
LEMMA VisitApartOK ==
  ASSUME TableInv, ChainTypes, SearchOK, ApartOK, ChainsApart, VisitLine
  PROVE  ApartOK'
<1> DEFINE n == Head(todo)
           u == n.line
           q == u.server.pid
<1>1. /\ n \in Item /\ n \in Range(todo) /\ u.server \in Servers
      /\ manager' = manager /\ Event' = Event
      /\ q \in syncPids =>
           syncPids' = syncPids /\ terminalBinder' = terminalBinder
      /\ q \notin syncPids =>
           /\ syncPids' = syncPids \cup {q}
           /\ terminalBinder' = IF Deep(n) THEN u.server ELSE terminalBinder
  BY VisitIs
<1>2. Transactions' = Transactions
  BY <1>1, TableSame
<1>3. u \in Transactions /\ u.client.pid \in syncPids \cup {Self}
  BY <1>1 DEF SearchOK
<1>4. q # Self
  <2>1. u.client.pid = Self \/ u.client.pid \in BehindPid(Self)
    BY <1>3 DEF SearchOK
  <2>2. q \in BehindPid(Self)
    BY <1>3, <2>1, BehindPidStep
  <2> QED BY <2>2, EventPid DEF ChainsApart
<1>5. SUFFICES ASSUME NEW t \in Transactions, t.client = LastEnd'
               PROVE  t.server.pid \notin syncPids' /\ Ahead(t, todo')
  BY <1>2 DEF ApartOK
<1>6. CASE q \in syncPids
  <2>1. LastEnd' = LastEnd /\ syncPids' = syncPids
    BY <1>1, <1>6 DEF LastEnd
  <2>2. t.server.pid \notin syncPids /\ Ahead(t, todo)
    BY <1>5, <2>1 DEF ApartOK
  <2>3. u # t
    BY <1>6, <2>2
  <2> QED BY <1>6, <2>1, <2>2, <2>3, VisitAhead
<1>7. CASE q \notin syncPids /\ ~Deep(n)
  <2>1. LastEnd' = LastEnd /\ syncPids' = syncPids \cup {q}
    BY <1>1, <1>7 DEF LastEnd
  <2>2. t.server.pid \notin syncPids /\ Ahead(t, todo)
    BY <1>5, <2>1 DEF ApartOK
  <2>3. u # t
    BY <1>5, <1>7, <2>1, <2>2, VisitLast
  <2>4. t.server.pid # q
    BY <1>3, <2>3 DEF ChainsApart
  <2>5. t.client.pid # q
    <3>1. CASE terminalBinder = NoThread
      BY <1>4, <1>5, <2>1, <3>1, EventPid DEF LastEnd
    <3>2. CASE terminalBinder # NoThread
      BY <1>5, <1>7, <2>1, <3>2 DEF LastEnd, SearchOK
    <3> QED BY <3>1, <3>2
  <2> QED BY <2>1, <2>2, <2>3, <2>4, <2>5, VisitAhead
<1>8. CASE q \notin syncPids /\ Deep(n)
  <2>1. LastEnd' = u.server /\ syncPids' = syncPids \cup {q}
    BY <1>1, <1>8, NoThreadIs DEF LastEnd
  <2>2. t.client.pid = q
    BY <1>5, <2>1
  <2>3. t.server.pid # q
    BY <2>2 DEF TableInv
  <2>4. t.server.pid \notin syncPids
    <3>1. SUFFICES ASSUME t.server.pid \in syncPids PROVE FALSE
      OBVIOUS
    <3>2. PICK v \in Transactions : /\ v.server.pid = t.server.pid
                                    /\ v.client.pid \in syncPids \cup {Self}
      BY <3>1 DEF SearchOK
    <3>3. v = t
      BY <3>2 DEF ChainsApart
    <3> QED BY <1>4, <1>8, <2>2, <3>2, <3>3
  <2>5. Ahead(t, todo')
    BY <1>8, <2>2, VisitDeep
  <2> QED BY <2>1, <2>3, <2>4, <2>5
<1> QED BY <1>6, <1>7, <1>8

(* With one waiting thread for each process, a chain that leads to x leads
   there through the one server of its first process. *)
LEMMA OnlyWay ==
  ASSUME TableInv, OneWaiterEach, NEW u \in Transactions,
         NEW x \in BehindPid(u.client.pid)
  PROVE  x = u.server.pid \/ x \in BehindPid(u.server.pid)
<1> DEFINE R == ProcessWaitsFor
<1>1. \A e \in R : e[2] \in Pids
  <2>1. \A t \in Transactions : t.server.pid \in Pids
    BY TransactionIs
  <2> QED BY <2>1 DEF ProcessWaitsFor
<1>2. \A e \in R : e[1] = u.client.pid => e[2] = u.server.pid
  BY DEF ProcessWaitsFor, OneWaiterEach
<1>3. u.server.pid \in Pids
  BY TransactionIs
<1> HIDE DEF R
<1>4. Reached(R, u.client.pid, Pids)
        \subseteq {u.server.pid} \cup Reached(R, u.server.pid, Pids)
  BY <1>1, <1>2, <1>3, ReachedFirst
<1> QED BY <1>4 DEF BehindPid, R

(* A visit keeps SingleOK, if each process has one waiting thread. *)
LEMMA VisitSingleOK ==
  ASSUME TableInv, ChainTypes, SearchOK, SingleOK, OneWaiterEach, VisitLine
  PROVE  SingleOK'
<1> DEFINE n == Head(todo)
           u == n.line
           q == u.server.pid
<1>1. /\ n \in Item /\ n \in Range(todo) /\ u.server \in Servers
      /\ manager' = manager /\ Event' = Event
      /\ q \in syncPids =>
           syncPids' = syncPids /\ terminalBinder' = terminalBinder
      /\ q \notin syncPids =>
           /\ syncPids' = syncPids \cup {q}
           /\ terminalBinder' = IF Deep(n) THEN u.server ELSE terminalBinder
  BY VisitIs
<1>2. Transactions' = Transactions /\ \A p : BehindPid(p)' = BehindPid(p)
  BY <1>1, TableSame
<1>3. u \in Transactions /\ u.client.pid \in syncPids \cup {Self}
  BY <1>1 DEF SearchOK
<1>4. SUFFICES ASSUME NEW t \in Transactions, t.client = LastEnd'
               PROVE  /\ t.server.pid \notin syncPids' => Ahead(t, todo')
                      /\ \A p \in syncPids' \ {LastEnd'.pid} :
                           LastEnd'.pid \in BehindPid(p)
                      /\ terminalBinder' = NoThread => syncPids' = {}
  BY <1>2 DEF SingleOK
<1>5. CASE q \in syncPids
  <2>1. /\ LastEnd' = LastEnd /\ syncPids' = syncPids
        /\ terminalBinder' = terminalBinder
    BY <1>1, <1>5 DEF LastEnd
  <2>2. ASSUME t.server.pid \notin syncPids PROVE Ahead(t, todo')
    <3>1. Ahead(t, todo)
      BY <1>4, <2>1, <2>2 DEF SingleOK
    <3>2. u # t
      BY <1>5, <2>2
    <3> QED BY <1>5, <3>1, <3>2, VisitAhead
  <2> QED BY <1>4, <2>1, <2>2 DEF SingleOK
<1>6. CASE q \notin syncPids /\ ~Deep(n)
  <2>1. /\ LastEnd' = LastEnd /\ syncPids' = syncPids \cup {q}
        /\ terminalBinder' = terminalBinder
    BY <1>1, <1>6 DEF LastEnd
  <2>2. u # t
    <3>1. SUFFICES ASSUME u = t PROVE FALSE
      OBVIOUS
    <3>2. Ahead(u, todo)
      BY <1>4, <1>6, <2>1, <3>1 DEF SingleOK
    <3> QED BY <1>4, <1>6, <2>1, <3>1, <3>2, VisitLast
  <2>3. terminalBinder # NoThread
    <3>1. SUFFICES ASSUME terminalBinder = NoThread PROVE FALSE
      OBVIOUS
    <3>2. syncPids = {}
      BY <1>4, <2>1, <3>1 DEF SingleOK
    <3>3. u.client.pid = Self /\ t.client.pid = Self
      BY <1>3, <1>4, <2>1, <3>1, <3>2, EventPid DEF LastEnd
    <3> QED BY <1>3, <2>2, <3>3 DEF OneWaiterEach
  <2>4. LastEnd.pid \in syncPids /\ LastEnd.pid # q
    BY <1>6, <2>3 DEF LastEnd, SearchOK
  <2>5. LastEnd.pid \in BehindPid(q)
    <3>1. LastEnd.pid \in BehindPid(u.client.pid)
      <4>1. CASE u.client.pid = LastEnd.pid
        BY <1>3, <1>4, <2>1, <2>2, <4>1 DEF OneWaiterEach
      <4>2. CASE u.client.pid \in syncPids /\ u.client.pid # LastEnd.pid
        BY <1>4, <2>1, <4>2 DEF SingleOK
      <4>3. CASE u.client.pid = Self
        BY <2>4, <4>3 DEF SearchOK
      <4> QED BY <1>3, <4>1, <4>2, <4>3
    <3> QED BY <1>3, <2>4, <3>1, OnlyWay
  <2>6. ASSUME t.server.pid \notin syncPids' PROVE Ahead(t, todo')
    <3>1. Ahead(t, todo)
      BY <1>4, <2>1, <2>6 DEF SingleOK
    <3>2. t.client.pid # q
      BY <1>4, <2>1, <2>4
    <3> QED BY <2>2, <3>1, <3>2, VisitAhead
  <2>7. \A p \in syncPids \ {LastEnd.pid} : LastEnd.pid \in BehindPid(p)
    BY <1>4, <2>1 DEF SingleOK
  <2> QED BY <2>1, <2>3, <2>5, <2>6, <2>7
<1>7. CASE q \notin syncPids /\ Deep(n)
  <2>1. /\ LastEnd' = u.server /\ syncPids' = syncPids \cup {q}
        /\ terminalBinder' = u.server /\ terminalBinder' # NoThread
    BY <1>1, <1>7, NoThreadIs DEF LastEnd
  <2>2. t.client.pid = q
    BY <1>4, <2>1
  <2>3. Ahead(t, todo')
    BY <1>7, <2>2, VisitDeep
  <2>4. u.client = LastEnd
    <3>1. u.client \in {Event, terminalBinder} /\ u.client # NoThread
      <4>1. u.client.pid \in Pids
        BY <1>3, TransactionIs
      <4> QED BY <1>7, <4>1, NoThreadIs DEF Deep
    <3>2. terminalBinder # NoThread => u.client # Event
      BY <1>3, <1>7 DEF SearchOK
    <3> QED BY <3>1, <3>2 DEF LastEnd
  <2>5. ASSUME NEW p \in syncPids' \ {q} PROVE q \in BehindPid(p)
    <3>1. p = u.client.pid \/ u.client.pid \in BehindPid(p)
      BY <1>3, <2>1, <2>4, <2>5 DEF SingleOK
    <3> QED BY <1>3, <3>1, BehindPidStep
  <2> QED BY <2>1, <2>3, <2>5
<1> QED BY <1>5, <1>6, <1>7

-----------------------------------------------------------------------------
(* The search begins with the transactions of this process. *)
LEMMA SearchBegins ==
  ASSUME TableInv, ChainTypes, NEW tid \in EventTids,
         GetBinderInfoString(tid), phase' = "search"
  PROVE  todo' \in Seq(Item) /\ SearchOK' /\ ApartOK' /\ SingleOK'
<1>1. /\ phase = "read" /\ manager' = manager
      /\ syncPids' = syncPids /\ terminalBinder' = terminalBinder
      /\ todo' = LinesOf(Self, TRUE)
  BY DEF GetBinderInfoString, GetBinderPeerPids, table
<1>2. syncPids' = {} /\ terminalBinder' = NoThread
  BY <1>1 DEF ChainTypes
<1>3. Transactions' = Transactions
  BY <1>1, TableSame
<1>4. /\ todo' \in Seq(Item) /\ Len(todo') = Len(manager[Self])
      /\ \A i \in 1 .. Len(manager[Self]) :
           todo'[i].line = manager[Self][i] /\ todo'[i].getTerminal = TRUE
      /\ \A n \in Range(todo') : n.line \in Range(manager[Self])
      /\ \A t \in Range(manager[Self]) : \E n \in Range(todo') : n.line = t
  <2> DEFINE a == LinesOf(Self, TRUE)
  <2>1. /\ a \in Seq(Item) /\ Len(a) = Len(manager[Self])
        /\ \A i \in 1 .. Len(manager[Self]) :
             a[i].line = manager[Self][i] /\ a[i].getTerminal = TRUE
        /\ \A n \in Range(a) : n.line \in Range(manager[Self])
        /\ \A t \in Range(manager[Self]) : \E n \in Range(a) : n.line = t
    BY EventPid, LinesOfIs
  <2> HIDE DEF a
  <2>2. todo' = a
    BY <1>1 DEF a
  <2> QED BY <2>1, <2>2
<1>5. \A t \in Range(manager[Self]) : t \in Transactions /\ t.client.pid = Self
  BY EventPid, TransactionIs DEF TableInv
<1>6. \A t \in Transactions : t.client.pid = Self => t \in Range(manager[Self])
  BY TransactionIs
<1>7. SearchOK'
  BY <1>2, <1>3, <1>4, <1>5, <1>6 DEF SearchOK
<1>8. Event'.pid = Self
  BY DEF Event
<1>9. ASSUME NEW t \in Transactions, t.client = LastEnd'
      PROVE  Ahead(t, todo')
  <2>1. t.client.pid = Self
    BY <1>2, <1>8, <1>9 DEF LastEnd
  <2>2. t \in Range(manager[Self]) /\ manager[Self] \in Seq(Line)
    BY <1>6, <2>1, EventPid DEF TableInv
  <2>3. PICK i \in 1 .. Len(manager[Self]) : manager[Self][i] = t
    BY <2>2, RangeEquality
  <2> QED BY <1>4, <2>3 DEF Ahead
<1>10. ApartOK' /\ SingleOK'
  BY <1>2, <1>3, <1>9 DEF ApartOK, SingleOK
<1> QED BY <1>4, <1>7, <1>10

-----------------------------------------------------------------------------
(* Appending adds one element. *)
LEMMA RangeOfAppend ==
  ASSUME NEW S, NEW s \in Seq(S), NEW e \in S
  PROVE  Append(s, e) \in Seq(S) /\ Range(Append(s, e)) = Range(s) \cup {e}
<1>1. /\ Append(s, e) \in Seq(S) /\ Len(Append(s, e)) = Len(s) + 1
      /\ \A i \in 1 .. Len(s) : Append(s, e)[i] = s[i]
      /\ Append(s, e)[Len(s) + 1] = e
  BY AppendProperties
<1>2. /\ Range(s) = {s[i] : i \in 1 .. Len(s)}
      /\ Range(Append(s, e)) = {Append(s, e)[i] : i \in 1 .. Len(Append(s, e))}
  BY <1>1, RangeEquality
<1>3. Len(s) \in Nat
  OBVIOUS
<1> QED BY <1>1, <1>2, <1>3

(* A transaction that is read is one more, of another thread. *)
LEMMA SyncTable ==
  ASSUME TableInv, NEW c \in Threads, NEW s \in Servers, NEW w \in Waits,
         SyncLine(c, s, w)
  PROVE  TableInv'
<1> DEFINE new == [client |-> c, server |-> s, wait |-> w]
<1>1. /\ c.pid \in Pids /\ c.pid # s.pid
      /\ \A t \in Transactions : t.client # c
      /\ manager' = [manager EXCEPT ![c.pid] = Append(manager[c.pid], new)]
  BY DEF SyncLine, Pids
<1>2. new \in Line /\ new.client = c /\ new.server = s
  BY DEF Line
<1> HIDE DEF new
<1>3. manager \in [Pids -> Seq(Line)]
  BY DEF TableInv
<1>4. /\ Append(manager[c.pid], new) \in Seq(Line)
      /\ Range(Append(manager[c.pid], new)) = Range(manager[c.pid]) \cup {new}
  BY <1>1, <1>2, <1>3, RangeOfAppend
<1>5. manager' \in [Pids -> Seq(Line)]
  BY <1>1, <1>3, <1>4
<1>6. \A p \in Pids : Range(manager'[p]) = IF p = c.pid
                        THEN Range(manager[p]) \cup {new} ELSE Range(manager[p])
  BY <1>1, <1>3, <1>4
<1>7. \A t \in Transactions' : t \in Transactions \/ t = new
  <2>1. \A t \in Transactions' : \E p \in Pids : t \in Range(manager'[p])
    BY DEF Transactions
  <2>2. \A p \in Pids : \A t \in Range(manager[p]) : t \in Transactions
    BY DEF Transactions
  <2> QED BY <1>6, <2>1, <2>2
<1>8. \A p \in Pids : \A t \in Range(manager'[p]) : t.client.pid = p
  BY <1>2, <1>6 DEF TableInv
<1>9. \A t \in Transactions' : t.client.pid # t.server.pid
  BY <1>1, <1>2, <1>7 DEF TableInv
<1>10. \A t, u \in Transactions' : t.client = u.client => t = u
  BY <1>1, <1>2, <1>7 DEF TableInv
<1> QED BY <1>5, <1>8, <1>9, <1>10 DEF TableInv

Reading ==
  \/ \E c \in Threads, s \in Servers, w \in Waits : SyncLine(c, s, w)
  \/ \E p \in Pids, taken \in BOOLEAN : AsyncLine(p, taken)
  \/ ContextLine
  \/ \E p \in Pids, n \in Spaces : SpaceLine(p, n)

(* Reading a line keeps the invariant, *)
LEMMA ReadingStep ==
  ASSUME ChainInv, Reading
  PROVE  ChainInv'
<1>1. /\ phase = "read" /\ phase' = phase /\ reported' = reported
      /\ killed' = killed /\ syncPids' = syncPids /\ todo' = todo
      /\ terminalBinder' = terminalBinder /\ peer' = peer
  BY DEF Reading, SyncLine, AsyncLine, ContextLine, SpaceLine, ReadLine, found
<1>2. TableInv'
  <2>1. CASE \E c \in Threads, s \in Servers, w \in Waits : SyncLine(c, s, w)
    BY <2>1, SyncTable DEF ChainInv
  <2>2. CASE manager' = manager
    BY <2>2, TableSame DEF ChainInv
  <2> QED BY <2>1, <2>2 DEF Reading, AsyncLine, ContextLine, SpaceLine
<1>3. ChainTypes'
  BY <1>1 DEF ChainInv, ChainTypes
<1>4. SearchInv'
  BY <1>1 DEF SearchInv, ChainInv, ChainTypes
<1>5. killed' = {} /\ peer' = {}
  BY <1>1 DEF ChainInv, VictimInv
<1> QED BY <1>2, <1>3, <1>4, <1>5 DEF ChainInv, VictimInv

(* and so do the start of the search, *)
LEMMA BeginStep ==
  ASSUME ChainInv, NEW tid \in EventTids, GetBinderInfoString(tid)
  PROVE  ChainInv'
<1>1. /\ phase = "read" /\ manager' = manager /\ killed' = killed
      /\ syncPids' = syncPids /\ terminalBinder' = terminalBinder
      /\ reported' = reported /\ peer' = peer
      /\ phase' = "search" \/ (phase' = "kill" /\ todo' = todo)
  BY DEF GetBinderInfoString, table
<1>2. TableInv'
  BY <1>1, TableSame DEF ChainInv
<1>3. ~reported /\ killed = {} /\ peer = {}
  BY <1>1 DEF ChainInv, ChainTypes, VictimInv
<1>4. CASE phase' = "search"
  <2>1. todo' \in Seq(Item) /\ SearchOK' /\ ApartOK' /\ SingleOK'
    BY <1>4, SearchBegins DEF ChainInv
  <2> QED BY <1>1, <1>2, <1>3, <1>4, <2>1
          DEF ChainInv, ChainTypes, SearchInv, VictimInv
<1>5. CASE phase' = "kill" /\ todo' = todo
  BY <1>1, <1>2, <1>3, <1>5 DEF ChainInv, ChainTypes, SearchInv, VictimInv
<1> QED BY <1>1, <1>4, <1>5

(* a turn of its loop, *)
LEMMA VisitStep ==
  ASSUME ChainInv, VisitLine
  PROVE  ChainInv'
<1>1. phase = "search" /\ todo # <<>> /\ killed' = killed /\ peer' = peer
  BY DEF VisitLine
<1>2. /\ TableInv /\ ChainTypes /\ SearchOK
      /\ ChainsApart => ApartOK
      /\ OneWaiterEach => SingleOK
      /\ ~reported /\ killed = {} /\ peer = {}
  BY <1>1 DEF ChainInv, SearchInv, ChainTypes, VictimInv
<1> DEFINE n == Head(todo)
<1>3. /\ n.line.server \in Servers /\ n.line.server.pid \in Pids
      /\ Tail(todo) \in Seq(Item)
      /\ manager' = manager /\ phase' = phase /\ reported' = reported
      /\ n.line.server.pid \in syncPids =>
           /\ todo' = Tail(todo) /\ syncPids' = syncPids
           /\ terminalBinder' = terminalBinder
      /\ n.line.server.pid \notin syncPids =>
           /\ syncPids' = syncPids \cup {n.line.server.pid}
           /\ terminalBinder' = IF Deep(n) THEN n.line.server
                                ELSE terminalBinder
           /\ todo' \in Seq(Item)
  BY <1>2, VisitIs
<1> HIDE DEF n
<1>4. /\ TableInv'
      /\ ChainsApart' <=> ChainsApart
      /\ OneWaiterEach' <=> OneWaiterEach
  BY <1>2, <1>3, TableSame
<1>5. ChainTypes'
  <2>1. todo' \in Seq(Item) /\ syncPids' \subseteq Pids
    BY <1>2, <1>3 DEF ChainTypes
  <2>2. terminalBinder' \in Servers \cup {NoThread}
    BY <1>2, <1>3 DEF ChainTypes
  <2> QED BY <1>1, <1>2, <1>3, <2>1, <2>2 DEF ChainTypes
<1>6. SearchOK'
  BY <1>2, VisitSearchOK
<1>7. ChainsApart' => ApartOK'
  BY <1>2, <1>4, VisitApartOK
<1>8. OneWaiterEach' => SingleOK'
  BY <1>2, <1>4, VisitSingleOK
<1> QED BY <1>1, <1>2, <1>4, <1>5, <1>6, <1>7, <1>8
        DEF ChainInv, SearchInv, VictimInv

(* What the search has found stays as it is. *)
LEMMA FoundSame ==
  ASSUME TableInv, SearchInv, phase = "search" \/ reported,
         manager' = manager, eventTid' = eventTid, syncPids' = syncPids,
         terminalBinder' = terminalBinder, todo' = todo
  PROVE  SearchInv'
<1>1. /\ Transactions' = Transactions
      /\ \A p : BehindPid(p)' = BehindPid(p)
      /\ \A x : Behind(x)' = Behind(x)
      /\ ChainsApart' <=> ChainsApart
      /\ OneWaiterEach' <=> OneWaiterEach
  BY TableSame
<1>2. Event' = Event /\ LastEnd' = LastEnd
  BY DEF Event, LastEnd
<1>3. Behind(Event)' = Behind(Event)
  BY <1>1, <1>2 DEF Behind, WaitsFor
<1>4. SearchOK' <=> SearchOK
  BY <1>1, <1>2, <1>3 DEF SearchOK
<1>5. ApartOK' <=> ApartOK
  BY <1>1, <1>2 DEF ApartOK
<1>6. SingleOK' <=> SingleOK
  BY <1>1, <1>2 DEF SingleOK
<1> QED BY <1>1, <1>4, <1>5, <1>6 DEF SearchInv

(* Nor does it after the search. *)
LEMMA LaterSearch ==
  ASSUME TableInv, SearchInv, phase' # "search", reported' = reported,
         manager' = manager, eventTid' = eventTid, syncPids' = syncPids,
         terminalBinder' = terminalBinder, todo' = todo
  PROVE  SearchInv'
<1>1. CASE reported
  BY <1>1, FoundSame
<1>2. CASE ~reported
  BY <1>2 DEF SearchInv
<1> QED BY <1>1, <1>2

(* its end, *)
LEMMA ReportStep ==
  ASSUME ChainInv, ReportChain
  PROVE  ChainInv'
<1>1. /\ phase = "search" /\ phase' = "kill" /\ todo = <<>> /\ reported' = TRUE
      /\ manager' = manager /\ eventTid' = eventTid /\ killed' = killed
      /\ syncPids' = syncPids /\ terminalBinder' = terminalBinder
      /\ todo' = todo /\ peer' = peer
  BY DEF ReportChain, table, found
<1>2. TableInv' /\ SearchInv'
  BY <1>1, TableSame, FoundSame DEF ChainInv
<1>3. ChainTypes' /\ VictimInv'
  BY <1>1 DEF ChainInv, ChainTypes, VictimInv
<1> QED BY <1>2, <1>3 DEF ChainInv

(* the line that is found for the kill, *)
LEMMA PeerStep ==
  ASSUME ChainInv, NEW line \in LineNow, ParsePeerBinderPid(line)
  PROVE  ChainInv'
<1>1. /\ phase = "kill" /\ phase' = phase /\ todo' = todo
      /\ reported' = reported /\ killed' = killed /\ peer' = {line}
      /\ manager' = manager /\ eventTid' = eventTid
      /\ syncPids' = syncPids /\ terminalBinder' = terminalBinder
      /\ line.client = Self /\ line.wait >= MIN_WAIT_NUM
      /\ line.old => \E t \in Transactions :
           t.client.pid = Self /\ t.server.pid = line.server
  BY DEF ParsePeerBinderPid, InTable, table, found
<1>2. TableInv' /\ Transactions' = Transactions
  BY <1>1, TableSame DEF ChainInv
<1>3. SearchInv'
  BY <1>1, LaterSearch DEF ChainInv
<1>4. ChainTypes' /\ VictimInv'
  BY <1>1, <1>2 DEF ChainInv, ChainTypes, VictimInv
<1> QED BY <1>2, <1>3, <1>4 DEF ChainInv

(* and the kill. *)
LEMMA KillStep ==
  ASSUME ChainInv, KillProcessByPid
  PROVE  ChainInv'
<1>1. /\ phase = "kill" /\ phase' = "end" /\ todo' = todo /\ reported' = reported
      /\ manager' = manager /\ eventTid' = eventTid /\ peer' = peer
      /\ syncPids' = syncPids /\ terminalBinder' = terminalBinder
      /\ \/ killed' = killed
         \/ \E line \in peer : line.server # Self /\ killed' = {line.server}
  BY DEF KillProcessByPid, table, found
<1>2. TableInv' /\ Transactions' = Transactions
  BY <1>1, TableSame DEF ChainInv
<1>3. SearchInv'
  BY <1>1, LaterSearch DEF ChainInv
<1>4. ChainTypes' /\ VictimInv'
  BY <1>1, <1>2 DEF ChainInv, ChainTypes, VictimInv
<1> QED BY <1>2, <1>3, <1>4 DEF ChainInv

(* The invariant holds at first, *)
LEMMA InitChainInv == ChainInit => ChainInv
<1> SUFFICES ASSUME ChainInit PROVE ChainInv
  OBVIOUS
<1>1. manager = [p \in Pids |-> <<>>]
  BY DEF ChainInit
<1>2. \A p \in Pids : manager[p] = <<>> /\ Range(manager[p]) = {}
  BY <1>1 DEF Range
<1>3. Transactions = {}
  BY <1>2 DEF Transactions
<1>4. TableInv
  BY <1>1, <1>2, <1>3 DEF TableInv
<1>5. ChainTypes
  <2>1. /\ phase = "read" /\ reported = FALSE /\ syncPids = {}
        /\ terminalBinder = NoThread /\ todo = <<>>
    BY DEF ChainInit
  <2>2. todo \in Seq(Item)
    BY <2>1
  <2> QED BY <2>1, <2>2 DEF ChainTypes
<1>6. SearchInv /\ VictimInv
  BY DEF ChainInit, SearchInv, VictimInv
<1> QED BY <1>4, <1>5, <1>6 DEF ChainInv

(* every step keeps it, *)
LEMMA NextChainInv == ChainInv /\ [ChainNext]_chainVars => ChainInv'
<1> SUFFICES ASSUME ChainInv, [ChainNext]_chainVars PROVE ChainInv'
  OBVIOUS
<1>1. CASE Reading
  BY <1>1, ReadingStep
<1>2. CASE \E tid \in EventTids : GetBinderInfoString(tid)
  BY <1>2, BeginStep
<1>3. CASE VisitLine
  BY <1>3, VisitStep
<1>4. CASE ReportChain
  BY <1>4, ReportStep
<1>5. CASE KillProcessByPid
  BY <1>5, KillStep
<1>6. CASE \E line \in LineNow : ParsePeerBinderPid(line)
  BY <1>6, PeerStep
<1>7. CASE UNCHANGED chainVars
  <2>1. /\ manager' = manager /\ phase' = phase /\ reported' = reported
        /\ killed' = killed /\ eventTid' = eventTid /\ syncPids' = syncPids
        /\ terminalBinder' = terminalBinder /\ todo' = todo /\ peer' = peer
    BY <1>7 DEF chainVars, table, found
  <2>2. TableInv' /\ Transactions' = Transactions
    BY <2>1, TableSame DEF ChainInv
  <2>3. SearchInv'
    <3>1. CASE phase = "search" \/ reported
      BY <2>1, <3>1, FoundSame DEF ChainInv
    <3>2. CASE ~(phase = "search" \/ reported)
      BY <2>1, <3>2 DEF SearchInv
    <3> QED BY <3>1, <3>2
  <2>4. ChainTypes' /\ VictimInv'
    BY <2>1, <2>2 DEF ChainInv, ChainTypes, VictimInv
  <2> QED BY <2>2, <2>3, <2>4 DEF ChainInv
<1> QED BY <1>1, <1>2, <1>3, <1>4, <1>5, <1>6, <1>7 DEF ChainNext, Reading

(* so it always holds. *)
LEMMA ChainInvariant == ChainSpec => []ChainInv
BY InitChainInv, NextChainInv, PTL DEF ChainSpec

-----------------------------------------------------------------------------
(* The search is over: what is found is closed. *)
LEMMA ChainExact == ChainInv => SyncPidsExact
<1> SUFFICES ASSUME ChainInv, reported PROVE syncPids = BehindPid(Self)
  BY DEF SyncPidsExact
<1>1. TableInv /\ SearchOK /\ todo = <<>> /\ syncPids \subseteq Pids
  BY DEF ChainInv, SearchInv, ChainTypes
<1>2. Range(todo) = {}
  BY <1>1 DEF Range
<1>3. \A t \in Transactions :
        t.client.pid \in syncPids \cup {Self} => t.server.pid \in syncPids
  BY <1>1, <1>2 DEF SearchOK
<1>4. \A e \in ProcessWaitsFor : e[1] \in syncPids \cup {Self} => e[2] \in syncPids
  BY <1>3 DEF ProcessWaitsFor
<1>5. BehindPid(Self) \subseteq syncPids
  BY <1>1, <1>4, ReachedLeast DEF BehindPid
<1> QED BY <1>1, <1>5 DEF SearchOK

(* A list with a way ahead is not empty. *)
LEMMA AheadSome ==
  ASSUME NEW t, Ahead(t, <<>>)
  PROVE  FALSE
BY DEF Ahead

(* At the end of the search it implies TerminalIsLast, *)
LEMMA ChainTerminal == ChainInv => TerminalIsLast
<1> SUFFICES ASSUME ChainInv, reported
             PROVE
               LET waits == \E t \in Transactions : t.client = terminalBinder IN
               /\ terminalBinder \in Behind(Event) \cup {NoThread}
               /\ Behind(Event) # {} /\ (ChainsApart \/ OneWaiterEach)
                    => terminalBinder # NoThread
               /\ ChainsApart => ~waits
               /\ OneWaiterEach =>
                    (waits => terminalBinder.pid \in BehindPid(terminalBinder.pid))
  BY DEF TerminalIsLast
<1>1. /\ TableInv /\ SearchOK /\ todo = <<>>
      /\ ChainsApart => ApartOK
      /\ OneWaiterEach => SingleOK
  BY DEF ChainInv, SearchInv, ChainTypes
<1>2. ASSUME ChainsApart, NEW t \in Transactions, t.client = LastEnd
      PROVE  FALSE
  BY <1>1, <1>2, AheadSome DEF ApartOK
<1>3. ASSUME OneWaiterEach, NEW t \in Transactions, t.client = LastEnd
      PROVE  /\ terminalBinder # NoThread
             /\ terminalBinder.pid \in BehindPid(terminalBinder.pid)
  <2>1. /\ t.server.pid \in syncPids
        /\ \A p \in syncPids \ {LastEnd.pid} : LastEnd.pid \in BehindPid(p)
        /\ terminalBinder = NoThread => syncPids = {}
    BY <1>1, <1>3, AheadSome DEF SingleOK
  <2>2. terminalBinder # NoThread /\ LastEnd = terminalBinder
    BY <2>1 DEF LastEnd
  <2>3. t.client.pid # t.server.pid
    BY <1>1 DEF TableInv
  <2>4. terminalBinder.pid \in BehindPid(t.server.pid)
    BY <1>3, <2>1, <2>2, <2>3
  <2>5. t.server.pid \in BehindPid(terminalBinder.pid)
    BY <1>1, <1>3, <2>2, BehindPidStep
  <2> QED BY <2>2, <2>4, <2>5, ReachedTrans DEF BehindPid
<1>4. Behind(Event) # {} => \E t \in Transactions : t.client = Event
  <2>1. SUFFICES ASSUME \A t \in Transactions : t.client # Event
                 PROVE  Behind(Event) \subseteq {}
    OBVIOUS
  <2>2. \A e \in WaitsFor : e[1] \in {} \cup {Event} => e[2] \in {}
    BY <2>1 DEF WaitsFor
  <2>3. Reached(WaitsFor, Event, Servers) \subseteq {}
    <3> DEFINE S == {}
    <3>1. S \in SUBSET Servers
      OBVIOUS
    <3>2. \A e \in WaitsFor : e[1] \in S \cup {Event} => e[2] \in S
      BY <2>2
    <3> HIDE DEF S
    <3>3. Reached(WaitsFor, Event, Servers) \subseteq S
      BY <3>1, <3>2, ReachedLeast
    <3> QED BY <3>3 DEF S
  <2> QED BY <2>3 DEF Behind
<1>5. Behind(Event) # {} /\ (ChainsApart \/ OneWaiterEach)
        => terminalBinder # NoThread
  BY <1>2, <1>3, <1>4 DEF LastEnd
<1>6. \A t \in Transactions : t.client = terminalBinder => t.client = LastEnd
  <2>1. \A t \in Transactions : t.client # NoThread
    <3>1. \A t \in Transactions : t.client.pid \in Pids
      BY <1>1, TransactionIs
    <3> QED BY <3>1, NoThreadIs
  <2> QED BY <2>1 DEF LastEnd
<1>7. terminalBinder \in Behind(Event) \cup {NoThread}
  BY <1>1 DEF SearchOK
<1> QED BY <1>2, <1>3, <1>5, <1>6, <1>7

(* and VictimIsAwaited. *)
LEMMA ChainVictim == ChainInv => VictimIsAwaited
<1> SUFFICES ASSUME ChainInv, NEW p \in killed
             PROVE  \E line \in peer :
                      /\ p = line.server /\ p # Self
                      /\ line.client = Self /\ line.wait >= MIN_WAIT_NUM
                      /\ line.old /\ reported => p \in syncPids
  BY DEF VictimIsAwaited
<1>1. p # Self
  BY DEF ChainInv, VictimInv
<1>2. PICK line \in peer : p = line.server
  BY DEF ChainInv, VictimInv
<1>3. /\ line.client = Self /\ line.wait >= MIN_WAIT_NUM
      /\ line.old => \E t \in Transactions :
           t.client.pid = Self /\ t.server.pid = p
  BY <1>2 DEF ChainInv, VictimInv
<1>4. ASSUME reported, line.old PROVE p \in syncPids
  <2>1. syncPids = BehindPid(Self)
    BY <1>4, ChainExact DEF SyncPidsExact
  <2> QED BY <1>3, <1>4, <2>1, BehindPidStep DEF ChainInv
<1> QED BY <1>1, <1>2, <1>3, <1>4

(* SyncPidsExact, for any table: ParseBinderCallChain finds every process that
   this one waits for, directly or through others, and no other. *)
THEOREM PidsAreExact == ChainSpec => []SyncPidsExact
BY ChainInvariant, ChainExact, PTL

(* TerminalIsLast, for any table: the thread named as the end of the chain is
   awaited by the event's thread; it waits for nobody if the chains do not
   meet, and is in a cycle otherwise if each process has one waiting thread. *)
THEOREM EndIsLast == ChainSpec => []TerminalIsLast
BY ChainInvariant, ChainTerminal, PTL

(* VictimIsAwaited, for any two tables: KillProcessByPid kills a process that
   keeps a thread of this one waiting, and that the report, made from an earlier
   table, names unless the transaction has begun since. *)
THEOREM VictimWasAwaited == ChainSpec => []VictimIsAwaited
BY ChainInvariant, ChainVictim, PTL

-----------------------------------------------------------------------------
(* An order of a finite set has all of it; who is not among the first comes
   after two who are. *)
LEMMA OrderIs ==
  ASSUME NEW S, IsFiniteSet(S), NEW s \in Orders(S)
  PROVE  /\ First(s) \subseteq S
         /\ \A x \in S \ First(s) : \E m \in DOMAIN s :
              /\ s[m] = x /\ 1 < m /\ 2 < m
              /\ 1 \in DOMAIN s /\ 2 \in DOMAIN s /\ s[1] # s[2]
              /\ {s[1], s[2]} \subseteq First(s)
<1> DEFINE n == Cardinality(S)
<1>1. n \in Nat /\ s \in Injection(1 .. n, S)
  BY FS_CardinalityType DEF Orders
<1>2. Cardinality(1 .. n) = n
  BY <1>1, FS_Interval
<1>3. s \in Surjection(1 .. n, S)
  BY <1>1, <1>2, FS_Injection
<1>4. /\ s \in [1 .. n -> S]
      /\ \A a, b \in 1 .. n : s[a] = s[b] => a = b
      /\ \A x \in S : \E i \in 1 .. n : s[i] = x
  BY <1>1, <1>3, Fun_InjectionProperties, Fun_SurjectionProperties
<1> HIDE DEF n
<1>5. \A x : x \in First(s) <=> \E i \in 1 .. n : x = s[i] /\ (i = 1 \/ i = 2)
  BY <1>1, <1>4 DEF First, individualMaxSize
<1>6. First(s) \subseteq S
  BY <1>4, <1>5
<1>7. ASSUME NEW x \in S \ First(s)
      PROVE  \E m \in DOMAIN s :
               /\ s[m] = x /\ 1 < m /\ 2 < m
               /\ 1 \in DOMAIN s /\ 2 \in DOMAIN s /\ s[1] # s[2]
               /\ {s[1], s[2]} \subseteq First(s)
  <2>1. PICK m \in 1 .. n : s[m] = x
    BY <1>4
  <2>2. m # 1 /\ m # 2
    BY <1>5, <1>7, <2>1
  <2>3. 1 < m /\ 2 < m /\ 1 \in 1 .. n /\ 2 \in 1 .. n
    BY <1>1, <2>2
  <2>4. s[1] # s[2] /\ s[1] \in First(s) /\ s[2] \in First(s)
    BY <1>4, <1>5, <2>3
  <2> QED BY <1>4, <2>1, <2>3, <2>4
<1> QED BY <1>6, <1>7

(* There are finitely many processes. *)
LEMMA PidsFinite == IsFiniteSet(Pids)
<1> DEFINE f == [t \in Threads |-> t.pid]
<1>1. f \in Surjection(Threads, Pids)
  <2>1. f \in [Threads -> Pids]
    BY DEF Pids
  <2>2. \A p \in Pids : \E t \in Threads : f[t] = p
    BY DEF Pids
  <2> HIDE DEF f
  <2> QED BY <2>1, <2>2, Fun_IsSurj
<1> QED BY <1>1, FS_Surjection, BinderChainAssumption

(* BinderInfoParser names the worst. *)
LEMMA ParserNamesWorst ==
  ASSUME freeAsyncSpacePairs \in Seq(Pids \X Spaces), BinderInfoParser,
         asyncBinderMap' = asyncBinderMap,
         freeAsyncSpacePairs' = freeAsyncSpacePairs
  PROVE  WorstNamed'
<1> DEFINE short == DOMAIN freeAsyncSpacePairs
<1>1. PICK s \in Orders(short), a \in Orders(Loaded) :
        /\ \A i, j \in DOMAIN s : i < j => Space(s[i]) <= Space(s[j])
        /\ \A i, j \in DOMAIN a : i < j =>
             asyncBinderMap[a[i]] >= asyncBinderMap[a[j]]
        /\ asyncPids' = {freeAsyncSpacePairs[i][1] : i \in First(s)} \cup First(a)
  BY DEF BinderInfoParser
<1>2. IsFiniteSet(short)
  <2>1. short = 1 .. Len(freeAsyncSpacePairs) /\ Len(freeAsyncSpacePairs) \in Nat
    OBVIOUS
  <2> QED BY <2>1, FS_Interval
<1>3. IsFiniteSet(Loaded)
  BY PidsFinite, FS_Subset DEF Loaded
<1> DEFINE named == {i \in short : freeAsyncSpacePairs[i][1] \in asyncPids'}
<1>4. First(s) \subseteq named
  BY <1>1, <1>2, OrderIs
<1>5. ASSUME NEW i \in short \ named
      PROVE  \E j, k \in named :
               j # k /\ Space(j) <= Space(i) /\ Space(k) <= Space(i)
  <2>1. PICK m \in DOMAIN s :
          /\ s[m] = i /\ 1 < m /\ 2 < m
          /\ 1 \in DOMAIN s /\ 2 \in DOMAIN s /\ s[1] # s[2]
          /\ {s[1], s[2]} \subseteq First(s)
    BY <1>2, <1>4, <1>5, OrderIs
  <2>2. Space(s[1]) <= Space(i) /\ Space(s[2]) <= Space(i)
    BY <1>1, <2>1
  <2> QED BY <1>4, <2>1, <2>2
<1>6. ASSUME NEW p \in Loaded \ asyncPids'
      PROVE  \E q, r \in Loaded \cap asyncPids' :
               /\ q # r /\ asyncBinderMap[q] >= asyncBinderMap[p]
               /\ asyncBinderMap[r] >= asyncBinderMap[p]
  <2>1. First(a) \subseteq Loaded \cap asyncPids'
    BY <1>1, <1>3, OrderIs
  <2>2. PICK m \in DOMAIN a :
          /\ a[m] = p /\ 1 < m /\ 2 < m
          /\ 1 \in DOMAIN a /\ 2 \in DOMAIN a /\ a[1] # a[2]
          /\ {a[1], a[2]} \subseteq First(a)
    BY <1>3, <1>6, <2>1, OrderIs
  <2>3. /\ asyncBinderMap[a[1]] >= asyncBinderMap[p]
        /\ asyncBinderMap[a[2]] >= asyncBinderMap[p]
    BY <1>1, <2>2
  <2> QED BY <2>1, <2>2, <2>3
<1>7. ASSUME NEW p \in asyncPids'
      PROVE  p \in Loaded \/ \E i \in named : freeAsyncSpacePairs[i][1] = p
  BY <1>1, <1>3, <1>4, <1>7, OrderIs
<1>8. Loaded' = Loaded /\ \A i : Space(i)' = Space(i)
  BY DEF Loaded, Space
<1> QED BY <1>5, <1>6, <1>7, <1>8 DEF WorstNamed

(* WorstNamed, and that the spaces kept are numbers of the table. *)
AsyncInv ==
  /\ phase = "read" => ~reported
  /\ freeAsyncSpacePairs \in Seq(Pids \X Spaces)
  /\ WorstNamed

(* Every step keeps it. *)
LEMMA NextAsyncInv == AsyncInv /\ [ChainNext]_chainVars => AsyncInv'
<1> SUFFICES ASSUME AsyncInv, [ChainNext]_chainVars PROVE AsyncInv'
  OBVIOUS
<1>1. CASE Reading
  <2>1. phase = "read" /\ phase' = "read" /\ reported' = reported
    BY <1>1 DEF Reading, SyncLine, AsyncLine, ContextLine, SpaceLine, ReadLine
  <2>2. ASSUME NEW p \in Pids, NEW n \in Spaces, SpaceLine(p, n)
        PROVE  freeAsyncSpacePairs' \in Seq(Pids \X Spaces)
    BY <2>2, AppendProperties DEF AsyncInv, SpaceLine
  <2>3. freeAsyncSpacePairs' \in Seq(Pids \X Spaces)
    BY <1>1, <2>2 DEF AsyncInv, Reading, SyncLine, AsyncLine, ContextLine
  <2> QED BY <2>1, <2>3 DEF AsyncInv, WorstNamed
<1>2. CASE \E tid \in EventTids : GetBinderInfoString(tid)
  <2>1. /\ phase = "read" /\ reported' = reported
        /\ asyncBinderMap' = asyncBinderMap
        /\ freeAsyncSpacePairs' = freeAsyncSpacePairs
        /\ phase' = "kill" \/ (phase' = "search" /\ BinderInfoParser)
    BY <1>2 DEF GetBinderInfoString, GetBinderPeerPids, table
  <2>2. CASE phase' = "kill"
    BY <2>1, <2>2 DEF AsyncInv, WorstNamed
  <2>3. CASE phase' = "search" /\ BinderInfoParser
    BY <2>1, <2>3, ParserNamesWorst DEF AsyncInv
  <2> QED BY <2>1, <2>2, <2>3
<1>3. CASE \/ VisitLine \/ ReportChain \/ KillProcessByPid
           \/ \E line \in LineNow : ParsePeerBinderPid(line)
           \/ UNCHANGED chainVars
  <2>1. /\ asyncBinderMap' = asyncBinderMap
        /\ freeAsyncSpacePairs' = freeAsyncSpacePairs
        /\ asyncPids' = asyncPids
        /\ \/ phase' = phase /\ reported' = reported
           \/ phase = "search" /\ phase' = "kill"
           \/ phase = "kill" /\ phase' = "end" /\ reported' = reported
    <3>1. CASE VisitLine
      BY <3>1 DEF VisitLine, table, found
    <3>2. CASE ReportChain
      BY <3>2 DEF ReportChain, table, found
    <3>3. CASE KillProcessByPid
      BY <3>3 DEF KillProcessByPid, table, found
    <3>4. CASE UNCHANGED chainVars
      BY <3>4 DEF chainVars, table, found
    <3>5. CASE \E line \in LineNow : ParsePeerBinderPid(line)
      BY <3>5 DEF ParsePeerBinderPid, table, found
    <3> QED BY <1>3, <3>1, <3>2, <3>3, <3>4, <3>5
  <2>2. Loaded' = Loaded /\ \A i : Space(i)' = Space(i)
    BY <2>1 DEF Loaded, Space
  <2>3. WorstNamed'
    BY <2>1, <2>2 DEF AsyncInv, WorstNamed
  <2> QED BY <2>1, <2>3 DEF AsyncInv
<1> QED BY <1>1, <1>2, <1>3 DEF ChainNext, Reading

(* WorstNamed, for any table: the two sorted lists are cut at
   individualMaxSize, and who is cut off is no worse off than who is named. *)
THEOREM WorstAreNamed == ChainSpec => []WorstNamed
<1>1. ChainInit => AsyncInv
  BY DEF ChainInit, AsyncInv, WorstNamed
<1>2. AsyncInv => WorstNamed
  BY DEF AsyncInv
<1> QED BY <1>1, <1>2, NextAsyncInv, PTL DEF ChainSpec

=============================================================================
