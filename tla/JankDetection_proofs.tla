------------------------ MODULE JankDetection_proofs ------------------------
(***************************************************************************)
(* Proofs about jank detection, for all threads, parameters, events and    *)
(* configuration calls: how long a session lasts, how many reports follow  *)
(* each other, and that a session has its cause.                           *)
(***************************************************************************)
EXTENDS JankDetection, TLAPS

Params ==
  [log_type : Int, sample_interval : Int, ignore_startup_time : Int,
   sample_count : Int, report_times_per_app : Int, auto_stop_sampling : BOOLEAN,
   set_report_times_flag : BOOLEAN, checker_interval : Int]

Call ==
  [pc : {"detect", "claim", "insert"}, interval : Int, duration : Int, spent : Int,
   whole : BOOLEAN]

Stamp == [age : Int, len : Int, running : BOOLEAN, changed : BOOLEAN]

Session == [interval : Int, count : Int, whole : BOOLEAN]

(* The shape of the state. *)
Shape ==
  /\ setup \in Setups
  /\ params \in Params
  /\ event \in [Threads -> Int] /\ beginAge \in Int /\ worst \in Int
  /\ cur \in Stamp
  /\ call \in [Threads -> {Idle} \cup Call]
  /\ reportTimes \in Int /\ sinceLast \in Int /\ chain \in Nat /\ again \in Nat
  /\ detectorCount \in Nat /\ collectCount \in Nat /\ ticks \in Nat
  /\ session \in Session

(* An interval and a count that CheckSampleParam lets pass together. *)
Fits(interval, count) ==
  /\ interval \in Nat \ {0} /\ count \in Nat \ {0}
  /\ (count + SAMPLE_EXTRA_COUNT) * interval <= MAX_SAMPLE_STACK_TIMES

(* What UpdateJankParam still has to write, at each of its steps. *)
Left0 == <<"log_type", "sample_interval", "ignore_startup_time", "sample_count",
           "auto_stop_sampling", "report_times_per_app">>
Left1 == <<"sample_interval", "ignore_startup_time", "sample_count",
           "auto_stop_sampling", "report_times_per_app">>
Left2 == <<"ignore_startup_time", "sample_count", "auto_stop_sampling",
           "report_times_per_app">>
Left3 == <<"sample_count", "auto_stop_sampling", "report_times_per_app">>
Left4 == <<"auto_stop_sampling", "report_times_per_app">>
Left5 == <<"report_times_per_app">>
Trace == <<"log_type">>

To == [log_type : Int, sample_interval : Int, ignore_startup_time : Int,
       sample_count : Int, report_times_per_app : Int, auto_stop_sampling : BOOLEAN]

Update ==
  {u \in [to : To, autoStopEvent : BOOLEAN,
          left : {Left0, Left1, Left2, Left3, Left4, Left5, Trace}] :
     Fits(u.to.sample_interval, u.to.sample_count) /\ u.to.report_times_per_app >= 0}

ParamsFit == Fits(params.sample_interval, params.sample_count)

(* The parameters fit together when no update is between its writes of the
   interval and of the count; a call that saw no write since it read the
   interval has that interval, and so has the session it starts. *)
ConfigInv ==
  /\ update \in {NoUpdate} \cup Update
  /\ update.left \in {<<>>, Left0, Left1, Trace} => ParamsFit
  /\ update.left \in {Left2, Left3} =>
       params.sample_interval = update.to.sample_interval
  /\ update.left \in {Left4, Left5} =>
       /\ params.sample_interval = update.to.sample_interval
       /\ params.sample_count = update.to.sample_count
  /\ \A t \in Threads : call[t] # Idle /\ call[t].whole =>
       ParamsFit /\ call[t].interval = params.sample_interval
  /\ session # NoSession /\ session.whole => Fits(session.interval, session.count)

Busy(t) == At(t, "claim") \/ At(t, "insert")

(* Unless two threads overlapped, the thread on its way to a session, the gate
   and the session exclude each other, and the ticks of a session are counted
   by its counters. *)
SessionInv ==
  ~overlap =>
    /\ \A t, u \in Threads : Busy(t) /\ Busy(u) => t = u
    /\ \A t \in Threads : At(t, "claim") => enabled
    /\ \A t \in Threads : At(t, "insert") =>
         ~enabled /\ detectorCount = 0 /\ collectCount = 0
    /\ \A t \in Threads : Busy(t) => session = NoSession
    /\ session # NoSession => ~enabled
    /\ session = NoSession => ~finished /\ ticks = 0
    /\ session = NoSession /\ ~leftover => ~isDumpStack
    /\ session # NoSession /\ ~finished =>
         detectorCount < DETECT_STACK_COUNT /\ ticks <= detectorCount + collectCount
    /\ isDumpStack /\ ~leftover => ~finished /\ collectCount > 0
    /\ session # NoSession /\ session.whole =>
         /\ collectCount <= session.count
         /\ ticks <= DETECT_STACK_COUNT + session.count

(* A thread in the middle of an event is in no call. *)
CallAfterEvent == \A t \in Threads : event[t] # NoEvent => call[t] = Idle

Active == session # NoSession /\ ~finished
Claiming == \E t \in Threads : At(t, "claim")
Inserting == \E t \in Threads : At(t, "insert")
Budget == params.report_times_per_app
Most == IF Budget = 0 THEN 1 ELSE Budget

(* The reports so far, without those of sessions that were finished, and those
   still allowed stay within the budget, except between the renewal of the budget
   and the claim that begins a new count; a session on its way has room for its
   report. *)
Regular == chain - again

BudgetInv ==
  /\ Budget >= 0
  /\ ~overlap =>
       /\ reportTimes <= Budget
       /\ Regular <= Most
       /\ reportTimes > 0 => (Regular + reportTimes <= Budget) \/ (Claiming /\ PeriodOver)
       /\ Inserting \/ Active => Regular + 1 <= Most
       /\ Claiming => PeriodOver \/ Regular + 1 <= Most

(* The stamps that are shared are never older than the event of any thread,
   and what they say of the last event is so, but for the stamp the process
   begins with, which no session sees. *)
CauseInv ==
  /\ cur.age >= 0
  /\ \A t \in Threads : event[t] # NoEvent =>
       cur.age <= event[t] /\ (t # Main => beginAge <= event[t])
  /\ \A t \in Threads : call[t] # Idle => call[t].spent > call[t].interval
  /\ cur.changed /\ ~cur.running => cur.len <= worst
  /\ cur.changed /\ cur.running =>
       \/ cut
       \/ \E t \in Threads : event[t] >= cur.age
       \/ /\ session = NoSession
          /\ \A t \in Threads : call[t] = Idle /\ event[t] = NoEvent

-----------------------------------------------------------------------------
(* Configuration. *)

(* What the assumptions say of the numbers. *)
LEMMA Numbers ==
  /\ SAMPLE_INTERVAL_MIN \in Nat \ {0} /\ SAMPLE_INTERVAL_MAX \in Nat
  /\ SAMPLE_COUNT_MIN \in Nat \ {0}
  /\ SAMPLE_REPORT_TIMES_MIN \in Nat /\ SAMPLE_REPORT_TIMES_MAX \in Nat
  /\ SAMPLE_DEFAULT_REPORT_TIMES \in Nat
  /\ MAX_SAMPLE_STACK_TIMES \in Nat /\ SAMPLE_EXTRA_COUNT \in Nat
  /\ DETECT_STACK_COUNT \in Nat \ {0} /\ SAMPLE_EXTRA_COUNT >= DETECT_STACK_COUNT
  /\ DEFAULT_IGNORE_STARTUP_TIME \in Nat /\ IGNORE_STARTUP_TIME_MIN \in Nat
  /\ DUMPTRACE_TIME \in Nat /\ AUTO_STOP_CHECKER_INTERVAL \in Nat
  /\ ONE_DAY_LIMIT \in Nat /\ MINUTE \in Nat \ {0}
  /\ Fits(SAMPLE_DEFAULT_INTERVAL, SAMPLE_DEFAULT_COUNT)
  BY JankAssumption DEF Fits

(* A count below the quotient keeps the product below the limit. *)
LEMMA QuotientFits ==
  ASSUME NEW m \in Nat, NEW i \in Nat \ {0}, NEW e \in Nat, NEW c \in Int,
         c <= m \div i - e
  PROVE  (c + e) * i <= m
<1> DEFINE q == m \div i
<1>1. q \in Int /\ q * i <= m /\ c + e <= q
  OBVIOUS
<1> HIDE DEF q
<1> QED BY <1>1

(* What a call may ask for, if CheckSampleParam accepts it. *)
LEMMA SampleFits ==
  ASSUME NEW map, NEW need \in BOOLEAN, DOMAIN map \subseteq Keys,
         map \in [DOMAIN map -> Int], CheckSampleParam(map, need)
  PROVE  LET p == SampleParams(map, need)
         IN p \in To /\ Fits(p.sample_interval, p.sample_count)
            /\ p.report_times_per_app >= 0
<1> DEFINE p == SampleParams(map, need)
<1>1. /\ p.sample_interval \in SAMPLE_INTERVAL_MIN .. SAMPLE_INTERVAL_MAX
      /\ p.sample_count \in SAMPLE_COUNT_MIN .. MaxSampleCount(p.sample_interval)
      /\ p.report_times_per_app \in SAMPLE_REPORT_TIMES_MIN .. SAMPLE_REPORT_TIMES_MAX
  BY DEF CheckSampleParam
<1>2. p.sample_interval \in Nat \ {0} /\ p.sample_count \in Nat \ {0}
      /\ p.report_times_per_app \in Nat
  BY <1>1, Numbers
<1>3. p.sample_count <= MAX_SAMPLE_STACK_TIMES \div p.sample_interval - SAMPLE_EXTRA_COUNT
  <2>1. MAX_SAMPLE_STACK_TIMES \div p.sample_interval \in Int
    BY <1>2, Numbers
  <2> QED BY <1>1, <1>2, <2>1, Numbers DEF MaxSampleCount
<1>4. Fits(p.sample_interval, p.sample_count)
  BY <1>2, <1>3, Numbers, QuotientFits DEF Fits
<1>5. p.ignore_startup_time \in Int
  <2>1. ConvertStrToNum(map, "ignore_startup_time",
                        Default(need, DEFAULT_IGNORE_STARTUP_TIME)) \in Int
    BY Numbers DEF ConvertStrToNum, Default, Missing
  <2> QED BY <2>1 DEF SampleParams
<1>6. p.auto_stop_sampling \in BOOLEAN
  BY DEF SampleParams, GetAutoStopSampling
<1>7. p \in To
  <2>1. p = [log_type |-> LOGTYPE_SAMPLE_STACK, sample_interval |-> p.sample_interval,
             ignore_startup_time |-> p.ignore_startup_time,
             sample_count |-> p.sample_count,
             report_times_per_app |-> p.report_times_per_app,
             auto_stop_sampling |-> p.auto_stop_sampling]
    BY DEF SampleParams
  <2> HIDE DEF p
  <2> QED BY <1>2, <1>5, <1>6, <2>1 DEF To, LOGTYPE_SAMPLE_STACK
<1> QED BY <1>2, <1>4, <1>7

(* The defaults fit. *)
LEMMA DefaultFits ==
  ASSUME NEW type \in Int, NEW stop \in BOOLEAN
  PROVE  LET p == DefaultParams(type, stop)
         IN p \in To /\ Fits(p.sample_interval, p.sample_count)
            /\ p.report_times_per_app >= 0
<1>1. SAMPLE_DEFAULT_INTERVAL \in Nat /\ SAMPLE_DEFAULT_COUNT \in Nat
  BY Numbers DEF Fits
<1> QED BY <1>1, Numbers DEF DefaultParams, To

(* A call that is accepted begins an update whose parameters fit. *)
LEMMA UpdateBegins ==
  ASSUME NEW p \in To, Fits(p.sample_interval, p.sample_count),
         p.report_times_per_app >= 0, NEW a \in BOOLEAN, UpdateJankParam(p, a)
  PROVE  update' \in Update /\ update'.left \in {Left0, Trace}
<1> DEFINE l == IF p.log_type = LOGTYPE_COLLECT_TRACE THEN Trace ELSE Left0
<1>1. update' = [to |-> p, autoStopEvent |-> a, left |-> l]
  BY DEF UpdateJankParam, Trace, Left0
<1>2. l \in {Left0, Trace}
  OBVIOUS
<1> HIDE DEF l
<1> QED BY <1>1, <1>2 DEF Update

(* Configure: only a call whose parameters fit begins an update. *)
LEMMA ConfigureIs ==
  ASSUME setup \in Setups, Configure
  PROVE  update' \in Update /\ update'.left \in {Left0, Trace} /\ update = NoUpdate
<1>1. PICK c \in setup.calls :
        \/ c.func = "SetEventConfig" /\ SetEventConfig(c.map)
        \/ c.func = "ConfigEventPolicy" /\ ConfigEventPolicy(c.map)
  BY DEF Configure
<1>2. DOMAIN c.map \subseteq Keys /\ c.map \in [DOMAIN c.map -> Int]
  BY JankAssumption
<1>3. ASSUME NEW need \in BOOLEAN, NEW a \in BOOLEAN, CheckSampleParam(c.map, need),
             UpdateJankParam(SampleParams(c.map, need), a)
      PROVE  update' \in Update /\ update'.left \in {Left0, Trace}
  BY <1>2, <1>3, SampleFits, UpdateBegins
<1>4. ASSUME NEW type \in Int, NEW stop \in BOOLEAN, NEW a \in BOOLEAN,
             UpdateJankParam(DefaultParams(type, stop), a)
      PROVE  update' \in Update /\ update'.left \in {Left0, Trace}
  BY <1>4, DefaultFits, UpdateBegins
<1>5. LOGTYPE_NONE \in Int /\ LOGTYPE_COLLECT_TRACE \in Int
      /\ GetAutoStopSampling(c.map) \in BOOLEAN
  BY DEF LOGTYPE_NONE, LOGTYPE_COLLECT_TRACE, GetAutoStopSampling
<1>6. ASSUME SetEventConfig(c.map)
      PROVE  update' \in Update /\ update'.left \in {Left0, Trace}
  BY <1>3, <1>4, <1>5, <1>6 DEF SetEventConfig
<1>7. ASSUME ConfigEventPolicy(c.map)
      PROVE  update' \in Update /\ update'.left \in {Left0, Trace}
  BY <1>3, <1>4, <1>5, <1>7 DEF ConfigEventPolicy
<1> QED BY <1>1, <1>6, <1>7 DEF Configure

(* The steps of an update, as sequences. *)
LEMMA LeftIs ==
  /\ Left0 # <<>> /\ Head(Left0) = "log_type" /\ Len(Left0) # 1 /\ Tail(Left0) = Left1
  /\ Left1 # <<>> /\ Head(Left1) = "sample_interval" /\ Len(Left1) # 1
  /\ Tail(Left1) = Left2
  /\ Left2 # <<>> /\ Head(Left2) = "ignore_startup_time" /\ Len(Left2) # 1
  /\ Tail(Left2) = Left3
  /\ Left3 # <<>> /\ Head(Left3) = "sample_count" /\ Len(Left3) # 1
  /\ Tail(Left3) = Left4
  /\ Left4 # <<>> /\ Head(Left4) = "auto_stop_sampling" /\ Len(Left4) # 1
  /\ Tail(Left4) = Left5
  /\ Left5 # <<>> /\ Head(Left5) = "report_times_per_app" /\ Len(Left5) = 1
  /\ Trace # <<>> /\ Head(Trace) = "log_type" /\ Len(Trace) = 1
  BY DEF Left0, Left1, Left2, Left3, Left4, Left5, Trace

(* They differ. *)
LEMMA LeftsDiffer ==
  /\ \A l \in {Left1, Left2, Left3, Left4, Left5} : l \notin {Left0, Trace}
  /\ Left1 \notin {Left2, Left3, Left4, Left5} /\ Left2 \notin {Left3, Left4, Left5}
  /\ Left3 \notin {Left4, Left5} /\ Left4 # Left5 /\ Left0 # Trace
<1>1. \A l \in {Left1, Left2, Left3, Left4, Left5} :
        Head(l) # Head(Left0) /\ Head(l) # Head(Trace)
  BY LeftIs
<1>2. /\ Head(Left1) \notin {Head(Left2), Head(Left3), Head(Left4), Head(Left5)}
      /\ Head(Left2) \notin {Head(Left3), Head(Left4), Head(Left5)}
      /\ Head(Left3) \notin {Head(Left4), Head(Left5)} /\ Head(Left4) # Head(Left5)
  BY LeftIs
<1>3. Left0 # Trace
  BY LeftIs
<1> QED BY <1>1, <1>2, <1>3

(* The report times an update may set. *)
LEMMA ReportTimesIs ==
  ASSUME setup \in Setups, params \in Params, update \in Update, NEW r \in ReportTimes
  PROVE  r.times \in Nat /\ r.checker \in Int
<1>1. update.to.report_times_per_app \in Nat
  BY DEF Update, To
<1>2. params.checker_interval \in Int
  BY DEF Params
<1>3. \A v \in GetReportTimesMap : v \in Nat
  <2>1. setup.entries \in Seq(Nat \cup {Junk})
    BY JankAssumption
  <2> QED BY <2>1 DEF GetReportTimesMap
<1>4. \A v \in Nat : v \div MINUTE \in Nat
  BY Numbers
<1>5. ASSUME NEW v \in GetReportTimesMap, r = [times |-> v \div MINUTE, checker |-> MINUTE]
      PROVE  r.times \in Nat /\ r.checker \in Int
  BY <1>3, <1>4, <1>5, Numbers
<1> QED BY <1>1, <1>2, <1>5, Numbers DEF ReportTimes, UpdateReportTimes

(* WriteParam, seen as what it does to the parameters the proofs are about. *)
LEMMA WriteIs ==
  ASSUME Shape, update \in {NoUpdate} \cup Update, WriteParam
  PROVE  /\ update \in Update /\ params' \in Params
         /\ \/ /\ update'.left # <<>> /\ update' \in Update /\ update'.to = update.to
               /\ update.left \notin {Left5, Trace}
               /\ UNCHANGED <<reportTimes, chain, again, params.report_times_per_app,
                              params.checker_interval>>
            \/ /\ update' = NoUpdate /\ update.left = Trace
               /\ UNCHANGED <<reportTimes, chain, again, params.report_times_per_app,
                              params.checker_interval, params.sample_interval,
                              params.sample_count>>
            \/ /\ update' = NoUpdate /\ update.left = Left5
               /\ UNCHANGED <<params.sample_interval, params.sample_count>>
               /\ \/ UNCHANGED <<reportTimes, chain, again, params.report_times_per_app,
                                 params.checker_interval>>
                  \/ /\ reportTimes' = params'.report_times_per_app
                     /\ reportTimes' \in Nat /\ chain' = 0 /\ again' = 0
         /\ update.left = Left0 =>
              /\ update'.left = Left1
              /\ UNCHANGED <<params.sample_interval, params.sample_count>>
         /\ update.left = Left1 =>
              /\ update'.left = Left2
              /\ params'.sample_interval = update.to.sample_interval
         /\ update.left = Left2 =>
              /\ update'.left = Left3
              /\ UNCHANGED <<params.sample_interval, params.sample_count>>
         /\ update.left = Left3 =>
              /\ update'.left = Left4 /\ UNCHANGED params.sample_interval
              /\ params'.sample_count = update.to.sample_count
         /\ update.left = Left4 =>
              /\ update'.left = Left5
              /\ UNCHANGED <<params.sample_interval, params.sample_count>>
<1>1. update \in Update /\ update # NoUpdate
  BY DEF WriteParam
<1> DEFINE key == Head(update.left)
<1>2. /\ \/ key = "report_times_per_app" /\ SetReportTimes
         \/ /\ key # "report_times_per_app"
            /\ params' = [params EXCEPT ![key] = update.to[key]]
            /\ UNCHANGED <<reportTimes, chain, again>>
      /\ update' = IF Len(update.left) = 1 THEN NoUpdate
                   ELSE [update EXCEPT !.left = Tail(@)]
  BY DEF WriteParam
<1>3. params \in Params /\ update.to \in To
  BY <1>1 DEF Shape, Update
<1>4. ASSUME NEW l \in {Left0, Left1, Left2, Left3, Left4}, NEW m, update.left = l,
             Tail(l) = m, Len(l) # 1, m \in {Left1, Left2, Left3, Left4, Left5}
      PROVE  update' \in Update /\ update'.left = m /\ update'.to = update.to
             /\ update'.left # <<>>
  <2>1. update' = [update EXCEPT !.left = m]
    BY <1>2, <1>4
  <2>2. m # <<>>
    BY <1>4, LeftIs
  <2> QED BY <1>1, <1>4, <2>1, <2>2 DEF Update
<1>5. CASE update.left = Left0
  <2>1. key = "log_type"
    BY <1>5, LeftIs
  <2>2. params' = [params EXCEPT !.log_type = update.to.log_type]
        /\ UNCHANGED <<reportTimes, chain, again>>
    BY <1>2, <2>1
  <2>3. params' \in Params
        /\ UNCHANGED <<params.report_times_per_app, params.checker_interval,
                       params.sample_interval, params.sample_count>>
    BY <1>3, <2>2 DEF Params, To
  <2>4. update' \in Update /\ update'.left = Left1 /\ update'.to = update.to
        /\ update'.left # <<>>
    BY <1>4, <1>5, LeftIs
  <2> QED BY <1>1, <1>5, <2>2, <2>3, <2>4, LeftsDiffer
<1>6. CASE update.left = Trace
  <2>1. key = "log_type" /\ update' = NoUpdate
    BY <1>2, <1>6, LeftIs
  <2>2. params' = [params EXCEPT !.log_type = update.to.log_type]
        /\ UNCHANGED <<reportTimes, chain, again>>
    BY <1>2, <2>1
  <2>3. params' \in Params
        /\ UNCHANGED <<params.report_times_per_app, params.checker_interval,
                       params.sample_interval, params.sample_count>>
    BY <1>3, <2>2 DEF Params, To
  <2> QED BY <1>1, <1>6, <2>1, <2>2, <2>3, LeftsDiffer
<1>7. CASE update.left = Left1
  <2>1. key = "sample_interval"
    BY <1>7, LeftIs
  <2>2. params' = [params EXCEPT !.sample_interval = update.to.sample_interval]
        /\ UNCHANGED <<reportTimes, chain, again>>
    BY <1>2, <2>1
  <2>3. params' \in Params /\ params'.sample_interval = update.to.sample_interval
        /\ UNCHANGED <<params.report_times_per_app, params.checker_interval>>
    BY <1>3, <2>2 DEF Params, To
  <2>4. update' \in Update /\ update'.left = Left2 /\ update'.to = update.to
        /\ update'.left # <<>>
    BY <1>4, <1>7, LeftIs
  <2> QED BY <1>1, <1>7, <2>2, <2>3, <2>4, LeftsDiffer
<1>8. CASE update.left = Left2
  <2>1. key = "ignore_startup_time"
    BY <1>8, LeftIs
  <2>2. params' = [params EXCEPT !.ignore_startup_time = update.to.ignore_startup_time]
        /\ UNCHANGED <<reportTimes, chain, again>>
    BY <1>2, <2>1
  <2>3. params' \in Params
        /\ UNCHANGED <<params.report_times_per_app, params.checker_interval,
                       params.sample_interval, params.sample_count>>
    BY <1>3, <2>2 DEF Params, To
  <2>4. update' \in Update /\ update'.left = Left3 /\ update'.to = update.to
        /\ update'.left # <<>>
    BY <1>4, <1>8, LeftIs
  <2> QED BY <1>1, <1>8, <2>2, <2>3, <2>4, LeftsDiffer
<1>9. CASE update.left = Left3
  <2>1. key = "sample_count"
    BY <1>9, LeftIs
  <2>2. params' = [params EXCEPT !.sample_count = update.to.sample_count]
        /\ UNCHANGED <<reportTimes, chain, again>>
    BY <1>2, <2>1
  <2>3. params' \in Params /\ params'.sample_count = update.to.sample_count
        /\ UNCHANGED <<params.report_times_per_app, params.checker_interval,
                       params.sample_interval>>
    BY <1>3, <2>2 DEF Params, To
  <2>4. update' \in Update /\ update'.left = Left4 /\ update'.to = update.to
        /\ update'.left # <<>>
    BY <1>4, <1>9, LeftIs
  <2> QED BY <1>1, <1>9, <2>2, <2>3, <2>4, LeftsDiffer
<1>10. CASE update.left = Left4
  <2>1. key = "auto_stop_sampling"
    BY <1>10, LeftIs
  <2>2. params' = [params EXCEPT !.auto_stop_sampling = update.to.auto_stop_sampling]
        /\ UNCHANGED <<reportTimes, chain, again>>
    BY <1>2, <2>1
  <2>3. params' \in Params
        /\ UNCHANGED <<params.report_times_per_app, params.checker_interval,
                       params.sample_interval, params.sample_count>>
    BY <1>3, <2>2 DEF Params, To
  <2>4. update' \in Update /\ update'.left = Left5 /\ update'.to = update.to
        /\ update'.left # <<>>
    BY <1>4, <1>10, LeftIs
  <2> QED BY <1>1, <1>10, <2>2, <2>3, <2>4, LeftsDiffer
<1>11. CASE update.left = Left5
  <2>1. SetReportTimes /\ update' = NoUpdate
    BY <1>2, <1>11, LeftIs
  <2>2. CASE UNCHANGED <<params, reportTimes, chain, again>>
    BY <1>1, <1>3, <1>11, <2>1, <2>2, LeftsDiffer
  <2>3. ASSUME NEW r \in ReportTimes,
               params' = [params EXCEPT !.checker_interval = r.checker,
                                        !.report_times_per_app = r.times,
                                        !.set_report_times_flag = FALSE],
               reportTimes' = r.times, chain' = 0, again' = 0
        PROVE  /\ params' \in Params
               /\ UNCHANGED <<params.sample_interval, params.sample_count>>
               /\ reportTimes' = params'.report_times_per_app
               /\ reportTimes' \in Nat /\ chain' = 0 /\ again' = 0
    <3>1. r.times \in Nat /\ r.checker \in Int
      BY <1>1, <1>3, <2>3, ReportTimesIs DEF Shape
    <3> DEFINE a == [params EXCEPT !.checker_interval = r.checker]
               b == [a EXCEPT !.report_times_per_app = r.times]
               c == [b EXCEPT !.set_report_times_flag = FALSE]
    <3>2. params' = c
      BY <2>3
    <3>3. a \in Params /\ a.sample_interval = params.sample_interval
          /\ a.sample_count = params.sample_count
      BY <1>3, <3>1 DEF Params
    <3> HIDE DEF a
    <3>4. b \in Params /\ b.sample_interval = a.sample_interval
          /\ b.sample_count = a.sample_count /\ b.report_times_per_app = r.times
      BY <3>1, <3>3 DEF Params
    <3> HIDE DEF b
    <3>5. c \in Params /\ c.sample_interval = b.sample_interval
          /\ c.sample_count = b.sample_count
          /\ c.report_times_per_app = b.report_times_per_app
      BY <3>4 DEF Params
    <3> HIDE DEF c
    <3> QED BY <2>3, <3>1, <3>2, <3>3, <3>4, <3>5
  <2>4. CASE ~UNCHANGED <<params, reportTimes, chain, again>>
    <3>1. /\ params' \in Params
          /\ UNCHANGED <<params.sample_interval, params.sample_count>>
          /\ reportTimes' = params'.report_times_per_app
          /\ reportTimes' \in Nat /\ chain' = 0 /\ again' = 0
      BY <2>1, <2>3, <2>4 DEF SetReportTimes
    <3> QED BY <1>1, <1>11, <2>1, <3>1, LeftsDiffer
  <2> QED BY <2>2, <2>4
<1> QED BY <1>1, <1>5, <1>6, <1>7, <1>8, <1>9, <1>10, <1>11 DEF Update

-----------------------------------------------------------------------------
(* The shape of the state. *)

(* A clock that stops at its bound. *)
LEMMA OlderIs ==
  /\ MaxAge \in Nat /\ MaxPeriod \in Int
  /\ \A a, b \in Int : Older(a, b) \in Int /\ Older(a, b) >= a
  /\ \A a, b, c \in Int : a <= b => Older(a, c) <= Older(b, c)
  BY Numbers DEF MaxAge, MaxPeriod, Older

(* A thread at a point of its call has a call. *)
LEMMA CallIs ==
  ASSUME Shape, NEW t \in Threads, NEW p \in {"detect", "claim", "insert"}, At(t, p)
  PROVE  call[t] \in Call /\ call[t] # Idle /\ call[t].pc = p
  BY DEF Shape, At, Idle

(* A call that moves on keeps what it has read. *)
LEMMA CallMoves ==
  ASSUME Shape, NEW t \in Threads, NEW p \in {"detect", "claim", "insert"},
         call[t] \in Call, call' = [call EXCEPT ![t].pc = p]
  PROVE  /\ call' \in [Threads -> {Idle} \cup Call]
         /\ call'[t] \in Call /\ call'[t].pc = p /\ call'[t] # Idle
         /\ call'[t].interval = call[t].interval /\ call'[t].spent = call[t].spent
         /\ call'[t].whole <=> call[t].whole
         /\ \A u \in Threads : u # t => call'[u] = call[u]
<1> DEFINE c == [call[t] EXCEPT !.pc = p]
<1>1. c \in Call /\ c.pc = p /\ c.interval = call[t].interval /\ c.spent = call[t].spent
      /\ (c.whole <=> call[t].whole)
  BY DEF Call
<1>2. call' = [call EXCEPT ![t] = c]
  OBVIOUS
<1> HIDE DEF c
<1>3. c # Idle
  BY <1>1 DEF Idle
<1> QED BY <1>1, <1>2, <1>3 DEF Shape

(* A call that ends. *)
LEMMA CallEnds ==
  ASSUME Shape, NEW t \in Threads, call' = [call EXCEPT ![t] = Idle]
  PROVE  /\ call' \in [Threads -> {Idle} \cup Call] /\ call'[t] = Idle
         /\ \A u \in Threads : u # t => call'[u] = call[u]
  BY DEF Shape

(* A call that sees a parameter change. *)
LEMMA CallSees ==
  ASSUME Shape,
         call' = [t \in Threads |-> IF call[t] = Idle THEN Idle
                                    ELSE [call[t] EXCEPT !.whole = FALSE]]
  PROVE  /\ call' \in [Threads -> {Idle} \cup Call]
         /\ \A t \in Threads :
              /\ call[t] = Idle => call'[t] = Idle
              /\ call[t] # Idle =>
                   /\ call'[t] # Idle /\ ~call'[t].whole /\ call'[t].pc = call[t].pc
                   /\ call'[t].interval = call[t].interval
                   /\ call'[t].spent = call[t].spent
<1>1. ASSUME NEW t \in Threads, call[t] # Idle
      PROVE  /\ call'[t] \in Call
             /\ call'[t] # Idle /\ ~call'[t].whole /\ call'[t].pc = call[t].pc
             /\ call'[t].interval = call[t].interval
             /\ call'[t].spent = call[t].spent
  <2> DEFINE c == [call[t] EXCEPT !.whole = FALSE]
  <2>1. call[t] \in Call
    BY <1>1 DEF Shape
  <2>2. c \in Call /\ ~c.whole /\ c.pc = call[t].pc /\ c.interval = call[t].interval
        /\ c.spent = call[t].spent
    BY <2>1 DEF Call
  <2>3. call'[t] = c
    BY <1>1
  <2> HIDE DEF c
  <2>4. c # Idle
    BY <2>2 DEF Call, Idle
  <2> QED BY <2>2, <2>3, <2>4
<1>2. \A t \in Threads : call[t] = Idle => call'[t] = Idle
  OBVIOUS
<1>3. call' \in [Threads -> {Idle} \cup Call]
  <2>1. DOMAIN call' = Threads /\ call' = [t \in Threads |-> call'[t]]
    OBVIOUS
  <2> QED BY <1>1, <1>2, <2>1
<1> QED BY <1>1, <1>2, <1>3

(* An event begins. *)
LEMMA StampBegins ==
  ASSUME cur \in Stamp, cur' = [cur EXCEPT !.age = 0, !.running = TRUE, !.changed = TRUE]
  PROVE  cur' \in Stamp /\ cur'.age = 0 /\ cur'.running
<1> DEFINE a == [cur EXCEPT !.age = 0]
           b == [a EXCEPT !.running = TRUE]
           c == [b EXCEPT !.changed = TRUE]
<1>1. cur' = c
  OBVIOUS
<1>2. a \in Stamp /\ a.age = 0
  BY DEF Stamp
<1> HIDE DEF a
<1>3. b \in Stamp /\ b.age = 0 /\ b.running
  BY <1>2 DEF Stamp
<1> HIDE DEF b
<1>4. c \in Stamp /\ c.age = 0 /\ c.running
  BY <1>3 DEF Stamp
<1> QED BY <1>1, <1>4

(* An event ends. *)
LEMMA StampEnds ==
  ASSUME cur \in Stamp,
         cur' = [cur EXCEPT !.len = cur.age, !.running = FALSE, !.changed = TRUE]
  PROVE  cur' \in Stamp /\ cur'.age = cur.age /\ cur'.len = cur.age /\ ~cur'.running
<1> DEFINE a == [cur EXCEPT !.len = cur.age]
           b == [a EXCEPT !.running = FALSE]
           c == [b EXCEPT !.changed = TRUE]
<1>1. cur' = c
  OBVIOUS
<1>2. a \in Stamp /\ a.age = cur.age /\ a.len = cur.age
  BY DEF Stamp
<1> HIDE DEF a
<1>3. b \in Stamp /\ b.age = cur.age /\ b.len = cur.age /\ ~b.running
  BY <1>2 DEF Stamp
<1> HIDE DEF b
<1>4. c \in Stamp /\ c.age = cur.age /\ c.len = cur.age /\ ~c.running
  BY <1>3 DEF Stamp
<1> QED BY <1>1, <1>4

(* A claim marks the last event as seen. *)
LEMMA StampSeen ==
  ASSUME cur \in Stamp, cur' = [cur EXCEPT !.changed = FALSE]
  PROVE  cur' \in Stamp /\ cur'.age = cur.age /\ ~cur'.changed
  BY DEF Stamp

(* Time passes. *)
LEMMA StampAges ==
  ASSUME cur \in Stamp, cur' = [cur EXCEPT !.age = Older(@, MaxAge)]
  PROVE  /\ cur' \in Stamp /\ cur'.age = Older(cur.age, MaxAge) /\ cur'.len = cur.len
         /\ cur'.running <=> cur.running
         /\ cur'.changed <=> cur.changed
<1> DEFINE a == Older(cur.age, MaxAge)
<1>1. a \in Int
  BY OlderIs DEF Stamp
<1>2. cur' = [cur EXCEPT !.age = a]
  OBVIOUS
<1> HIDE DEF a
<1>3. cur' \in Stamp /\ cur'.age = a /\ cur'.len = cur.len
      /\ (cur'.running <=> cur.running) /\ (cur'.changed <=> cur.changed)
  BY <1>1, <1>2 DEF Stamp
<1> QED BY <1>3 DEF a


(* A run of the session, finished or not. *)
Runs == RunSession \/ RunFinishedSession

(* It keeps the counters natural numbers. *)
LEMMA RunIs ==
  ASSUME Shape, Runs
  PROVE  /\ detectorCount' \in Nat /\ collectCount' \in Nat /\ ticks' \in Nat
         /\ reportTimes' \in Int /\ chain' \in Nat /\ again' \in Nat
         /\ UNCHANGED <<setup, params, update, eventVars, call, enabled, sinceLast,
                        session, overlap>>
<1>1. ticks' \in Nat
  BY OlderIs, Numbers DEF Runs, RunSession, RunFinishedSession, Shape, Older
<1>u. UNCHANGED <<setup, params, update, eventVars, call, enabled, sinceLast, session,
                  overlap>>
  BY DEF Runs, RunSession, RunFinishedSession, paramVars
<1>a. again' \in Nat
  BY DEF Runs, RunSession, RunFinishedSession, Shape
<1>o. chain \in Nat => Older(chain, MaxChain) \in Nat
  BY DEF Older
<1>2. session.count \in Int
  BY DEF Shape, Session
<1>3. CASE GiveUp
  BY <1>1, <1>a, <1>3, <1>u DEF GiveUp, Shape
<1>4. CASE Detect
  <2>1. Older(detectorCount, DETECT_STACK_COUNT + 1) \in Nat
    BY Numbers DEF Older, Shape
  <2> QED BY <1>1, <1>a, <1>4, <1>u, <2>1 DEF Detect, Shape
<1>5. CASE Collect
  BY <1>1, <1>a, <1>2, <1>5, <1>u DEF Collect, Shape
<1>6. CASE Report
  BY <1>1, <1>a, <1>o, <1>6, <1>u DEF Report, Shape
<1> QED BY <1>3, <1>4, <1>5, <1>6 DEF Runs, RunSession, RunFinishedSession

(* The state keeps its shape. *)
LEMMA ShapeNext ==
  Shape /\ update \in {NoUpdate} \cup Update /\ [Next]_vars => Shape'
<1> SUFFICES ASSUME Shape, update \in {NoUpdate} \cup Update, [Next]_vars PROVE Shape'
  OBVIOUS
<1>1. CASE Configure
  BY <1>1 DEF Configure, Shape, eventVars, budgetVars, sessionVars
<1>2. CASE WriteParam
  <2>1. /\ call' \in [Threads -> {Idle} \cup Call] /\ params' \in Params
        /\ reportTimes' \in Int /\ chain' \in Nat /\ again' \in Nat
    <3>1. reportTimes \in Int /\ chain \in Nat /\ again \in Nat
      BY DEF Shape
    <3>2. call' \in [Threads -> {Idle} \cup Call]
      BY <1>2, CallSees DEF WriteParam
    <3>3. /\ params' \in Params
          /\ \/ UNCHANGED <<reportTimes, chain, again>>
             \/ reportTimes' \in Nat /\ chain' = 0 /\ again' = 0
      BY <1>2, WriteIs
    <3> QED BY <3>1, <3>2, <3>3
  <2> QED BY <1>2, <2>1 DEF WriteParam, Shape, eventVars, sessionVars
<1>3. ASSUME NEW t, OH_HiCollie_Init_JankDetection(t) PROVE Shape'
  BY <1>3 DEF OH_HiCollie_Init_JankDetection, InitMainLooperWatcher, Shape, paramVars,
     eventVars, budgetVars, sessionVars
<1>4. ASSUME NEW t \in Threads, DistributeStart(t) PROVE Shape'
  <2>1. cur' \in Stamp /\ event' \in [Threads -> Int] /\ beginAge' \in Int
    BY <1>4, StampBegins DEF DistributeStart, BeginTime, Shape
  <2> QED BY <1>4, <2>1 DEF DistributeStart, Shape, paramVars, budgetVars, sessionVars
<1>5. ASSUME NEW t \in Threads, DistributeEnd(t) PROVE Shape'
  <2>1. event' \in [Threads -> Int] /\ event[t] \in Int /\ Duration(t) \in Int
    BY <1>5 DEF DistributeEnd, Shape, NoEvent, Duration
  <2>2. cur' \in Stamp /\ worst' \in Int
    BY <1>5, <2>1, StampEnds DEF DistributeEnd, Shape
  <2>3. call' \in [Threads -> {Idle} \cup Call]
    <3> DEFINE c == [pc |-> "detect", interval |-> params.sample_interval,
                     duration |-> Duration(t), spent |-> event[t],
                     whole |-> update = NoUpdate]
    <3>1. (update = NoUpdate) \in BOOLEAN /\ params.sample_interval \in Int
      BY DEF Shape, Params
    <3>2. c \in Call
      BY <2>1, <3>1 DEF Call
    <3>3. call' = call \/ call' = [call EXCEPT ![t] = c]
      BY <1>5 DEF DistributeEnd
    <3> HIDE DEF c
    <3> QED BY <3>2, <3>3 DEF Shape
  <2> QED BY <1>5, <2>1, <2>2, <2>3 DEF DistributeEnd, Shape, paramVars, budgetVars,
          sessionVars
<1>6. ASSUME NEW t \in Threads, SampleStackDetect(t) PROVE Shape'
  <2>1. call' \in [Threads -> {Idle} \cup Call]
    <3>1. call[t] \in Call
      BY <1>6, CallIs DEF SampleStackDetect
    <3> QED BY <1>6, <3>1, CallMoves, CallEnds DEF SampleStackDetect
  <2>2. reportTimes' \in Int
    BY <1>6 DEF SampleStackDetect, Shape, Params
  <2> QED BY <1>6, <2>1, <2>2 DEF SampleStackDetect, Shape, paramVars, eventVars,
          sessionVars
<1>7. ASSUME NEW t \in Threads, Claim(t) PROVE Shape'
  <2>1. call' \in [Threads -> {Idle} \cup Call]
    BY <1>7, CallIs, CallMoves DEF Claim
  <2>2. cur' \in Stamp
    BY <1>7, StampSeen DEF Claim, Shape
  <2> QED BY <1>7, <2>1, <2>2 DEF Claim, Shape, paramVars
<1>8. ASSUME NEW t \in Threads, InsertSession(t) PROVE Shape'
  <2>1. call' \in [Threads -> {Idle} \cup Call] /\ call[t] \in Call
    BY <1>8, CallIs, CallEnds DEF InsertSession
  <2>2. session' \in Session /\ ticks' \in Nat
    BY <1>8, <2>1 DEF InsertSession, Call, Session, Shape, Params
  <2> QED BY <1>8, <2>1, <2>2 DEF InsertSession, Shape, paramVars, eventVars, budgetVars
<1>9. CASE RunSession \/ RunFinishedSession
  BY <1>9, RunIs DEF Runs, Shape, eventVars
<1>10. CASE CheckCurrentTaskLocked
  BY <1>10 DEF CheckCurrentTaskLocked, Shape, NoSession, Session, paramVars, eventVars
<1>11. CASE Elapse
  <2>1. cur' \in Stamp
    BY <1>11, StampAges DEF Elapse, Shape
  <2>2. event' \in [Threads -> Int]
    BY <1>11, OlderIs DEF Elapse, Shape
  <2>3. beginAge' \in Int /\ sinceLast' \in Int
    BY <1>11, OlderIs DEF Elapse, Shape
  <2> QED BY <1>11, <2>1, <2>2, <2>3 DEF Elapse, Shape, paramVars, sessionVars
<1>12. CASE UNCHANGED vars
  BY <1>12 DEF vars, Shape, paramVars, eventVars, budgetVars, sessionVars
<1> QED BY <1>1, <1>2, <1>3, <1>4, <1>5, <1>6, <1>7, <1>8, <1>9, <1>10, <1>11, <1>12
        DEF Next


(* The parameters fit together whenever a session may read both. *)
LEMMA ConfigNext == Shape /\ ConfigInv /\ [Next]_vars => ConfigInv'
<1> SUFFICES ASSUME Shape, ConfigInv, [Next]_vars PROVE ConfigInv'
  OBVIOUS
<1>c. /\ update \in {NoUpdate} \cup Update
      /\ update.left \in {<<>>, Left0, Left1, Trace} => ParamsFit
      /\ update.left \in {Left2, Left3} =>
           params.sample_interval = update.to.sample_interval
      /\ update.left \in {Left4, Left5} =>
           /\ params.sample_interval = update.to.sample_interval
           /\ params.sample_count = update.to.sample_count
      /\ \A t \in Threads : call[t] # Idle /\ call[t].whole =>
           ParamsFit /\ call[t].interval = params.sample_interval
      /\ session # NoSession /\ session.whole => Fits(session.interval, session.count)
  BY DEF ConfigInv
<1>l. NoUpdate.left = <<>>
  BY DEF NoUpdate
<1>k. ASSUME UNCHANGED <<params, update>>,
             \A t \in Threads : call'[t] # Idle /\ call'[t].whole =>
               ParamsFit /\ call'[t].interval = params.sample_interval,
             session' # NoSession /\ session'.whole =>
               Fits(session'.interval, session'.count)
      PROVE  ConfigInv'
  BY <1>c, <1>k DEF ConfigInv, ParamsFit
<1>1. CASE Configure
  <2>1. update' \in Update /\ update'.left \in {Left0, Trace} /\ update = NoUpdate
    BY <1>1, ConfigureIs DEF Shape
  <2>2. UNCHANGED <<params, call, session>>
    BY <1>1 DEF Configure, sessionVars
  <2>3. ParamsFit /\ ParamsFit'
    BY <1>c, <1>l, <2>1, <2>2 DEF ParamsFit
  <2>4. update'.left \notin {Left2, Left3, Left4, Left5}
    BY <2>1, LeftsDiffer
  <2> QED BY <1>c, <2>1, <2>2, <2>3, <2>4 DEF ConfigInv
<1>2. CASE WriteParam
  <2>1. session' = session
    BY <1>2 DEF WriteParam, sessionVars
  <2>2. \A t \in Threads : call'[t] # Idle => ~call'[t].whole
    BY <1>2, CallSees DEF WriteParam
  <2>3. /\ update' \in {NoUpdate} \cup Update
        /\ update'.left \in {<<>>, Left0, Left1, Trace} => ParamsFit'
        /\ update'.left \in {Left2, Left3} =>
             params'.sample_interval = update'.to.sample_interval
        /\ update'.left \in {Left4, Left5} =>
             /\ params'.sample_interval = update'.to.sample_interval
             /\ params'.sample_count = update'.to.sample_count
    <3>0. update \in Update /\ Fits(update.to.sample_interval, update.to.sample_count)
      BY <1>2, <1>c, WriteIs DEF Update
    <3>1. CASE update.left = Left0
      BY <1>2, <1>c, <3>1, WriteIs, LeftIs, LeftsDiffer DEF ParamsFit
    <3>2. CASE update.left = Left1
      BY <1>2, <1>c, <3>2, WriteIs, LeftIs, LeftsDiffer
    <3>3. CASE update.left = Left2
      BY <1>2, <1>c, <3>3, WriteIs, LeftIs, LeftsDiffer
    <3>4. CASE update.left = Left3
      BY <1>2, <1>c, <3>4, WriteIs, LeftIs, LeftsDiffer
    <3>5. CASE update.left = Left4
      BY <1>2, <1>c, <3>5, WriteIs, LeftIs, LeftsDiffer
    <3>6. CASE update.left \in {Left5, Trace}
      <4>1. update' = NoUpdate
            /\ UNCHANGED <<params.sample_interval, params.sample_count>>
        BY <1>2, <1>c, <1>l, <3>6, WriteIs, LeftsDiffer
      <4>2. ParamsFit'
        BY <1>c, <3>0, <3>6, <4>1 DEF ParamsFit
      <4> QED BY <1>l, <4>1, <4>2, LeftIs
    <3> QED BY <3>0, <3>1, <3>2, <3>3, <3>4, <3>5, <3>6 DEF Update
  <2> QED BY <1>c, <2>1, <2>2, <2>3 DEF ConfigInv
<1>3. ASSUME NEW t, OH_HiCollie_Init_JankDetection(t) PROVE ConfigInv'
  <2>1. UNCHANGED <<params, update, call, session>>
    BY <1>3 DEF OH_HiCollie_Init_JankDetection, InitMainLooperWatcher, paramVars,
       sessionVars
  <2> QED BY <1>c, <1>k, <2>1
<1>4. ASSUME NEW t \in Threads, DistributeStart(t) PROVE ConfigInv'
  <2>1. UNCHANGED <<params, update, call, session>>
    BY <1>4 DEF DistributeStart, paramVars, sessionVars
  <2> QED BY <1>c, <1>k, <2>1
<1>5. ASSUME NEW t \in Threads, DistributeEnd(t) PROVE ConfigInv'
  <2>1. UNCHANGED <<params, update, session>>
    BY <1>5 DEF DistributeEnd, paramVars, sessionVars
  <2>2. CASE UNCHANGED call
    BY <1>c, <1>k, <2>1, <2>2
  <2>3. CASE call' = [call EXCEPT ![t] =
               [pc |-> "detect", interval |-> params.sample_interval,
                duration |-> Duration(t), spent |-> event[t],
                whole |-> update = NoUpdate]]
    <3> DEFINE c == [pc |-> "detect", interval |-> params.sample_interval,
                     duration |-> Duration(t), spent |-> event[t],
                     whole |-> update = NoUpdate]
    <3>1. c.interval = params.sample_interval /\ (c.whole <=> update = NoUpdate)
      OBVIOUS
    <3>2. call'[t] = c /\ \A u \in Threads : u # t => call'[u] = call[u]
      BY <2>3 DEF Shape
    <3> HIDE DEF c
    <3>3. c.whole => ParamsFit
      BY <1>c, <1>l, <3>1
    <3> QED BY <1>c, <1>k, <2>1, <3>1, <3>2, <3>3
  <2> QED BY <1>5, <2>2, <2>3 DEF DistributeEnd
<1>6. ASSUME NEW t \in Threads, SampleStackDetect(t) \/ Claim(t) PROVE ConfigInv'
  <2>1. UNCHANGED <<params, update, session>>
    BY <1>6 DEF SampleStackDetect, Claim, paramVars, sessionVars
  <2>2. call[t] \in Call /\ call[t] # Idle
    BY <1>6, CallIs DEF SampleStackDetect, Claim
  <2>3. \/ call' = [call EXCEPT ![t] = Idle]
        \/ \E p \in {"claim", "insert"} : call' = [call EXCEPT ![t].pc = p]
    BY <1>6 DEF SampleStackDetect, Claim
  <2>4. CASE call' = [call EXCEPT ![t] = Idle]
    BY <1>c, <1>k, <2>1, <2>4, CallEnds
  <2>5. ASSUME NEW p \in {"claim", "insert"}, call' = [call EXCEPT ![t].pc = p]
        PROVE  ConfigInv'
    <3>1. /\ call'[t].interval = call[t].interval
          /\ call'[t].whole <=> call[t].whole
          /\ \A u \in Threads : u # t => call'[u] = call[u]
      BY <2>2, <2>5, CallMoves
    <3> QED BY <1>c, <1>k, <2>1, <2>2, <3>1
  <2> QED BY <2>3, <2>4, <2>5
<1>7. ASSUME NEW t \in Threads, InsertSession(t) PROVE ConfigInv'
  <2>1. UNCHANGED <<params, update>> /\ call[t] \in Call /\ call[t] # Idle
    BY <1>7, CallIs DEF InsertSession, paramVars
  <2>2. \A u \in Threads : call'[u] # Idle => call'[u] = call[u]
    BY <1>7, CallEnds DEF InsertSession
  <2>3. CASE session' = session
    BY <1>c, <1>k, <2>1, <2>2, <2>3
  <2>4. CASE session' = [interval |-> call[t].interval, count |-> params.sample_count,
                         whole |-> call[t].whole]
    <3>1. session'.interval = call[t].interval /\ session'.count = params.sample_count
          /\ (session'.whole => call[t].whole)
      BY <2>4
    <3>2. session'.whole => Fits(session'.interval, session'.count)
      BY <1>c, <2>1, <3>1 DEF ParamsFit
    <3> QED BY <1>c, <1>k, <2>1, <2>2, <3>2
  <2> QED BY <1>7, <2>3, <2>4 DEF InsertSession
<1>8. CASE RunSession \/ RunFinishedSession
  BY <1>8, <1>c, <1>k, RunIs DEF Runs
<1>9. CASE CheckCurrentTaskLocked
  <2>1. UNCHANGED <<params, update, call>> /\ session' = NoSession
    BY <1>9 DEF CheckCurrentTaskLocked, paramVars
  <2> QED BY <1>c, <1>k, <2>1
<1>10. CASE Elapse
  <2>1. UNCHANGED <<params, update, call, session>>
    BY <1>10 DEF Elapse, paramVars, sessionVars
  <2> QED BY <1>c, <1>k, <2>1
<1>11. CASE UNCHANGED vars
  <2>1. UNCHANGED <<params, update, call, session>>
    BY <1>11 DEF vars, paramVars, sessionVars
  <2> QED BY <1>c, <1>k, <2>1
<1> QED BY <1>1, <1>2, <1>3, <1>4, <1>5, <1>6, <1>7, <1>8, <1>9, <1>10, <1>11 DEF Next

-----------------------------------------------------------------------------
(* Sessions. *)

(* Which steps bring a thread to its claim or to its insertion. *)
LEMMA AtMoves ==
  ASSUME Shape, [Next]_vars, NEW u \in Threads, NEW p \in {"claim", "insert"}, At(u, p)'
  PROVE  \/ At(u, p) /\ ~SampleStackDetect(u) /\ ~Claim(u) /\ ~InsertSession(u)
         \/ p = "claim" /\ SampleStackDetect(u)
         \/ p = "insert" /\ Claim(u)
<1>0. Idle.pc \notin {"detect", "claim", "insert"}
  BY DEF Idle
<1>1. ASSUME UNCHANGED call PROVE At(u, p)
  BY <1>1 DEF At
<1>d. /\ SampleStackDetect(u) => At(u, "detect") /\ (At(u, "claim")' \/ call'[u] = Idle)
      /\ Claim(u) => At(u, "claim") /\ At(u, "insert")'
      /\ InsertSession(u) => call'[u] = Idle
  <2>1. ASSUME SampleStackDetect(u)
        PROVE  At(u, "detect") /\ (At(u, "claim")' \/ call'[u] = Idle)
    <3>1. At(u, "detect") /\ call[u] \in Call
      BY <2>1, CallIs DEF SampleStackDetect
    <3> QED BY <2>1, <3>1, CallMoves, CallEnds DEF SampleStackDetect, At
  <2>2. ASSUME Claim(u) PROVE At(u, "claim") /\ At(u, "insert")'
    <3>1. At(u, "claim") /\ call[u] \in Call
      BY <2>2, CallIs DEF Claim
    <3> QED BY <2>2, <3>1, CallMoves DEF Claim, At
  <2>3. ASSUME InsertSession(u) PROVE call'[u] = Idle
    BY <2>3, CallEnds DEF InsertSession
  <2> QED BY <2>1, <2>2, <2>3
<1>2. CASE SampleStackDetect(u) \/ Claim(u) \/ InsertSession(u)
  BY <1>0, <1>2, <1>d DEF At
<1>3. SUFFICES ASSUME ~SampleStackDetect(u), ~Claim(u), ~InsertSession(u) PROVE At(u, p)
  BY <1>2
<1>4. CASE Configure \/ Runs \/ CheckCurrentTaskLocked \/ Elapse \/ UNCHANGED vars
  BY <1>1, <1>4 DEF Configure, Runs, RunSession, RunFinishedSession, CheckCurrentTaskLocked,
        Elapse, vars
<1>5. CASE WriteParam
  BY <1>0, <1>5, CallSees DEF WriteParam, At
<1>6. ASSUME NEW t, OH_HiCollie_Init_JankDetection(t) PROVE At(u, p)
  BY <1>1, <1>6 DEF OH_HiCollie_Init_JankDetection, InitMainLooperWatcher
<1>7. ASSUME NEW t \in Threads, DistributeStart(t) PROVE At(u, p)
  BY <1>1, <1>7 DEF DistributeStart
<1>8. ASSUME NEW t \in Threads, DistributeEnd(t) PROVE At(u, p)
  <2>1. CASE UNCHANGED call
    BY <1>1, <2>1
  <2>2. CASE call' = [call EXCEPT ![t] =
               [pc |-> "detect", interval |-> params.sample_interval,
                duration |-> Duration(t), spent |-> event[t],
                whole |-> update = NoUpdate]]
    <3> DEFINE c == [pc |-> "detect", interval |-> params.sample_interval,
                     duration |-> Duration(t), spent |-> event[t],
                     whole |-> update = NoUpdate]
    <3>1. c.pc = "detect"
      OBVIOUS
    <3>2. call'[t] = c /\ \A v \in Threads : v # t => call'[v] = call[v]
      BY <2>2 DEF Shape
    <3> HIDE DEF c
    <3> QED BY <3>1, <3>2 DEF At
  <2> QED BY <1>8, <2>1, <2>2 DEF DistributeEnd
<1>9. ASSUME NEW t \in Threads,
             SampleStackDetect(t) \/ Claim(t) \/ InsertSession(t)
      PROVE  At(u, p)
  <2>1. t # u
    BY <1>3, <1>9
  <2>2. call[t] \in Call
    BY <1>9, CallIs DEF SampleStackDetect, Claim, InsertSession
  <2>3. \/ call' = [call EXCEPT ![t] = Idle]
        \/ \E q \in {"claim", "insert"} : call' = [call EXCEPT ![t].pc = q]
    BY <1>9 DEF SampleStackDetect, Claim, InsertSession
  <2>4. call'[u] = call[u]
    BY <2>1, <2>2, <2>3, CallMoves, CallEnds
  <2> QED BY <2>4 DEF At
<1> QED BY <1>4, <1>5, <1>6, <1>7, <1>8, <1>9 DEF Next, Runs

(* An overlap is remembered. *)
LEMMA OverlapStays == [Next]_vars /\ ~overlap' => ~overlap
<1> SUFFICES ASSUME [Next]_vars, ~overlap' PROVE ~overlap
  OBVIOUS
<1>1. CASE \E t \in Threads : SampleStackDetect(t)
  BY <1>1 DEF SampleStackDetect
<1>2. CASE UNCHANGED overlap
  BY <1>2
<1> QED BY <1>1, <1>2 DEF Next, vars, Configure, WriteParam,
        OH_HiCollie_Init_JankDetection, InitMainLooperWatcher, DistributeStart,
        DistributeEnd, Claim, InsertSession, RunSession, RunFinishedSession,
        CheckCurrentTaskLocked, Elapse

(* One counter moves on when the ticks do. *)
LEMMA TicksCounted ==
  ASSUME NEW d \in Nat, NEW c \in Nat, NEW e \in Nat, NEW b \in Nat, NEW n \in Nat,
         n <= d + c + 1, e >= d, b >= c, e > d \/ b > c
  PROVE  n <= e + b
  OBVIOUS

(* The gate, the thread on its way and the session. *)
LEMMA SessionNext == Shape /\ ConfigInv /\ SessionInv /\ [Next]_vars => SessionInv'
<1> SUFFICES ASSUME Shape, ConfigInv, SessionInv, [Next]_vars, ~overlap' PROVE SessionInv'
  BY DEF SessionInv
<1>o. ~overlap
  BY OverlapStays
<1>s. /\ \A t, u \in Threads : Busy(t) /\ Busy(u) => t = u
      /\ \A t \in Threads : At(t, "claim") => enabled
      /\ \A t \in Threads : At(t, "insert") =>
           ~enabled /\ detectorCount = 0 /\ collectCount = 0
      /\ \A t \in Threads : Busy(t) => session = NoSession
      /\ session # NoSession => ~enabled
      /\ session = NoSession => ~finished /\ ticks = 0
      /\ session = NoSession /\ ~leftover => ~isDumpStack
      /\ session # NoSession /\ ~finished =>
           detectorCount < DETECT_STACK_COUNT /\ ticks <= detectorCount + collectCount
      /\ isDumpStack /\ ~leftover => ~finished /\ collectCount > 0
      /\ session # NoSession /\ session.whole =>
           /\ collectCount <= session.count
           /\ ticks <= DETECT_STACK_COUNT + session.count
  BY <1>o DEF SessionInv
<1>t. /\ detectorCount \in Nat /\ collectCount \in Nat /\ ticks \in Nat
      /\ session.count \in Int
      /\ session # NoSession /\ session.whole => session.count \in Nat \ {0}
  BY DEF Shape, Session, ConfigInv, Fits
<1>k. ASSUME UNCHANGED <<enabled, detectorCount, collectCount, session, finished,
                         isDumpStack, ticks, leftover>>,
             \A t \in Threads, p \in {"claim", "insert"} : At(t, p)' => At(t, p)
      PROVE  SessionInv'
  BY <1>k, <1>s DEF SessionInv, Busy
<1>a. ASSUME \A t \in Threads : ~SampleStackDetect(t) /\ ~Claim(t)
      PROVE  \A t \in Threads, p \in {"claim", "insert"} :
               At(t, p)' => At(t, p) /\ ~InsertSession(t)
  BY <1>a, AtMoves
<1>1. ASSUME NEW t \in Threads, SampleStackDetect(t) PROVE SessionInv'
  <2>0. UNCHANGED <<enabled, detectorCount, collectCount, session, finished, isDumpStack,
                    ticks, leftover>>
    BY <1>1 DEF SampleStackDetect, sessionVars
  <2>c. /\ At(t, "detect") /\ call[t] \in Call
        /\ \A u \in Threads : u # t => call'[u] = call[u]
    <3>1. At(t, "detect") /\ call[t] \in Call
      BY <1>1, CallIs DEF SampleStackDetect
    <3> QED BY <1>1, <3>1, CallMoves, CallEnds DEF SampleStackDetect
  <2>1. CASE call' = [call EXCEPT ![t] = Idle]
    <3>1. call'[t] = Idle
      BY <2>1, CallEnds
    <3> QED BY <1>k, <2>0, <2>c, <3>1 DEF At, Idle
  <2>2. CASE /\ enabled /\ call' = [call EXCEPT ![t].pc = "claim"]
             /\ overlap' = (overlap \/ \E u \in Threads \ {t} :
                                       At(u, "claim") \/ At(u, "insert"))
    <3>1. \A u \in Threads : u # t => ~Busy(u)
      BY <2>2 DEF Busy
    <3>2. call'[t].pc = "claim"
      BY <2>2, <2>c, CallMoves
    <3>3. \A u \in Threads : Busy(u)' => u = t
      BY <2>c, <3>1 DEF Busy, At
    <3>4. \A u \in Threads : ~At(u, "insert")'
      BY <3>2, <3>3 DEF Busy, At
    <3>5. session = NoSession
      BY <1>s, <2>2
    <3> QED BY <1>s, <2>0, <2>2, <3>3, <3>4, <3>5 DEF SessionInv
  <2> QED BY <1>1, <2>1, <2>2 DEF SampleStackDetect
<1>2. ASSUME NEW t \in Threads, Claim(t) PROVE SessionInv'
  <2>0. /\ UNCHANGED <<session, finished, isDumpStack, ticks, leftover>>
        /\ ~enabled' /\ detectorCount' = 0 /\ collectCount' = 0 /\ At(t, "claim")
    BY <1>2 DEF Claim
  <2>1. session = NoSession /\ \A u \in Threads : u # t => ~Busy(u)
    BY <1>s, <2>0 DEF Busy
  <2>2. /\ call'[t].pc = "insert"
        /\ \A u \in Threads : u # t => call'[u] = call[u]
    BY <1>2, <2>0, CallIs, CallMoves DEF Claim
  <2>3. \A u \in Threads : (Busy(u)' => u = t) /\ ~At(u, "claim")'
    BY <2>1, <2>2 DEF Busy, At
  <2> QED BY <1>s, <2>0, <2>1, <2>3 DEF SessionInv
<1> SUFFICES ASSUME \A t \in Threads : ~SampleStackDetect(t) /\ ~Claim(t)
             PROVE  SessionInv'
  BY <1>1, <1>2
<1>b. \A t \in Threads, p \in {"claim", "insert"} :
        At(t, p)' => At(t, p) /\ ~InsertSession(t)
  BY <1>a
<1>3. ASSUME NEW t \in Threads, InsertSession(t) PROVE SessionInv'
  <2>0. /\ UNCHANGED <<enabled, detectorCount, collectCount, finished, isDumpStack,
                       leftover>>
        /\ At(t, "insert") /\ session = NoSession /\ ticks' = 0
    BY <1>3, <1>s DEF InsertSession, budgetVars, Busy
  <2>1. ~enabled /\ detectorCount = 0 /\ collectCount = 0
        /\ \A u \in Threads : u # t => ~Busy(u)
    BY <1>s, <2>0 DEF Busy
  <2>2. \A u \in Threads : ~Busy(u)'
    BY <1>3, <1>b, <2>1 DEF Busy
  <2>3. ConfigInv' /\ (session' # NoSession /\ session'.whole => session'.count \in Nat)
    BY ConfigNext DEF ConfigInv, Fits
  <2>4. \A u \in Threads : ~At(u, "claim")' /\ ~At(u, "insert")'
    BY <2>2 DEF Busy
  <2> QED BY <1>s, <2>0, <2>1, <2>2, <2>3, <2>4, Numbers DEF SessionInv
<1>4. CASE RunSession
  <2>0. /\ session # NoSession /\ ~finished /\ UNCHANGED <<session, enabled, leftover>>
        /\ ticks' \in Nat /\ ticks' <= ticks + 1
        /\ detectorCount' \in Nat /\ collectCount' \in Nat
    <3>1. ticks' <= ticks + 1
      BY <1>4, <1>t, Numbers DEF RunSession, Older
    <3> QED BY <1>4, <3>1, RunIs DEF Runs, RunSession
  <2>1. \A t \in Threads : ~Busy(t)' /\ ~At(t, "claim")' /\ ~At(t, "insert")'
    BY <1>b, <1>s, <2>0 DEF Busy
  <2>2. detectorCount < DETECT_STACK_COUNT /\ ticks <= detectorCount + collectCount
        /\ ~enabled
    BY <1>s, <2>0
  <2>m. detectorCount \in Nat /\ collectCount \in Nat
    BY <1>t
  <2>n. /\ ticks' <= detectorCount + collectCount + 1
        /\ ticks' \in Nat /\ detectorCount' \in Nat /\ collectCount' \in Nat
    BY <1>t, <2>0, <2>2
  <2>k. ASSUME ~finished' => detectorCount' < DETECT_STACK_COUNT
                             /\ ticks' <= detectorCount' + collectCount',
               isDumpStack' /\ ~leftover => ~finished' /\ collectCount' > 0,
               session.whole => /\ collectCount' <= session.count
                                /\ ticks' <= DETECT_STACK_COUNT + session.count
        PROVE  SessionInv'
    BY <2>0, <2>1, <2>2, <2>k DEF SessionInv
  <2>3. CASE GiveUp
    <3>1. finished' /\ UNCHANGED <<detectorCount, collectCount, isDumpStack>>
          /\ collectCount = 0 /\ detectorCount = 0
      BY <2>3 DEF GiveUp
    <3>2. ~leftover => ~isDumpStack'
      BY <1>s, <3>1
    <3>3. session.whole => ticks' <= DETECT_STACK_COUNT + session.count
      BY <1>t, <2>0, <2>2, <3>1, Numbers
    <3> QED BY <1>s, <2>0, <2>k, <3>1, <3>2, <3>3
  <2>4. CASE Detect
    <3>1. /\ collectCount = 0 /\ UNCHANGED isDumpStack
          /\ \/ collectCount' = 1 /\ UNCHANGED detectorCount
             \/ /\ detectorCount' = Older(detectorCount, DETECT_STACK_COUNT + 1)
                /\ collectCount' = 0
      BY <2>4 DEF Detect
    <3>f. ~finished' => detectorCount' # DETECT_STACK_COUNT
      BY <2>4 DEF Detect
    <3>2. ~leftover => ~isDumpStack'
      BY <1>s, <3>1
    <3>3. \/ collectCount' = 1 /\ detectorCount' = detectorCount
          \/ collectCount' = 0 /\ detectorCount' = detectorCount + 1
      BY <1>t, <2>2, <3>1, Numbers DEF Older
    <3>4. session.whole => /\ collectCount' <= session.count
                           /\ ticks' <= DETECT_STACK_COUNT + session.count
      BY <1>t, <2>0, <2>2, <3>1, <3>3, Numbers
    <3>5. ~finished' => detectorCount' < DETECT_STACK_COUNT
                        /\ ticks' <= detectorCount' + collectCount'
      <4>1. ticks' <= detectorCount' + collectCount'
        <5>1. /\ detectorCount' >= detectorCount /\ collectCount' >= collectCount
              /\ detectorCount' > detectorCount \/ collectCount' > collectCount
          BY <2>m, <3>1, <3>3
        <5> QED BY <2>m, <2>n, <5>1, TicksCounted
      <4>2. detectorCount' # DETECT_STACK_COUNT => detectorCount' < DETECT_STACK_COUNT
        BY <1>t, <2>2, <3>3, Numbers
      <4> QED BY <3>f, <4>1, <4>2
    <3> QED BY <2>k, <3>2, <3>4, <3>5
  <2>5. CASE Collect
    <3>1. /\ collectCount \in 1 .. session.count - 1 /\ UNCHANGED detectorCount
          /\ collectCount' = session.count \/ collectCount' = collectCount + 1
      BY <2>5 DEF Collect
    <3>f. ~finished'
      <4>1. detectorCount # DETECT_STACK_COUNT
        BY <1>t, <2>2, Numbers
      <4> QED BY <2>0, <2>5, <4>1 DEF Collect
    <3>2. collectCount' > collectCount /\ collectCount' <= session.count
      BY <1>t, <3>1
    <3>3. session.whole => ticks' <= DETECT_STACK_COUNT + session.count
      BY <1>t, <2>0, <2>2, <3>1, Numbers
    <3>4. ticks' <= detectorCount' + collectCount'
      <4>1. detectorCount' >= detectorCount /\ collectCount' >= collectCount
        BY <2>m, <2>n, <3>1, <3>2
      <4> QED BY <2>m, <2>n, <3>2, <4>1, TicksCounted
    <3>5. detectorCount' < DETECT_STACK_COUNT /\ collectCount' > 0
      BY <1>t, <2>0, <2>2, <3>1, <3>2
    <3> QED BY <2>k, <3>f, <3>2, <3>3, <3>4, <3>5
  <2>6. CASE Report
    <3>1. /\ finished' /\ ~isDumpStack' /\ UNCHANGED <<detectorCount, collectCount>>
          /\ collectCount = session.count
      BY <2>6 DEF Report
    <3>2. ticks' <= DETECT_STACK_COUNT + session.count
      BY <1>t, <2>0, <2>2, <3>1, Numbers
    <3> QED BY <1>t, <2>k, <3>1, <3>2
  <2> QED BY <1>4, <2>3, <2>4, <2>5, <2>6 DEF RunSession
<1>5. CASE CheckCurrentTaskLocked
  <2>0. /\ session # NoSession /\ finished
        /\ session' = NoSession /\ ~finished' /\ ticks' = 0 /\ enabled'
        /\ UNCHANGED <<isDumpStack, leftover>>
    BY <1>5 DEF CheckCurrentTaskLocked
  <2>1. \A t \in Threads : ~Busy(t)' /\ ~At(t, "claim")' /\ ~At(t, "insert")'
    BY <1>b, <1>s, <2>0 DEF Busy
  <2> QED BY <1>s, <2>0, <2>1 DEF SessionInv
<1>6. CASE UNCHANGED <<enabled, detectorCount, collectCount, session, finished,
                       isDumpStack, ticks, leftover>>
  BY <1>6, <1>b, <1>k
<1>7. CASE Configure \/ WriteParam \/ Elapse \/ UNCHANGED vars
  BY <1>6, <1>7 DEF Configure, WriteParam, Elapse, vars, sessionVars, budgetVars
<1>8. ASSUME NEW t, OH_HiCollie_Init_JankDetection(t) PROVE SessionInv'
  BY <1>6, <1>8 DEF OH_HiCollie_Init_JankDetection, InitMainLooperWatcher, sessionVars,
     budgetVars
<1>9. ASSUME NEW t \in Threads, DistributeStart(t) \/ DistributeEnd(t) PROVE SessionInv'
  BY <1>6, <1>9 DEF DistributeStart, DistributeEnd, sessionVars, budgetVars
<1>10. CASE RunFinishedSession
  <2>0. /\ session # NoSession /\ finished /\ UNCHANGED <<session, enabled, ticks>>
        /\ detectorCount' \in Nat /\ collectCount' \in Nat
    BY <1>10, RunIs DEF Runs, RunFinishedSession
  <2>1. \A t \in Threads : ~Busy(t)' /\ ~At(t, "claim")' /\ ~At(t, "insert")'
    BY <1>b, <1>s, <2>0 DEF Busy
  <2>2. finished'
    BY <1>10, <2>0 DEF RunFinishedSession, Detect, Collect, Report
  <2>3. session.whole => collectCount' <= session.count
    <3>1. Detect => collectCount' \in {0, 1}
      BY DEF Detect
    <3>2. Collect => \/ collectCount' = session.count
                     \/ /\ collectCount' = collectCount + 1
                        /\ collectCount \in 1 .. session.count - 1
      BY DEF Collect
    <3>3. Report => collectCount' = session.count
      BY DEF Report
    <3> QED BY <1>10, <1>t, <2>0, <3>1, <3>2, <3>3 DEF RunFinishedSession
  <2>4. isDumpStack' => leftover'
    <3>1. isDumpStack => leftover
      BY <1>s, <2>0
    <3>2. CASE Detect /\ UNCHANGED leftover
      BY <3>1, <3>2 DEF Detect
    <3>3. CASE leftover' = (leftover \/ isDumpStack')
      BY <3>3, Zenon
    <3>4. CASE Report
      BY <3>4 DEF Report
    <3> QED BY <1>10, <3>2, <3>3, <3>4 DEF RunFinishedSession
  <2> QED BY <1>s, <2>0, <2>1, <2>2, <2>3, <2>4 DEF SessionInv
<1> QED BY <1>3, <1>4, <1>5, <1>7, <1>8, <1>9, <1>10 DEF Next


(* A product grows with its factor. *)
LEMMA ProductGrows ==
  ASSUME NEW n \in Nat, NEW m \in Nat, NEW i \in Nat, n <= m
  PROVE  n * i <= m * i
<1>1. m * i = n * i + (m - n) * i
  OBVIOUS
<1>2. (m - n) * i \in Nat /\ n * i \in Nat
  <2>1. m - n \in Nat
    OBVIOUS
  <2> QED BY <2>1
<1> QED BY <1>1, <1>2

(* The invariants hold at the start. *)
LEMMA InitSessions == Init => Shape /\ ConfigInv /\ SessionInv
<1> SUFFICES ASSUME Init PROVE Shape /\ ConfigInv /\ SessionInv
  OBVIOUS
<1>1. Shape
  <2>1. InitialParams \in Params
    <3>1. SAMPLE_DEFAULT_INTERVAL \in Int /\ SAMPLE_DEFAULT_COUNT \in Int
      BY Numbers DEF Fits
    <3> QED BY <3>1, Numbers DEF InitialParams, Params, LOGTYPE_NONE
  <2>2. NoSession \in Session
    BY DEF NoSession, Session
  <2>3. cur \in Stamp
    BY OlderIs DEF Init, Stamp
  <2>4. /\ setup \in Setups /\ params \in Params /\ session \in Session
        /\ event \in [Threads -> Int] /\ beginAge \in Int /\ worst \in Int
        /\ call \in [Threads -> {Idle} \cup Call]
    BY <2>1, <2>2, OlderIs DEF Init, NoEvent
  <2>5. /\ reportTimes \in Int /\ sinceLast \in Int /\ chain \in Nat /\ again \in Nat
        /\ detectorCount \in Nat /\ collectCount \in Nat /\ ticks \in Nat
    BY OlderIs, Numbers DEF Init
  <2> QED BY <2>3, <2>4, <2>5 DEF Shape
<1>2. ConfigInv
  <2>1. ParamsFit
    BY Numbers DEF Init, InitialParams, ParamsFit
  <2>2. update = NoUpdate /\ update.left = <<>> /\ session = NoSession
    BY DEF Init, NoUpdate
  <2>3. \A t \in Threads : call[t] = Idle
    BY DEF Init
  <2> QED BY <2>1, <2>2, <2>3, LeftIs DEF ConfigInv
<1>3. SessionInv
  <2>1. \A t \in Threads : ~At(t, "claim") /\ ~At(t, "insert") /\ ~Busy(t)
    BY DEF Init, At, Idle, Busy
  <2> QED BY <2>1 DEF Init, SessionInv
<1> QED BY <1>1, <1>2, <1>3

(* SessionFits, whatever the limits and the calls that configure: a session that
   read one configuration is over within MAX_SAMPLE_STACK_TIMES, and nobody stays
   marked as collecting unless a finished session went on. *)
THEOREM SessionsFit == Spec => []SessionFits
<1>1. Shape /\ ConfigInv /\ [Next]_vars => Shape'
  BY ShapeNext DEF ConfigInv
<1>2. ASSUME Shape, ConfigInv, SessionInv PROVE SessionFits
  <2> SUFFICES ASSUME ~overlap
               PROVE  /\ session.whole => ticks * session.interval <= MAX_SAMPLE_STACK_TIMES
                      /\ session = NoSession /\ ~leftover => ~isDumpStack
    BY DEF SessionFits
  <2>1. session = NoSession /\ ~leftover => ~isDumpStack
    BY <1>2 DEF SessionInv
  <2>2. CASE session = NoSession
    <3>1. session.interval = 0 /\ ticks \in Nat
      BY <1>2, <2>2 DEF NoSession, Shape
    <3> QED BY <2>1, <3>1, Numbers
  <2>3. CASE session # NoSession /\ session.whole
    <3>1. /\ session.interval \in Nat /\ session.count \in Nat
          /\ (session.count + SAMPLE_EXTRA_COUNT) * session.interval
               <= MAX_SAMPLE_STACK_TIMES
      BY <1>2, <2>3 DEF ConfigInv, Fits
    <3>2. ticks \in Nat /\ ticks <= DETECT_STACK_COUNT + session.count
      BY <1>2, <2>3 DEF SessionInv, Shape
    <3> DEFINE m == session.count + SAMPLE_EXTRA_COUNT
               i == session.interval
    <3>3. m \in Nat /\ i \in Nat /\ ticks <= m /\ m * i <= MAX_SAMPLE_STACK_TIMES
      BY <3>1, <3>2, Numbers
    <3> HIDE DEF m, i
    <3>4. ticks * i <= m * i /\ ticks * i \in Int /\ m * i \in Int
      BY <3>2, <3>3, ProductGrows
    <3>5. ticks * i <= MAX_SAMPLE_STACK_TIMES
      BY <3>3, <3>4, Numbers
    <3> QED BY <2>1, <3>5 DEF i
  <2> QED BY <2>1, <2>2, <2>3
<1> QED BY <1>1, <1>2, InitSessions, ConfigNext, SessionNext, PTL DEF Spec

-----------------------------------------------------------------------------
(* The budget. *)

(* A thread ends an event before it detects, and detects before the next. *)
LEMMA CallAfterEventNext == Shape /\ CallAfterEvent /\ [Next]_vars => CallAfterEvent'
<1> SUFFICES ASSUME Shape, CallAfterEvent, [Next]_vars PROVE CallAfterEvent'
  OBVIOUS
<1>k. ASSUME UNCHANGED event, \A t \in Threads : call[t] = Idle => call'[t] = Idle
      PROVE  CallAfterEvent'
  BY <1>k DEF CallAfterEvent
<1>1. CASE Configure \/ Runs \/ CheckCurrentTaskLocked \/ UNCHANGED vars
  BY <1>1, <1>k DEF Configure, Runs, RunSession, RunFinishedSession, CheckCurrentTaskLocked,
        vars, eventVars
<1>2. CASE WriteParam
  BY <1>2, <1>k, CallSees DEF WriteParam, eventVars
<1>3. ASSUME NEW t, OH_HiCollie_Init_JankDetection(t) PROVE CallAfterEvent'
  BY <1>3, <1>k DEF OH_HiCollie_Init_JankDetection, InitMainLooperWatcher, eventVars
<1>4. ASSUME NEW t \in Threads, DistributeStart(t) PROVE CallAfterEvent'
  BY <1>4 DEF DistributeStart, CallAfterEvent, Shape
<1>5. ASSUME NEW t \in Threads, DistributeEnd(t) PROVE CallAfterEvent'
  <2>1. event'[t] = NoEvent
        /\ \A u \in Threads : u # t => event'[u] = event[u] /\ call'[u] = call[u]
    BY <1>5 DEF DistributeEnd, Shape
  <2> QED BY <2>1 DEF CallAfterEvent
<1>6. ASSUME NEW t \in Threads, SampleStackDetect(t) \/ Claim(t) \/ InsertSession(t)
      PROVE  CallAfterEvent'
  <2>1. call[t] \in Call /\ call[t] # Idle /\ UNCHANGED event
    BY <1>6, CallIs DEF SampleStackDetect, Claim, InsertSession, eventVars
  <2>2. \/ call' = [call EXCEPT ![t] = Idle]
        \/ \E q \in {"claim", "insert"} : call' = [call EXCEPT ![t].pc = q]
    BY <1>6 DEF SampleStackDetect, Claim, InsertSession
  <2>3. \A u \in Threads : u # t => call'[u] = call[u]
    BY <2>1, <2>2, CallMoves, CallEnds
  <2> QED BY <1>k, <2>1, <2>3
<1>7. CASE Elapse
  BY <1>7 DEF Elapse, CallAfterEvent
<1> QED BY <1>1, <1>2, <1>3, <1>4, <1>5, <1>6, <1>7 DEF Next, Runs

(* Only its claim takes a thread away from it. *)
LEMMA ClaimStays ==
  ASSUME Shape, CallAfterEvent, [Next]_vars, NEW u \in Threads, At(u, "claim"), ~Claim(u)
  PROVE  At(u, "claim")'
<1>0. call[u] # Idle /\ call[u].pc = "claim" /\ event[u] = NoEvent
  BY CallIs DEF CallAfterEvent
<1>1. ASSUME UNCHANGED call PROVE At(u, "claim")'
  BY <1>1 DEF At
<1>2. CASE Configure \/ Runs \/ CheckCurrentTaskLocked \/ Elapse \/ UNCHANGED vars
  BY <1>1, <1>2 DEF Configure, Runs, RunSession, RunFinishedSession, CheckCurrentTaskLocked,
        Elapse, vars
<1>3. CASE WriteParam
  BY <1>0, <1>3, CallSees DEF WriteParam, At
<1>4. ASSUME NEW t, OH_HiCollie_Init_JankDetection(t) PROVE At(u, "claim")'
  BY <1>1, <1>4 DEF OH_HiCollie_Init_JankDetection, InitMainLooperWatcher
<1>5. ASSUME NEW t \in Threads, DistributeStart(t) PROVE At(u, "claim")'
  BY <1>1, <1>5 DEF DistributeStart
<1>6. ASSUME NEW t \in Threads, DistributeEnd(t) PROVE At(u, "claim")'
  <2>1. t # u /\ call'[u] = call[u]
    BY <1>0, <1>6 DEF DistributeEnd, Shape
  <2> QED BY <2>1 DEF At
<1>7. ASSUME NEW t \in Threads, SampleStackDetect(t) \/ Claim(t) \/ InsertSession(t)
      PROVE  At(u, "claim")'
  <2>1. t # u
    BY <1>0, <1>7 DEF SampleStackDetect, InsertSession, At
  <2>2. call[t] \in Call
    BY <1>7, CallIs DEF SampleStackDetect, Claim, InsertSession
  <2>3. \/ call' = [call EXCEPT ![t] = Idle]
        \/ \E q \in {"claim", "insert"} : call' = [call EXCEPT ![t].pc = q]
    BY <1>7 DEF SampleStackDetect, Claim, InsertSession
  <2>4. call'[u] = call[u]
    BY <2>1, <2>2, <2>3, CallMoves, CallEnds
  <2> QED BY <2>4 DEF At
<1> QED BY <1>2, <1>3, <1>4, <1>5, <1>6, <1>7 DEF Next, Runs


(* Room for one more is room. *)
LEMMA OneLess ==
  ASSUME NEW a \in Int, NEW b \in Int, a + 1 <= b
  PROVE  a <= b
OBVIOUS

(* Less of both is room too. *)
LEMMA BothLess ==
  ASSUME NEW a \in Int, NEW b \in Int, NEW c \in Int, NEW d \in Int, NEW e \in Int,
         a <= b, c <= d, b + d <= e
  PROVE  a + c <= e
OBVIOUS

(* The reports within a period and the budget. *)
LEMMA BudgetNext ==
  /\ Shape /\ ConfigInv /\ SessionInv /\ CallAfterEvent /\ BudgetInv
  /\ [Next]_vars
  => BudgetInv'
<1> SUFFICES ASSUME Shape, ConfigInv, SessionInv, CallAfterEvent, BudgetInv, [Next]_vars
             PROVE  BudgetInv'
  OBVIOUS
<1>t. /\ reportTimes \in Int /\ Regular \in Int /\ Budget \in Nat
      /\ reportTimes' \in Int /\ Regular' \in Int /\ Budget' \in Int
  <2>1. Shape'
    BY ShapeNext DEF ConfigInv
  <2> QED BY <2>1 DEF Shape, Params, Budget, BudgetInv, Regular
<1>m. /\ Most \in Nat /\ Most >= 1 /\ Most >= Budget
      /\ Budget > 0 => Most = Budget
  BY <1>t DEF Most
<1>i. ~overlap =>
        /\ reportTimes <= Budget
        /\ Regular <= Most
        /\ reportTimes > 0 => (Regular + reportTimes <= Budget) \/ (Claiming /\ PeriodOver)
        /\ Inserting \/ Active => Regular + 1 <= Most
        /\ Claiming => PeriodOver \/ Regular + 1 <= Most
  BY DEF BudgetInv
<1>g. chain \in Nat /\ again \in Nat
  BY DEF Shape
<1>k. ASSUME UNCHANGED <<reportTimes, Regular, Budget>>, PeriodOver' <=> PeriodOver,
             Claiming => Claiming', Claiming' => Claiming, Inserting' => Inserting,
             Active' => Active
      PROVE  BudgetInv'
  <2>1. Budget' >= 0 /\ Most' = Most
    BY <1>k, <1>t DEF Most
  <2> QED BY <1>i, <1>k, <2>1, OverlapStays DEF BudgetInv
<1>c. ASSUME \A t \in Threads : ~Claim(t) PROVE Claiming => Claiming'
  BY <1>c, ClaimStays DEF Claiming
<1>d. ASSUME \A t \in Threads : ~Claim(t) /\ ~SampleStackDetect(t)
      PROVE  (Claiming' => Claiming) /\ (Inserting' => Inserting)
  BY <1>d, AtMoves DEF Claiming, Inserting
<1>1. ASSUME NEW t \in Threads, SampleStackDetect(t) PROVE BudgetInv'
  <2>0. /\ UNCHANGED <<Regular, Budget, session, finished>> /\ (PeriodOver' <=> PeriodOver)
        /\ (Active' <=> Active)
    BY <1>1 DEF SampleStackDetect, sessionVars, paramVars, Budget, PeriodOver, Active,
       GetMainThreadCheckTimer, Regular
  <2>c. /\ At(t, "detect") /\ call[t] \in Call
        /\ \A u \in Threads : u # t => call'[u] = call[u]
    <3>1. At(t, "detect") /\ call[t] \in Call
      BY <1>1, CallIs DEF SampleStackDetect
    <3> QED BY <1>1, <3>1, CallMoves, CallEnds DEF SampleStackDetect
  <2>1. CASE call' = [call EXCEPT ![t] = Idle] /\ UNCHANGED reportTimes
    <3>1. call'[t] = Idle
      BY <2>1, CallEnds
    <3>2. /\ Claiming => Claiming'
          /\ Claiming' => Claiming
          /\ Inserting' => Inserting
      BY <2>c, <3>1 DEF Claiming, Inserting, At, Idle
    <3> QED BY <1>k, <2>0, <2>1, <3>2
  <2>2. CASE /\ enabled /\ call' = [call EXCEPT ![t].pc = "claim"]
             /\ overlap' = (overlap \/ \E u \in Threads \ {t} :
                                       At(u, "claim") \/ At(u, "insert"))
             /\ \/ reportTimes > 0 /\ UNCHANGED reportTimes
                \/ PeriodOver /\ reportTimes' = params.report_times_per_app
    <3> SUFFICES ASSUME ~overlap'
                 PROVE  /\ reportTimes' <= Budget'
                        /\ Regular' <= Most'
                        /\ reportTimes' > 0 => \/ Regular' + reportTimes' <= Budget'
                                               \/ Claiming' /\ PeriodOver'
                        /\ ~(Inserting' \/ Active')
                        /\ PeriodOver' \/ Regular' + 1 <= Most'
      BY <1>t, <2>0 DEF BudgetInv
    <3>1. ~overlap /\ \A u \in Threads : u # t => ~At(u, "claim") /\ ~At(u, "insert")
      BY <2>2
    <3>2. call'[t].pc = "claim"
      BY <2>2, <2>c, CallMoves
    <3>3. ~Claiming /\ Claiming' /\ ~Inserting'
      BY <2>c, <3>1, <3>2 DEF Claiming, Inserting, At
    <3>4. ~Active
      BY <2>2, <3>1 DEF SessionInv, Active
    <3>5. Most' = Most
      BY <2>0 DEF Most
    <3>6. CASE reportTimes > 0 /\ UNCHANGED reportTimes
      <4>1. Regular + reportTimes <= Budget
        BY <1>i, <3>1, <3>3, <3>6
      <4>2. Regular + 1 <= Most /\ reportTimes <= Budget /\ Regular <= Most
        BY <1>i, <1>m, <1>t, <3>1, <3>6, <4>1
      <4> QED BY <2>0, <3>3, <3>4, <3>5, <3>6, <4>1, <4>2
    <3>7. CASE PeriodOver /\ reportTimes' = Budget
      BY <1>i, <1>t, <2>0, <3>1, <3>3, <3>4, <3>5, <3>7
    <3> QED BY <2>2, <3>6, <3>7 DEF Budget
  <2> QED BY <1>1, <2>1, <2>2 DEF SampleStackDetect
<1>2. ASSUME NEW t \in Threads, Claim(t) PROVE BudgetInv'
  <2>0. /\ UNCHANGED <<reportTimes, Budget, session, overlap, finished>>
        /\ At(t, "claim") /\ (Active' <=> Active)
        /\ Regular' = IF PeriodOver THEN 0 ELSE Regular
    <3>1. /\ PeriodOver => chain' = 0 /\ again' = 0
          /\ ~PeriodOver => UNCHANGED <<chain, again>>
      BY <1>2 DEF Claim, PeriodOver
    <3> QED BY <1>2, <3>1 DEF Claim, paramVars, Budget, Active, Regular
  <2>1. /\ call'[t].pc = "insert"
        /\ \A u \in Threads : u # t => call'[u] = call[u]
    BY <1>2, <2>0, CallIs, CallMoves DEF Claim
  <2>2. Most' = Most
    BY <2>0 DEF Most
  <2>l. Regular' + 1 <= Most' => Regular' <= Most'
    <3>1. Most' \in Int
      BY <1>m, <2>2
    <3>2. Regular' \in Int
      BY <1>t
    <3> QED BY <3>2, <3>1, OneLess
  <2> SUFFICES ASSUME ~overlap'
               PROVE  /\ reportTimes' <= Budget'
                      /\ Regular' + 1 <= Most'
                      /\ reportTimes' > 0 => Regular' + reportTimes' <= Budget'
                      /\ ~Claiming'
    BY <1>t, <2>0, <2>l DEF BudgetInv
  <2>3. ~overlap /\ Claiming
    BY <2>0 DEF Claiming
  <2>4. \A u \in Threads : u # t => ~At(u, "claim")
    BY <2>0, <2>3 DEF SessionInv, Busy
  <2>5. ~Claiming'
    BY <2>1, <2>4 DEF Claiming, At
  <2>6. CASE PeriodOver
    BY <1>i, <1>m, <1>t, <2>0, <2>2, <2>3, <2>5, <2>6
  <2>7. CASE ~PeriodOver
    BY <1>i, <1>m, <1>t, <2>0, <2>2, <2>3, <2>5, <2>7
  <2> QED BY <2>6, <2>7
<1> SUFFICES ASSUME \A t \in Threads : ~SampleStackDetect(t) /\ ~Claim(t)
             PROVE  BudgetInv'
  BY <1>1, <1>2
<1>e. (Claiming => Claiming') /\ (Claiming' => Claiming) /\ (Inserting' => Inserting)
  BY <1>c, <1>d
<1>f. ASSUME UNCHANGED <<reportTimes, Regular, params, setup, sinceLast>>, Active' => Active
      PROVE  BudgetInv'
  <2>1. UNCHANGED Budget /\ (PeriodOver' <=> PeriodOver)
    BY <1>f DEF Budget, PeriodOver, GetMainThreadCheckTimer
  <2> QED BY <1>e, <1>f, <1>k, <2>1
<1>3. CASE WriteParam
  <2>0. UNCHANGED <<session, finished, sinceLast, setup, overlap>> /\ (Active' <=> Active)
    BY <1>3 DEF WriteParam, sessionVars, Active
  <2>1. \/ UNCHANGED <<reportTimes, Regular, params.report_times_per_app,
                       params.checker_interval>>
        \/ reportTimes' = params'.report_times_per_app /\ reportTimes' \in Nat /\ Regular' = 0
    BY <1>3, WriteIs DEF ConfigInv, Regular
  <2>2. CASE UNCHANGED <<reportTimes, Regular, params.report_times_per_app,
                         params.checker_interval>>
    <3>1. UNCHANGED Budget /\ (PeriodOver' <=> PeriodOver)
      BY <2>0, <2>2 DEF Budget, PeriodOver, GetMainThreadCheckTimer
    <3> QED BY <1>e, <1>k, <2>0, <2>2, <3>1
  <2>3. CASE reportTimes' = Budget' /\ reportTimes' \in Nat /\ Regular' = 0
    <3>1. Most' >= 1 /\ Most' \in Nat
      BY <2>3 DEF Most
    <3>2. Budget' \in Nat
      BY <2>3
    <3>3. Regular' + reportTimes' = reportTimes'
      <4>1. Regular' = 0 /\ reportTimes' \in Int
        BY <2>3
      <4>2. \A r \in Int : 0 + r = r
        OBVIOUS
      <4> QED BY <4>1, <4>2
    <3>4. Budget' >= 0
      BY <3>2
    <3>5. reportTimes' <= Budget'
      BY <2>3
    <3>6. Regular' + reportTimes' <= Budget'
      BY <3>3, <3>5
    <3>7. Regular' <= Most' /\ Regular' + 1 <= Most'
      BY <2>3, <3>1
    <3> QED BY <3>4, <3>5, <3>6, <3>7 DEF BudgetInv
  <2> QED BY <2>1, <2>2, <2>3 DEF Budget
<1>4. ASSUME NEW t \in Threads, InsertSession(t) PROVE BudgetInv'
  <2>0. /\ UNCHANGED <<reportTimes, Regular, Budget, overlap>> /\ (PeriodOver' <=> PeriodOver)
        /\ At(t, "insert")
    BY <1>4 DEF InsertSession, paramVars, budgetVars, Budget, PeriodOver,
       GetMainThreadCheckTimer, Regular
  <2>1. Most' = Most /\ Inserting
    BY <2>0 DEF Most, Inserting
  <2> QED BY <1>e, <1>i, <1>t, <2>0, <2>1 DEF BudgetInv
<1>5. CASE RunSession
  <2>0. /\ UNCHANGED <<params, setup, sinceLast, session, overlap, Budget, again>>
        /\ session # NoSession /\ Active
    BY <1>5, RunIs DEF Runs, RunSession, Budget, Active
  <2>1. CASE GiveUp \/ Detect \/ Collect
    <3>1. UNCHANGED <<reportTimes, Regular>>
      BY <2>0, <2>1 DEF GiveUp, Detect, Collect, Regular
    <3> QED BY <1>f, <2>0, <3>1
  <2>2. CASE Report
    <3>1. /\ reportTimes' = IF reportTimes >= 0 THEN reportTimes - 1 ELSE reportTimes
          /\ Regular' = Regular + 1 \/ Regular' = Regular
          /\ finished'
      BY <1>g, <2>0, <2>2 DEF Report, Older, Regular
    <3>2. ~Active' /\ Most' = Most
      BY <2>0, <3>1 DEF Active, Most
    <3> SUFFICES ASSUME ~overlap
                 PROVE  /\ reportTimes' <= Budget'
                        /\ Regular' <= Most'
                        /\ reportTimes' > 0 => Regular' + reportTimes' <= Budget'
                        /\ ~Inserting' /\ ~Claiming'
      BY <1>t, <2>0, <3>2 DEF BudgetInv
    <3>3. ~Claiming /\ ~Inserting
      BY <2>0 DEF SessionInv, Claiming, Inserting, Busy
    <3>4. ~Claiming' /\ ~Inserting'
      BY <1>e, <3>3
    <3>5. Regular + 1 <= Most /\ (reportTimes > 0 => Regular + reportTimes <= Budget)
          /\ reportTimes <= Budget
      BY <1>i, <2>0, <3>3
    <3>6. Regular' <= Most' /\ reportTimes' <= Budget'
      BY <1>m, <1>t, <2>0, <3>1, <3>2, <3>5
    <3>7. ASSUME reportTimes' > 0 PROVE Regular' + reportTimes' <= Budget'
      <4>1. reportTimes > 0 /\ reportTimes' = reportTimes - 1
        BY <1>t, <3>1, <3>7
      <4>2. Regular + reportTimes <= Budget
        BY <3>5, <4>1
      <4>3. Regular' + reportTimes' <= Budget
        <5>1. /\ Regular' \in Int /\ reportTimes' \in Int
              /\ Regular \in Int /\ reportTimes \in Int /\ Budget \in Int
          BY <1>t
        <5>2. reportTimes' = reportTimes - 1
          BY <4>1
        <5>3. Regular' = Regular + 1 \/ Regular' = Regular
          BY <3>1
        <5>4. CASE Regular' = Regular + 1
          <6>1. \A c, r \in Int : (c + 1) + (r - 1) = c + r
            OBVIOUS
          <6> QED BY <4>2, <5>1, <5>2, <5>4, <6>1
        <5>5. CASE Regular' = Regular
          <6>1. \A c, r, b \in Int : c + r <= b => c + (r - 1) <= b
            OBVIOUS
          <6> QED BY <4>2, <5>1, <5>2, <5>5, <6>1
        <5> QED BY <5>3, <5>4, <5>5
      <4> QED BY <2>0, <4>3
    <3> QED BY <3>4, <3>6, <3>7
  <2> QED BY <1>5, <2>1, <2>2 DEF RunSession
<1>6. CASE CheckCurrentTaskLocked
  <2>1. UNCHANGED <<reportTimes, Regular, params, setup, sinceLast>> /\ ~Active'
    BY <1>6 DEF CheckCurrentTaskLocked, paramVars, Active, Regular
  <2> QED BY <1>f, <2>1
<1>7. CASE Elapse
  <2>0. /\ UNCHANGED <<reportTimes, Regular, Budget, overlap, session, finished>>
        /\ \A t \in Threads : call[t] = Idle
    BY <1>7 DEF Elapse, paramVars, sessionVars, Budget, Regular
  <2>1. ~Claiming /\ ~Inserting
    BY <2>0 DEF Claiming, Inserting, At, Idle
  <2>2. ~Claiming' /\ ~Inserting' /\ (Active' <=> Active) /\ Most' = Most
    BY <1>e, <2>0, <2>1 DEF Active, Most
  <2> QED BY <1>i, <1>t, <2>0, <2>1, <2>2 DEF BudgetInv
<1>8. CASE Configure \/ UNCHANGED vars
  BY <1>8, <1>f DEF Configure, vars, budgetVars, sessionVars, paramVars, Active, Regular
<1>9. ASSUME NEW t, OH_HiCollie_Init_JankDetection(t) PROVE BudgetInv'
  BY <1>9, <1>f DEF OH_HiCollie_Init_JankDetection, InitMainLooperWatcher, sessionVars,
     budgetVars, paramVars, Active, Regular
<1>10. ASSUME NEW t \in Threads, DistributeStart(t) \/ DistributeEnd(t) PROVE BudgetInv'
  BY <1>10, <1>f DEF DistributeStart, DistributeEnd, sessionVars, budgetVars, paramVars,
     Active, Regular
<1>11. CASE RunFinishedSession
  <2>0. /\ UNCHANGED <<params, setup, sinceLast, session, overlap, Budget>>
        /\ session # NoSession
    BY <1>11, RunIs DEF Runs, RunFinishedSession, Budget
  <2>1. finished'
    BY <1>11 DEF RunFinishedSession, Detect, Collect, Report
  <2>2. ~Active'
    BY <2>1 DEF Active
  <2>3. CASE UNCHANGED <<reportTimes, Regular>>
    BY <1>f, <2>0, <2>2, <2>3
  <2>4. CASE Report /\ again' = again + 1
    <3>1. /\ reportTimes' = IF reportTimes >= 0 THEN reportTimes - 1 ELSE reportTimes
          /\ Regular' = Regular \/ Regular' = Regular - 1
      BY <1>g, <2>4 DEF Report, Older, Regular
    <3>2. reportTimes' <= reportTimes /\ Regular' <= Regular /\ Most' = Most
      BY <1>t, <2>0, <3>1 DEF Most
    <3>3. ~overlap => ~Claiming /\ ~Inserting
      BY <2>0 DEF SessionInv, Claiming, Inserting, Busy
    <3>4. ~overlap => ~Claiming' /\ ~Inserting'
      BY <1>e, <3>3
    <3>5. ASSUME ~overlap
          PROVE  /\ reportTimes' <= Budget
                 /\ Regular' <= Most
                 /\ reportTimes' > 0 => Regular' + reportTimes' <= Budget
      <4>1. /\ reportTimes <= Budget /\ Regular <= Most
            /\ reportTimes > 0 => Regular + reportTimes <= Budget
        BY <1>i, <3>3, <3>5
      <4>2. reportTimes' > 0 => reportTimes > 0
        BY <1>t, <3>2
      <4>3. reportTimes' > 0 => Regular' + reportTimes' <= Budget
        <5> SUFFICES ASSUME reportTimes' > 0 PROVE Regular' + reportTimes' <= Budget
          OBVIOUS
        <5>1. Regular + reportTimes <= Budget /\ Budget \in Int
          BY <1>t, <4>1, <4>2
        <5> QED BY <1>t, <3>2, <5>1, BothLess
      <4>4. reportTimes' <= Budget
        BY <1>t, <3>2, <4>1
      <4>5. Regular' <= Most
        BY <1>m, <1>t, <3>2, <4>1
      <4> QED BY <4>3, <4>4, <4>5
    <3> QED BY <1>t, <2>0, <2>2, <3>2, <3>4, <3>5 DEF BudgetInv
  <2>5. Detect \/ Collect => UNCHANGED <<reportTimes, chain>>
    BY DEF Detect, Collect
  <2> QED BY <1>11, <2>3, <2>4, <2>5 DEF RunFinishedSession, Regular
<1> QED BY <1>3, <1>4, <1>5, <1>6, <1>7, <1>8, <1>9, <1>10, <1>11 DEF Next

(* BudgetPerPeriod, whatever the budget and the period: sessions less than a
   period apart report no more often than was set, but for the runs of finished
   sessions behind the dropped task of another sampler. *)
THEOREM BudgetsHold == Spec => []BudgetPerPeriod
<1>1. Shape /\ ConfigInv /\ [Next]_vars => Shape'
  BY ShapeNext DEF ConfigInv
<1>2. Init => CallAfterEvent /\ BudgetInv
  <2> SUFFICES ASSUME Init PROVE CallAfterEvent /\ BudgetInv
    OBVIOUS
  <2>1. CallAfterEvent
    BY DEF Init, CallAfterEvent
  <2>2. ~Claiming /\ ~Inserting /\ ~Active
    BY DEF Init, Claiming, Inserting, Active, At, Idle
  <2>3. /\ Budget = SAMPLE_DEFAULT_REPORT_TIMES
        /\ reportTimes = SAMPLE_DEFAULT_REPORT_TIMES /\ Regular = 0
    BY DEF Init, InitialParams, Budget, Regular
  <2>4. /\ Budget >= 0 /\ reportTimes <= Budget /\ Regular <= Most
        /\ Regular + reportTimes <= Budget
    BY <2>3, Numbers DEF Most
  <2> QED BY <2>1, <2>2, <2>4 DEF BudgetInv
<1>3. Shape /\ BudgetInv => BudgetPerPeriod
  <2> SUFFICES ASSUME Shape, BudgetInv, ~overlap PROVE chain <= again + Most
    BY DEF BudgetPerPeriod, Most, Budget
  <2>1. chain - again <= Most /\ chain \in Int /\ again \in Int /\ Most \in Int
    BY DEF BudgetInv, Regular, Shape, Params, Most, Budget
  <2> QED BY <2>1
<1> QED BY <1>1, <1>2, <1>3, InitSessions, ConfigNext, SessionNext, CallAfterEventNext,
           BudgetNext, PTL DEF Spec

-----------------------------------------------------------------------------
(* The cause of a session. *)

(* The stamps keep telling the truth about events. *)
LEMMA CauseNext == Shape /\ CauseInv /\ [Next]_vars => CauseInv'
<1> SUFFICES ASSUME Shape, CauseInv, [Next]_vars PROVE CauseInv'
  OBVIOUS
<1> DEFINE Quiet == /\ session = NoSession
                    /\ \A t \in Threads : call[t] = Idle /\ event[t] = NoEvent
           Kept == \A t \in Threads : call'[t] # Idle =>
                     /\ call[t] # Idle
                     /\ call'[t].spent = call[t].spent
                     /\ call'[t].interval = call[t].interval
<1>t. /\ cur \in Stamp /\ cur.age \in Int /\ cur.len \in Int /\ worst \in Int
      /\ beginAge \in Int /\ event \in [Threads -> Int]
  BY DEF Shape, Stamp
<1>e. ASSUME NEW u \in Threads, event[u] # NoEvent
      PROVE  cur.age >= 0 /\ cur.age <= event[u] /\ (u # Main => beginAge <= event[u])
  BY <1>e DEF CauseInv
<1>c. Kept => \A t \in Threads : call'[t] # Idle => call'[t].spent > call'[t].interval
  BY DEF CauseInv
<1>k. ASSUME UNCHANGED eventVars, Kept, Quiet => Quiet' PROVE CauseInv'
  <2>1. UNCHANGED <<event, beginAge, cur, worst, cut>>
    BY <1>k DEF eventVars
  <2>2. \A t \in Threads : call'[t] # Idle => call'[t].spent > call'[t].interval
    BY <1>c, <1>k
  <2> QED BY <1>k, <2>1, <2>2 DEF CauseInv
<1>o. /\ \A a \in Int : Older(a, MaxAge) \in Int /\ Older(a, MaxAge) >= a
      /\ \A a, b \in Int : a <= b => Older(a, MaxAge) <= Older(b, MaxAge)
  <2>1. MaxAge \in Int
    BY OlderIs
  <2> QED BY <2>1, OlderIs
<1>1. CASE Configure \/ Runs \/ CheckCurrentTaskLocked \/ UNCHANGED vars
  <2>1. UNCHANGED eventVars /\ UNCHANGED call
    BY <1>1 DEF Configure, Runs, RunSession, RunFinishedSession, CheckCurrentTaskLocked,
        vars
  <2>2. session' = session \/ session' = NoSession
    BY <1>1 DEF Configure, Runs, RunSession, RunFinishedSession, CheckCurrentTaskLocked,
        vars, sessionVars
  <2> QED BY <1>k, <2>1, <2>2 DEF eventVars
<1>2. CASE WriteParam
  <2>1. UNCHANGED eventVars /\ UNCHANGED session
    BY <1>2 DEF WriteParam, sessionVars
  <2>2. \A t \in Threads :
          /\ call[t] = Idle => call'[t] = Idle
          /\ call[t] # Idle => /\ call'[t].interval = call[t].interval
                               /\ call'[t].spent = call[t].spent
    BY <1>2, CallSees DEF WriteParam
  <2> QED BY <1>k, <2>1, <2>2 DEF eventVars
<1>3. ASSUME NEW t, OH_HiCollie_Init_JankDetection(t) PROVE CauseInv'
  BY <1>3, <1>k DEF OH_HiCollie_Init_JankDetection, InitMainLooperWatcher, sessionVars,
     eventVars
<1>4. ASSUME NEW t \in Threads, DistributeStart(t) PROVE CauseInv'
  <2>1. /\ event'[t] = 0 /\ \A u \in Threads : u # t => event'[u] = event[u]
        /\ cur'.age = 0 /\ cur'.running
    BY <1>4, <1>t, StampBegins DEF DistributeStart
  <2>2. \/ t = Main /\ beginAge' = beginAge
        \/ t # Main /\ beginAge' = 0
    BY <1>4 DEF DistributeStart, BeginTime
  <2>3. \A u \in Threads : call'[u] # Idle => call'[u].spent > call'[u].interval
    BY <1>4, <1>c DEF DistributeStart
  <2>4. ASSUME NEW u \in Threads, event'[u] # NoEvent
        PROVE  cur'.age <= event'[u] /\ (u # Main => beginAge' <= event'[u])
    <3>1. CASE u = t
      BY <2>1, <2>2, <3>1
    <3>2. CASE u # t
      <4>1. event'[u] = event[u] /\ event[u] \in Int /\ event[u] # NoEvent
        BY <1>t, <2>1, <2>4, <3>2
      <4>2. event[u] >= 0
        BY <1>e, <1>t, <4>1
      <4>3. u # Main => beginAge <= event[u]
        BY <1>e, <4>1
      <4> QED BY <2>1, <2>2, <4>1, <4>2, <4>3
    <3> QED BY <3>1, <3>2
  <2>5. event'[t] >= cur'.age /\ cur'.age >= 0
    BY <2>1
  <2> QED BY <2>1, <2>3, <2>4, <2>5 DEF CauseInv

<1>5. ASSUME NEW t \in Threads, DistributeEnd(t) PROVE CauseInv'
  <2>1. /\ event[t] # NoEvent /\ event'[t] = NoEvent /\ beginAge' = beginAge
        /\ \A u \in Threads : u # t => event'[u] = event[u]
    BY <1>5, <1>t DEF DistributeEnd
  <2>2. /\ event[t] \in Int /\ cur.age >= 0 /\ cur.age <= event[t]
        /\ (t # Main => beginAge <= event[t])
    BY <1>e, <1>t, <2>1
  <2>3. CASE /\ Watched(t)
             /\ cur' = [cur EXCEPT !.len = cur.age, !.running = FALSE, !.changed = TRUE]
             /\ worst' = IF event[t] > worst THEN event[t] ELSE worst
             /\ IF Duration(t) > params.sample_interval
                THEN call' = [call EXCEPT ![t] =
                       [pc |-> "detect", interval |-> params.sample_interval,
                        duration |-> Duration(t), spent |-> event[t],
                        whole |-> update = NoUpdate]]
                ELSE UNCHANGED call
    <3>1. cur'.age = cur.age /\ cur'.len = cur.age /\ ~cur'.running
      BY <1>t, <2>3, StampEnds
    <3>2. cur'.len <= worst'
      BY <1>t, <2>2, <2>3, <3>1
    <3>3. \A u \in Threads : call'[u] # Idle => call'[u].spent > call'[u].interval
      <4>1. CASE UNCHANGED call
        BY <1>c, <4>1
      <4>2. CASE Duration(t) > params.sample_interval
        <5> DEFINE c == [pc |-> "detect", interval |-> params.sample_interval,
                         duration |-> Duration(t), spent |-> event[t],
                         whole |-> update = NoUpdate]
        <5>1. call' = [call EXCEPT ![t] = c]
          BY <2>3, <4>2
        <5>2. c.spent = event[t] /\ c.interval = params.sample_interval
          OBVIOUS
        <5> HIDE DEF c
        <5>3. call'[t] = c /\ \A u \in Threads : u # t => call'[u] = call[u]
          BY <5>1 DEF Shape
        <5>4. params.sample_interval \in Int
          BY DEF Shape, Params
        <5>5. Duration(t) \in Int /\ Duration(t) <= event[t]
          BY <1>t, <2>2 DEF Duration
        <5>6. event[t] > params.sample_interval
          BY <2>2, <4>2, <5>4, <5>5
        <5>7. c.spent > c.interval
          BY <5>2, <5>6
        <5> QED BY <5>3, <5>7 DEF CauseInv
      <4> QED BY <2>3, <4>1, <4>2
    <3>4. cur'.age >= 0
      BY <2>2, <3>1
    <3>5. ASSUME NEW u \in Threads, event'[u] # NoEvent
          PROVE  cur'.age <= event'[u] /\ (u # Main => beginAge' <= event'[u])
      BY <1>e, <2>1, <3>1, <3>5
    <3> QED BY <3>1, <3>2, <3>3, <3>4, <3>5 DEF CauseInv
  <2>4. CASE cut' = TRUE /\ UNCHANGED <<cur, worst, call>>
    <3>1. \A u \in Threads : call'[u] # Idle => call'[u].spent > call'[u].interval
      BY <1>c, <2>4
    <3>2. ASSUME NEW u \in Threads, event'[u] # NoEvent
          PROVE  cur'.age <= event'[u] /\ (u # Main => beginAge' <= event'[u])
      BY <1>e, <2>1, <2>4, <3>2
    <3> QED BY <2>4, <3>1, <3>2 DEF CauseInv
  <2> QED BY <1>5, <2>3, <2>4 DEF DistributeEnd
<1>6. ASSUME NEW t \in Threads, SampleStackDetect(t) \/ InsertSession(t) PROVE CauseInv'
  <2>1. call[t] \in Call /\ call[t] # Idle /\ UNCHANGED eventVars
    BY <1>6, CallIs DEF SampleStackDetect, InsertSession
  <2>2. \/ call' = [call EXCEPT ![t] = Idle]
        \/ call' = [call EXCEPT ![t].pc = "claim"]
    BY <1>6 DEF SampleStackDetect, InsertSession
  <2>3. Kept
    BY <2>1, <2>2, CallMoves, CallEnds
  <2>4. ~Quiet
    BY <2>1
  <2> QED BY <1>k, <2>1, <2>3, <2>4
<1>7. ASSUME NEW t \in Threads, Claim(t) PROVE CauseInv'
  <2>1. /\ UNCHANGED <<event, beginAge>>
        /\ cur' = [cur EXCEPT !.changed = FALSE]
        /\ At(t, "claim") /\ call' = [call EXCEPT ![t].pc = "insert"]
    BY <1>7 DEF Claim
  <2>2. cur'.age = cur.age /\ ~cur'.changed
    BY <1>t, <2>1, StampSeen
  <2>3. Kept
    BY <2>1, CallIs, CallMoves
  <2>4. \A u \in Threads : call'[u] # Idle => call'[u].spent > call'[u].interval
    BY <1>c, <2>3
  <2> QED BY <2>1, <2>2, <2>4 DEF CauseInv
<1>8. CASE Elapse
  <2>1. /\ UNCHANGED <<worst, cut, call, session>>
        /\ cur' = [cur EXCEPT !.age = Older(@, MaxAge)]
        /\ beginAge' = Older(beginAge, MaxAge)
        /\ \A u \in Threads : event'[u] = IF event[u] = NoEvent THEN event[u]
                                          ELSE Older(event[u], MaxAge)
    BY <1>8 DEF Elapse, sessionVars
  <2>2. /\ cur'.age = Older(cur.age, MaxAge) /\ cur'.len = cur.len
        /\ (cur'.running <=> cur.running) /\ (cur'.changed <=> cur.changed)
    BY <1>t, <2>1, StampAges
  <2>3. cur.age >= 0
    BY DEF CauseInv
  <2>4. cur'.age >= 0
    <3>1. Older(cur.age, MaxAge) \in Int /\ Older(cur.age, MaxAge) >= cur.age
      BY <1>t, <1>o
    <3> QED BY <1>t, <2>2, <2>3, <3>1
  <2>5. ASSUME NEW u \in Threads, event'[u] # NoEvent
        PROVE  cur'.age <= event'[u] /\ (u # Main => beginAge' <= event'[u])
    <3>1. event[u] # NoEvent /\ event'[u] = Older(event[u], MaxAge) /\ event[u] \in Int
      BY <1>t, <2>1, <2>5
    <3> QED BY <1>e, <1>t, <2>1, <2>2, <3>1, <1>o
  <2>6. ASSUME NEW u \in Threads, event[u] >= cur.age PROVE event'[u] >= cur'.age
    <3>1. event[u] \in Int /\ event[u] # NoEvent
      BY <1>t, <2>3, <2>6 DEF NoEvent
    <3>2. event'[u] = Older(event[u], MaxAge)
      BY <2>1, <3>1
    <3>3. cur'.age <= event'[u]
      BY <1>t, <2>2, <2>6, <3>1, <3>2, <1>o
    <3>4. cur'.age \in Int /\ event'[u] \in Int
      BY <1>t, <2>2, <3>1, <3>2, <1>o
    <3> QED BY <3>3, <3>4
  <2>7. \A u \in Threads : call'[u] # Idle => call'[u].spent > call'[u].interval
    BY <1>c, <2>1
  <2>8. Quiet => Quiet'
    BY <2>1
  <2> QED BY <2>1, <2>2, <2>4, <2>5, <2>6, <2>7, <2>8 DEF CauseInv
<1> QED BY <1>1, <1>2, <1>3, <1>4, <1>5, <1>6, <1>7, <1>8 DEF Next, Runs

(* JankHasCause, for any number of threads that share the stamps: a session
   starts for an event that was long, and samples because of another. *)
THEOREM SessionsHaveCause == Spec => JankHasCause
<1> DEFINE Started == \A t \in Threads :
                        At(t, "claim") /\ call'[t] # call[t] =>
                          call[t].spent > call[t].interval
           GoesOn == collectCount = 0 /\ collectCount' = 1 =>
                         \/ \E t \in Threads : event[t] >= session.interval
                         \/ worst > session.interval
                         \/ cut
<1>1. Shape /\ CauseInv /\ [Next]_vars => [Started /\ GoesOn]_vars
  <2> SUFFICES ASSUME Shape, CauseInv, Next PROVE Started /\ GoesOn
    OBVIOUS
  <2>1. Started
    BY CallIs DEF CauseInv
  <2>2. ASSUME collectCount = 0, collectCount' = 1
        PROVE  \/ \E t \in Threads : event[t] >= session.interval
               \/ worst > session.interval
               \/ cut
    <3>1. Runs
      BY <2>2 DEF Next, Runs, Configure, WriteParam, OH_HiCollie_Init_JankDetection,
         InitMainLooperWatcher, DistributeStart, DistributeEnd, SampleStackDetect, Claim,
         InsertSession, CheckCurrentTaskLocked, Elapse, sessionVars
    <3>2. session # NoSession /\ CheckEventTimer
      <4>1. session # NoSession /\ (GiveUp \/ Detect \/ Collect \/ Report)
        BY <3>1 DEF Runs, RunSession, RunFinishedSession
      <4>2. ~GiveUp /\ ~Report /\ ~Collect
        BY <2>2 DEF GiveUp, Report, Collect
      <4> QED BY <2>2, <4>1, <4>2 DEF Detect
    <3>3. /\ cur.age \in Int /\ cur.len \in Int /\ worst \in Int /\ session.interval \in Int
          /\ \A t \in Threads : event[t] \in Int
      BY DEF Shape, Stamp, Session
    <3>4. CASE cur.running /\ cur.age >= session.interval
      <4>1. cut \/ \E t \in Threads : event[t] >= cur.age
        BY <3>2, <3>4 DEF CauseInv, CheckEventTimer
      <4>2. \A t \in Threads : event[t] >= cur.age => event[t] >= session.interval
        BY <3>3, <3>4
      <4> QED BY <4>1, <4>2
    <3>5. CASE ~cur.running /\ cur.len > session.interval
      <4>1. cur.len <= worst
        BY <3>2, <3>5 DEF CauseInv, CheckEventTimer
      <4> QED BY <3>3, <3>5, <4>1
    <3> QED BY <3>2, <3>4, <3>5 DEF CheckEventTimer
  <2> QED BY <2>1, <2>2
<1>2. Init => CauseInv
  <2> SUFFICES ASSUME Init PROVE CauseInv
    OBVIOUS
  <2>1. cur.age >= 0 /\ session = NoSession
    BY OlderIs DEF Init
  <2>2. \A t \in Threads : event[t] = NoEvent /\ call[t] = Idle
    BY DEF Init
  <2>3. cur.running
    BY DEF Init
  <2> QED BY <2>1, <2>2, <2>3 DEF CauseInv
<1>3. Shape /\ ConfigInv /\ [Next]_vars => Shape'
  BY ShapeNext DEF ConfigInv
<1> QED BY <1>1, <1>2, <1>3, InitSessions, ConfigNext, CauseNext, PTL
        DEF Spec, JankHasCause

=============================================================================
