---------------------------- MODULE BinderChain -----------------------------
(***************************************************************************)
(* What HiCollie reads out of the kernel's table of binder transactions    *)
(* when a process is blocked: the processes it waits for, directly or      *)
(* through others, the thread at the end of the chain (GetBinderPeerPids), *)
(* and the process to kill instead of its own (KillProcessByPid).          *)
(*                                                                         *)
(* A line of the table is a synchronous transaction between two threads,   *)
(* an asynchronous one, or, after the line "context", a process's free     *)
(* space.  A thread waits in one synchronous transaction at most, and not  *)
(* for its own process.  A server that has not taken up a transaction has  *)
(* no thread for it: the table says 0.  The table is read anew before the  *)
(* kill: by then transactions have ended, and others have begun.           *)
(***************************************************************************)
EXTENDS Integers, Sequences, FiniteSets, Functions

CONSTANTS
  Threads,          \* the threads of the system: [pid, tid]
  Untaken,          \* the processes with transactions no thread has taken up
  Self,             \* getprocpid()
  EventTids,        \* the tid a report is about, 0 if it is not known
  Waits,            \* seconds a transaction may have lasted
  Spaces,           \* free bytes a process may have left
  Apps,             \* the processes whose uid is not below APP_MIN_UID
  MIN_WAIT_NUM,
  FREE_ASYNC_MAX,
  MaxLines          \* bound: the lines of the table

INIT_PID == 1
individualMaxSize == 2
Pids == {t.pid : t \in Threads}

(* Who serves a transaction: a thread, or none yet. *)
Servers == Threads \cup [pid : Untaken, tid : {0}]

ASSUME BinderChainAssumption ==
  /\ IsFiniteSet(Threads)
  /\ \A t \in Threads : {t.pid, t.tid} \subseteq Nat \ {0}
  /\ Self \in Pids
  /\ Untaken \cup Apps \subseteq Pids
  /\ EventTids \cup Waits \cup Spaces \subseteq Nat
  /\ {MIN_WAIT_NUM, FREE_ASYNC_MAX, MaxLines} \subseteq Nat

VARIABLES
  isBinderMatchup,      \* the line "context" was met
  manager,              \* manager: the transactions, by client process
  asyncBinderMap,       \* how many asynchronous transactions to a process
  freeAsyncSpacePairs,  \* the processes short of space: <<pid, space>>
  lines,                \* how many lines were read
  eventTid,             \* the tid the report is about
  phase,                \* "read", "search", "kill" or "end"
  syncPids, asyncPids, terminalBinder,    \* what GetBinderPeerPids found
  todo,                 \* the transactions the search has still to look at
  reported,             \* what was found was put into the report
  peer,                 \* the line the second parser ended at, if any
  killed                \* the process that was killed, if any

table == <<isBinderMatchup, manager, asyncBinderMap, freeAsyncSpacePairs>>
found == <<syncPids, asyncPids, terminalBinder>>
chainVars == <<table, lines, eventTid, phase, found, todo, reported, peer, killed>>

NoThread == [pid |-> -1, tid |-> -1]

(* All synchronous transactions of the table. *)
Transactions == UNION {Range(manager[p]) : p \in Pids}

-----------------------------------------------------------------------------
(* BinderInfoLineParser, by the kind of the line. *)
ReadLine ==
  /\ phase = "read"
  /\ lines < MaxLines
  /\ lines' = lines + 1
  /\ UNCHANGED <<eventTid, phase, found, todo, reported, peer, killed>>

SyncLine(client, server, wait) ==
  /\ ReadLine
  /\ ~isBinderMatchup
  /\ client.pid # server.pid
  /\ \A t \in Transactions : t.client # client
  /\ manager' = [manager EXCEPT ![client.pid] =
       Append(@, [client |-> client, server |-> server, wait |-> wait])]
  /\ UNCHANGED <<isBinderMatchup, asyncBinderMap, freeAsyncSpacePairs>>

(* Only those that no thread has taken up yet (tid 0) count. *)
AsyncLine(pid, taken) ==
  /\ ReadLine
  /\ ~isBinderMatchup
  /\ asyncBinderMap' = [asyncBinderMap EXCEPT ![pid] =
                          IF taken THEN @ ELSE @ + 1]
  /\ UNCHANGED <<isBinderMatchup, manager, freeAsyncSpacePairs>>

ContextLine ==
  /\ ReadLine
  /\ isBinderMatchup' = TRUE
  /\ UNCHANGED <<manager, asyncBinderMap, freeAsyncSpacePairs>>

SpaceLine(pid, space) ==
  /\ ReadLine
  /\ isBinderMatchup
  /\ freeAsyncSpacePairs' =
       IF space < FREE_ASYNC_MAX
       THEN Append(freeAsyncSpacePairs, <<pid, space>>)
       ELSE freeAsyncSpacePairs
  /\ UNCHANGED <<isBinderMatchup, manager, asyncBinderMap>>

-----------------------------------------------------------------------------
(* All orders of a set: std::sort leaves equals in any. *)
Orders(S) == Injection(1 .. Cardinality(S), S)

Space(i) == freeAsyncSpacePairs[i][2]
Loaded == {p \in Pids : asyncBinderMap[p] > 0}
First(s) == {s[i] : i \in DOMAIN s \cap 1 .. individualMaxSize}

(* Those with the least space and those with the most transactions. *)
BinderInfoParser ==
  \E s \in Orders(DOMAIN freeAsyncSpacePairs), a \in Orders(Loaded) :
    /\ \A i, j \in DOMAIN s : i < j => Space(s[i]) <= Space(s[j])
    /\ \A i, j \in DOMAIN a : i < j => asyncBinderMap[a[i]] >= asyncBinderMap[a[j]]
    /\ asyncPids' = {freeAsyncSpacePairs[i][1] : i \in First(s)} \cup First(a)

-----------------------------------------------------------------------------
(* The thread a report is about: the main thread when it is not known. *)
Event == [pid |-> Self, tid |-> IF eventTid > 0 THEN eventTid ELSE Self]

(* What a call of ParseBinderCallChain for a process has to look at: the
   process's transactions, in their order. *)
LinesOf(pid, getTerminal) ==
  [i \in DOMAIN manager[pid] |->
     [line |-> manager[pid][i], getTerminal |-> getTerminal]]

GetBinderPeerPids ==
  /\ BinderInfoParser
  /\ todo' = LinesOf(Self, TRUE)

(* The table is read to its end; nothing is looked for in an oversea version
   or if the file cannot be read. *)
GetBinderInfoString(tid) ==
  /\ phase = "read"
  /\ eventTid' = tid
  /\ \/ phase' = "search" /\ GetBinderPeerPids
     \/ phase' = "kill" /\ UNCHANGED <<asyncPids, todo>>
  /\ UNCHANGED <<table, lines, syncPids, terminalBinder, reported, peer, killed>>

\* mutant of Deep: every client thread is taken for the event's
DeepForAny(next) == next.getTerminal

(* The call for the server's process that looks for the end of the chain: for
   a line of the event's thread or of the last end found. *)
Deep(next) == next.getTerminal /\ next.line.client \in {Event, terminalBinder}

\* mutant of BehindServer: the processes behind a server are left out
BehindDeepOnly(next) ==
  IF Deep(next) THEN LinesOf(next.line.server.pid, TRUE) ELSE <<>>

(* What the calls for the server's process have to look at. *)
BehindServer(next) ==
  LET pid == next.line.server.pid
  IN (IF Deep(next) THEN LinesOf(pid, TRUE) ELSE <<>>) \o LinesOf(pid, FALSE)

(* One turn of a loop of ParseBinderCallChain, which calls itself: todo is
   what the calls under way have still to look at, the innermost first. *)
VisitLine ==
  /\ phase = "search"
  /\ todo # <<>>
  /\ LET next == Head(todo)
         server == next.line.server
     IN IF server.pid \in syncPids
        THEN todo' = Tail(todo) /\ UNCHANGED found
        ELSE /\ syncPids' = syncPids \cup {server.pid}
             /\ terminalBinder' = IF Deep(next) THEN server ELSE terminalBinder
             /\ todo' = BehindServer(next) \o Tail(todo)
             /\ UNCHANGED asyncPids
  /\ UNCHANGED <<table, lines, eventTid, phase, reported, peer, killed>>

(* The outermost call returns, and what it found goes into the report. *)
ReportChain ==
  /\ phase = "search"
  /\ todo = <<>>
  /\ phase' = "kill"
  /\ reported' = TRUE
  /\ UNCHANGED <<table, lines, eventTid, found, todo, peer, killed>>

-----------------------------------------------------------------------------
(* A line of the table as it is read for the kill.  An old one was there at
   the first reading and has lasted on. *)
LineNow == [client : Pids, server : Pids, wait : Waits, old : BOOLEAN]

InTable(line) ==
  /\ line.client # line.server
  /\ line.old => \E t \in Transactions :
       /\ t.client.pid = line.client /\ t.server.pid = line.server
       /\ t.wait <= line.wait

\* mutant of ParsePeerBinderPid: whoever waits long is taken
PeerOfAnyone(line) ==
  /\ phase = "kill"
  /\ peer = {}
  /\ InTable(line)
  /\ line.wait >= MIN_WAIT_NUM
  /\ peer' = {line}
  /\ UNCHANGED <<table, lines, eventTid, phase, found, todo, reported, killed>>

(* The first line of this process that has waited enough ends the parsing. *)
ParsePeerBinderPid(line) ==
  /\ phase = "kill"
  /\ peer = {}
  /\ InTable(line)
  /\ line.client = Self
  /\ line.wait >= MIN_WAIT_NUM
  /\ peer' = {line}
  /\ UNCHANGED <<table, lines, eventTid, phase, found, todo, reported, killed>>

(* kill() may fail; then, and in the other cases, this process exits. *)
KillProcessByPid ==
  /\ phase = "kill"
  /\ phase' = "end"
  /\ \/ UNCHANGED killed
     \/ \E pid \in {line.server : line \in peer} \cap Apps :
          pid > INIT_PID /\ pid # Self /\ killed' = {pid}
  /\ UNCHANGED <<table, lines, eventTid, found, todo, reported, peer>>

-----------------------------------------------------------------------------
ChainInit ==
  /\ isBinderMatchup = FALSE
  /\ manager = [p \in Pids |-> <<>>]
  /\ asyncBinderMap = [p \in Pids |-> 0]
  /\ freeAsyncSpacePairs = <<>>
  /\ lines = 0
  /\ eventTid = 0
  /\ phase = "read"
  /\ syncPids = {}
  /\ asyncPids = {}
  /\ terminalBinder = NoThread
  /\ todo = <<>>
  /\ reported = FALSE
  /\ peer = {}
  /\ killed = {}

ChainNext ==
  \/ \E c \in Threads, s \in Servers, w \in Waits : SyncLine(c, s, w)
  \/ \E p \in Pids, taken \in BOOLEAN : AsyncLine(p, taken)
  \/ ContextLine
  \/ \E p \in Pids, n \in Spaces : SpaceLine(p, n)
  \/ \E tid \in EventTids : GetBinderInfoString(tid)
  \/ VisitLine
  \/ ReportChain
  \/ \E line \in LineNow : ParsePeerBinderPid(line)
  \/ KillProcessByPid

ChainSpec == ChainInit /\ [][ChainNext]_chainVars

-----------------------------------------------------------------------------
(* The nodes that R leads to from x, in one step or more: the least set that
   no edge from x or from the set itself leaves. *)
Reached(R, x, nodes) ==
  {b \in nodes : \A S \in SUBSET nodes :
     (\A e \in R : e[1] \in S \cup {x} => e[2] \in S) => b \in S}

WaitsFor        == {<<t.client, t.server>> : t \in Transactions}
ProcessWaitsFor == {<<t.client.pid, t.server.pid>> : t \in Transactions}

Behind(thread) == Reached(WaitsFor, thread, Servers)
BehindPid(pid) == Reached(ProcessWaitsFor, pid, Pids)

(* The report names exactly the processes that this one waits for, directly
   or through others: the search, which shares one set of processes between
   its two passes, ends in a cycle and misses nobody. *)
SyncPidsExact ==
  reported => syncPids = BehindPid(Self)

(* No process is awaited by two threads, or by itself through others. *)
ChainsApart ==
  /\ \A t, u \in Transactions : t.server.pid = u.server.pid => t = u
  /\ \A p \in Pids : p \notin BehindPid(p)

(* No process has two threads that wait. *)
OneWaiterEach ==
  \A t, u \in Transactions : t.client.pid = u.client.pid => t = u

(* terminalBinder is a thread the event's thread waits for.  If the chains of
   waiting threads do not meet, it is the one that waits for nobody; if every
   process has one waiting thread at most, it waits for nobody or its process
   is part of a cycle.  (Otherwise a process met on the way of another thread hides the
   rest of the chain.) *)
TerminalIsLast ==
  reported =>
    LET waits == \E t \in Transactions : t.client = terminalBinder IN
    /\ terminalBinder \in Behind(Event) \cup {NoThread}
    /\ Behind(Event) # {} /\ (ChainsApart \/ OneWaiterEach)
         => terminalBinder # NoThread
    /\ ChainsApart => ~waits
    /\ OneWaiterEach =>
         (waits => terminalBinder.pid \in BehindPid(terminalBinder.pid))

(* Who is left out of asyncPids has no less space than two lines about those
   who are named, or no more transactions than two of them; and nobody is named
   who is neither short of space nor has transactions. *)
WorstNamed ==
  phase = "search" \/ reported =>
    LET short == DOMAIN freeAsyncSpacePairs
        named == {i \in short : freeAsyncSpacePairs[i][1] \in asyncPids}
    IN /\ \A i \in short \ named : \E j, k \in named :
            j # k /\ Space(j) <= Space(i) /\ Space(k) <= Space(i)
       /\ \A p \in Loaded \ asyncPids : \E q, r \in Loaded \cap asyncPids :
            /\ q # r /\ asyncBinderMap[q] >= asyncBinderMap[p]
            /\ asyncBinderMap[r] >= asyncBinderMap[p]
       /\ \A p \in asyncPids :
            p \in Loaded \/ \E i \in named : freeAsyncSpacePairs[i][1] = p

(* The process killed in place of this one has kept it waiting when the table
   is read for the kill; and the report, made from an earlier table with another
   parser, names it unless the transaction has begun since. *)
VictimIsAwaited ==
  \A p \in killed : \E line \in peer :
    /\ p = line.server /\ p # Self
    /\ line.client = Self /\ line.wait >= MIN_WAIT_NUM
    /\ line.old /\ reported => p \in syncPids

=============================================================================
