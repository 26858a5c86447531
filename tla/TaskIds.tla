------------------------------ MODULE TaskIds ------------------------------
(***************************************************************************)
(* The ids of tasks, which SetTimer hands to its callers for CancelTimer.  *)
(* WatchdogTask's constructors take them from the plain static curId, with *)
(* id = ++curId: a load and a store.  The public calls construct under     *)
(* lock_; the samplers, StartSample and the trace session construct first  *)
(* and take lock_ afterwards.  This module has the counter and its two     *)
(* kinds of users alone; WatchdogScheduler rests on no property of ids.    *)
(***************************************************************************)
EXTENDS Integers

CONSTANTS
  Users,            \* threads that set and cancel timers
  Samplers,         \* threads that start a sampling or trace task
  NoOne,            \* lock_ is free
  MaxId             \* bound: constructions

Threads == Users \cup Samplers

VARIABLES
  curId,
  lock,             \* who holds lock_
  pc,               \* where a thread is in the construction of its task
  reg,              \* what it loaded from curId, then the id of its task
  checkerQueue,     \* [id, owner], of timers and of other tasks
  timer             \* the id SetTimer returned to a user, 0 if none

vars == <<curId, lock, pc, reg, checkerQueue, timer>>

(* RunXCollieTask, up to its construction: it takes lock_ first. *)
SetTimer(u) ==
  /\ pc[u] = "idle"
  /\ timer[u] = 0
  /\ lock = NoOne
  /\ lock' = u
  /\ pc' = [pc EXCEPT ![u] = "load"]
  /\ UNCHANGED <<curId, reg, checkerQueue, timer>>

(* The tasks of the samplers are constructed without lock_. *)
StartTask(s) ==
  /\ pc[s] = "idle"
  /\ pc' = [pc EXCEPT ![s] = "load"]
  /\ UNCHANGED <<curId, lock, reg, checkerQueue, timer>>

(* id = ++curId *)
Load(p) ==
  /\ pc[p] = "load"
  /\ pc' = [pc EXCEPT ![p] = "store"]
  /\ reg' = [reg EXCEPT ![p] = curId]
  /\ UNCHANGED <<curId, lock, checkerQueue, timer>>

Store(p) ==
  /\ pc[p] = "store"
  /\ curId < MaxId
  /\ pc' = [pc EXCEPT ![p] = "insert"]
  /\ curId' = reg[p] + 1
  /\ reg' = [reg EXCEPT ![p] = @ + 1]
  /\ UNCHANGED <<lock, checkerQueue, timer>>

(* The insertion of a timer, by the holder of lock_, and its return. *)
InsertTimer(u) ==
  /\ pc[u] = "insert"
  /\ pc' = [pc EXCEPT ![u] = "idle"]
  /\ checkerQueue' = checkerQueue \cup {[id |-> reg[u], owner |-> u]}
  /\ timer' = [timer EXCEPT ![u] = reg[u]]
  /\ lock' = NoOne
  /\ UNCHANGED <<curId, reg>>

(* The insertion of another task, which is refused while its name exists. *)
InsertTask(s) ==
  /\ pc[s] = "insert"
  /\ lock = NoOne
  /\ pc' = [pc EXCEPT ![s] = "idle"]
  /\ checkerQueue' = IF \E t \in checkerQueue : t.owner = s THEN checkerQueue
                     ELSE checkerQueue \cup {[id |-> reg[s], owner |-> s]}
  /\ UNCHANGED <<curId, lock, reg, timer>>

(* CancelTimer: tasks without a timeout are passed over. *)
RemoveXCollieTask(u) ==
  /\ pc[u] = "idle"
  /\ timer[u] # 0
  /\ lock = NoOne
  /\ checkerQueue' =
       {t \in checkerQueue : t.id # timer[u] \/ t.owner \in Samplers}
  /\ timer' = [timer EXCEPT ![u] = 0]
  /\ UNCHANGED <<curId, lock, pc, reg>>

(* The watchdog thread takes a timer to run it, or drops a finished task. *)
FetchNextTask(t) ==
  /\ lock = NoOne
  /\ checkerQueue' = checkerQueue \ {t}
  /\ UNCHANGED <<curId, lock, pc, reg, timer>>

Init ==
  /\ curId = 0
  /\ lock = NoOne
  /\ pc = [p \in Threads |-> "idle"]
  /\ reg = [p \in Threads |-> 0]
  /\ checkerQueue = {}
  /\ timer = [u \in Users |-> 0]

Next ==
  \/ \E u \in Users : SetTimer(u) \/ InsertTimer(u) \/ RemoveXCollieTask(u)
  \/ \E s \in Samplers : StartTask(s) \/ InsertTask(s)
  \/ \E p \in Threads : Load(p) \/ Store(p)
  \/ \E t \in checkerQueue : FetchNextTask(t)

Spec == Init /\ [][Next]_vars

-----------------------------------------------------------------------------
(* What xcollie.h says of CancelTimer: it cancels the timer whose id SetTimer
   returned, and so no timer of another caller. *)
CancelHitsOwn ==
  [][\A u \in Users : RemoveXCollieTask(u) =>
       \A t \in checkerQueue \ checkerQueue' : t.owner = u]_vars

=============================================================================
