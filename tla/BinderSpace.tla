---------------------------- MODULE BinderSpace ----------------------------
(***************************************************************************)
(* The asynchronous-binder-space task: at every tick the watchdog thread   *)
(* reads how full the buffer for one-way calls is and counts the looks in  *)
(* a row that find it too full.  At half of binderSpaceFullCount it warns: *)
(* it calls the task's callback and, under XCOLLIE_FLAG_LOG, reports an    *)
(* event; at the count it does so again and may end the process, and at a  *)
(* multiple of it it ends the process in any case and counts anew.         *)
(*                                                                         *)
(* A tick that is too late is skipped and leaves everything as it is.      *)
(***************************************************************************)
EXTENDS Integers

CONSTANTS
  BINDER_SPACE_FULL_MIN_COUNT,
  BINDER_SPACE_FULL_MAX_COUNT,
  BINDER_SPACE_FULL_WARNING_MULTIPLE,
  TotalSize         \* of the buffer; one half is for one-way calls

BinderSpaceAssumption ==
  /\ BINDER_SPACE_FULL_MIN_COUNT \in Nat \ {0, 1}
  /\ BINDER_SPACE_FULL_MAX_COUNT \in Nat
  /\ BINDER_SPACE_FULL_WARNING_MULTIPLE \in Nat \ {0, 1}
  /\ TotalSize \in Nat \ {0}

ASYNC_BINDER_SPACE_NUM == 2
BINDER_SPACE_FULL_COUNT_HALF == 2

Counts == BINDER_SPACE_FULL_MIN_COUNT .. BINDER_SPACE_FULL_MAX_COUNT

VARIABLES
  binderTask,       \* the arguments of AsyncBinderSpaceFull, and the process
  reportCount,      \* reportCount
  oneWayFreeSize,   \* what IPCSkeleton::GetMemoryUsage would say
  clogged,          \* nobody frees the buffer any more
  fate,             \* "alive", "peer" when a peer was killed, or "dead"
  looks,            \* history: looks in a row that found it too full
  warned            \* history: was anybody told at half of the count?

vars == <<binderTask, reportCount, oneWayFreeSize, clogged, fate, looks, warned>>

(* func: it has a callback; log: XCOLLIE_FLAG_LOG; recovery:
   XCOLLIE_FLAG_RECOVERY. *)
BinderTask == [count : Counts, func : BOOLEAN, log : BOOLEAN,
               recovery : BOOLEAN, debug : BOOLEAN, foundation : BOOLEAN]

FullCount == binderTask.count
LastCount == FullCount * BINDER_SPACE_FULL_WARNING_MULTIPLE

-----------------------------------------------------------------------------
(* A reading that fails counts as enough space. *)
IsBinderSpaceInsufficient(ok) ==
  ok /\ (TotalSize - oneWayFreeSize * ASYNC_BINDER_SPACE_NUM) * 100
          >= 80 * TotalSize

(* foundation kills a peer instead of itself when it finds one, and a process
   under debug does not exit. *)
KillPeerBinderProcess ==
  \/ binderTask.foundation /\ fate' = "peer"
  \/ binderTask.debug /\ fate' = fate
  \/ ~binderTask.debug /\ fate' = "dead"

\* mutant of Sufficient: the count is kept
SufficientKeepsCount == UNCHANGED <<reportCount, fate>>

Sufficient == reportCount' = 0 /\ UNCHANGED fate

(* The callback is called, an event is sent, or, for a task that has neither
   a callback nor XCOLLIE_FLAG_LOG, nobody learns of it. *)
Warns == binderTask.func \/ binderTask.log

(* The looks at which nothing ends: the warning, the report to a process
   that has its own callback, and those in between. *)
HarmlessLook ==
  /\ \/ reportCount + 1 = FullCount \div BINDER_SPACE_FULL_COUNT_HALF
     \/ /\ reportCount + 1 = FullCount
        /\ binderTask.func /\ ~binderTask.recovery
     \/ /\ reportCount + 1 # FullCount
        /\ reportCount + 1 < LastCount
  /\ reportCount' = reportCount + 1
  /\ UNCHANGED fate

FullLook ==
  /\ reportCount + 1 = FullCount
  /\ ~binderTask.func \/ binderTask.recovery
  /\ reportCount' = reportCount + 1
  /\ KillPeerBinderProcess

\* mutant of LastLook: the count reaches its multiple and nothing follows
LastLookLogs ==
  /\ reportCount + 1 >= LastCount
  /\ reportCount' = 0
  /\ UNCHANGED fate

LastLook ==
  /\ reportCount + 1 >= LastCount
  /\ reportCount' = 0
  /\ KillPeerBinderProcess

(* Run() of the task; ok is whether GetMemoryUsage succeeds, which it does in
   a process whose buffer is clogged. *)
AsyncBinderSpace(ok) ==
  /\ fate # "dead"
  /\ clogged => ok
  /\ \/ /\ ~IsBinderSpaceInsufficient(ok)
        /\ Sufficient
        /\ looks' = 0
        /\ warned' = FALSE
     \/ /\ IsBinderSpaceInsufficient(ok)
        /\ HarmlessLook \/ FullLook \/ LastLook
        /\ looks' = IF looks < LastCount THEN looks + 1 ELSE looks
        /\ warned' =
             \/ warned
             \/ Warns /\ reportCount + 1 = FullCount \div BINDER_SPACE_FULL_COUNT_HALF
  /\ UNCHANGED <<binderTask, oneWayFreeSize, clogged>>

-----------------------------------------------------------------------------
(* The peers of this process fill the buffer and its threads empty it. *)
UseBuffer ==
  /\ fate # "dead"
  /\ ~clogged
  /\ oneWayFreeSize' \in 0 .. TotalSize \div ASYNC_BINDER_SPACE_NUM
  /\ UNCHANGED <<binderTask, reportCount, clogged, fate, looks, warned>>

Clog ==
  /\ fate # "dead"
  /\ IsBinderSpaceInsufficient(TRUE)
  /\ clogged' = TRUE
  /\ UNCHANGED <<binderTask, reportCount, oneWayFreeSize, fate, looks, warned>>

Init ==
  /\ binderTask \in BinderTask
  /\ reportCount = 0
  /\ oneWayFreeSize = TotalSize \div ASYNC_BINDER_SPACE_NUM
  /\ clogged = FALSE
  /\ fate = "alive"
  /\ looks = 0
  /\ warned = FALSE

Look == \E ok \in BOOLEAN : AsyncBinderSpace(ok)

Next == Look \/ UseBuffer \/ Clog

Spec == Init /\ [][Next]_vars

-----------------------------------------------------------------------------

(* AsyncBinderSpace ends a process, or has a peer killed, only when the
   buffer was too full at every one of its last count looks, and when one of
   these warned, if the task has anybody to warn; a task with a callback and
   no XCOLLIE_FLAG_RECOVERY has the whole multiple of that.  A task with
   neither a callback nor XCOLLIE_FLAG_LOG ends the process unannounced. *)
KillEarned ==
  [][fate' # fate =>
       /\ Warns => warned'
       /\ looks' >= IF binderTask.func /\ ~binderTask.recovery
                    THEN LastCount ELSE FullCount]_vars

(* A buffer that stays clogged ends the process or one of its peers, whatever
   the flags and though the count begins anew after its multiple. *)
CloggedKills == (clogged /\ ~binderTask.debug) ~> fate # "alive"

=============================================================================
