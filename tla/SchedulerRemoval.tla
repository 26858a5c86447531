-------------------------- MODULE SchedulerRemoval --------------------------
(***************************************************************************)
(* WatchdogScheduler with the names that were removed kept in mind, as its *)
(* callers do: a removal that finds nothing changes nothing in the         *)
(* scheduler, but its caller takes the task for removed.                   *)
(***************************************************************************)
EXTENDS WatchdogScheduler

VARIABLE removed      \* history: the names removed, and not taken again since

Registered(n) ==
  \E t \in checkerQueue' : t.key > keys /\ t.name = n /\ ~isOneshotTask(t)

RemovalInit == Init /\ removed = {}

RemovalNext ==
  \/ \E n \in UserNames : RemoveInnerTask(n) /\ removed' = removed \cup {n}
  \/ /\ Next
     /\ \A n \in UserNames : ~RemoveInnerTask(n)
     /\ removed' = {n \in removed : ~Registered(n)}

RemovalSpec == RemovalInit /\ [][RemovalNext]_<<vars, removed>>

(* What watchdog.h says of RemovePeriodicalTask, that it removes the task: no
   periodic task of the name waits for its next run, until one is given to the
   scheduler again. *)
RemovalIsFinal ==
  \A t \in checkerQueue : t.checkInterval # 0 => t.name \notin removed

=============================================================================
