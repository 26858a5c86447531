---------------------------- MODULE TimerService ----------------------------
(***************************************************************************)
(* What the callers of SetTimer, CancelTimer and RunOneShotTask are        *)
(* promised.  A timer that was accepted waits until one of four things     *)
(* happens to it: it fires, once and not before its time; its id is        *)
(* cancelled; it is removed by its name; or the service is stopped, after  *)
(* which nothing fires.  There is no thread, no queue and no sleep here.   *)
(* Nothing is said of the ids: who shares one is cancelled with the other. *)
(***************************************************************************)
EXTENDS Integers

CONSTANT Names

VARIABLES
  now,
  taken,       \* how many requests were made
  waiting,     \* the accepted timers that have not left: records with an id,
               \* a name, the moment they are due, and as key the number of
               \* their request
  fired,       \* keys
  cancelled,   \* keys
  stopped

vars == <<now, taken, waiting, fired, cancelled, stopped>>

Init ==
  /\ now = 0
  /\ taken = 0
  /\ waiting = {}
  /\ fired = {}
  /\ cancelled = {}
  /\ stopped = FALSE

Set(t) ==
  /\ t.key = taken + 1
  /\ taken' = t.key
  /\ waiting' = waiting \cup {t}
  /\ UNCHANGED <<now, fired, cancelled, stopped>>

(* Refused, or not a timer. *)
Refuse ==
  /\ taken' = taken + 1
  /\ UNCHANGED <<now, waiting, fired, cancelled, stopped>>

Cancel(S) ==
  /\ S \subseteq waiting
  /\ \A t, u \in S : t.id = u.id
  /\ waiting' = waiting \ S
  /\ cancelled' = cancelled \cup {t.key : t \in S}
  /\ UNCHANGED <<now, taken, fired, stopped>>

Remove(n) ==
  /\ waiting' = {t \in waiting : t.name # n}
  /\ UNCHANGED <<now, taken, fired, cancelled, stopped>>

Fire(t) ==
  /\ ~stopped
  /\ t \in waiting
  /\ t.key \notin fired \cup cancelled
  /\ t.due <= now
  /\ waiting' = waiting \ {t}
  /\ fired' = fired \cup {t.key}
  /\ UNCHANGED <<now, taken, cancelled, stopped>>

Stop ==
  /\ stopped' = TRUE
  /\ UNCHANGED <<now, taken, waiting, fired, cancelled>>

Discard ==
  /\ stopped
  /\ waiting' = {}
  /\ UNCHANGED <<now, taken, fired, cancelled, stopped>>

Tick ==
  /\ now' = now + 1
  /\ UNCHANGED <<taken, waiting, fired, cancelled, stopped>>

(* Any new timer may be set: a timer that was set is in waiting'. *)
Next ==
  \/ \E t \in waiting' : Set(t)
  \/ Refuse
  \/ \E S \in SUBSET waiting : Cancel(S)
  \/ \E t \in waiting : Fire(t)
  \/ \E n \in Names : Remove(n)
  \/ Stop
  \/ Discard
  \/ Tick

Spec == Init /\ [][Next]_vars

=============================================================================
