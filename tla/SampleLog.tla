----------------------------- MODULE SampleLog ------------------------------
(***************************************************************************)
(* What the thread sampler promises to the samplers that use it: the list  *)
(* of stacks of a session is a queue's output: the snapshots taken since   *)
(* the session began, first taken first unwound, none torn, repeated or    *)
(* left out between two others.                                            *)
(***************************************************************************)
EXTENDS Naturals, Sequences

VARIABLES
  taken,    \* how many snapshots were taken so far
  base,     \* how many when the session began
  list      \* the snapshots unwound in this session, by number

Init == taken = 0 /\ base = 0 /\ list = <<>>

Take == taken' = taken + 1 /\ UNCHANGED <<base, list>>

Unwind ==
  /\ base + Len(list) < taken
  /\ list' = Append(list, base + Len(list) + 1)
  /\ UNCHANGED <<taken, base>>

NewSession == base' = taken /\ list' = <<>> /\ UNCHANGED taken

Next == Take \/ Unwind \/ NewSession

Spec == Init /\ [][Next]_<<taken, base, list>>

=============================================================================
