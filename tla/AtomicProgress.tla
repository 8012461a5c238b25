--------------------------- MODULE AtomicProgress ---------------------------
(***************************************************************************)
(* What checkpointing promises a training run: one saved position that a   *)
(* save replaces atomically and every start continues from, and a          *)
(* deliverable that only a run at its last step produces.                  *)
(***************************************************************************)
EXTENDS Integers

CONSTANT NumSteps

VARIABLES
  at,         \* steps done by the running process, -1 when there is none
  saved,      \* the position a start continues from
  delivered   \* whether the final checkpoint exists

vars == <<at, saved, delivered>>

Init == at = -1 /\ saved = 0 /\ delivered = FALSE

Begin == at = -1 /\ at' = saved /\ UNCHANGED <<saved, delivered>>

Advance == at \in 0..(NumSteps - 1) /\ at' = at + 1 /\ UNCHANGED <<saved, delivered>>

\* A save may be the process's last act.
Save == at >= saved /\ saved' = at /\ at' \in {at, -1} /\ UNCHANGED delivered

Deliver == at = NumSteps /\ delivered' = TRUE /\ UNCHANGED <<at, saved>>

\* A stop or a crash loses what was not saved.
End == at # -1 /\ at' = -1 /\ UNCHANGED <<saved, delivered>>

Next == Begin \/ Advance \/ Save \/ Deliver \/ End

Spec == Init /\ [][Next]_vars
=============================================================================
