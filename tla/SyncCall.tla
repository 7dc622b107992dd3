------------------------------ MODULE SyncCall ------------------------------
(***************************************************************************)
(* What do_backfill promises the helper-cycle handler: a synchronous call. *)
(* The agent serves the call once, after it was made and before it         *)
(* returns, and never works when there is no call.                         *)
(***************************************************************************)
VARIABLE phase

Init == phase = "idle"

Call == phase = "idle" /\ phase' = "called"

Serve == phase = "called" /\ phase' = "serving"

Finish == phase = "serving" /\ phase' = "served"

Return == phase = "served" /\ phase' = "idle"

Next == Call \/ Serve \/ Finish \/ Return

Spec == Init /\ [][Next]_phase

=============================================================================
