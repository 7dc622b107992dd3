----------------------------- MODULE MCBackfill -----------------------------
(* Model checking instances of Backfill.                                     *)
EXTENDS Backfill

(* A wide job, a small short one, a small long one that accepts less, and a  *)
(* small one that gets no reservation.                                       *)
SmallShapes ==
  {[min_nodes |-> 2, time_limit |-> 1, time_min |-> 0, no_reserve |-> FALSE],
   [min_nodes |-> 1, time_limit |-> 2, time_min |-> 0, no_reserve |-> FALSE],
   [min_nodes |-> 1, time_limit |-> 2, time_min |-> 1, no_reserve |-> FALSE],
   [min_nodes |-> 1, time_limit |-> 1, time_min |-> 0, no_reserve |-> TRUE]}

=============================================================================
