------------------------------ MODULE MCLocks ------------------------------
(* Three threads with the lock levels of the simulator's busiest callers. *)
EXTENDS Locks

Levels(config, job, node, part, fed) == <<config, job, node, part, fed>>

\* _schedule; purge and time limits; state save; partition update
MCRequests ==
  {Levels(READ_LOCK, WRITE_LOCK, WRITE_LOCK, READ_LOCK, READ_LOCK),
   Levels(NO_LOCK, READ_LOCK, READ_LOCK, READ_LOCK, NO_LOCK),
   Levels(NO_LOCK, WRITE_LOCK, READ_LOCK, WRITE_LOCK, NO_LOCK)}
============================================================================
