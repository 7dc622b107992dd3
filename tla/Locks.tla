------------------------------- MODULE Locks -------------------------------
(***************************************************************************)
(* The reader/writer locks on slurmctld's data (src/slurmctld/locks.c).    *)
(* Every RPC handler, the background loop and the scheduling plugins ask   *)
(* for a level on each of five entities with lock_slurmctld, which takes   *)
(* them in a fixed order, and give them back with unlock_slurmctld.        *)
(*                                                                         *)
(* locks_mutex makes each pass over the counters of one entity atomic: it  *)
(* is an action.  A thread that cannot have the lock sleeps on locks_cond  *)
(* and tests again after the next broadcast.                               *)
(***************************************************************************)
EXTENDS Integers, FiniteSets

CONSTANTS
  Threads,   \* threads of slurmctld
  Requests   \* the lock_levels they pass

\* lock_level_t and lock_datatype_t, in the order of the enums
NO_LOCK == 0
READ_LOCK == 1
WRITE_LOCK == 2
CONFIG_LOCK == 1
JOB_LOCK == 2
NODE_LOCK == 3
PART_LOCK == 4
FED_LOCK == 5
Entities == CONFIG_LOCK..FED_LOCK
LockLevels == [Entities -> {NO_LOCK, READ_LOCK, WRITE_LOCK}]

ASSUME LocksAssumption ==
  /\ IsFiniteSet(Threads)
  /\ Requests \subseteq LockLevels
  /\ \A lv \in Requests : \E d \in Entities : lv[d] # NO_LOCK

VARIABLES
  read_lock,       \* slurmctld_locks.entity: readers of each entity,
  write_lock,      \* ... writers,
  write_wait_lock, \* ... and writers that wait
  pc,              \* where each thread is in lock_slurmctld/unlock_slurmctld
  thread_locks,    \* the levels it passed
  taken            \* the entities it has at this point

counters == <<read_lock, write_lock, write_wait_lock>>
vars == <<read_lock, write_lock, write_wait_lock, pc, thread_locks, taken>>

Places == {"idle", "locking", "asleep", "awake", "held", "unlocking"}

Init ==
  /\ read_lock = [d \in Entities |-> 0]
  /\ write_lock = [d \in Entities |-> 0]
  /\ write_wait_lock = [d \in Entities |-> 0]
  /\ pc = [t \in Threads |-> "idle"]
  /\ thread_locks = [t \in Threads |-> [d \in Entities |-> NO_LOCK]]
  /\ taken = [t \in Threads |-> {}]

Needed(t) == {d \in Entities : thread_locks[t][d] # NO_LOCK}
Missing(t) == Needed(t) \ taken[t]

\* lock_slurmctld goes from config to federation,
NextToLock_ReadsFirst(t, d) ==
  /\ d \in Missing(t)
  /\ \A e \in Missing(t) : 5 * thread_locks[t][d] + d <= 5 * thread_locks[t][e] + e
NextToLock(t, d) == d \in Missing(t) /\ \A e \in Missing(t) : d <= e

\* unlock_slurmctld back from federation to config
NextToUnlock(t, d) == d \in taken[t] /\ \A e \in taken[t] : e <= d

Grant(t, d) ==
  /\ taken' = [taken EXCEPT ![t] = @ \union {d}]
  /\ pc' = [pc EXCEPT ![t] = IF Missing(t) = {d} THEN "held" ELSE "locking"]

Sleep(t) ==
  /\ pc' = [pc EXCEPT ![t] = "asleep"]
  /\ UNCHANGED taken

LockCall(t, lv) ==
  /\ pc[t] = "idle"
  /\ pc' = [pc EXCEPT ![t] = "locking"]
  /\ thread_locks' = [thread_locks EXCEPT ![t] = lv]
  /\ UNCHANGED <<counters, taken>>

\* _wr_rdlock: no writer, and no writer waiting
FreeForReading_NoWait(d) == write_lock[d] = 0
FreeForReading(d) == write_lock[d] = 0 /\ write_wait_lock[d] = 0

RdLock(t, d) ==
  /\ pc[t] \in {"locking", "awake"}
  /\ NextToLock(t, d)
  /\ thread_locks[t][d] = READ_LOCK
  /\ \/ /\ FreeForReading(d)
        /\ read_lock' = [read_lock EXCEPT ![d] = @ + 1]
        /\ Grant(t, d)
     \/ /\ ~FreeForReading(d)
        /\ Sleep(t)
        /\ UNCHANGED read_lock
  /\ UNCHANGED <<write_lock, write_wait_lock, thread_locks>>

\* _wr_wrlock: the thread counts as waiting from its first test on
FreeForWriting_Readers(d) == write_lock[d] = 0
FreeForWriting(d) == read_lock[d] = 0 /\ write_lock[d] = 0

WrLock_KeepsWaiting(t, d) ==
  /\ pc[t] \in {"locking", "awake"}
  /\ NextToLock(t, d)
  /\ thread_locks[t][d] = WRITE_LOCK
  /\ \/ /\ FreeForWriting(d)
        /\ write_lock' = [write_lock EXCEPT ![d] = @ + 1]
        /\ Grant(t, d)
        /\ UNCHANGED write_wait_lock
     \/ /\ ~FreeForWriting(d) /\ pc[t] = "locking"
        /\ write_wait_lock' = [write_wait_lock EXCEPT ![d] = @ + 1]
        /\ Sleep(t)
        /\ UNCHANGED write_lock
  /\ UNCHANGED <<read_lock, thread_locks>>

WrLock(t, d) ==
  /\ pc[t] \in {"locking", "awake"}
  /\ NextToLock(t, d)
  /\ thread_locks[t][d] = WRITE_LOCK
  /\ \/ /\ FreeForWriting(d)
        /\ write_lock' = [write_lock EXCEPT ![d] = @ + 1]
        /\ write_wait_lock' =
             [write_wait_lock EXCEPT ![d] = IF pc[t] = "awake" THEN @ - 1 ELSE @]
        /\ Grant(t, d)
     \/ /\ ~FreeForWriting(d)
        /\ write_wait_lock' =
             [write_wait_lock EXCEPT ![d] = IF pc[t] = "awake" THEN @ ELSE @ + 1]
        /\ Sleep(t)
        /\ UNCHANGED write_lock
  /\ UNCHANGED <<read_lock, thread_locks>>

UnlockCall(t) ==
  /\ pc[t] = "held"
  /\ pc' = [pc EXCEPT ![t] = "unlocking"]
  /\ UNCHANGED <<counters, thread_locks, taken>>

\* slurm_cond_broadcast(&locks_cond), and the thread's next place
Broadcast_None(t, here) == [pc EXCEPT ![t] = here]
Broadcast(t, here) ==
  [u \in Threads |-> IF u = t THEN here
                     ELSE IF pc[u] = "asleep" THEN "awake" ELSE pc[u]]

GiveBack(t, d) ==
  /\ taken' = [taken EXCEPT ![t] = @ \ {d}]
  /\ pc' = Broadcast(t, IF taken[t] = {d} THEN "idle" ELSE "unlocking")

RdUnlock_Twice(t, d) ==
  /\ pc[t] = "unlocking"
  /\ NextToUnlock(t, d)
  /\ thread_locks[t][d] = READ_LOCK
  /\ read_lock' = [read_lock EXCEPT ![d] = @ - 2]
  /\ GiveBack(t, d)
  /\ UNCHANGED <<write_lock, write_wait_lock, thread_locks>>

RdUnlock(t, d) ==
  /\ pc[t] = "unlocking"
  /\ NextToUnlock(t, d)
  /\ thread_locks[t][d] = READ_LOCK
  /\ read_lock' = [read_lock EXCEPT ![d] = @ - 1]
  /\ GiveBack(t, d)
  /\ UNCHANGED <<write_lock, write_wait_lock, thread_locks>>

WrUnlock(t, d) ==
  /\ pc[t] = "unlocking"
  /\ NextToUnlock(t, d)
  /\ thread_locks[t][d] = WRITE_LOCK
  /\ write_lock' = [write_lock EXCEPT ![d] = @ - 1]
  /\ GiveBack(t, d)
  /\ UNCHANGED <<read_lock, write_wait_lock, thread_locks>>

NewCall == \E t \in Threads, lv \in Requests : LockCall(t, lv)

\* What a thread does until its call returns, and the holder until it is done
Step(t) ==
  \/ \E d \in Entities :
       RdLock(t, d) \/ WrLock(t, d) \/ RdUnlock(t, d) \/ WrUnlock(t, d)
  \/ UnlockCall(t)

Next == NewCall \/ \E t \in Threads : Step(t)

Spec == Init /\ [][Next]_vars

\* Every thread runs, and nobody keeps the locks for ever.  Nobody has to ask.
FairSpec == Spec /\ \A t \in Threads : WF_vars(Step(t))

----------------------------------------------------------------------------
\* Who has and who waits for an entity, read off the threads

Readers(d) == {t \in Threads : d \in taken[t] /\ thread_locks[t][d] = READ_LOCK}
Writers(d) == {t \in Threads : d \in taken[t] /\ thread_locks[t][d] = WRITE_LOCK}
Waiting(t) == pc[t] \in {"asleep", "awake"}
WaitingWriters(d) ==
  {t \in Threads : Waiting(t) /\ NextToLock(t, d) /\ thread_locks[t][d] = WRITE_LOCK}

\* The counters are counters: no unlock takes one below zero, which the
\* xasserts of _wr_rdunlock and _wr_wrunlock demand.
TypeOK ==
  /\ read_lock \in [Entities -> Nat]
  /\ write_lock \in [Entities -> Nat]
  /\ write_wait_lock \in [Entities -> Nat]
  /\ pc \in [Threads -> Places]
  /\ thread_locks \in [Threads -> LockLevels]
  /\ taken \in [Threads -> SUBSET Entities]

\* Reader/writer exclusion, of the threads and not of the counters: a thread
\* that has an entity for writing is alone on it (the while loops of _wr_rdlock
\* and _wr_wrlock test only the counters).
Exclusion ==
  \A d \in Entities : \A t \in Writers(d) :
    \A u \in Readers(d) \union Writers(d) : u = t

\* No thread sleeps while it could have the lock: every step of locks.c that
\* can make a test of _wr_rdlock or _wr_wrlock succeed broadcasts.
NoLostWakeup ==
  \A t \in Threads : \A d \in Entities :
    pc[t] = "asleep" /\ NextToLock(t, d) =>
      IF thread_locks[t][d] = READ_LOCK THEN ~FreeForReading(d)
                                        ELSE ~FreeForWriting(d)

\* "lock_slurmctld() and unlock_slurmctld() to get the ordering so as to
\* prevent deadlock" (locks.h): whenever a thread sleeps, some other thread can
\* run: one that holds entities, or that is on its way to test again.
SomeoneRuns ==
  (\E t \in Threads : pc[t] = "asleep") =>
    \E u \in Threads : pc[u] \in {"locking", "awake", "held", "unlocking"}

\* "Readers cannot lock the resource until there are no writers waiting for the
\* resource" (locks.h): no step adds a reader to an entity a writer waits for.
WritersFirst ==
  [][\A d \in Entities : WaitingWriters(d) # {} => Readers(d)' \subseteq Readers(d)]_vars

\* Every lock_slurmctld call returns once the threads stop making new ones.
\* (While they go on a reader may starve, as the comment of _wr_rdlock says.)
EveryCallReturns ==
  <>[][~NewCall]_vars =>
    \A t \in Threads : Waiting(t) ~> pc[t] = "held"
============================================================================
