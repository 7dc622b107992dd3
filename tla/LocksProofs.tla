---------------------------- MODULE LocksProofs ----------------------------
(***************************************************************************)
(* Proofs about Locks for any finite set of threads and any lock levels:   *)
(* exclusion, no lost wakeup, no deadlock, and writers first.              *)
(***************************************************************************)
EXTENDS Locks, FiniteSetTheorems, TLAPS

\* Each counter of slurmctld_locks counts the threads it is about.
Counted ==
  \A d \in Entities :
    /\ read_lock[d] = Cardinality(Readers(d))
    /\ write_lock[d] = Cardinality(Writers(d))
    /\ write_wait_lock[d] = Cardinality(WaitingWriters(d))

\* What a thread has taken at each place of lock_slurmctld/unlock_slurmctld:
\* on the way in, a first part of what it needs in the fixed order.
PlaceInv ==
  \A t \in Threads :
    /\ taken[t] \subseteq Needed(t)
    /\ pc[t] = "idle" => taken[t] = {}
    /\ pc[t] \in {"locking", "asleep", "awake"} =>
         /\ Missing(t) # {}
         /\ \A e \in taken[t], f \in Missing(t) : e < f
    /\ pc[t] = "held" => Missing(t) = {} /\ taken[t] # {}
    /\ pc[t] = "unlocking" => taken[t] # {}

LocksInv == TypeOK /\ PlaceInv /\ Counted /\ Exclusion /\ NoLostWakeup

\* Adding a thread to a set of threads adds one to its size; taking one away
\* takes one off.  The counters of locks.c go up and down in the same way.
LEMMA ThreadCounts ==
  ASSUME NEW S \in SUBSET Threads, NEW t \in Threads
  PROVE  /\ IsFiniteSet(S) /\ Cardinality(S) \in Nat
         /\ t \notin S => Cardinality(S \union {t}) = Cardinality(S) + 1
         /\ t \in S => Cardinality(S \ {t}) = Cardinality(S) - 1
         /\ Cardinality(S) = 0 <=> S = {}
PROOF
<1>1. IsFiniteSet(S) /\ Cardinality(S) \in Nat
  BY LocksAssumption, FS_Subset, FS_CardinalityType
<1>2. t \notin S => Cardinality(S \union {t}) = Cardinality(S) + 1
  BY <1>1, FS_AddElement, Zenon
<1>3. t \in S => Cardinality(S \ {t}) = Cardinality(S) - 1
  BY <1>1, FS_RemoveElement, Zenon
<1>4. Cardinality(S) = 0 <=> S = {}
  BY <1>1, FS_EmptySet
<1> QED
  BY <1>1, <1>2, <1>3, <1>4

\* Readers, Writers and WaitingWriters are sets of threads.
LEMMA ThreadSets ==
  ASSUME NEW d
  PROVE  /\ Readers(d) \in SUBSET Threads
         /\ Writers(d) \in SUBSET Threads
         /\ WaitingWriters(d) \in SUBSET Threads
PROOF BY DEF Readers, Writers, WaitingWriters

\* The free tests of _wr_rdlock and _wr_wrlock look at counters; what they
\* say of the threads.
LEMMA FreeMeansNobody ==
  ASSUME TypeOK, Counted, NEW d \in Entities
  PROVE  /\ FreeForReading(d) <=> Writers(d) = {} /\ WaitingWriters(d) = {}
         /\ FreeForWriting(d) <=> Readers(d) = {} /\ Writers(d) = {}
PROOF
<1>1. /\ read_lock[d] = Cardinality(Readers(d))
      /\ write_lock[d] = Cardinality(Writers(d))
      /\ write_wait_lock[d] = Cardinality(WaitingWriters(d))
  BY DEF Counted
<1>2. CASE Threads = {}
  <2>1. Readers(d) = {} /\ Writers(d) = {} /\ WaitingWriters(d) = {}
    BY <1>2 DEF Readers, Writers, WaitingWriters
  <2> QED
    BY <1>1, <2>1, FS_EmptySet DEF FreeForReading, FreeForWriting
<1>3. CASE Threads # {}
  <2>1. PICK t \in Threads : TRUE
    BY <1>3
  <2>2. Cardinality(Readers(d)) = 0 <=> Readers(d) = {}
    BY <2>1, ThreadSets, ThreadCounts, Zenon
  <2>3. Cardinality(Writers(d)) = 0 <=> Writers(d) = {}
    BY <2>1, ThreadSets, ThreadCounts, Zenon
  <2>4. Cardinality(WaitingWriters(d)) = 0 <=> WaitingWriters(d) = {}
    BY <2>1, ThreadSets, ThreadCounts, Zenon
  <2> QED
    BY <1>1, <2>2, <2>3, <2>4 DEF FreeForReading, FreeForWriting
<1> QED
  BY <1>2, <1>3

\* The order of lock_slurmctld leaves one entity to ask for next.
LEMMA NextIsUnique ==
  ASSUME NEW t \in Threads, NEW d \in Entities, NEW e \in Entities,
         NextToLock(t, d), NextToLock(t, e)
  PROVE  d = e
PROOF BY DEF NextToLock, Entities, CONFIG_LOCK, FED_LOCK, Missing, Needed

\* A step of one thread leaves what the others need and miss alone.
LEMMA OthersKeepTheirPlace ==
  ASSUME NEW t \in Threads, NEW u \in Threads, u # t, TypeOK,
         NEW X, taken' = [taken EXCEPT ![t] = X], thread_locks' = thread_locks
  PROVE  /\ taken'[u] = taken[u]
         /\ Needed(u)' = Needed(u)
         /\ Missing(u)' = Missing(u)
         /\ \A e \in Entities : NextToLock(u, e)' <=> NextToLock(u, e)
PROOF
<1>1. taken'[u] = taken[u]
  BY DEF TypeOK
<1>2. Needed(u)' = Needed(u)
  BY DEF Needed
<1>3. Missing(u)' = Missing(u)
  BY <1>1, <1>2 DEF Missing
<1> QED
  BY <1>1, <1>2, <1>3 DEF NextToLock

\* A granted lock: the thread is one more reader or writer of that entity, and
\* no longer a waiting writer of any.
LEMMA GrantEffect ==
  ASSUME TypeOK, PlaceInv, NEW t \in Threads, NEW d \in Entities,
         pc[t] \in {"locking", "awake"}, NextToLock(t, d), Grant(t, d),
         thread_locks' = thread_locks
  PROVE  /\ \A e \in Entities :
              /\ Readers(e)' = IF e = d /\ thread_locks[t][d] = READ_LOCK
                               THEN Readers(e) \union {t} ELSE Readers(e)
              /\ Writers(e)' = IF e = d /\ thread_locks[t][d] = WRITE_LOCK
                               THEN Writers(e) \union {t} ELSE Writers(e)
              /\ WaitingWriters(e)' = WaitingWriters(e) \ {t}
         /\ t \notin Readers(d) /\ t \notin Writers(d)
         /\ PlaceInv'
         /\ pc' \in [Threads -> Places] /\ taken' \in [Threads -> SUBSET Entities]
PROOF
<1>1. /\ pc' = [pc EXCEPT ![t] = IF Missing(t) = {d} THEN "held" ELSE "locking"]
      /\ taken' = [taken EXCEPT ![t] = taken[t] \union {d}]
  BY DEF Grant
<1>2. pc' \in [Threads -> Places] /\ taken' \in [Threads -> SUBSET Entities]
  BY <1>1 DEF TypeOK, Places
<1>3. taken'[t] = taken[t] \union {d} /\ d \notin taken[t] /\ d \in Needed(t)
  BY <1>1 DEF TypeOK, NextToLock, Missing
<1>4. ASSUME NEW u \in Threads, u # t
      PROVE  /\ taken'[u] = taken[u] /\ pc'[u] = pc[u]
             /\ Needed(u)' = Needed(u) /\ Missing(u)' = Missing(u)
             /\ \A e \in Entities : NextToLock(u, e)' <=> NextToLock(u, e)
  BY <1>1, <1>4, OthersKeepTheirPlace, Zenon DEF TypeOK
<1>5. /\ Needed(t)' = Needed(t)
      /\ Missing(t)' = Missing(t) \ {d}
  BY <1>3 DEF Needed, Missing
<1>6. pc'[t] \in {"held", "locking"}
  BY <1>1 DEF TypeOK
<1>7. ASSUME NEW e \in Entities
      PROVE  /\ Readers(e)' = IF e = d /\ thread_locks[t][d] = READ_LOCK
                              THEN Readers(e) \union {t} ELSE Readers(e)
             /\ Writers(e)' = IF e = d /\ thread_locks[t][d] = WRITE_LOCK
                              THEN Writers(e) \union {t} ELSE Writers(e)
  BY <1>3, <1>4 DEF Readers, Writers
<1>8. ASSUME NEW e \in Entities
      PROVE  WaitingWriters(e)' = WaitingWriters(e) \ {t}
  BY <1>4, <1>6 DEF WaitingWriters, Waiting
<1>9. PlaceInv'
  <2> SUFFICES ASSUME NEW u \in Threads
               PROVE  (/\ taken[u] \subseteq Needed(u)
                       /\ pc[u] = "idle" => taken[u] = {}
                       /\ pc[u] \in {"locking", "asleep", "awake"} =>
                            /\ Missing(u) # {}
                            /\ \A e \in taken[u], f \in Missing(u) : e < f
                       /\ pc[u] = "held" => Missing(u) = {} /\ taken[u] # {}
                       /\ pc[u] = "unlocking" => taken[u] # {})'
    BY DEF PlaceInv
  <2>1. CASE u # t
    BY <1>4, <2>1 DEF PlaceInv
  <2>2. CASE u = t
    <3>1. \A f \in Missing(t) \ {d} : d < f
      BY DEF NextToLock, Missing, Needed, Entities, CONFIG_LOCK, FED_LOCK
    <3>2. \A e \in taken[t], f \in Missing(t) : e < f
      BY DEF PlaceInv
    <3>3. \A e \in taken'[t], f \in Missing(t)' : e < f
      BY <1>3, <1>5, <3>1, <3>2
    <3>4. Missing(t) = {d} => pc'[t] = "held"
      BY <1>1 DEF TypeOK
    <3>5. Missing(t) # {d} => pc'[t] = "locking" /\ Missing(t)' # {}
      BY <1>1, <1>5 DEF TypeOK, NextToLock
    <3>6. taken'[t] \subseteq Needed(t)'
      BY <1>3, <1>5 DEF PlaceInv
    <3>7. taken'[t] # {}
      BY <1>3
    <3> QED
      BY <1>5, <2>2, <3>3, <3>4, <3>5, <3>6, <3>7
  <2> QED
    BY <2>1, <2>2
<1>10. t \notin Readers(d) /\ t \notin Writers(d)
  BY <1>3 DEF Readers, Writers
<1> QED
  BY <1>2, <1>7, <1>8, <1>9, <1>10

\* A lock given back: one reader or writer of that entity less, no waiting
\* writer lost, and everybody who slept is awake.
LEMMA GiveBackEffect ==
  ASSUME TypeOK, PlaceInv, NEW t \in Threads, NEW d \in Entities,
         pc[t] = "unlocking", NextToUnlock(t, d), GiveBack(t, d),
         thread_locks' = thread_locks
  PROVE  /\ \A e \in Entities :
              /\ Readers(e)' = IF e = d THEN Readers(e) \ {t} ELSE Readers(e)
              /\ Writers(e)' = IF e = d THEN Writers(e) \ {t} ELSE Writers(e)
              /\ WaitingWriters(e)' = WaitingWriters(e)
         /\ \A u \in Threads : pc'[u] # "asleep"
         /\ PlaceInv'
         /\ pc' \in [Threads -> Places] /\ taken' \in [Threads -> SUBSET Entities]
PROOF
<1> DEFINE here == IF taken[t] = {d} THEN "idle" ELSE "unlocking"
<1>1. /\ taken' = [taken EXCEPT ![t] = taken[t] \ {d}]
      /\ pc' = [u \in Threads |-> IF u = t THEN here
                                  ELSE IF pc[u] = "asleep" THEN "awake" ELSE pc[u]]
  BY DEF GiveBack, Broadcast
<1>2. pc' \in [Threads -> Places] /\ taken' \in [Threads -> SUBSET Entities]
  BY <1>1 DEF TypeOK, Places
<1>3. taken'[t] = taken[t] \ {d} /\ pc'[t] = here
  BY <1>1 DEF TypeOK
<1>4. ASSUME NEW u \in Threads, u # t
      PROVE  /\ taken'[u] = taken[u]
             /\ pc'[u] = IF pc[u] = "asleep" THEN "awake" ELSE pc[u]
             /\ Needed(u)' = Needed(u) /\ Missing(u)' = Missing(u)
             /\ \A e \in Entities : NextToLock(u, e)' <=> NextToLock(u, e)
  BY <1>1, <1>4, OthersKeepTheirPlace, Zenon
<1>5. ASSUME NEW e \in Entities
      PROVE  /\ Readers(e)' = IF e = d THEN Readers(e) \ {t} ELSE Readers(e)
             /\ Writers(e)' = IF e = d THEN Writers(e) \ {t} ELSE Writers(e)
  BY <1>3, <1>4 DEF Readers, Writers
<1>6. ASSUME NEW e \in Entities
      PROVE  WaitingWriters(e)' = WaitingWriters(e)
  BY <1>3, <1>4 DEF WaitingWriters, Waiting
<1>7. \A u \in Threads : pc'[u] # "asleep"
  BY <1>1 DEF TypeOK
<1>8. PlaceInv'
  <2> SUFFICES ASSUME NEW u \in Threads
               PROVE  (/\ taken[u] \subseteq Needed(u)
                       /\ pc[u] = "idle" => taken[u] = {}
                       /\ pc[u] \in {"locking", "asleep", "awake"} =>
                            /\ Missing(u) # {}
                            /\ \A e \in taken[u], f \in Missing(u) : e < f
                       /\ pc[u] = "held" => Missing(u) = {} /\ taken[u] # {}
                       /\ pc[u] = "unlocking" => taken[u] # {})'
    BY DEF PlaceInv
  <2>1. CASE u # t
    BY <1>4, <2>1 DEF PlaceInv
  <2>2. CASE u = t
    <3>1. Needed(t)' = Needed(t)
      BY DEF Needed
    <3>2. taken'[t] \subseteq Needed(t)'
      BY <1>3, <3>1 DEF PlaceInv
    <3>3. taken[t] # {d} => taken'[t] # {}
      BY <1>3 DEF NextToUnlock
    <3>4. taken[t] = {d} => taken'[t] = {}
      BY <1>3
    <3> QED
      BY <1>3, <2>2, <3>2, <3>3, <3>4
  <2> QED
    BY <2>1, <2>2
<1> QED
  BY <1>2, <1>5, <1>6, <1>7, <1>8

\* A thread that only moves on (a call, a sleep) keeps what it has.  Whether it
\* counts as a waiting writer is all that can change in the sets of threads.
LEMMA MoveEffect ==
  ASSUME TypeOK, PlaceInv, NEW t \in Threads, NEW p \in Places,
         pc' = [pc EXCEPT ![t] = p], taken' = taken, thread_locks' = thread_locks
  PROVE  /\ \A e \in Entities :
              /\ Readers(e)' = Readers(e)
              /\ Writers(e)' = Writers(e)
              /\ WaitingWriters(e)' =
                   IF p \in {"asleep", "awake"} /\ NextToLock(t, e)
                      /\ thread_locks[t][e] = WRITE_LOCK
                   THEN WaitingWriters(e) \union {t} ELSE WaitingWriters(e) \ {t}
         /\ pc' \in [Threads -> Places]
         /\ \A u \in Threads : u # t => pc'[u] = pc[u]
         /\ pc'[t] = p
         /\ \A u \in Threads : /\ Needed(u)' = Needed(u) /\ Missing(u)' = Missing(u)
                               /\ \A e \in Entities : NextToLock(u, e)' <=> NextToLock(u, e)
PROOF
<1>1. /\ pc' \in [Threads -> Places]
      /\ \A u \in Threads : u # t => pc'[u] = pc[u]
      /\ pc'[t] = p
  BY DEF TypeOK
<1>2. ASSUME NEW u \in Threads
      PROVE  /\ Needed(u)' = Needed(u) /\ Missing(u)' = Missing(u)
             /\ \A e \in Entities : NextToLock(u, e)' <=> NextToLock(u, e)
  BY DEF Needed, Missing, NextToLock
<1>3. ASSUME NEW e \in Entities
      PROVE  Readers(e)' = Readers(e) /\ Writers(e)' = Writers(e)
  BY DEF Readers, Writers
<1>4. ASSUME NEW e \in Entities
      PROVE  WaitingWriters(e)' =
               IF p \in {"asleep", "awake"} /\ NextToLock(t, e)
                  /\ thread_locks[t][e] = WRITE_LOCK
               THEN WaitingWriters(e) \union {t} ELSE WaitingWriters(e) \ {t}
  BY <1>1, <1>2 DEF WaitingWriters, Waiting
<1> QED
  BY <1>1, <1>2, <1>3, <1>4

\* Exclusion from what the holders become: nothing is added, or a reader is
\* added where nobody writes, or a writer where nobody is.
LEMMA ExclusionKept ==
  ASSUME Exclusion, NEW t \in Threads, NEW d \in Entities,
         \A e \in Entities \ {d} :
           Readers(e)' \subseteq Readers(e) /\ Writers(e)' \subseteq Writers(e),
         \/ Readers(d)' \subseteq Readers(d) /\ Writers(d)' \subseteq Writers(d)
         \/ Writers(d)' = {}
         \/ Readers(d)' = {} /\ Writers(d)' = {t}
  PROVE  Exclusion'
PROOF BY DEF Exclusion

\* _wr_rdlock keeps the invariant.
LEMMA RdLockKeeps ==
  ASSUME LocksInv, NEW t \in Threads, NEW d \in Entities, RdLock(t, d)
  PROVE  LocksInv'
PROOF
<1> USE DEF LocksInv
<1>1. /\ pc[t] \in {"locking", "awake"} /\ NextToLock(t, d)
      /\ thread_locks[t][d] = READ_LOCK /\ thread_locks' = thread_locks
      /\ write_lock' = write_lock /\ write_wait_lock' = write_wait_lock
  BY DEF RdLock
<1>2. t \notin WaitingWriters(d)
  BY <1>1 DEF WaitingWriters, READ_LOCK, WRITE_LOCK
<1>3. \A e \in Entities : t \notin WaitingWriters(e)
  BY <1>1, <1>2, NextIsUnique DEF WaitingWriters
<1>4. CASE /\ FreeForReading(d) /\ Grant(t, d)
           /\ read_lock' = [read_lock EXCEPT ![d] = @ + 1]
  <2>1. /\ \A e \in Entities :
             /\ Readers(e)' = IF e = d THEN Readers(e) \union {t} ELSE Readers(e)
             /\ Writers(e)' = Writers(e)
             /\ WaitingWriters(e)' = WaitingWriters(e)
        /\ t \notin Readers(d)
        /\ PlaceInv'
        /\ pc' \in [Threads -> Places] /\ taken' \in [Threads -> SUBSET Entities]
    <3>1. /\ \A e \in Entities :
               /\ Readers(e)' = IF e = d /\ thread_locks[t][d] = READ_LOCK
                                THEN Readers(e) \union {t} ELSE Readers(e)
               /\ Writers(e)' = IF e = d /\ thread_locks[t][d] = WRITE_LOCK
                                THEN Writers(e) \union {t} ELSE Writers(e)
               /\ WaitingWriters(e)' = WaitingWriters(e) \ {t}
          /\ t \notin Readers(d) /\ PlaceInv'
          /\ pc' \in [Threads -> Places] /\ taken' \in [Threads -> SUBSET Entities]
      BY <1>1, <1>4, GrantEffect
    <3>2. \A e \in Entities : WaitingWriters(e) \ {t} = WaitingWriters(e)
      BY <1>3
    <3>3. thread_locks[t][d] = READ_LOCK /\ thread_locks[t][d] # WRITE_LOCK
      BY <1>1 DEF READ_LOCK, WRITE_LOCK
    <3>4. ASSUME NEW e \in Entities
          PROVE  /\ Readers(e)' = IF e = d THEN Readers(e) \union {t} ELSE Readers(e)
                 /\ Writers(e)' = Writers(e)
                 /\ WaitingWriters(e)' = WaitingWriters(e)
      BY <3>1, <3>2, <3>3, Zenon
    <3> QED
      BY <3>1, <3>4
  <2>2. TypeOK'
    BY <1>1, <1>4, <2>1 DEF TypeOK
  <2>3. Counted'
    <3>1. Cardinality(Readers(d) \union {t}) = Cardinality(Readers(d)) + 1
      BY <2>1, ThreadSets, ThreadCounts
    <3> QED
      BY <1>1, <1>4, <2>1, <3>1, Zenon DEF Counted, TypeOK
  <2>4. Exclusion'
    <3>1. Writers(d)' = {}
      BY <1>4, <2>1, FreeMeansNobody
    <3> QED
      BY <2>1, <3>1, ExclusionKept
  <2>5. NoLostWakeup'
    <3>1. ASSUME NEW u \in Threads, NEW e \in Entities, (pc[u] = "asleep" /\ NextToLock(u, e))'
          PROVE  u # t /\ pc[u] = "asleep" /\ NextToLock(u, e)
      BY <1>1, <1>4, <3>1, OthersKeepTheirPlace, Zenon DEF Grant, TypeOK
    <3>2. ASSUME NEW e \in Entities
          PROVE  /\ ~FreeForReading(e) => ~FreeForReading(e)'
                 /\ ~FreeForWriting(e) => ~FreeForWriting(e)'
      BY <1>1, <1>4 DEF FreeForReading, FreeForWriting, TypeOK
    <3> QED
      BY <1>1, <3>1, <3>2 DEF NoLostWakeup
  <2> QED
    BY <2>1, <2>2, <2>3, <2>4, <2>5
<1>5. CASE ~FreeForReading(d) /\ Sleep(t) /\ read_lock' = read_lock
  <2>1. pc' = [pc EXCEPT ![t] = "asleep"] /\ taken' = taken /\ "asleep" \in Places
    BY <1>5 DEF Sleep, Places
  <2>2. /\ \A e \in Entities :
             /\ Readers(e)' = Readers(e) /\ Writers(e)' = Writers(e)
             /\ WaitingWriters(e)' = WaitingWriters(e)
        /\ pc' \in [Threads -> Places]
        /\ \A u \in Threads : u # t => pc'[u] = pc[u]
        /\ pc'[t] = "asleep"
        /\ \A u \in Threads : /\ Needed(u)' = Needed(u) /\ Missing(u)' = Missing(u)
                              /\ \A e \in Entities : NextToLock(u, e)' <=> NextToLock(u, e)
    <3>1. \A e \in Entities : ~(NextToLock(t, e) /\ thread_locks[t][e] = WRITE_LOCK)
      BY <1>1, NextIsUnique DEF READ_LOCK, WRITE_LOCK
    <3>2. /\ \A e \in Entities :
               /\ Readers(e)' = Readers(e) /\ Writers(e)' = Writers(e)
               /\ WaitingWriters(e)' =
                    IF "asleep" \in {"asleep", "awake"} /\ NextToLock(t, e)
                       /\ thread_locks[t][e] = WRITE_LOCK
                    THEN WaitingWriters(e) \union {t} ELSE WaitingWriters(e) \ {t}
          /\ pc' \in [Threads -> Places]
          /\ \A u \in Threads : u # t => pc'[u] = pc[u]
          /\ pc'[t] = "asleep"
          /\ \A u \in Threads : /\ Needed(u)' = Needed(u) /\ Missing(u)' = Missing(u)
                                /\ \A e \in Entities : NextToLock(u, e)' <=> NextToLock(u, e)
      BY <1>1, <2>1, MoveEffect, Zenon
    <3>3. \A e \in Entities : WaitingWriters(e) \ {t} = WaitingWriters(e)
      BY <1>3
    <3> QED
      BY <3>1, <3>2, <3>3, Zenon
  <2>3. TypeOK'
    BY <1>1, <1>5, <2>1, <2>2 DEF TypeOK
  <2>4. PlaceInv'
    BY <1>1, <2>1, <2>2 DEF PlaceInv
  <2>5. Counted'
    BY <1>1, <1>5, <2>2 DEF Counted
  <2>6. Exclusion'
    BY <2>2, ExclusionKept
  <2>7. NoLostWakeup'
    <3>1. ASSUME NEW e \in Entities
          PROVE  /\ FreeForReading(e)' <=> FreeForReading(e)
                 /\ FreeForWriting(e)' <=> FreeForWriting(e)
      BY <1>1, <1>5 DEF FreeForReading, FreeForWriting
    <3>2. ASSUME NEW e \in Entities, NextToLock(t, e)'
          PROVE  e = d
      BY <1>1, <2>2, <3>2, NextIsUnique
    <3> QED
      BY <1>1, <1>5, <2>2, <3>1, <3>2 DEF NoLostWakeup
  <2> QED
    BY <2>3, <2>4, <2>5, <2>6, <2>7
<1> QED
  BY <1>4, <1>5 DEF RdLock

\* _wr_wrlock keeps the invariant.
LEMMA WrLockKeeps ==
  ASSUME LocksInv, NEW t \in Threads, NEW d \in Entities, WrLock(t, d)
  PROVE  LocksInv'
PROOF
<1> USE DEF LocksInv
<1>1. /\ pc[t] \in {"locking", "awake"} /\ NextToLock(t, d)
      /\ thread_locks[t][d] = WRITE_LOCK /\ thread_locks[t][d] # READ_LOCK
      /\ thread_locks' = thread_locks /\ read_lock' = read_lock
  BY DEF WrLock, READ_LOCK, WRITE_LOCK
<1>2. t \in WaitingWriters(d) <=> pc[t] = "awake"
  BY <1>1 DEF WaitingWriters, Waiting
<1>3. \A e \in Entities \ {d} : t \notin WaitingWriters(e)
  BY <1>1, NextIsUnique DEF WaitingWriters
<1>4. CASE /\ FreeForWriting(d) /\ Grant(t, d)
           /\ write_lock' = [write_lock EXCEPT ![d] = @ + 1]
           /\ write_wait_lock' =
                [write_wait_lock EXCEPT ![d] = IF pc[t] = "awake" THEN @ - 1 ELSE @]
  <2>1. /\ \A e \in Entities :
             /\ Readers(e)' = Readers(e)
             /\ Writers(e)' = IF e = d THEN Writers(e) \union {t} ELSE Writers(e)
             /\ WaitingWriters(e)' = WaitingWriters(e) \ {t}
        /\ t \notin Writers(d)
        /\ PlaceInv'
        /\ pc' \in [Threads -> Places] /\ taken' \in [Threads -> SUBSET Entities]
    <3>1. /\ \A e \in Entities :
               /\ Readers(e)' = IF e = d /\ thread_locks[t][d] = READ_LOCK
                                THEN Readers(e) \union {t} ELSE Readers(e)
               /\ Writers(e)' = IF e = d /\ thread_locks[t][d] = WRITE_LOCK
                                THEN Writers(e) \union {t} ELSE Writers(e)
               /\ WaitingWriters(e)' = WaitingWriters(e) \ {t}
          /\ t \notin Writers(d) /\ PlaceInv'
          /\ pc' \in [Threads -> Places] /\ taken' \in [Threads -> SUBSET Entities]
      BY <1>1, <1>4, GrantEffect
    <3>2. ASSUME NEW e \in Entities
          PROVE  /\ Readers(e)' = Readers(e)
                 /\ Writers(e)' = IF e = d THEN Writers(e) \union {t} ELSE Writers(e)
                 /\ WaitingWriters(e)' = WaitingWriters(e) \ {t}
      BY <1>1, <3>1
    <3> QED
      BY <3>1, <3>2
  <2>2. Counted'
    <3>1. Cardinality(Writers(d) \union {t}) = Cardinality(Writers(d)) + 1
      BY <2>1, ThreadSets, ThreadCounts
    <3>2. Cardinality(WaitingWriters(d) \ {t}) =
            IF pc[t] = "awake" THEN Cardinality(WaitingWriters(d)) - 1
                               ELSE Cardinality(WaitingWriters(d))
      <4>1. CASE pc[t] = "awake"
        BY <1>2, <4>1, ThreadSets, ThreadCounts
      <4>2. CASE pc[t] # "awake"
        <5>1. WaitingWriters(d) \ {t} = WaitingWriters(d)
          BY <1>2, <4>2
        <5> QED
          BY <4>2, <5>1
      <4> QED
        BY <4>1, <4>2
    <3>3. \A e \in Entities \ {d} : WaitingWriters(e) \ {t} = WaitingWriters(e)
      BY <1>3
    <3>4. ASSUME NEW e \in Entities PROVE read_lock'[e] = Cardinality(Readers(e)')
      BY <1>1, <2>1 DEF Counted
    <3>5. ASSUME NEW e \in Entities PROVE write_lock'[e] = Cardinality(Writers(e)')
      BY <1>4, <2>1, <3>1, Zenon DEF Counted, TypeOK
    <3>6. ASSUME NEW e \in Entities PROVE write_wait_lock'[e] = Cardinality(WaitingWriters(e)')
      BY <1>4, <2>1, <3>2, <3>3, Zenon DEF Counted, TypeOK
    <3> QED
      BY <3>4, <3>5, <3>6 DEF Counted
  <2>3. TypeOK'
    <3>1. Cardinality(WaitingWriters(d) \ {t}) \in Nat
      BY ThreadSets, ThreadCounts, Zenon
    <3>2. write_wait_lock'[d] \in Nat
      BY <2>1, <2>2, <3>1, Zenon DEF Counted
    <3> QED
      BY <1>1, <1>4, <2>1, <3>2 DEF TypeOK
  <2>4. Exclusion'
    <3>1. Readers(d)' = {} /\ Writers(d)' = {t}
      BY <1>4, <2>1, FreeMeansNobody
    <3> QED
      BY <2>1, <3>1, ExclusionKept
  <2>5. NoLostWakeup'
    <3>1. ASSUME NEW u \in Threads, NEW e \in Entities, (pc[u] = "asleep" /\ NextToLock(u, e))'
          PROVE  u # t /\ pc[u] = "asleep" /\ NextToLock(u, e)
      BY <1>1, <1>4, <3>1, OthersKeepTheirPlace, Zenon DEF Grant, TypeOK
    <3>2. ASSUME NEW e \in Entities
          PROVE  /\ ~FreeForReading(e) => ~FreeForReading(e)'
                 /\ ~FreeForWriting(e) => ~FreeForWriting(e)'
      <4>1. write_lock'[d] # 0
        BY <1>4 DEF TypeOK
      <4>2. CASE e = d
        BY <4>1, <4>2 DEF FreeForReading, FreeForWriting
      <4>3. CASE e # d
        BY <1>1, <1>4, <4>3 DEF FreeForReading, FreeForWriting, TypeOK
      <4> QED
        BY <4>2, <4>3
    <3> QED
      BY <1>1, <3>1, <3>2 DEF NoLostWakeup
  <2> QED
    BY <2>1, <2>2, <2>3, <2>4, <2>5
<1>5. CASE /\ ~FreeForWriting(d) /\ Sleep(t) /\ write_lock' = write_lock
           /\ write_wait_lock' =
                [write_wait_lock EXCEPT ![d] = IF pc[t] = "awake" THEN @ ELSE @ + 1]
  <2>1. pc' = [pc EXCEPT ![t] = "asleep"] /\ taken' = taken /\ "asleep" \in Places
    BY <1>5 DEF Sleep, Places
  <2>2. /\ \A e \in Entities :
             /\ Readers(e)' = Readers(e) /\ Writers(e)' = Writers(e)
             /\ WaitingWriters(e)' =
                  IF "asleep" \in {"asleep", "awake"} /\ NextToLock(t, e)
                     /\ thread_locks[t][e] = WRITE_LOCK
                  THEN WaitingWriters(e) \union {t} ELSE WaitingWriters(e) \ {t}
        /\ pc' \in [Threads -> Places]
        /\ \A u \in Threads : u # t => pc'[u] = pc[u]
        /\ pc'[t] = "asleep"
        /\ \A u \in Threads : /\ Needed(u)' = Needed(u) /\ Missing(u)' = Missing(u)
                              /\ \A e \in Entities : NextToLock(u, e)' <=> NextToLock(u, e)
    BY <1>1, <2>1, MoveEffect, Zenon
  <2>3. /\ WaitingWriters(d)' = WaitingWriters(d) \union {t}
        /\ \A e \in Entities \ {d} : WaitingWriters(e)' = WaitingWriters(e)
    <3>1. \A e \in Entities \ {d} : ~NextToLock(t, e)
      BY <1>1, NextIsUnique
    <3>2. \A e \in Entities \ {d} : WaitingWriters(e) \ {t} = WaitingWriters(e)
      BY <1>3
    <3> QED
      BY <1>1, <2>2, <3>1, <3>2
  <2>4. TypeOK'
    BY <1>1, <1>5, <2>1, <2>2 DEF TypeOK
  <2>5. PlaceInv'
    <3> SUFFICES ASSUME NEW u \in Threads
                 PROVE  /\ taken'[u] \subseteq Needed(u)'
                        /\ pc'[u] = "idle" => taken'[u] = {}
                        /\ pc'[u] \in {"locking", "asleep", "awake"} =>
                             /\ Missing(u)' # {}
                             /\ \A e \in taken'[u], f \in Missing(u)' : e < f
                        /\ pc'[u] = "held" => Missing(u)' = {} /\ taken'[u] # {}
                        /\ pc'[u] = "unlocking" => taken'[u] # {}
      BY DEF PlaceInv
    <3>1. taken'[u] = taken[u] /\ Needed(u)' = Needed(u) /\ Missing(u)' = Missing(u)
      BY <2>1, <2>2
    <3>2. CASE u # t
      <4>1. pc'[u] = pc[u]
        BY <3>2, <2>2
      <4> QED
        BY <3>1, <4>1 DEF PlaceInv
    <3>3. CASE u = t
      <4>1. pc'[u] = "asleep"
        BY <3>3, <2>2
      <4> QED
        BY <3>1, <3>3, <4>1, <1>1 DEF PlaceInv
    <3> QED
      BY <3>2, <3>3
  <2>6. Counted'
    <3>1. Cardinality(WaitingWriters(d) \union {t}) =
            IF pc[t] = "awake" THEN Cardinality(WaitingWriters(d))
                               ELSE Cardinality(WaitingWriters(d)) + 1
      <4>1. CASE pc[t] = "awake"
        <5>1. WaitingWriters(d) \union {t} = WaitingWriters(d)
          BY <1>2, <4>1
        <5> QED
          BY <4>1, <5>1
      <4>2. CASE pc[t] # "awake"
        BY <1>2, <4>2, ThreadSets, ThreadCounts
      <4> QED
        BY <4>1, <4>2
    <3>2. ASSUME NEW e \in Entities PROVE write_wait_lock'[e] = Cardinality(WaitingWriters(e)')
      BY <1>5, <2>3, <3>1, Zenon DEF Counted, TypeOK
    <3>3. ASSUME NEW e \in Entities
          PROVE  /\ read_lock'[e] = Cardinality(Readers(e)')
                 /\ write_lock'[e] = Cardinality(Writers(e)')
      BY <1>1, <1>5, <2>2 DEF Counted
    <3> QED
      BY <3>2, <3>3 DEF Counted
  <2>7. Exclusion'
    BY <2>2, ExclusionKept
  <2>8. NoLostWakeup'
    <3>1. ASSUME NEW e \in Entities
          PROVE  /\ ~FreeForReading(e) => ~FreeForReading(e)'
                 /\ ~FreeForWriting(e) => ~FreeForWriting(e)'
      BY <1>1, <1>5 DEF FreeForReading, FreeForWriting, TypeOK
    <3>2. ASSUME NEW e \in Entities, NextToLock(t, e)'
          PROVE  e = d
      BY <1>1, <2>2, <3>2, NextIsUnique
    <3> QED
      BY <1>1, <1>5, <2>2, <3>1, <3>2 DEF NoLostWakeup
  <2> QED
    BY <2>4, <2>5, <2>6, <2>7, <2>8
<1> QED
  BY <1>4, <1>5 DEF WrLock

\* _wr_rdunlock and _wr_wrunlock keep the invariant.
LEMMA UnlockKeeps ==
  ASSUME LocksInv, NEW t \in Threads, NEW d \in Entities,
         RdUnlock(t, d) \/ WrUnlock(t, d)
  PROVE  LocksInv'
PROOF
<1> USE DEF LocksInv
<1>1. /\ pc[t] = "unlocking" /\ NextToUnlock(t, d) /\ GiveBack(t, d)
      /\ thread_locks' = thread_locks /\ write_wait_lock' = write_wait_lock
  BY DEF RdUnlock, WrUnlock
<1>2. /\ \A e \in Entities :
           /\ Readers(e)' = IF e = d THEN Readers(e) \ {t} ELSE Readers(e)
           /\ Writers(e)' = IF e = d THEN Writers(e) \ {t} ELSE Writers(e)
           /\ WaitingWriters(e)' = WaitingWriters(e)
      /\ \A u \in Threads : pc'[u] # "asleep"
      /\ PlaceInv'
      /\ pc' \in [Threads -> Places] /\ taken' \in [Threads -> SUBSET Entities]
  BY <1>1, GiveBackEffect
<1>3. Exclusion'
  <2>1. \A e \in Entities : Readers(e)' \subseteq Readers(e) /\ Writers(e)' \subseteq Writers(e)
    BY <1>2
  <2> QED
    BY <2>1, ExclusionKept
<1>4. NoLostWakeup'
  BY <1>2 DEF NoLostWakeup
<1>5. CASE RdUnlock(t, d)
  <2>1. /\ thread_locks[t][d] = READ_LOCK /\ write_lock' = write_lock
        /\ read_lock' = [read_lock EXCEPT ![d] = @ - 1]
    BY <1>5 DEF RdUnlock
  <2>2. t \in Readers(d) /\ t \notin Writers(d)
    BY <1>1, <2>1 DEF Readers, Writers, NextToUnlock, READ_LOCK, WRITE_LOCK
  <2>3. /\ Cardinality(Readers(d) \ {t}) = Cardinality(Readers(d)) - 1
        /\ Cardinality(Readers(d) \ {t}) \in Nat
    BY <2>2, ThreadSets, ThreadCounts, Zenon
  <2>4. Writers(d) \ {t} = Writers(d)
    BY <2>2
  <2>5. ASSUME NEW e \in Entities PROVE read_lock'[e] = Cardinality(Readers(e)')
    BY <1>2, <2>1, <2>3, Zenon DEF Counted, TypeOK
  <2>6. ASSUME NEW e \in Entities
        PROVE  /\ write_lock'[e] = Cardinality(Writers(e)')
               /\ write_wait_lock'[e] = Cardinality(WaitingWriters(e)')
    BY <1>1, <1>2, <2>1, <2>4, Zenon DEF Counted
  <2>7. Counted'
    BY <2>5, <2>6 DEF Counted
  <2>8. read_lock'[d] \in Nat
    BY <1>2, <2>3, <2>5, Zenon
  <2>9. TypeOK'
    BY <1>1, <1>2, <2>1, <2>8 DEF TypeOK
  <2> QED
    BY <1>2, <1>3, <1>4, <2>7, <2>9
<1>6. CASE WrUnlock(t, d)
  <2>1. /\ thread_locks[t][d] = WRITE_LOCK /\ read_lock' = read_lock
        /\ write_lock' = [write_lock EXCEPT ![d] = @ - 1]
    BY <1>6 DEF WrUnlock
  <2>2. t \in Writers(d) /\ t \notin Readers(d)
    BY <1>1, <2>1 DEF Readers, Writers, NextToUnlock, READ_LOCK, WRITE_LOCK
  <2>3. /\ Cardinality(Writers(d) \ {t}) = Cardinality(Writers(d)) - 1
        /\ Cardinality(Writers(d) \ {t}) \in Nat
    BY <2>2, ThreadSets, ThreadCounts, Zenon
  <2>4. Readers(d) \ {t} = Readers(d)
    BY <2>2
  <2>5. ASSUME NEW e \in Entities PROVE write_lock'[e] = Cardinality(Writers(e)')
    BY <1>2, <2>1, <2>3, Zenon DEF Counted, TypeOK
  <2>6. ASSUME NEW e \in Entities
        PROVE  /\ read_lock'[e] = Cardinality(Readers(e)')
               /\ write_wait_lock'[e] = Cardinality(WaitingWriters(e)')
    BY <1>1, <1>2, <2>1, <2>4, Zenon DEF Counted
  <2>7. Counted'
    BY <2>5, <2>6 DEF Counted
  <2>8. write_lock'[d] \in Nat
    BY <1>2, <2>3, <2>5, Zenon
  <2>9. TypeOK'
    BY <1>1, <1>2, <2>1, <2>8 DEF TypeOK
  <2> QED
    BY <1>2, <1>3, <1>4, <2>7, <2>9
<1> QED
  BY <1>5, <1>6

\* The calls themselves: lock_slurmctld before its first test, and
\* unlock_slurmctld before it gives back the first entity.
LEMMA CallsKeep ==
  ASSUME LocksInv, NEW t \in Threads,
         UnlockCall(t) \/ \E lv \in Requests : LockCall(t, lv)
  PROVE  LocksInv'
PROOF
<1> USE DEF LocksInv
<1>1. CASE UnlockCall(t)
  <2>1. /\ pc[t] = "held" /\ pc' = [pc EXCEPT ![t] = "unlocking"] /\ taken' = taken
        /\ thread_locks' = thread_locks /\ read_lock' = read_lock
        /\ write_lock' = write_lock /\ write_wait_lock' = write_wait_lock
        /\ "unlocking" \in Places
    BY <1>1 DEF UnlockCall, counters, Places
  <2>2. /\ \A e \in Entities :
             /\ Readers(e)' = Readers(e) /\ Writers(e)' = Writers(e)
             /\ WaitingWriters(e)' =
                  IF "unlocking" \in {"asleep", "awake"} /\ NextToLock(t, e)
                     /\ thread_locks[t][e] = WRITE_LOCK
                  THEN WaitingWriters(e) \union {t} ELSE WaitingWriters(e) \ {t}
        /\ pc' \in [Threads -> Places]
        /\ \A u \in Threads : u # t => pc'[u] = pc[u]
        /\ pc'[t] = "unlocking"
        /\ \A u \in Threads : /\ Needed(u)' = Needed(u) /\ Missing(u)' = Missing(u)
                              /\ \A e \in Entities : NextToLock(u, e)' <=> NextToLock(u, e)
    BY <2>1, MoveEffect, Zenon
  <2>3. \A e \in Entities : WaitingWriters(e) \ {t} = WaitingWriters(e)
    BY <2>1 DEF WaitingWriters, Waiting
  <2>4. TypeOK'
    BY <2>1, <2>2 DEF TypeOK
  <2>5. Counted'
    BY <2>1, <2>2, <2>3, ZenonT(30) DEF Counted
  <2>6. Exclusion'
    <3>1. \A e \in Entities : Readers(e)' = Readers(e) /\ Writers(e)' = Writers(e)
      BY <2>2
    <3> QED
      BY <3>1 DEF Exclusion
  <2>7. NoLostWakeup'
    BY <2>1, <2>2 DEF NoLostWakeup, FreeForReading, FreeForWriting
  <2>8. taken[t] # {}
    BY <2>1 DEF PlaceInv
  <2>9. PlaceInv'
    <3> SUFFICES ASSUME NEW u \in Threads
                 PROVE  /\ taken'[u] \subseteq Needed(u)'
                        /\ pc'[u] = "idle" => taken'[u] = {}
                        /\ pc'[u] \in {"locking", "asleep", "awake"} =>
                             /\ Missing(u)' # {}
                             /\ \A e \in taken'[u], f \in Missing(u)' : e < f
                        /\ pc'[u] = "held" => Missing(u)' = {} /\ taken'[u] # {}
                        /\ pc'[u] = "unlocking" => taken'[u] # {}
      BY DEF PlaceInv
    <3>1. taken'[u] = taken[u] /\ Needed(u)' = Needed(u) /\ Missing(u)' = Missing(u)
      BY <2>1, <2>2, Zenon
    <3>2. CASE u # t
      <4>1. pc'[u] = pc[u]
        BY <3>2, <2>2
      <4> QED
        BY <3>1, <4>1 DEF PlaceInv
    <3>3. CASE u = t
      <4>1. pc'[u] = "unlocking"
        BY <3>3, <2>2
      <4> QED
        BY <3>1, <3>3, <4>1, <2>8 DEF PlaceInv
    <3> QED
      BY <3>2, <3>3, Zenon
  <2> QED
    BY <2>4, <2>5, <2>6, <2>7, <2>9
<1>2. ASSUME NEW lv \in Requests, LockCall(t, lv) PROVE LocksInv'
  <2>1. /\ pc[t] = "idle" /\ pc' = [pc EXCEPT ![t] = "locking"] /\ taken' = taken
        /\ thread_locks' = [thread_locks EXCEPT ![t] = lv] /\ read_lock' = read_lock
        /\ write_lock' = write_lock /\ write_wait_lock' = write_wait_lock
    BY <1>2 DEF LockCall, counters
  <2>2. taken[t] = {}
    BY <2>1 DEF PlaceInv
  <2>3. /\ lv \in LockLevels /\ \E d \in Entities : lv[d] # NO_LOCK
    BY LocksAssumption
  <2>4. /\ pc' \in [Threads -> Places] /\ thread_locks' \in [Threads -> LockLevels]
        /\ pc'[t] = "locking" /\ thread_locks'[t] = lv
    BY <2>1, <2>3 DEF TypeOK, Places
  <2>5. ASSUME NEW u \in Threads, u # t
        PROVE  /\ pc'[u] = pc[u] /\ thread_locks'[u] = thread_locks[u]
               /\ Needed(u)' = Needed(u) /\ Missing(u)' = Missing(u)
               /\ \A e \in Entities : NextToLock(u, e)' <=> NextToLock(u, e)
    <3>1. pc'[u] = pc[u] /\ thread_locks'[u] = thread_locks[u]
      BY <2>1, <2>5 DEF TypeOK
    <3>2. Needed(u)' = Needed(u) /\ Missing(u)' = Missing(u)
      BY <2>1, <3>1 DEF Needed, Missing
    <3> QED
      BY <3>1, <3>2 DEF NextToLock
  <2>6. ASSUME NEW e \in Entities
        PROVE  Readers(e)' = Readers(e) /\ Writers(e)' = Writers(e)
    BY <2>1, <2>2, <2>5 DEF Readers, Writers
  <2>7. ASSUME NEW e \in Entities
        PROVE  WaitingWriters(e)' = WaitingWriters(e)
    BY <2>1, <2>4, <2>5 DEF WaitingWriters, Waiting
  <2>8. TypeOK'
    BY <2>1, <2>4 DEF TypeOK
  <2>9. Counted'
    BY <2>1, <2>6, <2>7 DEF Counted
  <2>10. Exclusion'
    BY <2>6 DEF Exclusion
  <2>11. NoLostWakeup'
    BY <2>1, <2>4, <2>5 DEF NoLostWakeup, FreeForReading, FreeForWriting
  <2>12. PlaceInv'
    <3>1. Missing(t)' # {} /\ taken'[t] = {}
      BY <2>1, <2>2, <2>3, <2>4 DEF Missing, Needed
    <3>2. ASSUME NEW u \in Threads
          PROVE  (/\ taken[u] \subseteq Needed(u)
                  /\ pc[u] = "idle" => taken[u] = {}
                  /\ pc[u] \in {"locking", "asleep", "awake"} =>
                       /\ Missing(u) # {}
                       /\ \A e \in taken[u], f \in Missing(u) : e < f
                  /\ pc[u] = "held" => Missing(u) = {} /\ taken[u] # {}
                  /\ pc[u] = "unlocking" => taken[u] # {})'
      <4>1. CASE u = t
        BY <2>4, <3>1, <4>1
      <4>2. CASE u # t
        BY <2>1, <2>5, <4>2 DEF PlaceInv
      <4> QED
        BY <4>1, <4>2
    <3> QED
      BY <3>2 DEF PlaceInv
  <2> QED
    BY <2>8, <2>9, <2>10, <2>11, <2>12
<1> QED
  BY <1>1, <1>2

\* LocksInv is an invariant: the counters count, and the tests on them keep
\* readers and writers apart and wake who must be woken.
THEOREM LocksInvariant == Spec => []LocksInv
PROOF
<1>1. Init => LocksInv
  <2> SUFFICES ASSUME Init PROVE LocksInv
    OBVIOUS
  <2>1. TypeOK
    BY DEF Init, TypeOK, Places, LockLevels, NO_LOCK, Entities
  <2>2. \A d \in Entities : Readers(d) = {} /\ Writers(d) = {} /\ WaitingWriters(d) = {}
    BY DEF Init, Readers, Writers, WaitingWriters, Waiting
  <2>3. Counted
    BY <2>2, FS_EmptySet DEF Init, Counted
  <2>4. PlaceInv
    BY DEF Init, PlaceInv
  <2>5. Exclusion /\ NoLostWakeup
    BY <2>2 DEF Init, Exclusion, NoLostWakeup
  <2> QED
    BY <2>1, <2>3, <2>4, <2>5 DEF LocksInv
<1>2. LocksInv /\ [Next]_vars => LocksInv'
  <2> SUFFICES ASSUME LocksInv, [Next]_vars PROVE LocksInv'
    OBVIOUS
  <2>1. CASE Next
    BY <2>1, RdLockKeeps, WrLockKeeps, UnlockKeeps, CallsKeep DEF Next, NewCall, Step
  <2>2. CASE UNCHANGED vars
    <3> USE <2>2 DEF vars
    <3>1. TypeOK'
      BY DEF LocksInv, TypeOK
    <3>2. PlaceInv'
      BY DEF LocksInv, PlaceInv, Needed, Missing
    <3>3. \A d \in Entities : /\ Readers(d)' = Readers(d) /\ Writers(d)' = Writers(d)
                             /\ WaitingWriters(d)' = WaitingWriters(d)
      BY DEF Readers, Writers, WaitingWriters, Waiting, NextToLock, Missing, Needed
    <3>4. Counted' /\ Exclusion'
      BY <3>3 DEF LocksInv, Counted, Exclusion
    <3>5. NoLostWakeup'
      BY DEF LocksInv, NoLostWakeup, NextToLock, Missing, Needed,
         FreeForReading, FreeForWriting
    <3> QED
      BY <3>1, <3>2, <3>4, <3>5 DEF LocksInv
  <2> QED
    BY <2>1, <2>2
<1> QED
  BY <1>1, <1>2, PTL DEF Spec

\* Types: no counter of slurmctld_locks ever goes below zero, whatever the
\* order of the calls of lock_slurmctld and unlock_slurmctld.
THEOREM LocksTypeCorrect == Spec => []TypeOK
PROOF
<1>1. LocksInv => TypeOK
  BY Zenon DEF LocksInv
<1> QED
  BY <1>1, LocksInvariant, PTL

\* Reader/writer exclusion, for any number of threads and any lock levels.
THEOREM ExclusionHolds == Spec => []Exclusion
PROOF
<1>1. LocksInv => Exclusion
  BY DEF LocksInv
<1> QED
  BY <1>1, LocksInvariant, PTL

\* No thread sleeps on locks_cond while the lock it wants is free.
THEOREM NoLostWakeupHolds == Spec => []NoLostWakeup
PROOF
<1>1. LocksInv => NoLostWakeup
  BY DEF LocksInv
<1> QED
  BY <1>1, LocksInvariant, PTL

\* A thread that is on its way in has an entity to ask for next.
LEMMA SomethingIsNext ==
  ASSUME NEW t \in Threads, Missing(t) # {}
  PROVE  \E d \in Entities : NextToLock(t, d)
PROOF
<1>1. Missing(t) \subseteq 1..5
  BY DEF Missing, Needed, Entities, CONFIG_LOCK, FED_LOCK
<1>2. \E d \in Missing(t) : \A e \in Missing(t) : d <= e
  BY <1>1
<1> QED
  BY <1>1, <1>2 DEF NextToLock, Entities, CONFIG_LOCK, FED_LOCK

\* Who sleeps waits for a thread that has the entity, directly or behind a
\* writer that does.
LEMMA SleepersHaveHolders ==
  ASSUME LocksInv, \A u \in Threads : pc[u] \in {"idle", "asleep"},
         NEW t \in Threads, NEW d \in Entities, pc[t] = "asleep", NextToLock(t, d)
  PROVE  \E h \in Threads : d \in taken[h]
PROOF
<1> USE DEF LocksInv
<1>1. ASSUME Readers(d) \union Writers(d) # {}
      PROVE  \E h \in Threads : d \in taken[h]
  BY <1>1 DEF Readers, Writers
<1>2. ASSUME NEW w \in Threads, pc[w] = "asleep", NextToLock(w, d),
             thread_locks[w][d] = WRITE_LOCK
      PROVE  Readers(d) \union Writers(d) # {}
  <2>1. ~FreeForWriting(d)
    BY <1>2 DEF NoLostWakeup, READ_LOCK, WRITE_LOCK
  <2> QED
    BY <2>1, FreeMeansNobody
<1>3. CASE thread_locks[t][d] = WRITE_LOCK
  BY <1>1, <1>2, <1>3
<1>4. CASE thread_locks[t][d] # WRITE_LOCK
  <2>1. thread_locks[t][d] = READ_LOCK
    <3>1. thread_locks[t][d] \in {NO_LOCK, READ_LOCK, WRITE_LOCK}
      BY DEF TypeOK, LockLevels
    <3>2. thread_locks[t][d] # NO_LOCK
      BY DEF NextToLock, Missing, Needed
    <3> QED
      BY <1>4, <3>1, <3>2
  <2>2. ~FreeForReading(d)
    BY <2>1 DEF NoLostWakeup
  <2>3. Writers(d) # {} \/ WaitingWriters(d) # {}
    BY <2>2, FreeMeansNobody
  <2>4. CASE WaitingWriters(d) # {}
    <3>1. PICK w \in Threads : /\ Waiting(w) /\ NextToLock(w, d)
                               /\ thread_locks[w][d] = WRITE_LOCK
      BY <2>4 DEF WaitingWriters
    <3>2. pc[w] = "asleep"
      BY <3>1 DEF Waiting
    <3> QED
      BY <1>1, <1>2, <3>1, <3>2
  <2> QED
    BY <1>1, <2>3, <2>4
<1> QED
  BY <1>3, <1>4

\* The fixed order of lock_slurmctld prevents deadlock: if everyone slept, who
\* has the entity a sleeper wants would itself want a later one, and so on past
\* the last.
THEOREM DeadlockFreedom == Spec => []SomeoneRuns
PROOF
<1>1. LocksInv => SomeoneRuns
  <2> SUFFICES ASSUME LocksInv, NEW s \in Threads, pc[s] = "asleep",
                      \A u \in Threads :
                        pc[u] \notin {"locking", "awake", "held", "unlocking"}
               PROVE  FALSE
    BY DEF SomeoneRuns
  <2> USE DEF LocksInv
  <2> DEFINE Wanted(d) == \E t \in Threads : pc[t] = "asleep" /\ NextToLock(t, d)
  <2>1. \A u \in Threads : pc[u] \in {"idle", "asleep"}
    BY DEF TypeOK, Places
  <2>2. \E d \in Entities : Wanted(d)
    <3>1. Missing(s) # {}
      BY DEF PlaceInv
    <3> QED
      BY <3>1, SomethingIsNext
  <2>3. ASSUME NEW d \in Entities, Wanted(d)
        PROVE  \E f \in Entities : d < f /\ Wanted(f)
    <3>1. PICK h \in Threads : d \in taken[h]
      BY <2>1, <2>3, SleepersHaveHolders
    <3>2. pc[h] = "asleep"
      BY <2>1, <3>1 DEF PlaceInv
    <3>3. Missing(h) # {} /\ \A e \in taken[h], f \in Missing(h) : e < f
      BY <3>2 DEF PlaceInv
    <3>4. PICK f \in Entities : NextToLock(h, f)
      BY <3>3, SomethingIsNext
    <3>5. d < f
      BY <3>1, <3>3, <3>4 DEF NextToLock
    <3> QED
      BY <3>2, <3>4, <3>5
  <2> HIDE DEF Wanted
  <2>4. Entities = 1..5
    BY DEF Entities, CONFIG_LOCK, FED_LOCK
  <2>5. ~Wanted(5)
    BY <2>3, <2>4
  <2>6. ~Wanted(4) /\ ~Wanted(3)
    BY <2>3, <2>4, <2>5
  <2>7. ~Wanted(2) /\ ~Wanted(1)
    BY <2>3, <2>4, <2>5, <2>6
  <2> QED
    BY <2>2, <2>4, <2>5, <2>6, <2>7
<1> QED
  BY <1>1, LocksInvariant, PTL

\* Writers come first: no step makes a new reader of an entity that a writer
\* waits for.
THEOREM WritersComeFirst == Spec => WritersFirst
PROOF
<1> DEFINE NoNewReader ==
             \A d \in Entities : WaitingWriters(d) # {} => Readers(d)' \subseteq Readers(d)
<1>1. LocksInv /\ [Next]_vars => [NoNewReader]_vars
  <2> SUFFICES ASSUME LocksInv, Next PROVE NoNewReader
    OBVIOUS
  <2> USE DEF LocksInv
  <2>1. ASSUME NEW t \in Threads, NEW d \in Entities, RdLock(t, d) PROVE NoNewReader
    <3>1. CASE ~FreeForReading(d)
      <4>1. taken' = taken /\ thread_locks' = thread_locks
        BY <2>1, <3>1 DEF RdLock, Sleep
      <4> QED
        BY <4>1 DEF Readers
    <3>2. CASE FreeForReading(d)
      <4>1. /\ taken' = [taken EXCEPT ![t] = taken[t] \union {d}]
            /\ thread_locks' = thread_locks
        BY <2>1, <3>2 DEF RdLock, Grant
      <4>2. WaitingWriters(d) = {}
        BY <3>2, FreeMeansNobody
      <4>3. \A e \in Entities \ {d} : Readers(e)' = Readers(e)
        BY <4>1 DEF Readers, TypeOK
      <4> QED
        BY <4>2, <4>3
    <3> QED
      BY <3>1, <3>2
  <2>2. ASSUME NEW t \in Threads, NEW d \in Entities, WrLock(t, d) PROVE NoNewReader
    <3>1. /\ \/ taken' = taken
             \/ taken' = [taken EXCEPT ![t] = taken[t] \union {d}]
          /\ thread_locks' = thread_locks /\ thread_locks[t][d] # READ_LOCK
      BY <2>2 DEF WrLock, Grant, Sleep, READ_LOCK, WRITE_LOCK
    <3> QED
      BY <3>1 DEF Readers, TypeOK
  <2>3. ASSUME NEW t \in Threads, NEW d \in Entities, RdUnlock(t, d) \/ WrUnlock(t, d)
        PROVE  NoNewReader
    <3>1. taken' = [taken EXCEPT ![t] = taken[t] \ {d}] /\ thread_locks' = thread_locks
      BY <2>3 DEF RdUnlock, WrUnlock, GiveBack
    <3> QED
      BY <3>1 DEF Readers, TypeOK
  <2>4. ASSUME NEW t \in Threads, UnlockCall(t) PROVE NoNewReader
    BY <2>4 DEF UnlockCall, Readers
  <2>5. ASSUME NEW t \in Threads, NEW lv \in Requests, LockCall(t, lv) PROVE NoNewReader
    <3>1. /\ taken[t] = {} /\ taken' = taken
          /\ \A u \in Threads : u # t => thread_locks'[u] = thread_locks[u]
      BY <2>5 DEF LockCall, PlaceInv, TypeOK
    <3> QED
      BY <3>1 DEF Readers
  <2> QED
    BY <2>1, <2>2, <2>3, <2>4, <2>5 DEF Next, NewCall, Step
<1> QED
  BY <1>1, LocksInvariant, PTL DEF Spec, WritersFirst
============================================================================
