------------------------------ MODULE Backfill ------------------------------
(* One pass of the backfill scheduler, _attempt_backfill() of               *)
(* plugins/sched/backfill/backfill.c, over select/linear (the plugins of     *)
(* the simulator's configuration templates).  The pass takes the pending     *)
(* jobs in priority order.  A job that fits now is started; for any other    *)
(* one it looks for the earliest start it can find and reserves nodes in     *)
(* node_space, a list of time intervals, each with the nodes still           *)
(* unreserved in it.                                                         *)
(*                                                                           *)
(* In the simulator _yield_locks() is empty and the manager holds the clock  *)
(* while the agent runs (ClockStopsForBackfill of PluginSync), so a pass is  *)
(* alone and time(NULL) is the same from its beginning to its end: that      *)
(* instant is SchedStart, the code's sched_start and now.                    *)
(*                                                                           *)
(* Left out: advance reservations, burst buffers, pack jobs, job arrays,     *)
(* node features, preemption, per-user and per-partition limits, the option  *)
(* assoc_limit_stop (a job over an accounting limit is then planned for      *)
(* later_start instead of being skipped), and the failures of select_nodes() *)
(* that clear the start time it has set (a burst buffer, or a select plugin  *)
(* without the job's resources).                                             *)
EXTENDS Integers, Sequences, FiniteSets, FiniteSetsExt

CONSTANTS
  Nodes,         \* the nodes of the partition, all up
  Shapes,        \* job requests, see JobShape
  MaxJobs,       \* longest queue
  BusyUntil,     \* end times of the jobs running when the pass begins
  SchedStart,    \* the instant of the pass
  Minute,        \* seconds in the unit of time limits (60)
  Resolution,    \* backfill_resolution
  Window,        \* backfill_window
  MaxRecs,       \* max_backfill_job_cnt
  QueueLimit,    \* backfill_queue_limit
  MaxStarts      \* max_backfill_jobs_start, 0 for no limit

(* What the pass reads of a job: time_min = 0 when it accepts no shorter     *)
(* limit (submission refuses a time_min above the limit); no_reserve for     *)
(* TEST_NOW_ONLY (priority or age below the ones that earn a reservation).   *)
JobShape ==
  {s \in [min_nodes : Nat \ {0}, time_limit : Nat \ {0}, time_min : Nat,
          no_reserve : BOOLEAN] : s.time_min <= s.time_limit}

ASSUME BackfillAssumption ==
  /\ IsFiniteSet(Nodes) /\ Nodes # {}
  /\ Shapes \subseteq JobShape
  /\ BusyUntil \subseteq Nat \ {0}
  /\ {SchedStart, Minute, Resolution, Window, MaxRecs, QueueLimit}
       \subseteq Nat \ {0}
  /\ MaxJobs \in Nat /\ MaxStarts \in Nat

VARIABLES
  jobs,             \* the sorted queue
  cur,              \* how many jobs have been popped; the last is the current one
  pc,               \* "pop", "try" (label TRY_LATER) or "done"
  later_start,
  node_space,       \* the records of the table in the order of their next links
  node_space_recs,  \* array entries used, never given back
  end_time,         \* end of the job running on a node, 0 on an idle node
  completing,       \* cg_node_bitmap
  plan,             \* the reservations made by this pass
  started           \* the jobs started by this pass

vars == <<jobs, cur, pc, later_start, node_space, node_space_recs, end_time,
          completing, plan, started>>

now == SchedStart

window_end == SchedStart + Window

(* Entries of the array xmalloc'ed for the table.                            *)
Allocated_OnePerJob == MaxRecs

Allocated == MaxRecs * 2 + 1

Init ==
  /\ jobs \in UNION {[1 .. n -> Shapes] : n \in 0 .. MaxJobs}
  /\ cur = 0 /\ pc = "pop" /\ later_start = 0
  /\ node_space = <<[begin |-> SchedStart, end |-> window_end, avail |-> Nodes]>>
  /\ node_space_recs = 1
  /\ end_time \in [Nodes -> BusyUntil \union {0}]
  /\ completing \in SUBSET {n \in Nodes : end_time[n] = 0}
  /\ plan = {} /\ started = {}

-----------------------------------------------------------------------------
(* The table.                                                                *)

(* Cut record j in two at time t; the new half takes a fresh array entry.    *)
Split(ns, j, t) ==
  [i \in 1 .. Len(ns) + 1 |->
     CASE i < j     -> ns[i]
       [] i = j     -> [ns[j] EXCEPT !.end = t]
       [] i = j + 1 -> [ns[j] EXCEPT !.begin = t]
       [] i > j + 1 -> ns[i - 1]]

(* The first cut: at start, in the first record that does not end before it. *)
CutStart(ns, start) ==
  LET J == {j \in DOMAIN ns : ns[j].end >= start}
  IN  IF J # {} /\ ns[Min(J)].end > start THEN Split(ns, Min(J), start) ELSE ns

(* The second cut: at end_reserve, in a record after the one the first cut   *)
(* stopped at.                                                               *)
CutEnd(ns, start, end_reserve) ==
  LET J == {j \in DOMAIN ns : ns[j].end >= start}
      K == {k \in DOMAIN ns : k > Min(J) /\ ns[k].end >= end_reserve}
  IN  IF J # {} /\ K # {} /\ ns[Min(K)].end > end_reserve
      THEN Split(ns, Min(K), end_reserve) ELSE ns

(* Take the nodes out of every record inside the interval.  The walk stops   *)
(* at the first record that begins at or after end_reserve.                  *)
TakeNodes_WholeWindow(ns, start, end_reserve, nodes) ==
  [j \in DOMAIN ns |->
     IF ns[j].begin >= start THEN [ns[j] EXCEPT !.avail = @ \ nodes] ELSE ns[j]]

TakeNodes(ns, start, end_reserve, nodes) ==
  [j \in DOMAIN ns |->
     IF /\ ns[j].begin >= start /\ ns[j].end <= end_reserve
        /\ \A m \in 1 .. j - 1 : ns[m].begin < end_reserve
     THEN [ns[j] EXCEPT !.avail = @ \ nodes] ELSE ns[j]]

(* Drop one record whose nodes are those of the record before it.            *)
Merge(ns) ==
  LET Same == {j \in 1 .. Len(ns) - 1 : ns[j].avail = ns[j + 1].avail}
      j == Min(Same)
  IN  IF Same = {} THEN ns
      ELSE [i \in 1 .. Len(ns) - 1 |->
              CASE i < j -> ns[i]
                [] i = j -> [ns[j] EXCEPT !.end = ns[j + 1].end]
                [] i > j -> ns[i + 1]]

(* _add_reservation().                                                       *)
AddReservation(start_time, end_reserve, nodes) ==
  \E start \in {Max({start_time, node_space[1].begin})} :
  \E cut1 \in {CutStart(node_space, start)} :
  \E cut2 \in {CutEnd(cut1, start, end_reserve)} :
  \E taken \in {TakeNodes(cut2, start, end_reserve, nodes)} :
     /\ node_space' = Merge(taken)
     /\ node_space_recs' = node_space_recs + Len(cut2) - Len(node_space)

(* _test_resv_overlap().                                                     *)
Overlaps_Never(nodes, start, end_reserve) == FALSE

Overlaps(nodes, start, end_reserve) ==
  \E j \in DOMAIN node_space :
     /\ node_space[j].end > start /\ node_space[j].begin < end_reserve
     /\ ~(nodes \subseteq node_space[j].avail)

Floor(t) == (t \div Resolution) * Resolution

-----------------------------------------------------------------------------
(* One attempt to place the current job: the code from TRY_LATER to the end  *)
(* of the loop.                                                              *)

Job == jobs[cur]

TimeLimit ==
  IF Job.time_min # 0 /\ Job.time_min < Job.time_limit
  THEN Job.time_min ELSE Job.time_limit

start_res == later_start

(* avail_bitmap: the nodes unreserved from start_res until the job's end.    *)
Usable ==
  LET end == start_res + TimeLimit * Minute
      Past == {j \in DOMAIN node_space :
                 node_space[j].end > start_res /\ node_space[j].begin > end}
  IN  {n \in Nodes : \A j \in DOMAIN node_space :
         (node_space[j].end > start_res /\ \A p \in Past : j < p)
           => n \in node_space[j].avail}

(* later_start as recomputed by the attempt: the end of the record holding   *)
(* start_res, unless it is the last one.                                     *)
LaterStart_SameRecord ==
  LET J == {j \in DOMAIN node_space : node_space[j].end >= start_res}
  IN  IF J # {} /\ Min(J) < Len(node_space) THEN node_space[Min(J)].end ELSE 0

LaterStart ==
  LET J == {j \in DOMAIN node_space : node_space[j].end > start_res}
  IN  IF J # {} /\ Min(J) < Len(node_space) THEN node_space[Min(J)].end ELSE 0

TooFew == Cardinality(Usable) < Job.min_nodes

(* _will_run_test() of select/linear: idle nodes now, or the nodes left      *)
(* when the running jobs are taken away one by one in the order of their     *)
(* ends.                                                                     *)
EndedBy(t) == {n \in Usable : end_time[n] <= t}

FirstEnd ==
  Min({end_time[n] : n \in {m \in Usable :
         Cardinality(EndedBy(end_time[m])) >= Job.min_nodes}})

WillRun ==
  IF FirstEnd = 0 THEN now ELSE IF FirstEnd <= now THEN now + 1 ELSE FirstEnd

(* TEST_NOW_ONLY makes the test fail when the job cannot run at once.        *)
WillRunFails == Job.no_reserve /\ FirstEnd # 0

(* The choices of nodes; which of the nodes that will do is not modelled.    *)
Picks ==
  IF pc # "try" \/ TooFew THEN {}
  ELSE IF WillRunFails THEN {}
  ELSE kSubset(Job.min_nodes, EndedBy(FirstEnd))

MustWait(nodes) ==
  Max({WillRun, start_res}) <= now /\ nodes \intersect completing # {}

StartTime(nodes) ==
  IF MustWait(nodes) THEN now + 1 ELSE Max({WillRun, start_res})

Later(nodes) == IF MustWait(nodes) THEN 0 ELSE LaterStart

(* _reset_job_time_limit(): the limit of a started job that accepts less is  *)
(* set as high as the reservations on its nodes leave room for.              *)
GrantedLimit_Full(nodes) == Job.time_limit

GrantedLimit(nodes) ==
  LET end == now + Job.time_limit * Minute
      Conflicts == {j \in DOMAIN node_space :
                      /\ node_space[j].begin # now /\ node_space[j].begin < end
                      /\ ~(nodes \subseteq node_space[j].avail)}
      delays == {(node_space[j].begin - now) \div Minute : j \in Conflicts}
  IN  IF Job.time_min = 0 THEN Job.time_limit
      ELSE Max({Job.time_min, Min(delays \union {Job.time_limit})})

EndReserve(start) == Floor(start + TimeLimit * Minute)

(* What becomes of a job that can only start later.                          *)
Verdict(nodes, start, later) ==
  IF Job.no_reserve THEN "skip"
  ELSE IF later # 0 /\ start > later THEN "later"
  ELSE IF start > window_end THEN "skip"
  ELSE IF node_space_recs >= MaxRecs THEN "full"
  ELSE IF Overlaps(nodes, Floor(start), EndReserve(start)) THEN "overlap"
  ELSE "reserve"

-----------------------------------------------------------------------------
table == <<node_space, node_space_recs, plan>>

machine == <<jobs, end_time, completing, started>>

(* list_pop() of the next job.                                               *)
NextJob ==
  /\ pc = "pop" /\ cur < Len(jobs)
  /\ cur' = cur + 1 /\ pc' = "try" /\ later_start' = now
  /\ UNCHANGED <<table, machine>>

(* The queue is empty or job_test_count is at its limit.  The count leaves   *)
(* out jobs that are skipped early and starts over whenever sched_timeout    *)
(* has passed: all that is known of it is that it is at most cur.            *)
EndOfQueue ==
  /\ pc = "pop" /\ (cur = Len(jobs) \/ cur >= QueueLimit)
  /\ pc' = "done"
  /\ UNCHANGED <<cur, later_start, table, machine>>

(* goto TRY_LATER.                                                           *)
TryAgain(t) ==
  /\ later_start' = t
  /\ UNCHANGED <<cur, pc, table, machine>>

(* continue.                                                                 *)
Continue ==
  /\ pc' = "pop"
  /\ UNCHANGED <<cur, later_start, table, machine>>

(* Too few nodes unreserved, or the will-run test fails.                     *)
NoRoom ==
  /\ pc = "try" /\ Picks = {}
  /\ IF LaterStart # 0 THEN TryAgain(LaterStart) ELSE Continue

(* _start_job() succeeds.  It excludes only the reserved nodes, so it may    *)
(* use others than the ones just picked.                                     *)
StartJob(picked, nodes) ==
  /\ StartTime(picked) <= now
  /\ nodes \in kSubset(Job.min_nodes,
                       {n \in Usable : end_time[n] = 0} \ completing)
  /\ \E end \in {now + GrantedLimit(nodes) * Minute} :
       /\ end_time' = [n \in Nodes |-> IF n \in nodes THEN end ELSE end_time[n]]
       /\ started' = started \union {[job |-> cur, nodes |-> nodes, end |-> end]}
  /\ pc' = IF MaxStarts # 0 /\ Cardinality(started') >= MaxStarts
           THEN "done" ELSE "pop"
  /\ UNCHANGED <<jobs, cur, later_start, completing, table>>

(* _start_job() fails for a reason that says nothing of when the job could   *)
(* start (accounting or power limits, a busy reservation).                   *)
StartRefused(picked) ==
  /\ StartTime(picked) <= now
  /\ Continue

(* Reserve the nodes, or find that an accounting limit forbids it.           *)
Reserve(nodes, start) ==
  \/ /\ AddReservation(Floor(start), EndReserve(start), nodes)
     /\ plan' = plan \union {[job |-> cur, nodes |-> nodes, start |-> start,
                              from |-> Floor(start), to |-> EndReserve(start)]}
     /\ pc' = "pop"
     /\ UNCHANGED <<cur, later_start, machine>>
  \/ Continue

(* The table size limit ends the pass.                                       *)
TableFull ==
  /\ pc' = "done"
  /\ UNCHANGED <<cur, later_start, table, machine>>

(* _start_job() fails for any other reason: the code drops through, with     *)
(* later_start cleared, and reserves the nodes from now on.                  *)
StartFails(nodes) ==
  /\ StartTime(nodes) <= now
  /\ IF node_space_recs >= MaxRecs THEN TableFull ELSE Reserve(nodes, now)

(* The job can only start later.                                             *)
PlanAhead(nodes) ==
  \E start \in {StartTime(nodes)}, later \in {Later(nodes)} :
     /\ start > now
     /\ \E verdict \in {Verdict(nodes, start, later)} :
          \/ verdict = "skip" /\ Continue
          \/ verdict = "later" /\ TryAgain(later)
          \/ verdict = "overlap" /\ TryAgain(start)
          \/ verdict = "reserve" /\ Reserve(nodes, start)
          \/ verdict = "full" /\ TableFull

Done == pc = "done" /\ UNCHANGED vars

Step ==
  \/ NextJob \/ EndOfQueue \/ NoRoom
  \/ \E nodes \in Picks :
       \/ StartRefused(nodes) \/ StartFails(nodes) \/ PlanAhead(nodes)
       \/ \E alloc \in SUBSET Nodes : StartJob(nodes, alloc)

Next == Step \/ Done

Spec == Init /\ [][Next]_vars

(* The pass is one thread that nothing interrupts: it goes on to its next    *)
(* step.  A retry that changes nothing is no step, and keeps it where it is. *)
FairSpec == Spec /\ WF_vars(Step)

-----------------------------------------------------------------------------
Record == [begin : Nat, end : Nat, avail : SUBSET Nodes]

(* Types; the table is never empty and fits its array: every reservation     *)
(* takes up to two entries that are never reused, and the test against       *)
(* max_backfill_job_cnt comes before the last one is made.                   *)
TypeOK ==
  /\ jobs \in Seq(Shapes) /\ cur \in 0 .. Len(jobs)
  /\ pc \in {"pop", "try", "done"} /\ later_start \in Nat
  /\ node_space \in Seq(Record) /\ node_space # <<>>
  /\ node_space_recs \in Len(node_space) .. Allocated
  /\ end_time \in [Nodes -> Nat] /\ completing \subseteq Nodes

Reserved(t) == UNION {r.nodes : r \in {p \in plan : p.from <= t /\ t < p.to}}

(* The table says what the plan says: every instant of the window lies in    *)
(* exactly one record, and the record offers exactly the nodes that no       *)
(* reservation of the pass covers then.  The cuts, the walk that takes the   *)
(* nodes out, the zero-length records and the merge all have to agree.       *)
TableIsPlan ==
  \A t \in SchedStart .. window_end - 1 :
     LET J == {j \in DOMAIN node_space :
                 node_space[j].begin <= t /\ t < node_space[j].end}
     IN  /\ Cardinality(J) = 1
         /\ \A j \in J : node_space[j].avail = Nodes \ Reserved(t)

(* No node is promised to two jobs at once: within the window two            *)
(* reservations of a node, at the table's resolution, do not meet.           *)
ReservationsDisjoint ==
  \A p, q \in plan : p.job # q.job /\ p.nodes \intersect q.nodes # {}
     => \/ p.to <= q.from \/ q.to <= p.from
        \/ Max({p.from, q.from}) >= window_end

(* Backfilling delays nobody: a job the pass starts is over, even if it runs *)
(* to its limit, before the planned start of every job that has one of its   *)
(* nodes reserved within the window, and a limit raised by                   *)
(* _reset_job_time_limit() keeps this.                                       *)
NobodyDelayed ==
  \A s \in started, p \in plan :
     s.nodes \intersect p.nodes # {} /\ p.start < window_end => s.end <= p.start

(* The pass ends: the loop through TRY_LATER moves on in time.  With the     *)
(* clock held, its other exit (bf_max_time elapsed) is out of reach.         *)
PassEnds == <>(pc = "done")
=============================================================================
