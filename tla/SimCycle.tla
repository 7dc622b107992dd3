------------------------------ MODULE SimCycle ------------------------------
(***************************************************************************)
(* The simulation cycle: sim_mgr, slurmd and slurmctld driving one trace   *)
(* of batch jobs through simulated time.                                   *)
(*                                                                         *)
(*   sim_mgr    time_mgr: submits the jobs that are due, lets slurmd run   *)
(*              one cycle (slurm_sem / sim_sem), advances the clock.       *)
(*   slurmd     _simulator_helper: fires the due job-completion events,    *)
(*              waits for their epilogs, sends MESSAGE_SIM_HELPER_CYCLE;   *)
(*              RPC threads add events and answer the kill requests.       *)
(*   slurmctld  the RPC handlers, the helper cycle (which runs schedule    *)
(*              and backfill), the agent's messages in flight, and the     *)
(*              periodic work of _slurmctld_background.                    *)
(*                                                                         *)
(* One partition, whole-node allocations counted in nodes, jobs of the     *)
(* trace numbered in submission order.  Jobs are Trace == 1..NJobs.        *)
(*                                                                         *)
(* An operator Name_Variant right before Name is a faulty variant of Name; *)
(* no specification uses it.  Putting it in the place of Name shows that a *)
(* property notices the fault.                                             *)
(***************************************************************************)
EXTENDS Integers, Sequences, FiniteSets, EventQueue

CONSTANTS
  NJobs,            \* number of records in the job trace
  Submit,           \* job_trace_t.submit    of each record
  Duration,         \* job_trace_t.duration  of each record
  TimeLimit,        \* job_trace_t.wclimit   of each record, in clock units
  OverTimeLimit,    \* OverTimeLimit of slurm.conf, in clock units
  Width,            \* nodes each job asks for
  NNodes,           \* nodes of the simulated cluster
  TimeIncr,         \* time_incr of sim_mgr
  SimEndPoint,      \* sim_end_point of sim_mgr, 0 when unset
  BackfillInterval, \* bf_interval
  PeriodicTimeout,  \* PERIODIC_TIMEOUT, period of job_time_limit
  PurgeInterval,    \* purge_job_interval, period of purge_old_job
  KillAge,          \* kill_wait + 2 * msg_timeout, see _list_find_job_old
  MaxTime,          \* bound: the clock saturates here
  MaxLag,           \* bound: seconds an agent message can stay in flight
  MaxLost           \* bound: kill messages the network may lose

Trace == 1..NJobs

ASSUME ConstantsAssumption ==
  /\ NJobs \in Nat /\ NNodes \in Nat /\ OverTimeLimit \in Nat
  /\ Submit \in [Trace -> Nat] /\ Duration \in [Trace -> Nat]
  /\ TimeLimit \in [Trace -> Nat] /\ Width \in [Trace -> Nat]
  /\ \A j \in Trace : Width[j] <= NNodes
  /\ TimeIncr \in Nat \ {0} /\ SimEndPoint \in Nat
  /\ BackfillInterval \in Nat /\ PeriodicTimeout \in Nat
  /\ PurgeInterval \in Nat /\ KillAge \in Nat
  /\ MaxTime \in Nat \ {0} /\ MaxLag \in Nat /\ MaxLost \in Nat

VARIABLES
  \* sim_mgr and the shared memory
  mgr_pc, current_sim, trace_head, time_end, trace_recs_end_sim,
  slurm_sem, sim_sem,
  \* slurmd: the helper thread and the lists it shares with the RPC threads
  sd_pc, now, jobs_ended, current_event, events, completed, sim_info,
  waiting_epilog_msgs, launch, term,
  \* slurmctld: job table, nodes, counters and the helper-cycle handler
  job_state, start_time, end_time, last_active, idle_nodes,
  job_sched_cnt, submit_thread, epilog, loaded,
  total_finished_jobs, arrived_jobs_epilogs, total_epilog_complete_jobs,
  ctl_pc, total_jobs_ended, last_backfill, last_timelimit, last_purge,
  kill_msg, lost

mgrVars  == <<mgr_pc, current_sim, trace_head, time_end>>
semVars  == <<slurm_sem, sim_sem>>
sdVars   == <<sd_pc, now, jobs_ended, current_event>>
listVars == <<events, completed, sim_info>>
jobVars  == <<job_state, start_time, end_time, last_active, idle_nodes>>
cntVars  == <<total_finished_jobs, arrived_jobs_epilogs>>
totVars  == <<total_epilog_complete_jobs, loaded>>
cycVars  == <<ctl_pc, total_jobs_ended, last_backfill>>
bgVars   == <<last_timelimit, last_purge>>
msgVars  == <<launch, term, kill_msg, lost>>

vars == <<mgrVars, trace_recs_end_sim, semVars, sdVars, listVars,
          waiting_epilog_msgs, jobVars, job_sched_cnt, submit_thread, epilog,
          cntVars, totVars, cycVars, bgVars, msgVars>>

-----------------------------------------------------------------------------
(* Job states.  A "_CG" state is the base state with JOB_COMPLETING set.   *)

JobStates == {"NONE", "PENDING", "RUNNING", "COMPLETE_CG", "TIMEOUT_CG",
              "COMPLETE", "TIMEOUT"}
Completing(j) == job_state[j] \in {"COMPLETE_CG", "TIMEOUT_CG"}
Ended(j)      == job_state[j] \in {"COMPLETE", "TIMEOUT"}
Pending       == {j \in Trace : job_state[j] = "PENDING"}

\* IS_JOB_FINISHED looks at the base state only.
IsJobFinished(j) == Completing(j) \/ Ended(j)

\* sem_wait may return.
SemWait_NoBlock(s) == TRUE
SemWait(s) == s > 0

\* time() of the daemons is the clock in shared memory.
SimTime_Stale == IF current_sim > TimeIncr THEN current_sim - TimeIncr ELSE current_sim
SimTime == current_sim

(* schedule() holds the job write lock from its first job to its last; no  *)
(* handler that needs the lock runs meanwhile.                             *)
JobLockFree == ctl_pc # "schedule"

(* simulator_mutex: the helper holds it over its whole event loop.         *)
SimulatorMutexFree_NoLock == TRUE
SimulatorMutexFree == sd_pc \notin {"events", "complete", "acked"}

(* The two ways slurmd sends MESSAGE_EPILOG_COMPLETE: from the simulator's *)
(* terminate handler, which waits for the answer, and from the real        *)
(* time-limit handler, which does not.                                     *)
Origins == {"sim", "real"}
EpilogStates == {"none", "sent", "noted", "replied", "arrived", "loaded", "over"}

-----------------------------------------------------------------------------
(* Initial state: slurmd has registered and time_mgr enters its main loop. *)

Init ==
  /\ mgr_pc = "top" /\ current_sim = 1 /\ trace_head = 1 /\ time_end = FALSE
  /\ trace_recs_end_sim = 0
  /\ slurm_sem = 0 /\ sim_sem = 0
  /\ sd_pc = "sem_wait" /\ now = 0 /\ jobs_ended = 0 /\ current_event = 0
  /\ events = <<>> /\ completed = {} /\ sim_info = {}
  /\ waiting_epilog_msgs = 0
  /\ launch = [j \in Trace |-> [pc |-> "none", now |-> 0]]
  /\ term = [j \in Trace |-> "none"]
  /\ job_state = [j \in Trace |-> "NONE"]
  /\ start_time = [j \in Trace |-> 0] /\ end_time = [j \in Trace |-> 0]
  /\ last_active = [j \in Trace |-> 0]
  /\ idle_nodes = NNodes
  /\ job_sched_cnt = 0 /\ submit_thread = {}
  /\ epilog = [j \in Trace |-> [o \in Origins |-> "none"]]
  /\ loaded = [j \in Trace |-> [o \in Origins |-> 0]]
  /\ total_finished_jobs = 0 /\ arrived_jobs_epilogs = 0
  /\ total_epilog_complete_jobs = 0
  /\ ctl_pc = "idle" /\ total_jobs_ended = 0 /\ last_backfill = 0
  /\ last_timelimit = 1 /\ last_purge = 1
  /\ kill_msg = {} /\ lost = 0

-----------------------------------------------------------------------------
(* sim_mgr: time_mgr                                                       *)

\* The value of trace_recs_end_sim that asks time_mgr to end.
EndFlag_Positive == 1
EndFlag == -1

EndPointReached ==
  \/ SimEndPoint # 0 /\ SimEndPoint <= current_sim
  \/ trace_recs_end_sim = EndFlag

\* Top of the main loop; the 20 s (of real time) of grace are not over.
MgrTop ==
  /\ mgr_pc = "top"
  /\ mgr_pc' = "submit"
  /\ time_end' = (time_end \/ EndPointReached)
  /\ UNCHANGED <<current_sim, trace_head, trace_recs_end_sim, semVars, sdVars,
                 listVars, waiting_epilog_msgs, jobVars, job_sched_cnt,
                 submit_thread, epilog, cntVars, totVars, cycVars, bgVars,
                 msgVars>>

\* Top of the main loop after the grace period: terminate_simulation.
MgrTerminate ==
  /\ mgr_pc = "top"
  /\ time_end
  /\ mgr_pc' = "exited"
  /\ UNCHANGED <<current_sim, trace_head, time_end, trace_recs_end_sim,
                 semVars, sdVars, listVars, waiting_epilog_msgs, jobVars,
                 job_sched_cnt, submit_thread, epilog, cntVars, totVars,
                 cycVars, bgVars, msgVars>>

JobDue == trace_head <= NJobs /\ current_sim >= Submit[trace_head]

\* generateJob, first half: the submit RPC.  slurmctld answers before it
\* calls queue_job_scheduler, so the request for a scheduling pass is left to
\* the handler's thread.
MgrSubmit ==
  /\ mgr_pc = "submit"
  /\ JobDue
  /\ JobLockFree
  /\ mgr_pc' = "sim_job"
  /\ job_state' = [job_state EXCEPT ![trace_head] = "PENDING"]
  /\ submit_thread' = submit_thread \cup {trace_head}
  /\ UNCHANGED <<current_sim, trace_head, time_end, trace_recs_end_sim,
                 semVars, sdVars, listVars, waiting_epilog_msgs, start_time,
                 end_time, last_active, idle_nodes, job_sched_cnt, epilog,
                 cntVars, totVars, cycVars, bgVars, msgVars>>

\* _rpc_sim_job puts the job in front of the list of announced jobs.
AddJobInfo_Overwrite(info, j) == {j}
AddJobInfo(info, j) == info \cup {j}

\* generateJob, second half: REQUEST_SIM_JOB tells slurmd the duration.
MgrSimJob ==
  /\ mgr_pc = "sim_job"
  /\ mgr_pc' = "submit"
  /\ sim_info' = AddJobInfo(sim_info, trace_head)
  /\ trace_head' = trace_head + 1
  /\ UNCHANGED <<current_sim, time_end, trace_recs_end_sim, semVars, sdVars,
                 events, completed, waiting_epilog_msgs, jobVars,
                 job_sched_cnt, submit_thread, epilog, cntVars, totVars,
                 cycVars, bgVars, msgVars>>

\* No job is due any more: let slurmd run its cycle.
MgrPost ==
  /\ mgr_pc = "submit"
  /\ ~JobDue
  /\ mgr_pc' = "wait"
  /\ slurm_sem' = slurm_sem + 1
  /\ UNCHANGED <<current_sim, trace_head, time_end, trace_recs_end_sim,
                 sim_sem, sdVars, listVars, waiting_epilog_msgs, jobVars,
                 job_sched_cnt, submit_thread, epilog, cntVars, totVars,
                 cycVars, bgVars, msgVars>>

(* The bound MaxLag: the clock does not overtake a message or a thread by  *)
(* more than MaxLag seconds.                                               *)
InFlight(j) == j \in submit_thread \/ launch[j].pc \in {"sent", "read"}
LagBounded  == \A j \in Trace : InFlight(j) =>
                 current_sim < MaxLag + (IF j \in submit_thread THEN Submit[j]
                                                               ELSE start_time[j])

\* The bound MaxTime: the clock saturates.
Advance(t) == IF t + TimeIncr <= MaxTime THEN t + TimeIncr ELSE MaxTime

\* sem_wait(sim_sem) returns: slurmd has finished its cycle.
MgrAdvance ==
  /\ mgr_pc = "wait"
  /\ SemWait(sim_sem)
  /\ LagBounded
  /\ mgr_pc' = "top"
  /\ sim_sem' = sim_sem - 1
  /\ current_sim' = Advance(current_sim)
  /\ UNCHANGED <<trace_head, time_end, trace_recs_end_sim, slurm_sem, sdVars,
                 listVars, waiting_epilog_msgs, jobVars, job_sched_cnt,
                 submit_thread, epilog, cntVars, totVars, cycVars, bgVars,
                 msgVars>>

-----------------------------------------------------------------------------
(* slurmd: _simulator_helper                                               *)

\* sem_wait(slurm_sem) returns; the helper reads the clock, then takes the
\* mutex.
SdWake ==
  /\ sd_pc = "sem_wait"
  /\ SemWait(slurm_sem)
  /\ slurm_sem' = slurm_sem - 1
  /\ sd_pc' = "events"
  /\ jobs_ended' = 0
  /\ now' = SimTime
  /\ UNCHANGED <<mgrVars, trace_recs_end_sim, sim_sem, current_event,
                 listVars, waiting_epilog_msgs, jobVars, job_sched_cnt,
                 submit_thread, epilog, cntVars, totVars, cycVars, bgVars,
                 msgVars>>

EventDue_OffByOne == events # <<>> /\ now + 1 >= Head(events).when
EventDue == events # <<>> /\ now >= Head(events).when

\* The first event is due: move it to the completed list and send
\* REQUEST_COMPLETE_BATCH_SCRIPT for its job.
SdEvent ==
  /\ sd_pc = "events"
  /\ EventDue
  /\ sd_pc' = "complete"
  /\ current_event' = Head(events).job
  /\ events' = Tail(events)
  /\ completed' = completed \cup {Head(events).job}
  /\ UNCHANGED <<mgrVars, trace_recs_end_sim, semVars, now, jobs_ended,
                 sim_info, waiting_epilog_msgs, jobVars, job_sched_cnt,
                 submit_thread, epilog, cntVars, totVars, cycVars, bgVars,
                 msgVars>>

\* jobs_ended++ for a job whose completion slurmctld has acknowledged.
CountEnded_Dropped(n) == n
CountEnded(n) == n + 1

\* The answer has arrived (ESLURM_ALREADY_DONE counts as success).
SdCompleteAcked ==
  /\ sd_pc = "acked"
  /\ sd_pc' = "events"
  /\ waiting_epilog_msgs' = waiting_epilog_msgs + 1
  /\ jobs_ended' = CountEnded(jobs_ended)
  /\ UNCHANGED <<mgrVars, trace_recs_end_sim, semVars, now, current_event,
                 listVars, jobVars, job_sched_cnt, submit_thread, epilog,
                 cntVars, totVars, cycVars, bgVars, msgVars>>

\* No event is due: release the mutex.  The helper waits for the epilogs only
\* when some job ended in this cycle.
SdEventsDone ==
  /\ sd_pc = "events"
  /\ ~EventDue
  /\ sd_pc' = IF jobs_ended > 0 THEN "epilogs" ELSE "send_cycle"
  /\ UNCHANGED <<mgrVars, trace_recs_end_sim, semVars, now, jobs_ended,
                 current_event, listVars, waiting_epilog_msgs, jobVars,
                 job_sched_cnt, submit_thread, epilog, cntVars, totVars,
                 cycVars, bgVars, msgVars>>

\* The spin on waiting_epilog_msgs ends.
SdEpilogsDone ==
  /\ sd_pc = "epilogs"
  /\ waiting_epilog_msgs = 0
  /\ sd_pc' = "send_cycle"
  /\ UNCHANGED <<mgrVars, trace_recs_end_sim, semVars, now, jobs_ended,
                 current_event, listVars, waiting_epilog_msgs, jobVars,
                 job_sched_cnt, submit_thread, epilog, cntVars, totVars,
                 cycVars, bgVars, msgVars>>

\* _send_sim_helper_cycle_msg: slurmctld starts the handler, slurmd waits.
SdSendCycle ==
  /\ sd_pc = "send_cycle"
  /\ ctl_pc = "idle"
  /\ sd_pc' = "cycle"
  /\ ctl_pc' = "finished"
  /\ total_jobs_ended' = jobs_ended
  /\ UNCHANGED <<mgrVars, trace_recs_end_sim, semVars, now, jobs_ended,
                 current_event, listVars, waiting_epilog_msgs, jobVars,
                 job_sched_cnt, submit_thread, epilog, cntVars, totVars,
                 last_backfill, bgVars, msgVars>>

\* sem_post(sim_sem): hand the turn back to sim_mgr.
SdPost ==
  /\ sd_pc = "post"
  /\ sd_pc' = "sem_wait"
  /\ sim_sem' = sim_sem + 1
  /\ UNCHANGED <<mgrVars, trace_recs_end_sim, slurm_sem, now, jobs_ended,
                 current_event, listVars, waiting_epilog_msgs, jobVars,
                 job_sched_cnt, submit_thread, epilog, cntVars, totVars,
                 cycVars, bgVars, msgVars>>

-----------------------------------------------------------------------------
(* slurmd: the RPC threads                                                 *)

\* simulator_rpc_batch_job answers, then simulator_add_future_event reads the
\* clock before it takes the mutex.  A job REQUEST_SIM_JOB has not announced
\* gets no event.
LaunchRead(j) ==
  /\ launch[j].pc = "sent"
  /\ launch' = [launch EXCEPT ![j] =
                  [pc |-> IF j \in sim_info THEN "read" ELSE "over",
                   now |-> SimTime]]
  /\ UNCHANGED <<mgrVars, trace_recs_end_sim, semVars, sdVars, listVars,
                 waiting_epilog_msgs, jobVars, job_sched_cnt, submit_thread,
                 epilog, cntVars, totVars, cycVars, bgVars, term, kill_msg,
                 lost>>

LaunchInsert(j) ==
  /\ launch[j].pc = "read"
  /\ SimulatorMutexFree
  /\ events' = AddFutureEvent(events, [job |-> j,
                                       when |-> launch[j].now + Duration[j]])
  /\ launch' = [launch EXCEPT ![j].pc = "over"]
  /\ UNCHANGED <<mgrVars, trace_recs_end_sim, semVars, sdVars, completed,
                 sim_info, waiting_epilog_msgs, jobVars, job_sched_cnt,
                 submit_thread, epilog, cntVars, totVars, cycVars, bgVars,
                 term, kill_msg, lost>>

\* simulator_rpc_terminate_job: take the job off the completed list and send
\* its epilog message; a job that is not on the list (T1, T2) gets none.
TermLookup(j) ==
  /\ term[j] = "sent"
  /\ SimulatorMutexFree
  /\ IF j \in completed
     THEN /\ term' = [term EXCEPT ![j] = "epilog"]
          /\ epilog' = [epilog EXCEPT ![j]["sim"] = "sent"]
     ELSE /\ term' = [term EXCEPT ![j] = "none"]
          /\ UNCHANGED epilog
  /\ completed' = completed \ {j}
  /\ UNCHANGED <<mgrVars, trace_recs_end_sim, semVars, sdVars, events,
                 sim_info, waiting_epilog_msgs, jobVars, job_sched_cnt,
                 submit_thread, cntVars, totVars, cycVars, bgVars, launch,
                 kill_msg, lost>>

EpilogAnswered(j) == epilog[j]["sim"] \in {"replied", "arrived", "loaded", "over"}

TermAnswered(j) ==
  /\ term[j] = "epilog"
  /\ EpilogAnswered(j)
  /\ term' = [term EXCEPT ![j] = "none"]
  /\ waiting_epilog_msgs' = waiting_epilog_msgs - 1
  /\ UNCHANGED <<mgrVars, trace_recs_end_sim, semVars, sdVars, listVars,
                 jobVars, job_sched_cnt, submit_thread, epilog, cntVars,
                 totVars, cycVars, bgVars, launch, kill_msg, lost>>

\* _rpc_timelimit is not a simulator handler: it finds no steps to kill and
\* sends MESSAGE_EPILOG_COMPLETE without waiting and without touching
\* waiting_epilog_msgs or the event list.
KillTimelimit(j) ==
  /\ j \in kill_msg
  /\ kill_msg' = kill_msg \ {j}
  /\ epilog' = [epilog EXCEPT ![j]["real"] = "sent"]
  /\ UNCHANGED <<mgrVars, trace_recs_end_sim, semVars, sdVars, listVars,
                 waiting_epilog_msgs, jobVars, job_sched_cnt, submit_thread,
                 cntVars, totVars, cycVars, bgVars, launch, term, lost>>

-----------------------------------------------------------------------------
(* slurmctld: RPC handlers                                                 *)

\* queue_job_scheduler: ask the next helper cycle for a scheduling pass.
QueueJobScheduler_Dropped(n) == n
QueueJobScheduler(n) == n + 1

\* queue_job_scheduler, called by the submit handler after its answer.
QueueAfterSubmit(j) ==
  /\ j \in submit_thread
  /\ submit_thread' = submit_thread \ {j}
  /\ job_sched_cnt' = QueueJobScheduler(job_sched_cnt)
  /\ UNCHANGED <<mgrVars, trace_recs_end_sim, semVars, sdVars, listVars,
                 waiting_epilog_msgs, jobVars, epilog, cntVars, totVars,
                 cycVars, bgVars, msgVars>>

\* A TERMINATE request already on its way makes a second one redundant: the
\* handler of the second finds nothing on the completed list.
SendTerminate(t, J) == [j \in Trace |-> IF j \in J /\ t[j] = "none" THEN "sent"
                                                                   ELSE t[j]]

\* The state job_complete gives a running job.
CompletedState(j) ==
  IF end_time[j] + OverTimeLimit < SimTime THEN "TIMEOUT_CG" ELSE "COMPLETE_CG"

\* _slurm_rpc_complete_batch_script with job_complete and deallocate_nodes.
CompleteBatchScript ==
  LET j == current_event IN
  /\ sd_pc = "complete"
  /\ JobLockFree
  /\ sd_pc' = "acked"
  /\ total_finished_jobs' = total_finished_jobs + 1
  /\ IF IsJobFinished(j)
     THEN UNCHANGED <<job_state, end_time, last_active, term>>
     ELSE /\ job_state' = [job_state EXCEPT ![j] = CompletedState(j)]
          /\ end_time' = [end_time EXCEPT ![j] = SimTime]
          /\ last_active' = [last_active EXCEPT ![j] = SimTime]
          /\ term' = SendTerminate(term, {j})
  /\ UNCHANGED <<mgrVars, trace_recs_end_sim, semVars, now, jobs_ended,
                 current_event, listVars, waiting_epilog_msgs, start_time,
                 idle_nodes, job_sched_cnt, submit_thread, epilog,
                 arrived_jobs_epilogs, totVars, cycVars, bgVars, launch,
                 kill_msg, lost>>

\* make_node_idle changes a job that is completing, and only once.
EpilogEndsJob_Replay(j) == TRUE
EpilogEndsJob(j) == Completing(j)

\* _slurm_rpc_epilog_complete, one step per point another thread can see.
\* First job_epilog_complete under the job write lock: make_node_idle frees
\* the nodes once, however often the message comes.
EpilogNote(j, o) ==
  /\ epilog[j][o] = "sent"
  /\ JobLockFree
  /\ epilog' = [epilog EXCEPT ![j][o] = "noted"]
  /\ IF EpilogEndsJob(j)
     THEN /\ job_state' = [job_state EXCEPT ![j] =
                IF @ = "TIMEOUT_CG" THEN "TIMEOUT" ELSE "COMPLETE"]
          /\ idle_nodes' = idle_nodes + Width[j]
     ELSE UNCHANGED <<job_state, idle_nodes>>
  /\ UNCHANGED <<mgrVars, trace_recs_end_sim, semVars, sdVars, listVars,
                 waiting_epilog_msgs, start_time, end_time, last_active,
                 job_sched_cnt, submit_thread, cntVars, totVars, cycVars,
                 bgVars, msgVars>>

\* Then queue_job_scheduler and the answer to slurmd.
EpilogReply(j, o) ==
  /\ epilog[j][o] = "noted"
  /\ epilog' = [epilog EXCEPT ![j][o] = "replied"]
  /\ job_sched_cnt' = QueueJobScheduler(job_sched_cnt)
  /\ UNCHANGED <<mgrVars, trace_recs_end_sim, semVars, sdVars, listVars,
                 waiting_epilog_msgs, jobVars, submit_thread, cntVars,
                 totVars, cycVars, bgVars, msgVars>>

\* Then the epilog is counted for the running cycle, under its lock.
EpilogArrived(j, o) ==
  /\ epilog[j][o] = "replied"
  /\ epilog' = [epilog EXCEPT ![j][o] = "arrived"]
  /\ arrived_jobs_epilogs' = arrived_jobs_epilogs + 1
  /\ UNCHANGED <<mgrVars, trace_recs_end_sim, semVars, sdVars, listVars,
                 waiting_epilog_msgs, jobVars, job_sched_cnt, submit_thread,
                 total_finished_jobs, totVars, cycVars, bgVars, msgVars>>

\* Last, total_epilog_complete_jobs++ without a lock: a load and a store.
EpilogLoad(j, o) ==
  /\ epilog[j][o] = "arrived"
  /\ epilog' = [epilog EXCEPT ![j][o] = "loaded"]
  /\ loaded' = [loaded EXCEPT ![j][o] = total_epilog_complete_jobs]
  /\ UNCHANGED <<mgrVars, trace_recs_end_sim, semVars, sdVars, listVars,
                 waiting_epilog_msgs, jobVars, job_sched_cnt, submit_thread,
                 cntVars, total_epilog_complete_jobs, cycVars, bgVars,
                 msgVars>>

EpilogStore(j, o) ==
  /\ epilog[j][o] = "loaded"
  /\ epilog' = [epilog EXCEPT ![j][o] = "over"]
  /\ total_epilog_complete_jobs' = loaded[j][o] + 1
  /\ loaded' = [loaded EXCEPT ![j][o] = 0]
  /\ UNCHANGED <<mgrVars, trace_recs_end_sim, semVars, sdVars, listVars,
                 waiting_epilog_msgs, jobVars, job_sched_cnt, submit_thread,
                 cntVars, cycVars, bgVars, msgVars>>

-----------------------------------------------------------------------------
(* slurmctld: _slurm_rpc_sim_helper_cycle                                  *)

\* The first spin: every REQUEST_COMPLETE_BATCH_SCRIPT has arrived.
CycleFinished ==
  /\ ctl_pc = "finished"
  /\ total_finished_jobs = total_jobs_ended
  /\ total_finished_jobs' = 0
  /\ ctl_pc' = "epilogs"
  /\ UNCHANGED <<mgrVars, trace_recs_end_sim, semVars, sdVars, listVars,
                 waiting_epilog_msgs, jobVars, job_sched_cnt, submit_thread,
                 epilog, arrived_jobs_epilogs, totVars, total_jobs_ended,
                 last_backfill, bgVars, msgVars>>

\* The second spin, on the epilogs; the test is outside the lock of the reset.
CycleEpilogs ==
  /\ ctl_pc = "epilogs"
  /\ arrived_jobs_epilogs = total_jobs_ended
  /\ ctl_pc' = "reset_epilogs"
  /\ UNCHANGED <<mgrVars, trace_recs_end_sim, semVars, sdVars, listVars,
                 waiting_epilog_msgs, jobVars, job_sched_cnt, submit_thread,
                 epilog, cntVars, totVars, total_jobs_ended, last_backfill,
                 bgVars, msgVars>>

CycleResetEpilogs ==
  /\ ctl_pc = "reset_epilogs"
  /\ ctl_pc' = "sched_cnt"
  /\ arrived_jobs_epilogs' = 0
  /\ UNCHANGED <<mgrVars, trace_recs_end_sim, semVars, sdVars, listVars,
                 waiting_epilog_msgs, jobVars, job_sched_cnt, submit_thread,
                 epilog, total_finished_jobs, totVars, total_jobs_ended,
                 last_backfill, bgVars, msgVars>>

\* get_scheduler_cnt() > 0 ?
CycleSchedCnt ==
  /\ ctl_pc = "sched_cnt"
  /\ ctl_pc' = IF job_sched_cnt > 0 THEN "reset_cnt" ELSE "backfill_due"
  /\ UNCHANGED <<mgrVars, trace_recs_end_sim, semVars, sdVars, listVars,
                 waiting_epilog_msgs, jobVars, job_sched_cnt, submit_thread,
                 epilog, cntVars, totVars, total_jobs_ended, last_backfill,
                 bgVars, msgVars>>

\* reset_scheduler_cnt, before the job lock is taken.
CycleResetCnt ==
  /\ ctl_pc = "reset_cnt"
  /\ ctl_pc' = "schedule"
  /\ job_sched_cnt' = 0
  /\ UNCHANGED <<mgrVars, trace_recs_end_sim, semVars, sdVars, listVars,
                 waiting_epilog_msgs, jobVars, submit_thread, epilog, cntVars,
                 totVars, total_jobs_ended, last_backfill, bgVars, msgVars>>

\* select_nodes finds enough idle nodes.
Fits(j) == Width[j] <= idle_nodes

\* select_nodes and launch_job: allocate the nodes and send the launch request.
\* slurmd answers at once and leaves the rest to the thread of LaunchRead.
StartJob(j) ==
  /\ j \in Pending
  /\ Fits(j)
  /\ job_state' = [job_state EXCEPT ![j] = "RUNNING"]
  /\ start_time' = [start_time EXCEPT ![j] = SimTime]
  /\ end_time' = [end_time EXCEPT ![j] = SimTime + TimeLimit[j]]
  /\ idle_nodes' = idle_nodes - Width[j]
  /\ last_active' = [last_active EXCEPT ![j] = SimTime]
  /\ launch' = [launch EXCEPT ![j].pc = "sent"]

\* The main scheduler takes the queue in priority order and, in a partition,
\* stops at the first job that does not fit.
FirstPending(j) == j \in Pending /\ \A k \in Pending : j <= k

ScheduleStart(j) ==
  /\ ctl_pc = "schedule"
  /\ FirstPending(j)
  /\ StartJob(j)
  /\ UNCHANGED <<mgrVars, trace_recs_end_sim, semVars, sdVars, listVars,
                 waiting_epilog_msgs, job_sched_cnt, submit_thread, epilog,
                 cntVars, totVars, cycVars, bgVars, term, kill_msg, lost>>

ScheduleDone ==
  /\ ctl_pc = "schedule"
  /\ \A j \in Trace : FirstPending(j) => ~Fits(j)
  /\ ctl_pc' = "backfill_due"
  /\ UNCHANGED <<mgrVars, trace_recs_end_sim, semVars, sdVars, listVars,
                 waiting_epilog_msgs, jobVars, job_sched_cnt, submit_thread,
                 epilog, cntVars, totVars, total_jobs_ended, last_backfill,
                 bgVars, msgVars>>

BackfillDue == last_backfill = 0 \/ SimTime - last_backfill > BackfillInterval

CycleBackfillDue ==
  /\ ctl_pc = "backfill_due"
  /\ ctl_pc' = IF BackfillDue THEN "backfill" ELSE "reply"
  /\ UNCHANGED <<mgrVars, trace_recs_end_sim, semVars, sdVars, listVars,
                 waiting_epilog_msgs, jobVars, job_sched_cnt, submit_thread,
                 epilog, cntVars, totVars, total_jobs_ended, last_backfill,
                 bgVars, msgVars>>

\* do_backfill lets the backfill agent run and waits for it.  Which of the
\* jobs that fit it starts depends on its reservation table and is left open;
\* it yields the locks between jobs.
BackfillStart(j) ==
  /\ ctl_pc = "backfill"
  /\ StartJob(j)
  /\ UNCHANGED <<mgrVars, trace_recs_end_sim, semVars, sdVars, listVars,
                 waiting_epilog_msgs, job_sched_cnt, submit_thread, epilog,
                 cntVars, totVars, cycVars, bgVars, term, kill_msg, lost>>

BackfillDone ==
  /\ ctl_pc = "backfill"
  /\ ctl_pc' = "reply"
  /\ last_backfill' = SimTime
  /\ UNCHANGED <<mgrVars, trace_recs_end_sim, semVars, sdVars, listVars,
                 waiting_epilog_msgs, jobVars, job_sched_cnt, submit_thread,
                 epilog, cntVars, totVars, total_jobs_ended, bgVars, msgVars>>

\* The answer to slurmd.
CycleReply ==
  /\ ctl_pc = "reply"
  /\ ctl_pc' = "idle"
  /\ sd_pc' = "post"
  /\ UNCHANGED <<mgrVars, trace_recs_end_sim, semVars, now, jobs_ended,
                 current_event, listVars, waiting_epilog_msgs, jobVars,
                 job_sched_cnt, submit_thread, epilog, cntVars, totVars,
                 total_jobs_ended, last_backfill, bgVars, msgVars>>

-----------------------------------------------------------------------------
(* slurmctld: _slurmctld_background                                        *)

PastLimit_OffByOne(j) == end_time[j] <= SimTime + 1 - OverTimeLimit

\* job_time_limit: end_time <= over_run.
PastLimit(j) == end_time[j] <= SimTime - OverTimeLimit

\* job_time_limit and _job_timed_out, for every job past its limit.
JobTimeLimit ==
  LET TimedOut == {j \in Trace : job_state[j] = "RUNNING" /\ PastLimit(j)} IN
  /\ JobLockFree
  /\ SimTime - last_timelimit >= PeriodicTimeout
  /\ last_timelimit' = SimTime
  /\ job_state' = [j \in Trace |-> IF j \in TimedOut THEN "TIMEOUT_CG" ELSE job_state[j]]
  /\ end_time' = [j \in Trace |-> IF j \in TimedOut THEN SimTime ELSE end_time[j]]
  /\ last_active' = [j \in Trace |-> IF j \in TimedOut THEN SimTime ELSE last_active[j]]
  /\ kill_msg' = kill_msg \cup TimedOut
  /\ UNCHANGED <<mgrVars, trace_recs_end_sim, semVars, sdVars, listVars,
                 waiting_epilog_msgs, start_time, idle_nodes, job_sched_cnt,
                 submit_thread, epilog, cntVars, totVars, cycVars, last_purge,
                 launch, term, lost>>

\* purge_old_job: re_kill_job for the jobs that have been completing for too
\* long.
PurgeOldJob ==
  LET Stuck == {j \in Trace : Completing(j)
                              /\ last_active[j] < SimTime - KillAge} IN
  /\ JobLockFree
  /\ SimTime - last_purge >= PurgeInterval
  /\ last_purge' = SimTime
  /\ last_active' = [j \in Trace |-> IF j \in Stuck THEN SimTime ELSE last_active[j]]
  /\ term' = SendTerminate(term, Stuck)
  /\ UNCHANGED <<mgrVars, trace_recs_end_sim, semVars, sdVars, listVars,
                 waiting_epilog_msgs, job_state, start_time, end_time,
                 idle_nodes, job_sched_cnt, submit_thread, epilog, cntVars,
                 totVars, cycVars, last_timelimit, launch, kill_msg, lost>>

\* As many epilogs as the log has jobs.
AllCounted_OneShort == total_epilog_complete_jobs >= NJobs - 1
AllCounted_Strict == total_epilog_complete_jobs > NJobs
AllCounted == total_epilog_complete_jobs = NJobs

\* The end-of-simulation test at the bottom of the loop.
EndOfLog ==
  /\ AllCounted
  /\ trace_recs_end_sim' = EndFlag
  /\ UNCHANGED <<mgrVars, semVars, sdVars, listVars, waiting_epilog_msgs,
                 jobVars, job_sched_cnt, submit_thread, epilog, cntVars,
                 totVars, cycVars, bgVars, msgVars>>

-----------------------------------------------------------------------------
(* The network: at most MaxLost of the kill requests the agent sends fail.  *)
(* The agent does not keep them for a retry (deallocate_nodes: retry = 0). *)

LoseKill(j) ==
  /\ lost < MaxLost
  /\ lost' = lost + 1
  /\ \/ term[j] = "sent" /\ term' = [term EXCEPT ![j] = "none"] /\ UNCHANGED kill_msg
     \/ j \in kill_msg /\ kill_msg' = kill_msg \ {j} /\ UNCHANGED term
  /\ UNCHANGED <<mgrVars, trace_recs_end_sim, semVars, sdVars, listVars,
                 waiting_epilog_msgs, jobVars, job_sched_cnt, submit_thread,
                 epilog, cntVars, totVars, cycVars, bgVars, launch>>

\* The simulation is over; nothing needs to happen any more.
Terminated == mgr_pc = "exited" /\ UNCHANGED vars

-----------------------------------------------------------------------------
(* The specification                                                       *)

Manager == MgrTop \/ MgrTerminate \/ MgrSubmit \/ MgrSimJob \/ MgrPost \/ MgrAdvance

Helper == SdWake \/ SdEvent \/ SdCompleteAcked \/ SdEventsDone
          \/ SdEpilogsDone \/ SdSendCycle \/ SdPost

SlurmdThread(j) == LaunchRead(j) \/ LaunchInsert(j) \/ TermLookup(j)
                   \/ TermAnswered(j) \/ KillTimelimit(j)

EpilogThread(j, o) == EpilogNote(j, o) \/ EpilogReply(j, o)
                      \/ EpilogArrived(j, o) \/ EpilogLoad(j, o)
                      \/ EpilogStore(j, o)

HelperCycle == CycleFinished \/ CycleEpilogs \/ CycleResetEpilogs
               \/ CycleSchedCnt \/ CycleResetCnt
               \/ (\E j \in Trace : ScheduleStart(j)) \/ ScheduleDone
               \/ CycleBackfillDue \/ BackfillDone \/ CycleReply

Background == JobTimeLimit \/ PurgeOldJob

Next ==
  \/ Manager
  \/ Helper
  \/ \E j \in Trace : SlurmdThread(j)
  \/ \E j \in Trace : QueueAfterSubmit(j)
  \/ CompleteBatchScript
  \/ \E j \in Trace, o \in Origins : EpilogThread(j, o)
  \/ HelperCycle
  \/ \E j \in Trace : BackfillStart(j)
  \/ Background
  \/ EndOfLog
  \/ \E j \in Trace : LoseKill(j)
  \/ Terminated

Spec == Init /\ [][Next]_vars

(* Every thread of the three processes keeps being scheduled.  time_mgr     *)
(* comes by the top of its loop again and again until 20 s have passed,     *)
(* hence the strong fairness of MgrTerminate.                              *)
Fairness ==
  /\ WF_vars(Manager) /\ SF_vars(MgrTerminate)
  /\ WF_vars(Helper)
  /\ \A j \in Trace : /\ WF_vars(SlurmdThread(j))
                      /\ WF_vars(QueueAfterSubmit(j))
                      /\ \A o \in Origins : WF_vars(EpilogThread(j, o))
  /\ WF_vars(CompleteBatchScript)
  /\ WF_vars(HelperCycle)
  /\ WF_vars(JobTimeLimit) /\ WF_vars(PurgeOldJob) /\ WF_vars(EndOfLog)

FairSpec == Spec /\ Fairness

-----------------------------------------------------------------------------
(* Type invariant                                                          *)

MgrTypeOK ==
  /\ mgr_pc \in {"top", "submit", "sim_job", "wait", "exited"}
  /\ current_sim \in Nat /\ trace_head \in 1..(NJobs + 1) /\ time_end \in BOOLEAN
  /\ trace_recs_end_sim \in {0, -1}
  /\ slurm_sem \in Nat /\ sim_sem \in Nat

SlurmdTypeOK ==
  /\ sd_pc \in {"sem_wait", "events", "complete", "acked", "epilogs",
                "send_cycle", "cycle", "post"}
  /\ now \in Nat /\ jobs_ended \in Nat /\ current_event \in Trace \cup {0}
  /\ events \in Seq([job : Trace, when : Nat])
  /\ completed \subseteq Trace /\ sim_info \subseteq Trace
  /\ waiting_epilog_msgs \in Int

MessageTypeOK ==
  /\ launch \in [Trace -> [pc : {"none", "sent", "read", "over"}, now : Nat]]
  /\ term \in [Trace -> {"none", "sent", "epilog"}]
  /\ kill_msg \subseteq Trace /\ lost \in Nat
  /\ submit_thread \subseteq Trace
  /\ epilog \in [Trace -> [Origins -> EpilogStates]]
  /\ loaded \in [Trace -> [Origins -> Nat]]

JobTypeOK ==
  /\ job_state \in [Trace -> JobStates]
  /\ start_time \in [Trace -> Nat] /\ end_time \in [Trace -> Nat]
  /\ last_active \in [Trace -> Nat] /\ idle_nodes \in Int

SlurmctldTypeOK ==
  /\ ctl_pc \in {"idle", "finished", "epilogs", "reset_epilogs", "sched_cnt",
                 "reset_cnt", "schedule", "backfill_due", "backfill", "reply"}
  /\ job_sched_cnt \in Nat
  /\ total_finished_jobs \in Nat /\ arrived_jobs_epilogs \in Nat
  /\ total_epilog_complete_jobs \in Nat
  /\ total_jobs_ended \in Nat /\ last_backfill \in Nat
  /\ last_timelimit \in Nat /\ last_purge \in Nat

\* Every variable keeps to its range; trace_head and the lists of slurmd only
\* ever name records of the trace.
TypeOK ==
  MgrTypeOK /\ SlurmdTypeOK /\ MessageTypeOK /\ JobTypeOK /\ SlurmctldTypeOK

-----------------------------------------------------------------------------
(* Safety                                                                  *)

MgrTurn == mgr_pc # "wait"
SdTurn  == sd_pc # "sem_wait"

\* One turn goes round: time_mgr runs, or its post is pending, or the helper
\* runs, or the helper's post is pending, and the helper-cycle handler of
\* slurmctld runs only while the helper waits for its answer.
LockStep ==
  /\ \/ MgrTurn  /\ ~SdTurn /\ slurm_sem = 0 /\ sim_sem = 0
     \/ ~MgrTurn /\ SdTurn  /\ slurm_sem = 0 /\ sim_sem = 0
     \/ ~MgrTurn /\ ~SdTurn /\ slurm_sem + sim_sem = 1
  /\ ctl_pc # "idle" <=> sd_pc = "cycle"

\* The clock stands still while slurmd or slurmctld work on a cycle, and no
\* job is submitted then: everything the helper-cycle handler does happens at
\* one instant of simulated time.
ClockFrozenDuringCycle ==
  [][SdTurn => current_sim' = current_sim /\ trace_head' = trace_head]_vars

\* The helper compares the events with the current time, not an older one.
HelperTimeIsCurrent == SdTurn => now = current_sim

\* simulator_add_future_event keeps the list in time order although launch
\* threads insert in any order: the helper may stop at the first event that
\* is not due.
EventsSorted == SortedByTime(events)

\* A job that ends by its completion event has run at least for the duration
\* the trace gives it.
NeverEarly ==
  \A j \in Trace : job_state[j] \in {"COMPLETE_CG", "COMPLETE"} =>
    end_time[j] >= start_time[j] + Duration[j]

\* slurmd knows the job, through REQUEST_SIM_JOB, before its launch request
\* comes: simulator_add_future_event never takes its "No job_id event" exit.
LaunchKnowsJob ==
  \A j \in Trace : launch[j].pc # "none" => j \in sim_info

\* A job that runs has exactly one completion event on its way: a launch
\* request, an entry of the event list, or the entry the helper works on.
EventIndices(j) == {i \in 1..Len(events) : events[i].job = j}

OneEventPerRunningJob ==
  \A j \in Trace :
    /\ Cardinality(EventIndices(j)) <= 1
    /\ job_state[j] = "RUNNING" =>
         \/ launch[j].pc \in {"sent", "read"} /\ EventIndices(j) = {}
         \/ launch[j].pc = "over"
            /\ (EventIndices(j) = {}
                  => sd_pc = "complete" /\ current_event = j)

\* waiting_epilog_msgs counts the jobs whose epilog slurmd still owes, also
\* while the mutex hides the entry the helper is working on; so the helper
\* does not go on too early, and the counter never drops below zero.
EpilogsOwed == {j \in Trace : j \in completed \/ term[j] = "epilog"}

EpilogAccounting ==
  /\ waiting_epilog_msgs = Cardinality(EpilogsOwed)
                           - (IF sd_pc \in {"complete", "acked"} THEN 1 ELSE 0)
  /\ waiting_epilog_msgs >= 0

\* The helper-cycle handler schedules only after every job that completed in
\* this cycle has given its nodes back.
SchedulerSeesFreedNodes ==
  ctl_pc # "idle" => \A j \in Trace : job_state[j] # "COMPLETE_CG"

\* When a job at the head of the queue fits, a scheduling pass is requested
\* or about to be: queue_job_scheduler is called after the change it reports.
SchedulingRequested ==
  \/ job_sched_cnt > 0
  \/ submit_thread # {}
  \/ \E j \in Trace, o \in Origins : epilog[j][o] = "noted"

NoLostScheduling ==
  ctl_pc \in {"idle", "reply"} =>
    \A j \in Trace : FirstPending(j) /\ Fits(j) =>
      SchedulingRequested

\* The nodes of running and completing jobs and the idle ones make up the
\* cluster: StartJob takes nodes that exist and make_node_idle frees the
\* nodes of a job once, however many epilog messages come.  HeldNodes has one
\* element for each node a job holds.
Holding   == {j \in Trace : job_state[j] = "RUNNING" \/ Completing(j)}
HeldNodes == UNION {{j} \X (1..Width[j]) : j \in Holding}

NodesConserved ==
  /\ idle_nodes >= 0
  /\ idle_nodes + Cardinality(HeldNodes) = NNodes

\* The busy waits of a cycle, of slurmctld for completions and for epilogs and
\* of slurmd for its answers, are only ever for messages that have been sent:
\* the completions are all there, an epilog not yet counted has its handler
\* just before the count, and every job slurmd waits for has a terminate
\* request on its way.  It holds as long as no job is killed at its limit and
\* no kill is lost (Undisturbed).
SpinsEnd ==
  /\ ctl_pc = "finished" => total_finished_jobs = total_jobs_ended
  /\ ctl_pc = "epilogs" =>
       arrived_jobs_epilogs + Cardinality({j \in Trace : epilog[j]["sim"] = "replied"})
         = total_jobs_ended
  /\ sd_pc = "epilogs" => \A j \in completed : term[j] = "sent"

Undisturbed == kill_msg = {} /\ lost = 0

\* slurmctld tells time_mgr to end only when every job of the log has ended
\* and given back its nodes.
EndOnlyAfterAll == trace_recs_end_sim = EndFlag => \A j \in Trace : Ended(j)

\* purge_old_job finds no job that has been completing for too long.
NoReKill == [][PurgeOldJob => term' = term]_vars

\* With no epilog handler under way, total_epilog_complete_jobs is the number
\* of jobs that have ended in their entirety, as the comment at the increment
\* says.  Two handlers that increment it at once lose an update.
CountsFinishedJobs ==
  (\A j \in Trace, o \in Origins : epilog[j][o] \in {"none", "over"}) =>
    total_epilog_complete_jobs = Cardinality({j \in Trace : Ended(j)})

\* The three processes together do what a simulation of the trace promises:
\* seen through the clock in shared memory and slurmctld's table of jobs,
\* every step is one of JobLife, whatever the order of RPCs and threads.
JobLifeCycle == INSTANCE JobLife WITH clock <- current_sim, state <- job_state,
                                      start <- start_time, free <- idle_nodes

SimulatesJobs == JobLifeCycle!Spec

-----------------------------------------------------------------------------
(* Liveness                                                                *)

\* Every job of the trace eventually runs to its end.
AllJobsFinish == <>(\A j \in Trace : Ended(j))

\* Once slurmctld has counted as many epilogs as the log has jobs, the
\* simulation comes to its end.
EndsOnceCounted == total_epilog_complete_jobs = NJobs ~> mgr_pc = "exited"

\* When all jobs of the log have finished, the simulation ends.  A job killed
\* at its time limit sends an epilog no helper cycle waits for: the next cycle
\* waits for ever.
EndsWhenAllFinished == (\A j \in Trace : Ended(j)) ~> mgr_pc = "exited"

\* A job does not stay in the completing state: re_kill_job resends a lost
\* kill request.  The age that makes it resend is simulated time, which stands
\* still while the helper waits for the epilog.
CompletingEnds == \A j \in Trace : Completing(j) ~> Ended(j)
=============================================================================
