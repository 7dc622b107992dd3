------------------------- MODULE SimCycleBaseProofs -------------------------
(***************************************************************************)
(* The invariants that say where the simulation cycle and its jobs are,    *)
(* proved to be kept by every step, for every trace, every cluster and     *)
(* every setting of the intervals, with kills lost or not: the types and   *)
(* the turn; JobsInv, on the trace, the job table and the launch threads;  *)
(* EventsInv, on the event list and the list of completed jobs.  Given     *)
(* them no step ends a job early, and each is a step of JobLife.  The      *)
(* lemmas on kinds of steps and the Frame lemmas say what an action leaves *)
(* alone.  A leaf that names two provers is tried with each in turn.       *)
(***************************************************************************)
EXTENDS SimCycle, TLAPS

-----------------------------------------------------------------------------
(* The event list                                                          *)

\* What simulator_add_future_event does to the list of events, as the steps
\* below use it.  SimCycleProofs proves it (InsertHolds).
InsertFact ==
  \A q \in Seq(EventRec(Trace)), e \in EventRec(Trace) :
    /\ AddFutureEvent(q, e) \in Seq(EventRec(Trace))
    /\ \E p \in 1..(Len(q) + 1) : Inserted(q, e, p, AddFutureEvent(q, e))

-----------------------------------------------------------------------------
(* Types                                                                   *)

\* generateJob is at its second half only for a record of the trace.
SimJobInTrace == mgr_pc = "sim_job" => trace_head <= NJobs

TypeInv == TypeOK /\ SimJobInTrace

\* A step that leaves the variables of a process alone keeps their types.
LEMMA TypeFrame ==
  ASSUME TypeInv
  PROVE  /\ UNCHANGED <<mgr_pc, current_sim, trace_head, time_end,
                        trace_recs_end_sim, slurm_sem, sim_sem>>
              => MgrTypeOK' /\ SimJobInTrace'
         /\ UNCHANGED <<sd_pc, now, jobs_ended, current_event, events, completed,
                        sim_info, waiting_epilog_msgs>> => SlurmdTypeOK'
         /\ UNCHANGED <<launch, term, kill_msg, lost, submit_thread, epilog,
                        loaded>> => MessageTypeOK'
         /\ UNCHANGED <<job_state, start_time, end_time, last_active, idle_nodes>>
              => JobTypeOK'
         /\ UNCHANGED <<ctl_pc, job_sched_cnt, total_finished_jobs,
                        arrived_jobs_epilogs, total_epilog_complete_jobs,
                        total_jobs_ended, last_backfill, last_timelimit,
                        last_purge>> => SlurmctldTypeOK'
PROOF
<1>1. UNCHANGED <<mgr_pc, current_sim, trace_head, time_end,
                  trace_recs_end_sim, slurm_sem, sim_sem>>
        => MgrTypeOK' /\ SimJobInTrace'
  BY Zenon DEF TypeInv, TypeOK, MgrTypeOK, SimJobInTrace
<1>2. UNCHANGED <<sd_pc, now, jobs_ended, current_event, events, completed,
                  sim_info, waiting_epilog_msgs>> => SlurmdTypeOK'
  BY Zenon DEF TypeInv, TypeOK, SlurmdTypeOK
<1>3. UNCHANGED <<launch, term, kill_msg, lost, submit_thread, epilog, loaded>>
        => MessageTypeOK'
  BY Zenon DEF TypeInv, TypeOK, MessageTypeOK
<1>4. UNCHANGED <<job_state, start_time, end_time, last_active, idle_nodes>>
        => JobTypeOK'
  BY Zenon DEF TypeInv, TypeOK, JobTypeOK
<1>5. UNCHANGED <<ctl_pc, job_sched_cnt, total_finished_jobs,
                  arrived_jobs_epilogs, total_epilog_complete_jobs,
                  total_jobs_ended, last_backfill, last_timelimit, last_purge>>
        => SlurmctldTypeOK'
  BY Zenon DEF TypeInv, TypeOK, SlurmctldTypeOK
<1> QED
  BY <1>1, <1>2, <1>3, <1>4, <1>5, Zenon

\* Updates of nested functions and records keep their types.
LEMMA UpdateNested ==
  ASSUME NEW S, NEW O, NEW V, NEW f \in [S -> [O -> V]],
         NEW s \in S, NEW o \in O, NEW v \in V
  PROVE  [f EXCEPT ![s][o] = v] \in [S -> [O -> V]]
PROOF OBVIOUS

(* ... and of only the pc of a launch request: LaunchInsert, StartJob.      *)
LEMMA UpdatePc ==
  ASSUME NEW S, NEW P, NEW f \in [S -> [pc : P, now : Nat]],
         NEW s \in S, NEW p \in P
  PROVE  [f EXCEPT ![s].pc = p] \in [S -> [pc : P, now : Nat]]
PROOF OBVIOUS

\* The event list of the model is a list in the words of the list lemmas.
LEMMA EventsAreRecords ==
  ASSUME TypeOK PROVE events \in Seq(EventRec(Trace))
PROOF BY Zenon DEF TypeOK, SlurmdTypeOK, EventRec

\* The completion event a launch builds, from the clock it read and the job's
\* duration, is an event record.
LEMMA FinishEventIsRecord ==
  ASSUME NEW j \in Trace, NEW t \in Nat
  PROVE  [job |-> j, when |-> t + Duration[j]] \in EventRec(Trace)
PROOF
<1>1. Duration[j] \in Nat
  BY ConstantsAssumption, Zenon
<1>2. t + Duration[j] \in Nat
  BY <1>1, SMT, Z3
<1> QED
  BY <1>2, Zenon DEF EventRec

\* sim_mgr's steps keep the types.
LEMMA TypeManager ==
  ASSUME TypeInv, Manager
  PROVE  TypeInv'
PROOF
<1> USE DEF TypeInv, TypeOK, mgrVars, semVars, sdVars, listVars,
            jobVars, cntVars, totVars, cycVars, bgVars, msgVars
<1>1. CASE MgrTop
  BY TypeFrame, <1>1, Zenon DEF MgrTop, MgrTypeOK, SimJobInTrace, EndPointReached
<1>2. CASE MgrTerminate
  BY TypeFrame, <1>2, Zenon DEF MgrTerminate, MgrTypeOK, SimJobInTrace
<1>3. CASE MgrSubmit
  <2>1. trace_head \in Trace /\ trace_head <= NJobs
    BY <1>3, ConstantsAssumption, SMT, Z3 DEF MgrSubmit, JobDue, Trace, MgrTypeOK
  <2>2. MgrTypeOK' /\ SimJobInTrace'
    BY <1>3, <2>1, Zenon DEF MgrSubmit, MgrTypeOK, SimJobInTrace
  <2>3. JobTypeOK'
    BY <1>3, <2>1, Zenon DEF MgrSubmit, JobTypeOK, JobStates
  <2>4. MessageTypeOK'
    BY <1>3, <2>1, Zenon DEF MgrSubmit, MessageTypeOK
  <2> QED
    BY TypeFrame, <1>3, <2>2, <2>3, <2>4, Zenon DEF MgrSubmit
<1>4. CASE MgrSimJob
  <2>1. MgrTypeOK' /\ SimJobInTrace'
    BY <1>4, ConstantsAssumption, SMT, Z3 DEF MgrSimJob, MgrTypeOK, SimJobInTrace
  <2>2. SlurmdTypeOK'
    BY <1>4, ConstantsAssumption, SMT, Z3
    DEF MgrSimJob, AddJobInfo, MgrTypeOK, SimJobInTrace, SlurmdTypeOK, Trace
  <2> QED
    BY TypeFrame, <1>4, <2>1, <2>2, Zenon DEF MgrSimJob
<1>5. CASE MgrPost
  BY TypeFrame, <1>5, SMT, Z3 DEF MgrPost, MgrTypeOK, SimJobInTrace
<1>6. CASE MgrAdvance
  BY TypeFrame, <1>6, ConstantsAssumption, SMT, Z3
     DEF MgrAdvance, SemWait, Advance, MgrTypeOK, SimJobInTrace
<1> QED
  BY <1>1, <1>2, <1>3, <1>4, <1>5, <1>6, Zenon DEF Manager

\* The steps of slurmd's helper keep the types.
LEMMA TypeHelper ==
  ASSUME TypeInv, Helper
  PROVE  TypeInv'
PROOF
<1> USE DEF TypeInv, TypeOK, mgrVars, semVars, sdVars, listVars,
            jobVars, cntVars, totVars, cycVars, bgVars, msgVars
<1>1. CASE SdWake
  <2>1. MgrTypeOK' /\ SimJobInTrace'
    BY <1>1, SMT, Z3 DEF SdWake, SemWait, MgrTypeOK, SimJobInTrace
  <2>2. SlurmdTypeOK'
    BY <1>1, Zenon DEF SdWake, SimTime, MgrTypeOK, SlurmdTypeOK
  <2> QED
    BY TypeFrame, <1>1, <2>1, <2>2, Zenon DEF SdWake
<1>2. CASE SdEvent
  <2>1. events # <<>> /\ events \in Seq(EventRec(Trace))
    BY <1>2, EventsAreRecords, Zenon DEF SdEvent, EventDue
  <2>2. Head(events) \in EventRec(Trace) /\ Tail(events) \in Seq(EventRec(Trace))
    BY <2>1, SMT, Z3
  <2>3. Head(events).job \in Trace /\ Tail(events) \in Seq([job : Trace, when : Nat])
    BY <2>2, Zenon DEF EventRec
  <2>4. SlurmdTypeOK'
    BY <1>2, <2>3, Zenon DEF SdEvent, SlurmdTypeOK
  <2> QED
    BY TypeFrame, <1>2, <2>4, Zenon DEF SdEvent
<1>3. CASE SdCompleteAcked
  BY TypeFrame, <1>3, SMT, Z3 DEF SdCompleteAcked, CountEnded, SlurmdTypeOK
<1>4. CASE SdEventsDone
  BY TypeFrame, <1>4, Zenon DEF SdEventsDone, SlurmdTypeOK
<1>5. CASE SdEpilogsDone
  BY TypeFrame, <1>5, Zenon DEF SdEpilogsDone, SlurmdTypeOK
<1>6. CASE SdSendCycle
  <2>1. SlurmdTypeOK' /\ SlurmctldTypeOK'
    BY <1>6, Zenon DEF SdSendCycle, SlurmdTypeOK, SlurmctldTypeOK
  <2> QED
    BY TypeFrame, <1>6, <2>1, Zenon DEF SdSendCycle
<1>7. CASE SdPost
  <2>1. MgrTypeOK' /\ SimJobInTrace' /\ SlurmdTypeOK'
    BY <1>7, SMT, Z3 DEF SdPost, MgrTypeOK, SimJobInTrace, SlurmdTypeOK
  <2> QED
    BY TypeFrame, <1>7, <2>1, Zenon DEF SdPost
<1> QED
  BY <1>1, <1>2, <1>3, <1>4, <1>5, <1>6, <1>7, Zenon DEF Helper

\* The steps of slurmd's RPC threads keep the types.
LEMMA TypeSlurmdThread ==
  ASSUME InsertFact, TypeInv, NEW j \in Trace, SlurmdThread(j)
  PROVE  TypeInv'
PROOF
<1> USE DEF TypeInv, TypeOK, mgrVars, semVars, sdVars, listVars,
            jobVars, cntVars, totVars, cycVars, bgVars, msgVars
<1>1. CASE LaunchRead(j)
  <2>1. MessageTypeOK'
    BY <1>1, Zenon DEF LaunchRead, SimTime, MgrTypeOK, MessageTypeOK
  <2> QED
    BY TypeFrame, <1>1, <2>1, Zenon DEF LaunchRead
<1>2. CASE LaunchInsert(j)
  <2>1. launch[j].now \in Nat
    BY Zenon DEF MessageTypeOK
  <2>2. [job |-> j, when |-> launch[j].now + Duration[j]] \in EventRec(Trace)
    BY <2>1, FinishEventIsRecord, Zenon
  <2>3. events' \in Seq(EventRec(Trace))
    BY <1>2, <2>2, EventsAreRecords, Zenon DEF LaunchInsert, InsertFact
  <2>4. SlurmdTypeOK'
    BY <1>2, <2>3, Zenon DEF LaunchInsert, SlurmdTypeOK, EventRec
  <2>5. MessageTypeOK'
    BY <1>2, UpdatePc, SMT, Z3 DEF LaunchInsert, MessageTypeOK
  <2> QED
    BY TypeFrame, <1>2, <2>4, <2>5, Zenon DEF LaunchInsert
<1>3. CASE TermLookup(j)
  <2>1. epilog \in [Trace -> [Origins -> EpilogStates]]
    BY Zenon DEF MessageTypeOK
  <2>2. [epilog EXCEPT ![j]["sim"] = "sent"] \in [Trace -> [Origins -> EpilogStates]]
    BY <2>1, UpdateNested, Zenon DEF Origins, EpilogStates
  <2>3. epilog' \in [Trace -> [Origins -> EpilogStates]]
    BY <1>3, <2>1, <2>2, Zenon DEF TermLookup
  <2>4. term' \in [Trace -> {"none", "sent", "epilog"}]
    BY <1>3, Zenon DEF TermLookup, MessageTypeOK
  <2>5. MessageTypeOK'
    BY <1>3, <2>3, <2>4, Zenon DEF TermLookup, MessageTypeOK
  <2>6. SlurmdTypeOK'
    BY <1>3, Zenon DEF TermLookup, SlurmdTypeOK
  <2> QED
    BY TypeFrame, <1>3, <2>5, <2>6, Zenon DEF TermLookup
<1>4. CASE TermAnswered(j)
  <2>1. MessageTypeOK' /\ SlurmdTypeOK'
    BY <1>4, SMT, Z3 DEF TermAnswered, MessageTypeOK, SlurmdTypeOK
  <2> QED
    BY TypeFrame, <1>4, <2>1, Zenon DEF TermAnswered
<1>5. CASE KillTimelimit(j)
  <2>1. epilog \in [Trace -> [Origins -> EpilogStates]]
    BY Zenon DEF MessageTypeOK
  <2>2. [epilog EXCEPT ![j]["real"] = "sent"] \in [Trace -> [Origins -> EpilogStates]]
    BY <2>1, UpdateNested, Zenon DEF Origins, EpilogStates
  <2>3. MessageTypeOK'
    BY <1>5, <2>2, Zenon DEF KillTimelimit, MessageTypeOK
  <2> QED
    BY TypeFrame, <1>5, <2>3, Zenon DEF KillTimelimit
<1> QED
  BY <1>1, <1>2, <1>3, <1>4, <1>5, Zenon DEF SlurmdThread

\* The steps of an epilog handler keep the types.
LEMMA TypeEpilogThread ==
  ASSUME TypeInv, NEW j \in Trace, NEW o \in Origins, EpilogThread(j, o)
  PROVE  TypeInv'
PROOF
<1> USE DEF TypeInv, TypeOK, mgrVars, semVars, sdVars, listVars,
            jobVars, cntVars, totVars, cycVars, bgVars, msgVars
<1>1. CASE EpilogNote(j, o)
  <2>1. epilog \in [Trace -> [Origins -> EpilogStates]]
    BY Zenon DEF MessageTypeOK
  <2>2. [epilog EXCEPT ![j][o] = "noted"] \in [Trace -> [Origins -> EpilogStates]]
    BY <2>1, UpdateNested, Zenon DEF EpilogStates
  <2>3. MessageTypeOK'
    BY <1>1, <2>2, Zenon DEF EpilogNote, MessageTypeOK
  <2>4. JobTypeOK'
    BY <1>1, ConstantsAssumption, SMT, Z3 DEF EpilogNote, JobTypeOK, JobStates
  <2> QED
    BY TypeFrame, <1>1, <2>3, <2>4, Zenon DEF EpilogNote
<1>2. CASE EpilogReply(j, o)
  <2>1. epilog \in [Trace -> [Origins -> EpilogStates]]
    BY Zenon DEF MessageTypeOK
  <2>2. [epilog EXCEPT ![j][o] = "replied"] \in [Trace -> [Origins -> EpilogStates]]
    BY <2>1, UpdateNested, Zenon DEF EpilogStates
  <2>3. MessageTypeOK'
    BY <1>2, <2>2, Zenon DEF EpilogReply, MessageTypeOK
  <2>4. SlurmctldTypeOK'
    BY <1>2, SMT, Z3 DEF EpilogReply, QueueJobScheduler, SlurmctldTypeOK
  <2> QED
    BY TypeFrame, <1>2, <2>3, <2>4, Zenon DEF EpilogReply
<1>3. CASE EpilogArrived(j, o)
  <2>1. epilog \in [Trace -> [Origins -> EpilogStates]]
    BY Zenon DEF MessageTypeOK
  <2>2. [epilog EXCEPT ![j][o] = "arrived"] \in [Trace -> [Origins -> EpilogStates]]
    BY <2>1, UpdateNested, Zenon DEF EpilogStates
  <2>3. MessageTypeOK'
    BY <1>3, <2>2, Zenon DEF EpilogArrived, MessageTypeOK
  <2>4. SlurmctldTypeOK'
    BY <1>3, SMT, Z3 DEF EpilogArrived, SlurmctldTypeOK
  <2> QED
    BY TypeFrame, <1>3, <2>3, <2>4, Zenon DEF EpilogArrived
<1>4. CASE EpilogLoad(j, o)
  <2>1. /\ epilog \in [Trace -> [Origins -> EpilogStates]]
        /\ loaded \in [Trace -> [Origins -> Nat]]
        /\ total_epilog_complete_jobs \in Nat
    BY Zenon DEF MessageTypeOK, SlurmctldTypeOK
  <2>2. /\ [epilog EXCEPT ![j][o] = "loaded"] \in [Trace -> [Origins -> EpilogStates]]
        /\ [loaded EXCEPT ![j][o] = total_epilog_complete_jobs]
             \in [Trace -> [Origins -> Nat]]
    BY <2>1, UpdateNested, Zenon DEF EpilogStates
  <2>3. MessageTypeOK'
    BY <1>4, <2>2, ZenonT(30) DEF EpilogLoad, MessageTypeOK
  <2> QED
    BY TypeFrame, <1>4, <2>3, Zenon DEF EpilogLoad, SlurmctldTypeOK
<1>5. CASE EpilogStore(j, o)
  <2>1. /\ epilog \in [Trace -> [Origins -> EpilogStates]]
        /\ loaded \in [Trace -> [Origins -> Nat]]
        /\ loaded[j][o] \in Nat
    BY Zenon DEF MessageTypeOK
  <2>2. /\ [epilog EXCEPT ![j][o] = "over"] \in [Trace -> [Origins -> EpilogStates]]
        /\ [loaded EXCEPT ![j][o] = 0] \in [Trace -> [Origins -> Nat]]
    BY <2>1, UpdateNested, Zenon DEF EpilogStates
  <2>3. MessageTypeOK'
    BY <1>5, <2>2, Zenon DEF EpilogStore, MessageTypeOK
  <2>4. SlurmctldTypeOK'
    <3>1. loaded[j][o] + 1 \in Nat
      BY <2>1, SMT, Z3
    <3> QED
      BY <1>5, <3>1, Zenon DEF EpilogStore, SlurmctldTypeOK
  <2> QED
    BY TypeFrame, <1>5, <2>3, <2>4, Zenon DEF EpilogStore
<1> QED
  BY <1>1, <1>2, <1>3, <1>4, <1>5, ZenonT(30) DEF EpilogThread

\* Starting a job keeps the types of the job table and the launch requests.
LEMMA TypeStartJob ==
  ASSUME TypeOK, NEW j \in Trace, StartJob(j)
  PROVE  /\ JobTypeOK'
         /\ UNCHANGED <<term, kill_msg, lost, submit_thread, epilog, loaded>>
              => MessageTypeOK'
PROOF
<1>1. job_state' \in [Trace -> JobStates]
  BY Zenon DEF StartJob, TypeOK, JobTypeOK, JobStates
<1>2. TimeLimit[j] \in Nat /\ Width[j] \in Nat /\ SimTime \in Nat
  BY ConstantsAssumption, Zenon DEF TypeOK, MgrTypeOK, SimTime
<1>3. /\ start_time' \in [Trace -> Nat] /\ end_time' \in [Trace -> Nat]
      /\ last_active' \in [Trace -> Nat] /\ idle_nodes' \in Int
  BY <1>2, SMT, Z3 DEF StartJob, TypeOK, JobTypeOK
<1>4. launch' \in [Trace -> [pc : {"none", "sent", "read", "over"}, now : Nat]]
  BY UpdatePc, Zenon DEF StartJob, TypeOK, MessageTypeOK
<1> QED
  BY <1>1, <1>2, <1>3, <1>4, Zenon DEF JobTypeOK, MessageTypeOK, TypeOK

\* The steps of the helper-cycle handler keep the types.
LEMMA TypeHelperCycle ==
  ASSUME TypeInv, HelperCycle
  PROVE  TypeInv'
PROOF
<1> USE DEF TypeInv, TypeOK, mgrVars, semVars, sdVars, listVars,
            jobVars, cntVars, totVars, cycVars, bgVars, msgVars
<1>1. CASE CycleFinished
  BY TypeFrame, <1>1, ZenonT(30) DEF CycleFinished, SlurmctldTypeOK
<1>2. CASE CycleEpilogs
  BY TypeFrame, <1>2, Zenon DEF CycleEpilogs, SlurmctldTypeOK
<1>3. CASE CycleResetEpilogs
  BY TypeFrame, <1>3, Zenon DEF CycleResetEpilogs, SlurmctldTypeOK
<1>4. CASE CycleSchedCnt
  BY TypeFrame, <1>4, Zenon DEF CycleSchedCnt, SlurmctldTypeOK
<1>5. CASE CycleResetCnt
  BY TypeFrame, <1>5, Zenon DEF CycleResetCnt, SlurmctldTypeOK
<1>6. ASSUME NEW j \in Trace, ScheduleStart(j) PROVE TypeInv'
  BY TypeFrame, <1>6, TypeStartJob, Zenon DEF ScheduleStart
<1>7. CASE ScheduleDone
  BY TypeFrame, <1>7, Zenon DEF ScheduleDone, SlurmctldTypeOK
<1>8. CASE CycleBackfillDue
  BY TypeFrame, <1>8, Zenon DEF CycleBackfillDue, SlurmctldTypeOK
<1>9. CASE BackfillDone
  BY TypeFrame, <1>9, Zenon DEF BackfillDone, SimTime, MgrTypeOK, SlurmctldTypeOK
<1>10. CASE CycleReply
  <2>1. SlurmdTypeOK' /\ SlurmctldTypeOK'
    BY <1>10, Zenon DEF CycleReply, SlurmdTypeOK, SlurmctldTypeOK
  <2> QED
    BY TypeFrame, <1>10, <2>1, Zenon DEF CycleReply
<1> QED
  BY <1>1, <1>2, <1>3, <1>4, <1>5, <1>6, <1>7, <1>8, <1>9, <1>10, Zenon DEF HelperCycle

\* The remaining steps keep the types.
LEMMA TypeOthers ==
  ASSUME TypeInv
  PROVE  /\ \A j \in Trace : QueueAfterSubmit(j) => TypeInv'
         /\ CompleteBatchScript => TypeInv'
         /\ \A j \in Trace : BackfillStart(j) => TypeInv'
         /\ Background => TypeInv'
         /\ EndOfLog => TypeInv'
         /\ \A j \in Trace : LoseKill(j) => TypeInv'
PROOF
<1> USE DEF TypeInv, TypeOK, mgrVars, semVars, sdVars, listVars,
            jobVars, cntVars, totVars, cycVars, bgVars, msgVars
<1>1. ASSUME NEW j \in Trace, QueueAfterSubmit(j) PROVE TypeInv'
  <2>1. MessageTypeOK' /\ SlurmctldTypeOK'
    BY <1>1, SMT, Z3 DEF QueueAfterSubmit, QueueJobScheduler, MessageTypeOK, SlurmctldTypeOK
  <2> QED
    BY TypeFrame, <1>1, <2>1, Zenon DEF QueueAfterSubmit
<1>2. ASSUME CompleteBatchScript PROVE TypeInv'
  <2>1. CompletedState(current_event) \in JobStates /\ SimTime \in Nat
    BY Zenon DEF CompletedState, JobStates, SimTime, MgrTypeOK
  <2>2. JobTypeOK'
    BY <1>2, <2>1, Zenon DEF CompleteBatchScript, JobTypeOK
  <2>3. MessageTypeOK'
    BY <1>2, Zenon DEF CompleteBatchScript, SendTerminate, MessageTypeOK
  <2>4. SlurmdTypeOK' /\ SlurmctldTypeOK'
    BY <1>2, SMT, Z3 DEF CompleteBatchScript, SlurmdTypeOK, SlurmctldTypeOK
  <2> QED
    BY TypeFrame, <1>2, <2>2, <2>3, <2>4, Zenon DEF CompleteBatchScript
<1>3. ASSUME NEW j \in Trace, BackfillStart(j) PROVE TypeInv'
  BY TypeFrame, <1>3, TypeStartJob, Zenon DEF BackfillStart
<1>4. ASSUME JobTimeLimit PROVE TypeInv'
  <2>1. SimTime \in Nat
    BY Zenon DEF SimTime, MgrTypeOK
  <2>2. JobTypeOK'
    BY <1>4, <2>1, Zenon DEF JobTimeLimit, JobTypeOK, JobStates
  <2>3. MessageTypeOK' /\ SlurmctldTypeOK'
    BY <1>4, <2>1, Zenon DEF JobTimeLimit, MessageTypeOK, SlurmctldTypeOK
  <2> QED
    BY TypeFrame, <1>4, <2>2, <2>3, Zenon DEF JobTimeLimit
<1>5. ASSUME PurgeOldJob PROVE TypeInv'
  <2>1. SimTime \in Nat
    BY Zenon DEF SimTime, MgrTypeOK
  <2>2. JobTypeOK'
    BY <1>5, <2>1, Zenon DEF PurgeOldJob, JobTypeOK
  <2>3. MessageTypeOK' /\ SlurmctldTypeOK'
    BY <1>5, <2>1, Zenon DEF PurgeOldJob, SendTerminate, MessageTypeOK, SlurmctldTypeOK
  <2> QED
    BY TypeFrame, <1>5, <2>2, <2>3, Zenon DEF PurgeOldJob
<1>6. ASSUME EndOfLog PROVE TypeInv'
  BY TypeFrame, <1>6, ZenonT(30) DEF EndOfLog, EndFlag, MgrTypeOK, SimJobInTrace
<1>7. ASSUME NEW j \in Trace, LoseKill(j) PROVE TypeInv'
  <2>1. MessageTypeOK'
    <3>1. /\ UNCHANGED <<launch, submit_thread, epilog, loaded>>
          /\ lost' = lost + 1
      BY <1>7, Zenon DEF LoseKill
    <3>2. term' = term \/ term' = [term EXCEPT ![j] = "none"]
      BY <1>7, Zenon DEF LoseKill
    <3>3. kill_msg' = kill_msg \/ kill_msg' = kill_msg \ {j}
      BY <1>7, Zenon DEF LoseKill
    <3>4. term \in [Trace -> {"none", "sent", "epilog"}] /\ kill_msg \subseteq Trace
          /\ lost \in Nat
      BY Zenon DEF MessageTypeOK
    <3>5. term' \in [Trace -> {"none", "sent", "epilog"}] /\ kill_msg' \subseteq Trace
          /\ lost' \in Nat
      BY <3>1, <3>2, <3>3, <3>4, SMT, Z3
    <3> QED
      BY <3>1, <3>5, Zenon DEF MessageTypeOK
  <2> QED
    BY TypeFrame, <1>7, <2>1, Zenon DEF LoseKill
<1> QED
  BY <1>1, <1>2, <1>3, <1>4, <1>5, <1>6, <1>7, ZenonT(30) DEF Background

\* TypeInv is inductive.
LEMMA TypeInductive ==
  ASSUME InsertFact, TypeInv, [Next]_vars PROVE TypeInv'
PROOF
<1>1. CASE UNCHANGED vars
  BY <1>1, TypeFrame, Zenon DEF TypeInv, TypeOK, vars, mgrVars, semVars, sdVars, listVars,
     jobVars, cntVars, totVars, cycVars, bgVars, msgVars
<1>2. CASE Next
  BY <1>1, <1>2, TypeManager, TypeHelper, TypeSlurmdThread, TypeEpilogThread,
     TypeHelperCycle, TypeOthers, Zenon DEF Next, Terminated
<1> QED
  BY <1>1, <1>2, Zenon

(* time_mgr enters its main loop with every variable in its range.          *)
LEMMA TypeInitially ==
  ASSUME Init PROVE TypeInv
PROOF
<1>1. MgrTypeOK /\ SimJobInTrace /\ SlurmctldTypeOK
  <2>1. 1 \in 1..(NJobs + 1)
    BY ConstantsAssumption, SMT, Z3
  <2> QED
    BY <2>1, Zenon DEF Init, MgrTypeOK, SimJobInTrace, SlurmctldTypeOK
<1>2. SlurmdTypeOK
  BY SMT, Z3 DEF Init, SlurmdTypeOK
<1>3. JobTypeOK
  BY ConstantsAssumption, SMT, Z3 DEF Init, JobTypeOK, JobStates
<1>4. MessageTypeOK
  BY Zenon DEF Init, MessageTypeOK, EpilogStates
<1> QED
  BY <1>1, <1>2, <1>3, <1>4, Zenon DEF TypeInv, TypeOK

-----------------------------------------------------------------------------
(* The turn                                                                *)

TurnInv == LockStep /\ HelperTimeIsCurrent

\* A step that leaves the turn and the two times alone keeps TurnInv.
LEMMA TurnFrame ==
  ASSUME TurnInv,
         UNCHANGED <<mgr_pc, sd_pc, slurm_sem, sim_sem, ctl_pc, now, current_sim>>
  PROVE  TurnInv'
PROOF BY Zenon DEF TurnInv, LockStep, HelperTimeIsCurrent, MgrTurn, SdTurn

\* The threads of slurmd and slurmctld other than the helper and the
\* helper-cycle handler do not take part in handing over the turn.
LEMMA OutsideTheTurn ==
  ASSUME \/ \E j \in Trace : SlurmdThread(j) \/ QueueAfterSubmit(j)
                             \/ BackfillStart(j) \/ LoseKill(j)
         \/ \E j \in Trace, o \in Origins : EpilogThread(j, o)
         \/ Background \/ EndOfLog
  PROVE  UNCHANGED <<mgrVars, semVars, sdVars, cycVars>>
PROOF
<1> USE DEF mgrVars, semVars, sdVars, listVars, jobVars, cntVars, totVars,
            cycVars, bgVars, msgVars
<1>1. ASSUME NEW j \in Trace, SlurmdThread(j)
      PROVE  UNCHANGED <<mgrVars, semVars, sdVars, cycVars>>
  BY <1>1, ZenonT(30) DEF SlurmdThread, LaunchRead, LaunchInsert, TermLookup, TermAnswered,
     KillTimelimit
<1>2. ASSUME NEW j \in Trace, QueueAfterSubmit(j) \/ BackfillStart(j) \/ LoseKill(j)
      PROVE  UNCHANGED <<mgrVars, semVars, sdVars, cycVars>>
  BY <1>2, ZenonT(30) DEF QueueAfterSubmit, BackfillStart, LoseKill
<1>3. ASSUME NEW j \in Trace, NEW o \in Origins, EpilogThread(j, o)
      PROVE  UNCHANGED <<mgrVars, semVars, sdVars, cycVars>>
  BY <1>3, ZenonT(30) DEF EpilogThread, EpilogNote, EpilogReply, EpilogArrived, EpilogLoad,
     EpilogStore
<1>4. ASSUME Background \/ EndOfLog
      PROVE  UNCHANGED <<mgrVars, semVars, sdVars, cycVars>>
  BY <1>4, Zenon DEF Background, JobTimeLimit, PurgeOldJob, EndOfLog
<1> QED
  BY <1>1, <1>2, <1>3, <1>4, Zenon

\* TurnInv is inductive, given the types.
LEMMA TurnInductive ==
  ASSUME TypeOK, TurnInv, [Next]_vars PROVE TurnInv'
PROOF
<1> USE DEF mgrVars, semVars, sdVars, cycVars
<1>1. CASE Manager
  <2> USE DEF TypeOK, MgrTypeOK, TurnInv, LockStep, HelperTimeIsCurrent, MgrTurn, SdTurn
  <2>1. CASE MgrTop
    BY <2>1, Zenon DEF MgrTop
  <2>2. CASE MgrTerminate
    BY <2>2, Zenon DEF MgrTerminate
  <2>3. CASE MgrSubmit
    BY <2>3, Zenon DEF MgrSubmit
  <2>4. CASE MgrSimJob
    BY <2>4, Zenon DEF MgrSimJob
  <2>5. CASE MgrPost
    BY <2>5, SMT, Z3 DEF MgrPost
  <2>6. CASE MgrAdvance
    BY <2>6, SMT, Z3 DEF MgrAdvance, SemWait
  <2> QED
    BY <1>1, <2>1, <2>2, <2>3, <2>4, <2>5, <2>6, Zenon DEF Manager
<1>2. CASE Helper
  <2> USE DEF TypeOK, MgrTypeOK, TurnInv, LockStep, HelperTimeIsCurrent, MgrTurn, SdTurn
  <2>1. CASE SdWake
    BY <2>1, SMT, Z3 DEF SdWake, SemWait, SimTime
  <2>2. CASE SdEvent
    BY <2>2, Zenon DEF SdEvent
  <2>3. CASE SdCompleteAcked
    BY <2>3, Zenon DEF SdCompleteAcked
  <2>4. CASE SdEventsDone
    BY <2>4, Zenon DEF SdEventsDone
  <2>5. CASE SdEpilogsDone
    BY <2>5, Zenon DEF SdEpilogsDone
  <2>6. CASE SdSendCycle
    BY <2>6, Zenon DEF SdSendCycle
  <2>7. CASE SdPost
    BY <2>7, SMT, Z3 DEF SdPost
  <2> QED
    BY <1>2, <2>1, <2>2, <2>3, <2>4, <2>5, <2>6, <2>7, Zenon DEF Helper
<1>3. CASE CompleteBatchScript
  BY <1>3, Zenon DEF CompleteBatchScript, TurnInv, LockStep, HelperTimeIsCurrent,
     MgrTurn, SdTurn
<1>4. CASE HelperCycle
  <2> USE DEF TurnInv, LockStep, HelperTimeIsCurrent, MgrTurn, SdTurn
  <2>1. CASE CycleReply
    BY <2>1, Zenon DEF CycleReply
  <2>2. CASE HelperCycle /\ ~CycleReply
    <3>1. /\ UNCHANGED <<mgrVars, semVars, sdVars>>
          /\ ctl_pc # "idle" /\ ctl_pc' # "idle"
      BY <2>2, Zenon DEF HelperCycle, CycleFinished, CycleEpilogs, CycleResetEpilogs,
         CycleSchedCnt, CycleResetCnt, ScheduleStart, ScheduleDone,
         CycleBackfillDue, BackfillDone
    <3> QED
      BY <3>1, Zenon
  <2> QED
    BY <1>4, <2>1, <2>2, Zenon
<1>5. CASE \/ \E j \in Trace : SlurmdThread(j) \/ QueueAfterSubmit(j)
                               \/ BackfillStart(j) \/ LoseKill(j)
           \/ \E j \in Trace, o \in Origins : EpilogThread(j, o)
           \/ Background \/ EndOfLog
  BY <1>5, OutsideTheTurn, TurnFrame, Zenon
<1>6. CASE UNCHANGED vars
  BY <1>6, TurnFrame, Zenon DEF vars
<1> QED
  BY <1>1, <1>2, <1>3, <1>4, <1>5, <1>6, Zenon DEF Next, Terminated

(* The turn is time_mgr's when its main loop begins.                        *)
LEMMA TurnInitially ==
  ASSUME Init PROVE TurnInv
PROOF BY Zenon DEF Init, TurnInv, LockStep, HelperTimeIsCurrent, MgrTurn, SdTurn


-----------------------------------------------------------------------------
(* Kinds of steps                                                          *)

\* The part of the state that JobsInv and JobLife speak of.
jobView == <<current_sim, trace_head, sim_info, launch, job_state, start_time,
             end_time, idle_nodes>>

\* Steps of the helper-cycle handler that start no job.
CycleStep == CycleFinished \/ CycleEpilogs \/ CycleResetEpilogs \/ CycleSchedCnt
             \/ CycleResetCnt \/ ScheduleDone \/ CycleBackfillDue \/ BackfillDone
             \/ CycleReply

\* Steps of a handler of an epilog message after the nodes are freed.
EpilogTail(j, o) == EpilogReply(j, o) \/ EpilogArrived(j, o) \/ EpilogLoad(j, o)
                    \/ EpilogStore(j, o)

\* Steps that change nothing about the jobs themselves.
QuietStep ==
  \/ MgrTop \/ MgrTerminate \/ MgrPost
  \/ Helper \/ CycleStep \/ PurgeOldJob \/ EndOfLog
  \/ \E j \in Trace : TermLookup(j) \/ TermAnswered(j) \/ KillTimelimit(j)
                      \/ QueueAfterSubmit(j) \/ LoseKill(j)
  \/ \E j \in Trace, o \in Origins : EpilogTail(j, o)
  \/ UNCHANGED vars

\* Either scheduler starts a job.
Starts(j) == ScheduleStart(j) \/ BackfillStart(j)

\* Every step is quiet or one of the few that change a job.
LEMMA StepKinds ==
  ASSUME [Next]_vars
  PROVE  \/ QuietStep
         \/ MgrSubmit \/ MgrSimJob \/ MgrAdvance
         \/ \E j \in Trace : LaunchRead(j) \/ LaunchInsert(j)
         \/ CompleteBatchScript
         \/ \E j \in Trace, o \in Origins : EpilogNote(j, o)
         \/ \E j \in Trace : Starts(j)
         \/ JobTimeLimit
PROOF
<1>1. CASE Manager
  BY <1>1, Zenon DEF Manager, QuietStep
<1>2. CASE Helper
  BY <1>2, Zenon DEF QuietStep
<1>3. CASE \E j \in Trace : SlurmdThread(j)
  BY <1>3, Zenon DEF SlurmdThread, QuietStep
<1>4. CASE \E j \in Trace, o \in Origins : EpilogThread(j, o)
  BY <1>4, Zenon DEF EpilogThread, EpilogTail, QuietStep
<1>5. CASE HelperCycle
  BY <1>5, Zenon DEF HelperCycle, CycleStep, QuietStep, Starts
<1>6. CASE Background
  BY <1>6, Zenon DEF Background, QuietStep
<1>7. CASE UNCHANGED vars
  BY <1>7, Zenon DEF QuietStep
<1>8. CASE \E j \in Trace : QueueAfterSubmit(j) \/ BackfillStart(j) \/ LoseKill(j)
  BY <1>8, Zenon DEF QuietStep, Starts
<1> QED
  BY <1>1, <1>2, <1>3, <1>4, <1>5, <1>6, <1>7, <1>8, Zenon DEF Next, Terminated, QuietStep

\* Quiet steps leave the jobs alone, and do not enter or leave the middle of
\* generateJob.
LEMMA QuietIsQuiet ==
  ASSUME QuietStep
  PROVE  UNCHANGED jobView /\ (mgr_pc' = "sim_job" <=> mgr_pc = "sim_job")
PROOF
<1> USE DEF jobView, mgrVars, listVars, jobVars, msgVars
<1>1. CASE MgrTop \/ MgrTerminate \/ MgrPost
  BY <1>1, Zenon DEF MgrTop, MgrTerminate, MgrPost
<1>2. CASE Helper
  BY <1>2, ZenonT(30) DEF Helper, SdWake, SdEvent, SdCompleteAcked, SdEventsDone,
     SdEpilogsDone, SdSendCycle, SdPost
<1>3. CASE CycleStep
  BY <1>3, Zenon DEF CycleStep, CycleFinished, CycleEpilogs, CycleResetEpilogs,
     CycleSchedCnt, CycleResetCnt, ScheduleDone, CycleBackfillDue, BackfillDone,
     CycleReply
<1>4. CASE PurgeOldJob \/ EndOfLog
  BY <1>4, Zenon DEF PurgeOldJob, EndOfLog
<1>5. ASSUME NEW j \in Trace, TermLookup(j) \/ TermAnswered(j) \/ KillTimelimit(j)
                              \/ QueueAfterSubmit(j) \/ LoseKill(j)
      PROVE  UNCHANGED jobView /\ mgr_pc' = mgr_pc
  BY <1>5, ZenonT(30) DEF TermLookup, TermAnswered, KillTimelimit, QueueAfterSubmit, LoseKill
<1>6. ASSUME NEW j \in Trace, NEW o \in Origins, EpilogTail(j, o)
      PROVE  UNCHANGED jobView /\ mgr_pc' = mgr_pc
  BY <1>6, Zenon DEF EpilogTail, EpilogReply, EpilogArrived, EpilogLoad, EpilogStore
<1>7. CASE UNCHANGED vars
  BY <1>7, Zenon DEF vars
<1> QED
  BY <1>1, <1>2, <1>3, <1>4, <1>5, <1>6, <1>7, ZenonT(30) DEF QuietStep

\* While the helper-cycle handler runs, time_mgr waits.
LEMMA HandlerHasTurn ==
  ASSUME TypeInv, TurnInv, ctl_pc # "idle"
  PROVE  mgr_pc = "wait" /\ sd_pc = "cycle" /\ sim_sem = 0
PROOF BY Zenon DEF TurnInv, TypeInv, TypeOK, MgrTypeOK, LockStep, MgrTurn, SdTurn

-----------------------------------------------------------------------------
(* What the steps leave alone                                              *)

\* sim_mgr touches neither slurmd's lists nor the messages, and of slurmctld
\* only the job it submits.
LEMMA ManagerFrame ==
  ASSUME MgrTop \/ MgrTerminate \/ MgrPost \/ MgrSubmit \/ MgrSimJob \/ MgrAdvance
  PROVE  /\ UNCHANGED <<start_time, end_time, idle_nodes, events, completed, launch,
                        term, epilog, kill_msg, sd_pc, now, jobs_ended, current_event,
                        waiting_epilog_msgs, job_sched_cnt, ctl_pc>>
         /\ MgrSubmit \/ UNCHANGED <<job_state, submit_thread>>
PROOF
<1> USE DEF sdVars, listVars, jobVars, cycVars, msgVars
<1>1. CASE MgrTop \/ MgrTerminate
  BY <1>1, Zenon DEF MgrTop, MgrTerminate
<1>2. CASE MgrPost \/ MgrSimJob
  BY <1>2, Zenon DEF MgrPost, MgrSimJob
<1>3. CASE MgrSubmit \/ MgrAdvance
  BY <1>3, Zenon DEF MgrSubmit, MgrAdvance
<1> QED
  BY <1>1, <1>2, <1>3, Zenon

\* The helper of slurmd touches nothing of slurmctld but the handler it calls.
LEMMA HelperFrame ==
  ASSUME Helper
  PROVE  /\ UNCHANGED <<job_state, start_time, end_time, idle_nodes, launch, term,
                        epilog, kill_msg, job_sched_cnt, submit_thread>>
         /\ SdEvent \/ UNCHANGED <<events, completed>>
         /\ SdEvent \/ (sd_pc # "complete" /\ sd_pc' \notin {"complete", "acked"})
PROOF
<1> USE DEF listVars, jobVars, msgVars
<1>1. CASE SdWake \/ SdEvent
  BY <1>1, Zenon DEF SdWake, SdEvent
<1>2. CASE SdCompleteAcked \/ SdEventsDone
  BY <1>2, ZenonT(30) DEF SdCompleteAcked, SdEventsDone
<1>3. CASE SdEpilogsDone \/ SdSendCycle \/ SdPost
  BY <1>3, Zenon DEF SdEpilogsDone, SdSendCycle, SdPost
<1> QED
  BY <1>1, <1>2, <1>3, Zenon DEF Helper

\* The helper-cycle handler, where it starts no job, touches its own place
\* and the counters; its answer moves the helper on.
LEMMA CycleFrame ==
  ASSUME CycleStep
  PROVE  /\ UNCHANGED <<job_state, start_time, end_time, idle_nodes, events, completed,
                        launch, term, epilog, kill_msg, now, jobs_ended, current_event,
                        waiting_epilog_msgs, submit_thread>>
         /\ sd_pc' = sd_pc \/ (ctl_pc = "reply" /\ sd_pc' = "post")
         /\ CycleResetCnt \/ job_sched_cnt' = job_sched_cnt
         /\ ctl_pc = "schedule" => ScheduleDone
PROOF
<1> USE DEF sdVars, listVars, jobVars, msgVars
<1>1. CASE CycleFinished \/ CycleEpilogs \/ CycleResetEpilogs
  BY <1>1, Zenon DEF CycleFinished, CycleEpilogs, CycleResetEpilogs
<1>2. CASE CycleSchedCnt \/ CycleResetCnt \/ ScheduleDone
  BY <1>2, ZenonT(30) DEF CycleSchedCnt, CycleResetCnt, ScheduleDone
<1>3. CASE CycleBackfillDue \/ BackfillDone \/ CycleReply
  BY <1>3, Zenon DEF CycleBackfillDue, BackfillDone, CycleReply
<1> QED
  BY <1>1, <1>2, <1>3, ZenonT(30) DEF CycleStep

\* The handler of an epilog message, once the nodes are free, only counts.
LEMMA TailFrame ==
  ASSUME NEW k \in Trace, NEW o \in Origins, EpilogTail(k, o)
  PROVE  /\ UNCHANGED <<job_state, start_time, end_time, idle_nodes, events, completed,
                        launch, term, kill_msg, sd_pc, now, jobs_ended, current_event,
                        waiting_epilog_msgs, submit_thread, ctl_pc>>
         /\ epilog[k][o] \notin {"none", "sent"}
         /\ \E s : epilog' = [epilog EXCEPT ![k][o] = s]
         /\ EpilogReply(k, o) \/ (epilog[k][o] # "noted" /\ job_sched_cnt' = job_sched_cnt)
PROOF
<1> USE DEF sdVars, listVars, jobVars, cycVars, msgVars
<1>1. CASE EpilogReply(k, o)
  BY <1>1, Zenon DEF EpilogReply
<1>2. CASE EpilogArrived(k, o)
  BY <1>2, Zenon DEF EpilogArrived
<1>3. CASE EpilogLoad(k, o)
  BY <1>3, Zenon DEF EpilogLoad
<1>4. CASE EpilogStore(k, o)
  BY <1>4, Zenon DEF EpilogStore
<1> QED
  BY <1>1, <1>2, <1>3, <1>4, Zenon DEF EpilogTail

\* The terminate requests slurmctld sends change no "epilog" entry.
LEMMA SendTerminateKeepsEpilog ==
  ASSUME NEW t \in [Trace -> {"none", "sent", "epilog"}], NEW J
  PROVE  \A j \in Trace : SendTerminate(t, J)[j] = "epilog" <=> t[j] = "epilog"
PROOF BY Zenon DEF SendTerminate

\* The background loop of slurmctld, but for the time limits.
LEMMA BackgroundFrame ==
  ASSUME TypeInv, PurgeOldJob \/ EndOfLog
  PROVE  /\ UNCHANGED <<job_state, start_time, end_time, idle_nodes, events, completed,
                        launch, epilog, kill_msg, sd_pc, now, jobs_ended, current_event,
                        waiting_epilog_msgs, submit_thread, job_sched_cnt, ctl_pc>>
         /\ \A j \in Trace : term'[j] = "epilog" <=> term[j] = "epilog"
PROOF
<1> USE DEF sdVars, listVars, jobVars, cycVars, msgVars
<1>1. term \in [Trace -> {"none", "sent", "epilog"}]
  BY Zenon DEF TypeInv, TypeOK, MessageTypeOK
<1>2. CASE PurgeOldJob
  <2>1. \E J : term' = SendTerminate(term, J)
    BY <1>2, Zenon DEF PurgeOldJob
  <2>2. \A j \in Trace : term'[j] = "epilog" <=> term[j] = "epilog"
    BY <1>1, <2>1, SendTerminateKeepsEpilog, ZenonT(30)
  <2> QED
    BY <1>2, <2>2, ZenonT(30) DEF PurgeOldJob
<1>3. CASE EndOfLog
  BY <1>3, Zenon DEF EndOfLog
<1> QED
  BY <1>2, <1>3, Zenon

\* Time limits: running jobs become TIMEOUT_CG and get a kill message.
LEMMA LimitFrame ==
  ASSUME JobTimeLimit
  PROVE  /\ UNCHANGED <<start_time, idle_nodes, events, completed, launch, term, epilog,
                        sd_pc, now, jobs_ended, current_event, waiting_epilog_msgs,
                        submit_thread, job_sched_cnt, ctl_pc>>
         /\ \A j \in Trace : /\ job_state'[j] \in {job_state[j], "TIMEOUT_CG"}
                             /\ job_state[j] # "RUNNING" => job_state'[j] = job_state[j]
                             /\ j \in kill_msg' /\ j \notin kill_msg =>
                                  job_state[j] = "RUNNING" /\ job_state'[j] = "TIMEOUT_CG"
PROOF BY ZenonT(30) DEF JobTimeLimit, sdVars, listVars, jobVars, cycVars, msgVars

\* Threads that handle a kill, report a submission, or lose a kill.
LEMMA ThreadFrame ==
  ASSUME TypeInv, NEW k \in Trace, KillTimelimit(k) \/ QueueAfterSubmit(k) \/ LoseKill(k)
  PROVE  /\ UNCHANGED <<job_state, start_time, end_time, idle_nodes, events, completed,
                        launch, sd_pc, now, jobs_ended, current_event,
                        waiting_epilog_msgs, ctl_pc>>
         /\ \A j \in Trace : term'[j] = "epilog" <=> term[j] = "epilog"
         /\ kill_msg' \subseteq kill_msg
         /\ \A j \in Trace : epilog'[j]["sim"] = epilog[j]["sim"]
         /\ KillTimelimit(k) \/ epilog' = epilog
         /\ QueueAfterSubmit(k) \/ UNCHANGED <<submit_thread, job_sched_cnt>>
PROOF
<1> USE DEF sdVars, listVars, jobVars, cycVars, msgVars
<1>1. /\ term \in [Trace -> {"none", "sent", "epilog"}]
      /\ epilog \in [Trace -> [Origins -> EpilogStates]]
  BY Zenon DEF TypeInv, TypeOK, MessageTypeOK
<1>2. CASE KillTimelimit(k)
  <2>1. epilog' = [epilog EXCEPT ![k]["real"] = "sent"]
    BY <1>2, Zenon DEF KillTimelimit
  <2>2. \A j \in Trace : epilog'[j]["sim"] = epilog[j]["sim"]
    BY <1>1, <2>1, Zenon DEF Origins
  <2> QED
    BY <1>2, <2>2, ZenonT(30) DEF KillTimelimit
<1>3. CASE QueueAfterSubmit(k)
  BY <1>3, ZenonT(30) DEF QueueAfterSubmit
<1>4. CASE LoseKill(k)
  <2>1. term' = term \/ (term[k] = "sent" /\ term' = [term EXCEPT ![k] = "none"])
    BY <1>4, Zenon DEF LoseKill
  <2>2. \A j \in Trace : term'[j] = "epilog" <=> term[j] = "epilog"
    BY <1>1, <2>1, Zenon
  <2> QED
    BY <1>4, <2>2, ZenonT(30) DEF LoseKill
<1> QED
  BY <1>2, <1>3, <1>4, Zenon

\* Either scheduler touches only the job it starts and the nodes.
LEMMA StartFrame ==
  ASSUME NEW k \in Trace, Starts(k)
  PROVE  /\ UNCHANGED <<current_sim, events, completed, term, epilog, kill_msg, sd_pc, now,
                        jobs_ended, current_event, waiting_epilog_msgs, submit_thread,
                        job_sched_cnt, ctl_pc>>
         /\ job_state[k] = "PENDING" /\ Fits(k)
         /\ job_state' = [job_state EXCEPT ![k] = "RUNNING"]
         /\ start_time' = [start_time EXCEPT ![k] = current_sim]
         /\ end_time' = [end_time EXCEPT ![k] = current_sim + TimeLimit[k]]
         /\ idle_nodes' = idle_nodes - Width[k]
         /\ launch' = [launch EXCEPT ![k].pc = "sent"]
PROOF
<1> USE DEF mgrVars, sdVars, listVars, cycVars, StartJob, Pending, SimTime
<1>1. CASE ScheduleStart(k)
  BY <1>1, Zenon DEF ScheduleStart
<1>2. CASE BackfillStart(k)
  BY <1>2, Zenon DEF BackfillStart
<1> QED
  BY <1>1, <1>2, Zenon DEF Starts

\* The thread of a launch request touches that request and the event list.
LEMMA LaunchFrame ==
  ASSUME NEW k \in Trace, LaunchRead(k) \/ LaunchInsert(k)
  PROVE  /\ UNCHANGED <<job_state, start_time, end_time, idle_nodes, completed, term,
                        epilog, kill_msg, sd_pc, now, jobs_ended, current_event,
                        waiting_epilog_msgs, submit_thread, job_sched_cnt, ctl_pc>>
         /\ LaunchInsert(k) \/ events' = events
PROOF
<1> USE DEF sdVars, listVars, jobVars, cycVars
<1>1. CASE LaunchRead(k)
  BY <1>1, Zenon DEF LaunchRead
<1>2. CASE LaunchInsert(k)
  BY <1>2, Zenon DEF LaunchInsert
<1> QED
  BY <1>1, <1>2, ZenonT(30)

-----------------------------------------------------------------------------
(* The trace, the job table and the launch threads                         *)

JobInv(j) ==
  /\ job_state[j] = "NONE" <=> (IF mgr_pc = "sim_job" THEN j > trace_head
                                                      ELSE j >= trace_head)
  /\ j \in sim_info <=> j < trace_head
  /\ launch[j].pc = "none" <=> job_state[j] \in {"NONE", "PENDING"}
  /\ launch[j].pc # "none" => j < trace_head
  /\ start_time[j] <= current_sim
  /\ launch[j].pc = "read" => launch[j].now >= start_time[j]
  /\ job_state[j] = "RUNNING" => end_time[j] = start_time[j] + TimeLimit[j]

JobsInv == current_sim <= MaxTime /\ \A j \in Trace : JobInv(j)

\* What the types say of each job.
LEMMA JobTypes ==
  ASSUME TypeInv
  PROVE  /\ current_sim \in Nat /\ trace_head \in Nat /\ sim_info \subseteq Trace
         /\ job_state \in [Trace -> JobStates]
         /\ start_time \in [Trace -> Nat] /\ end_time \in [Trace -> Nat]
         /\ launch \in [Trace -> [pc : {"none", "sent", "read", "over"}, now : Nat]]
         /\ \A j \in Trace : /\ j \in Nat /\ Duration[j] \in Nat
                             /\ TimeLimit[j] \in Nat /\ Submit[j] \in Nat
                             /\ start_time[j] \in Nat /\ launch[j].now \in Nat
PROOF
<1>1. /\ current_sim \in Nat /\ sim_info \subseteq Trace
      /\ job_state \in [Trace -> JobStates]
      /\ start_time \in [Trace -> Nat] /\ end_time \in [Trace -> Nat]
      /\ launch \in [Trace -> [pc : {"none", "sent", "read", "over"}, now : Nat]]
  BY Zenon DEF TypeInv, TypeOK, MgrTypeOK, SlurmdTypeOK, JobTypeOK, MessageTypeOK
<1>3. trace_head \in Nat
  BY ConstantsAssumption, SMT, Z3 DEF TypeInv, TypeOK, MgrTypeOK
<1>2. \A j \in Trace : j \in Nat /\ Duration[j] \in Nat /\ TimeLimit[j] \in Nat
                       /\ Submit[j] \in Nat
  BY ConstantsAssumption, SMT, Z3 DEF Trace
<1> QED
  BY <1>1, <1>2, <1>3, Zenon

\* A step that leaves the jobs alone, or only moves the clock on, keeps the
\* invariant.
LEMMA JobsFrame ==
  ASSUME TypeInv, JobsInv, current_sim' \in Nat, current_sim <= current_sim',
         current_sim' <= MaxTime, mgr_pc' = "sim_job" <=> mgr_pc = "sim_job",
         UNCHANGED <<trace_head, sim_info, launch, job_state, start_time, end_time>>
  PROVE  JobsInv'
PROOF
<1> SUFFICES ASSUME NEW j \in Trace  PROVE JobInv(j)'
  BY Zenon DEF JobsInv
<1>1. JobInv(j)
  BY Zenon DEF JobsInv
<1>2. start_time[j] <= current_sim'
  BY <1>1, JobTypes, SMT, Z3 DEF JobInv
<1> QED
  BY <1>1, <1>2, Zenon DEF JobInv

\* generateJob keeps the invariant: the submit RPC makes the next record of
\* the trace pending, REQUEST_SIM_JOB then announces it and moves on.
LEMMA JobsGenerate ==
  ASSUME TypeInv, JobsInv, MgrSubmit \/ MgrSimJob
  PROVE  JobsInv'
PROOF
<1> USE DEF mgrVars, listVars, jobVars, msgVars
<1> SUFFICES ASSUME NEW j \in Trace  PROVE JobInv(j)'
  <2>1. current_sim' = current_sim
    BY Zenon DEF MgrSubmit, MgrSimJob
  <2> QED
    BY <2>1, Zenon DEF JobsInv
<1>1. JobInv(j)
  BY Zenon DEF JobsInv
<1>2. j \in Nat /\ trace_head \in Nat /\ job_state \in [Trace -> JobStates]
  BY JobTypes, Zenon
<1>3. CASE MgrSubmit
  <2>1. /\ mgr_pc = "submit" /\ mgr_pc' = "sim_job"
        /\ job_state' = [job_state EXCEPT ![trace_head] = "PENDING"]
        /\ UNCHANGED <<trace_head, sim_info, launch, start_time, end_time, current_sim>>
    BY <1>3, Zenon DEF MgrSubmit
  <2>2. CASE j = trace_head
    <3>1. j >= trace_head /\ ~(j > trace_head)
      BY <1>2, <2>2, SMT, Z3
    <3>2. job_state[j] = "NONE" /\ job_state'[j] = "PENDING"
      BY <1>1, <1>2, <2>1, <2>2, <3>1, ZenonT(30) DEF JobInv
    <3> QED
      BY <1>1, <2>1, <3>1, <3>2, ZenonT(30) DEF JobInv
  <2>3. CASE j # trace_head
    <3>1. job_state'[j] = job_state[j]
      BY <2>1, <2>3, <1>2, Zenon
    <3>2. j >= trace_head <=> j > trace_head
      BY <2>3, <1>2, SMT, Z3
    <3> QED
      BY <2>1, <3>1, <3>2, <1>1, Zenon DEF JobInv
  <2> QED
    BY <2>2, <2>3, Zenon
<1>4. CASE MgrSimJob
  <2>1. /\ mgr_pc = "sim_job" /\ mgr_pc' = "submit"
        /\ sim_info' = sim_info \cup {trace_head} /\ trace_head' = trace_head + 1
        /\ UNCHANGED <<launch, job_state, start_time, end_time, current_sim>>
    BY <1>4, Zenon DEF MgrSimJob, AddJobInfo
  <2>2. j \in sim_info <=> j < trace_head
    BY <1>1, Zenon DEF JobInv
  <2>3. /\ j > trace_head <=> j >= trace_head'
        /\ j \in sim_info' <=> j < trace_head'
        /\ j < trace_head => j < trace_head'
    BY <2>1, <2>2, <1>2, SMT, Z3
  <2> QED
    BY <2>1, <2>3, <1>1, ZenonT(30) DEF JobInv
<1> QED
  BY <1>3, <1>4, Zenon

\* The threads that take launch requests read the clock after the start.
LEMMA JobsLaunch ==
  ASSUME TypeInv, JobsInv, NEW k \in Trace, LaunchRead(k) \/ LaunchInsert(k)
  PROVE  /\ JobsInv'
         /\ LaunchRead(k) => launch'[k].pc = "read"
PROOF
<1> USE DEF mgrVars, listVars, jobVars
<1>1. launch \in [Trace -> [pc : {"none", "sent", "read", "over"}, now : Nat]]
  BY JobTypes, Zenon
<1>2. UNCHANGED <<current_sim, mgr_pc, trace_head, sim_info, job_state, start_time, end_time>>
  BY Zenon DEF LaunchRead, LaunchInsert
<1>3. JobInv(k) /\ launch[k].pc # "none"
  BY Zenon DEF JobsInv, LaunchRead, LaunchInsert
<1>4. \A j \in Trace : j # k => launch'[j] = launch[j]
  BY <1>1, Zenon DEF LaunchRead, LaunchInsert
<1>5. CASE LaunchRead(k)
  <2>1. k \in sim_info
    BY <1>3, ZenonT(30) DEF JobInv
  <2>2. launch'[k].pc = "read" /\ launch'[k].now = current_sim
    BY <1>1, <1>5, <2>1, Zenon DEF LaunchRead, SimTime
  <2>3. ASSUME NEW j \in Trace PROVE JobInv(j)'
    <3>1. JobInv(j) /\ start_time[j] \in Nat /\ current_sim \in Nat
      BY JobTypes, Zenon DEF JobsInv
    <3>2. CASE j = k
      <4>1. launch'[j].now >= start_time[j]
        BY <3>1, <3>2, <2>2, ZenonT(30) DEF JobInv
      <4> QED
        BY <1>2, <1>3, <2>2, <3>1, <3>2, <4>1, ZenonT(30) DEF JobInv
    <3>3. CASE j # k
      BY <1>2, <1>4, <3>1, <3>3, ZenonT(30) DEF JobInv
    <3> QED
      BY <3>2, <3>3, Zenon
  <2> QED
    BY <1>2, <2>2, <2>3, ZenonT(30) DEF JobsInv
<1>6. CASE LaunchInsert(k)
  <2>1. launch[k].pc = "read" /\ launch'[k].pc = "over"
    BY <1>1, <1>6, Zenon DEF LaunchInsert
  <2>2. ASSUME NEW j \in Trace PROVE JobInv(j)'
    <3>1. JobInv(j)
      BY Zenon DEF JobsInv
    <3>2. CASE j = k
      BY <1>2, <1>3, <2>1, <3>1, <3>2, ZenonT(30) DEF JobInv
    <3>3. CASE j # k
      BY <1>2, <1>4, <3>1, <3>3, ZenonT(30) DEF JobInv
    <3> QED
      BY <3>2, <3>3, Zenon
  <2>3. ~LaunchRead(k)
    BY <2>1, Zenon DEF LaunchRead
  <2> QED
    BY <1>2, <2>2, <2>3, Zenon DEF JobsInv
<1> QED
  BY <1>5, <1>6, Zenon

\* Either scheduler starts a job of the trace that slurmd has been told of:
\* time_mgr is not in the middle of generateJob.
LEMMA JobsStarts ==
  ASSUME TypeInv, TurnInv, JobsInv, NEW k \in Trace, Starts(k)
  PROVE  JobsInv'
PROOF
<1> USE DEF mgrVars, listVars, jobVars
<1>1. ctl_pc # "idle"
  BY Zenon DEF Starts, ScheduleStart, BackfillStart
<1>2. mgr_pc = "wait"
  BY <1>1, HandlerHasTurn, Zenon
<1>3. /\ job_state[k] = "PENDING"
      /\ job_state' = [job_state EXCEPT ![k] = "RUNNING"]
      /\ start_time' = [start_time EXCEPT ![k] = current_sim]
      /\ end_time' = [end_time EXCEPT ![k] = current_sim + TimeLimit[k]]
      /\ launch' = [launch EXCEPT ![k].pc = "sent"]
      /\ UNCHANGED <<current_sim, mgr_pc, trace_head, sim_info>>
  BY Zenon DEF Starts, ScheduleStart, BackfillStart, StartJob, Pending, SimTime
<1>4. /\ job_state \in [Trace -> JobStates] /\ start_time \in [Trace -> Nat]
      /\ end_time \in [Trace -> Nat]
      /\ launch \in [Trace -> [pc : {"none", "sent", "read", "over"}, now : Nat]]
      /\ current_sim \in Nat /\ trace_head \in Nat
  BY JobTypes, Zenon
<1>5. ASSUME NEW j \in Trace PROVE JobInv(j)'
  <2>1. JobInv(j)
    BY Zenon DEF JobsInv
  <2>2. CASE j = k
    <3>1. /\ job_state'[j] = "RUNNING" /\ start_time'[j] = current_sim
          /\ end_time'[j] = current_sim + TimeLimit[j] /\ launch'[j].pc = "sent"
      BY <1>3, <1>4, <2>2, Zenon
    <3>2. j \in Nat /\ ~(j >= trace_head) /\ j < trace_head
      BY <1>2, <1>3, <1>4, <2>1, <2>2, JobTypes, SMT, Z3 DEF JobInv
    <3> QED
      BY <1>2, <1>3, <1>4, <2>1, <3>1, <3>2, SMT, Z3 DEF JobInv
  <2>3. CASE j # k
    <3>1. /\ job_state'[j] = job_state[j] /\ start_time'[j] = start_time[j]
          /\ end_time'[j] = end_time[j] /\ launch'[j] = launch[j]
      BY <1>3, <1>4, <2>3, Zenon
    <3> QED
      BY <1>3, <2>1, <3>1, ZenonT(30) DEF JobInv
  <2> QED
    BY <2>2, <2>3, Zenon
<1> QED
  BY <1>3, <1>5, Zenon DEF JobsInv

\* Steps that move jobs on from the running and completing states.
LEMMA JobsMoveOn ==
  ASSUME JobsInv,
         UNCHANGED <<current_sim, mgr_pc, trace_head, sim_info, launch, start_time>>,
         \A j \in Trace :
           \/ job_state'[j] = job_state[j] /\ end_time'[j] = end_time[j]
           \/ job_state[j] \notin {"NONE", "PENDING"}
              /\ job_state'[j] \notin {"NONE", "PENDING", "RUNNING"}
  PROVE  JobsInv'
PROOF
<1>1. ASSUME NEW j \in Trace PROVE JobInv(j)'
  <2>1. JobInv(j)
    BY ZenonT(30) DEF JobsInv
  <2>2. CASE job_state'[j] = job_state[j] /\ end_time'[j] = end_time[j]
    BY <2>1, <2>2, ZenonT(30) DEF JobInv
  <2>3. CASE /\ job_state[j] \notin {"NONE", "PENDING"}
             /\ job_state'[j] \notin {"NONE", "PENDING", "RUNNING"}
    BY <2>1, <2>3, Zenon DEF JobInv
  <2> QED
    BY <2>2, <2>3, ZenonT(30)
<1> QED
  BY <1>1, Zenon DEF JobsInv

\* Freeing the nodes of a job and killing the jobs past their limit.
LEMMA JobsReleaseKill ==
  ASSUME TypeInv, JobsInv,
         JobTimeLimit \/ \E j \in Trace, o \in Origins : EpilogNote(j, o)
  PROVE  JobsInv'
PROOF
<1> USE DEF mgrVars, listVars, jobVars, msgVars
<1>1. job_state \in [Trace -> JobStates] /\ end_time \in [Trace -> Nat]
  BY JobTypes, Zenon
<1>2. CASE JobTimeLimit
  <2>1. UNCHANGED <<current_sim, mgr_pc, trace_head, sim_info, launch, start_time>>
    BY <1>2, ZenonT(30) DEF JobTimeLimit
  <2>2. \A j \in Trace :
           \/ job_state'[j] = job_state[j] /\ end_time'[j] = end_time[j]
           \/ job_state[j] = "RUNNING" /\ job_state'[j] = "TIMEOUT_CG"
    BY <1>2, ZenonT(30) DEF JobTimeLimit
  <2> QED
    BY <2>1, <2>2, JobsMoveOn, ZenonT(30)
<1>3. ASSUME NEW j \in Trace, NEW o \in Origins, EpilogNote(j, o)
      PROVE  JobsInv'
  <2>1. UNCHANGED <<current_sim, mgr_pc, trace_head, sim_info, launch, start_time, end_time>>
    BY <1>3, Zenon DEF EpilogNote
  <2>2. \/ job_state' = job_state
        \/ /\ job_state[j] \in {"COMPLETE_CG", "TIMEOUT_CG"}
           /\ \/ job_state' = [job_state EXCEPT ![j] = "TIMEOUT"]
              \/ job_state' = [job_state EXCEPT ![j] = "COMPLETE"]
    BY <1>3, <1>1, ZenonT(30) DEF EpilogNote, EpilogEndsJob, Completing
  <2>3. \A i \in Trace :
           \/ job_state'[i] = job_state[i] /\ end_time'[i] = end_time[i]
           \/ job_state[i] \notin {"NONE", "PENDING"}
              /\ job_state'[i] \notin {"NONE", "PENDING", "RUNNING"}
    BY <2>1, <2>2, <1>1, Zenon
  <2> QED
    BY <2>1, <2>3, JobsMoveOn, ZenonT(30)
<1> QED
  BY <1>2, <1>3, Zenon

-----------------------------------------------------------------------------
(* The event list and the list of completed jobs                           *)

HasEvent(j) == \E i \in 1..Len(events) : events[i].job = j

\* An event of the list: its job was launched, will not end before its
\* duration is over, and is not yet on the completed list.
EventInv(e) ==
  /\ launch[e.job].pc = "over" /\ e.when >= start_time[e.job] + Duration[e.job]
  /\ e.job \notin completed /\ term[e.job] # "epilog"

EventsInv ==
  /\ \A i \in 1..Len(events) : EventInv(events[i])
  /\ \A i, k \in 1..Len(events) : events[i].job = events[k].job => i = k
  /\ \A j \in Trace : j \in completed \/ term[j] = "epilog" => launch[j].pc = "over"
  /\ \A j \in completed : term[j] # "epilog"
  /\ \A j \in Trace : job_state[j] = "RUNNING" /\ launch[j].pc = "over" =>
       HasEvent(j) \/ (sd_pc = "complete" /\ current_event = j)
  /\ sd_pc \in {"complete", "acked"} => current_event \in completed
  /\ sd_pc = "complete" => now >= start_time[current_event] + Duration[current_event]

\* What the types say of the lists.
LEMMA ListTypes ==
  ASSUME TypeInv
  PROVE  /\ events \in Seq(EventRec(Trace)) /\ completed \subseteq Trace
         /\ term \in [Trace -> {"none", "sent", "epilog"}] /\ now \in Nat
         /\ Len(events) \in Nat /\ current_event \in Trace \cup {0}
         /\ \A i \in 1..Len(events) : events[i].job \in Trace /\ events[i].when \in Nat
PROOF
<1>1. events \in Seq(EventRec(Trace))
  BY EventsAreRecords, Zenon DEF TypeInv
<1>2. /\ completed \subseteq Trace /\ term \in [Trace -> {"none", "sent", "epilog"}]
      /\ now \in Nat /\ current_event \in Trace \cup {0}
  BY Zenon DEF TypeInv, TypeOK, SlurmdTypeOK, MessageTypeOK
<1>3. Len(events) \in Nat /\ \A i \in 1..Len(events) : events[i] \in EventRec(Trace)
  BY <1>1, SMT, Z3
<1>4. \A i \in 1..Len(events) : events[i].job \in Trace /\ events[i].when \in Nat
  BY <1>3, Zenon DEF EventRec
<1> QED
  BY <1>1, <1>2, <1>3, <1>4, Zenon

\* A completion request is for a job that was launched.
LEMMA CompletedWasLaunched ==
  ASSUME TypeInv, JobsInv, EventsInv, sd_pc \in {"complete", "acked"}
  PROVE  /\ current_event \in Trace /\ current_event \in completed
         /\ term[current_event] # "epilog" /\ launch[current_event].pc = "over"
         /\ job_state[current_event] \notin {"NONE", "PENDING"}
PROOF
<1>1. current_event \in completed
  BY Zenon DEF EventsInv
<1>2. current_event \in Trace
  BY <1>1, ListTypes, Zenon
<1>3. term[current_event] # "epilog" /\ launch[current_event].pc = "over"
  BY <1>1, <1>2, Zenon DEF EventsInv
<1>4. JobInv(current_event)
  BY <1>2, Zenon DEF JobsInv
<1>5. job_state[current_event] \notin {"NONE", "PENDING"}
  BY <1>3, <1>4, Zenon DEF JobInv
<1> QED
  BY <1>1, <1>2, <1>3, <1>5, Zenon

\* A step that leaves the lists and the launches alone and does not begin or
\* answer a completion request keeps the invariant.
LEMMA EventsFrame ==
  ASSUME EventsInv,
         UNCHANGED <<events, completed, launch, start_time>>,
         \A j \in Trace : term'[j] = "epilog" => term[j] = "epilog",
         \A j \in Trace : job_state'[j] = "RUNNING" => job_state[j] = "RUNNING",
         \/ UNCHANGED <<sd_pc, current_event, now>>
         \/ sd_pc # "complete" /\ sd_pc' \notin {"complete", "acked"},
         TypeInv
  PROVE  EventsInv'
PROOF
<1>1. \A i \in 1..Len(events) : EventInv(events[i])'
  <2> SUFFICES ASSUME NEW i \in 1..Len(events)  PROVE EventInv(events[i])'
    BY ZenonT(30)
  <2>1. EventInv(events[i]) /\ events[i].job \in Trace
    BY ListTypes, ZenonT(30) DEF EventsInv
  <2> QED
    BY <2>1, ZenonT(30) DEF EventInv
<1>2. \A j \in Trace : j \in completed' \/ term'[j] = "epilog" => launch'[j].pc = "over"
  BY ZenonT(30) DEF EventsInv
<1>3. \A j \in completed' : term'[j] # "epilog"
  BY ListTypes, ZenonT(30) DEF EventsInv
<1>4. \A j \in Trace : HasEvent(j)' <=> HasEvent(j)
  BY ZenonT(30) DEF HasEvent
<1>5. \A j \in Trace : job_state'[j] = "RUNNING" /\ launch'[j].pc = "over" =>
        HasEvent(j)' \/ (sd_pc' = "complete" /\ current_event' = j)
  BY <1>4, Zenon DEF EventsInv
<1>6. /\ sd_pc' \in {"complete", "acked"} => current_event' \in completed'
      /\ sd_pc' = "complete" =>
           now' >= start_time'[current_event'] + Duration[current_event']
  BY ZenonT(30) DEF EventsInv
<1>7. \A i, k \in 1..Len(events') : events'[i].job = events'[k].job => i = k
  BY Zenon DEF EventsInv
<1> QED
  BY <1>1, <1>2, <1>3, <1>5, <1>6, <1>7, ZenonT(30) DEF EventsInv

\* The helper takes the first event off the list: its job moves to the
\* completed list and its completion request goes out.
LEMMA EventsSdEvent ==
  ASSUME TypeInv, EventsInv, SdEvent
  PROVE  EventsInv'
PROOF
<1> USE DEF msgVars, jobVars
<1> DEFINE h == events[1].job
<1>1. /\ sd_pc = "events" /\ sd_pc' = "complete" /\ events # <<>>
      /\ now >= Head(events).when
      /\ current_event' = Head(events).job /\ events' = Tail(events)
      /\ completed' = completed \cup {Head(events).job}
      /\ UNCHANGED <<now, launch, term, job_state, start_time>>
  BY ZenonT(30) DEF SdEvent, EventDue
<1>2. /\ events \in Seq(EventRec(Trace)) /\ completed \subseteq Trace
      /\ Len(events) \in Nat
      /\ \A i \in 1..Len(events) : events[i].job \in Trace /\ events[i].when \in Nat
  BY ListTypes, Zenon
<1>3. Len(events) >= 1 /\ 1 \in 1..Len(events) /\ Head(events) = events[1]
  BY <1>1, <1>2, SMT, Z3
<1>4. /\ Len(events') = Len(events) - 1
      /\ \A i \in 1..Len(events') : events'[i] = events[i + 1] /\ i + 1 \in 1..Len(events)
  BY <1>1, <1>2, SMT, Z3
<1>5. 1 \in 1..Len(events)
  BY <1>3, Zenon
<1>6. EventInv(events[1]) /\ h \in Trace
  BY <1>2, <1>5, Zenon DEF EventsInv
<1>7. current_event' = h /\ completed' = completed \cup {h} /\ now >= events[1].when
  BY <1>1, <1>3, Zenon
<1>8. \A i \in 1..Len(events') : EventInv(events[i])'
  <2> SUFFICES ASSUME NEW i \in 1..Len(events')  PROVE EventInv(events[i])'
    OBVIOUS
  <2>1. events'[i] = events[i + 1] /\ i + 1 \in 1..Len(events)
    BY <1>4, Zenon
  <2>2. EventInv(events[i + 1])
    BY <2>1, ZenonT(30) DEF EventsInv
  <2>3. events[i + 1].job # h
    <3>1. i + 1 # 1
      BY <1>2, <1>4, SMT, Z3
    <3> QED
      BY <3>1, <2>1, <1>5, ZenonT(30) DEF EventsInv
  <2> QED
    BY <1>1, <1>7, <2>1, <2>2, <2>3, ZenonT(30) DEF EventInv
<1>9. \A i, k \in 1..Len(events') : events'[i].job = events'[k].job => i = k
  <2> SUFFICES ASSUME NEW i \in 1..Len(events'), NEW k \in 1..Len(events'),
                      events'[i].job = events'[k].job
               PROVE  i = k
    BY Zenon
  <2>1. /\ i + 1 \in 1..Len(events) /\ k + 1 \in 1..Len(events)
        /\ events[i + 1].job = events[k + 1].job
    BY <1>4, Zenon
  <2>2. i + 1 = k + 1
    BY <2>1, Zenon DEF EventsInv
  <2> QED
    BY <2>2, SMT, Z3
<1>10. /\ \A j \in Trace : j \in completed' \/ term'[j] = "epilog" => launch'[j].pc = "over"
       /\ \A j \in completed' : term'[j] # "epilog"
  BY <1>1, <1>6, <1>7, Zenon DEF EventsInv, EventInv
<1>11. ASSUME NEW j \in Trace, job_state'[j] = "RUNNING", launch'[j].pc = "over"
       PROVE  HasEvent(j)' \/ (sd_pc' = "complete" /\ current_event' = j)
  <2>1. PICK i \in 1..Len(events) : events[i].job = j
    BY <1>1, <1>11, ZenonT(30) DEF EventsInv, HasEvent
  <2>2. CASE i = 1
    BY <1>1, <1>7, <2>1, <2>2, ZenonT(30)
  <2>3. CASE i # 1
    <3>1. i - 1 \in 1..Len(events') /\ i - 1 + 1 = i
      BY <1>2, <1>4, <2>3, SMT, Z3
    <3>2. events'[i - 1].job = j
      BY <1>4, <2>1, <3>1, Zenon
    <3> QED
      BY <3>1, <3>2, Zenon DEF HasEvent
  <2> QED
    BY <2>2, <2>3, Zenon
<1>12. now' >= start_time'[current_event'] + Duration[current_event']
  <2>1. events[1].when >= start_time[h] + Duration[h]
    BY <1>6, Zenon DEF EventInv
  <2>2. start_time[h] \in Nat /\ Duration[h] \in Nat /\ events[1].when \in Nat /\ now \in Nat
    BY <1>2, <1>5, <1>6, JobTypes, ListTypes, ZenonT(30)
  <2>3. now >= start_time[h] + Duration[h]
    BY <1>7, <2>1, <2>2, SMT, Z3
  <2> QED
    BY <1>1, <1>7, <2>3, Zenon
<1> QED
  BY <1>1, <1>7, <1>8, <1>9, <1>10, <1>11, <1>12, ZenonT(30) DEF EventsInv

\* A launch thread adds the one event of its job.
LEMMA EventsLaunchInsert ==
  ASSUME InsertFact, TypeInv, JobsInv, EventsInv, NEW k \in Trace, LaunchInsert(k)
  PROVE  EventsInv'
PROOF
<1> USE DEF sdVars, jobVars
<1> DEFINE e == [job |-> k, when |-> launch[k].now + Duration[k]]
<1>1. /\ launch[k].pc = "read" /\ sd_pc \notin {"complete", "acked"}
      /\ events' = AddFutureEvent(events, e)
      /\ launch' = [launch EXCEPT ![k].pc = "over"]
      /\ UNCHANGED <<completed, term, job_state, start_time, sd_pc, current_event, now>>
  BY Zenon DEF LaunchInsert, SimulatorMutexFree
<1>2. /\ events \in Seq(EventRec(Trace)) /\ Len(events) \in Nat
      /\ completed \subseteq Trace
      /\ \A i \in 1..Len(events) : events[i].job \in Trace /\ events[i].when \in Nat
  BY ListTypes, Zenon
<1>3. launch \in [Trace -> [pc : {"none", "sent", "read", "over"}, now : Nat]]
  BY JobTypes, Zenon
<1>4. e \in EventRec(Trace)
  <2>1. launch[k].now \in Nat
    BY JobTypes, ZenonT(30)
  <2> QED
    BY <2>1, FinishEventIsRecord, Zenon
<1>5. e.job = k /\ e.when >= start_time[k] + Duration[k]
  <2>1. launch[k].now >= start_time[k]
    BY <1>1, Zenon DEF JobsInv, JobInv
  <2>2. launch[k].now \in Nat /\ start_time[k] \in Nat /\ Duration[k] \in Nat
    BY JobTypes, Zenon
  <2> QED
    BY <2>1, <2>2, SMT, Z3
<1> HIDE DEF e
<1>6. PICK p \in 1..(Len(events) + 1) : Inserted(events, e, p, events')
  BY <1>1, <1>2, <1>4, Zenon DEF InsertFact
<1>7. /\ launch'[k].pc = "over" /\ \A j \in Trace : j # k => launch'[j] = launch[j]
  BY <1>1, <1>3, Zenon
<1>8. Len(events') = Len(events) + 1 /\ p \in 1..Len(events') /\ events'[p] = e
  BY <1>2, <1>6, SMT, Z3 DEF Inserted
<1>9. ASSUME NEW i \in 1..Len(events'), i # p
      PROVE  \E m \in 1..Len(events) : events'[i] = events[m] /\ m = IF i < p THEN i ELSE i - 1
  <2>1. CASE i < p
    <3>1. i \in 1..Len(events) /\ events'[i] = events[i]
      BY <1>2, <1>6, <1>8, <2>1, SMT, Z3 DEF Inserted
    <3> QED
      BY <2>1, <3>1, Zenon
  <2>2. CASE ~(i < p)
    <3>1. i - 1 \in 1..Len(events)
      BY <1>2, <1>8, <1>9, <2>2, SMT, Z3
    <3>2. events'[i] = events[i - 1]
      BY <1>6, <1>9, <2>2, Zenon DEF Inserted
    <3> QED
      BY <2>2, <3>1, <3>2, Zenon
  <2> QED
    BY <2>1, <2>2, Zenon
<1>10. k \notin completed /\ term[k] # "epilog"
  BY <1>1, Zenon DEF EventsInv
<1>11. \A i \in 1..Len(events) : events[i].job # k
  BY <1>1, Zenon DEF EventsInv, EventInv
<1>12. \A i \in 1..Len(events') : EventInv(events[i])'
  <2> SUFFICES ASSUME NEW i \in 1..Len(events')  PROVE EventInv(events[i])'
    OBVIOUS
  <2>1. CASE i = p
    BY <1>1, <1>5, <1>7, <1>8, <1>10, <2>1, Zenon DEF EventInv
  <2>2. CASE i # p
    <3>1. PICK m \in 1..Len(events) : events'[i] = events[m]
      BY <1>9, <2>2, Zenon
    <3>2. EventInv(events[m]) /\ events[m].job \in Trace
      BY <1>2, Zenon DEF EventsInv
    <3>3. launch'[events[m].job] = launch[events[m].job]
      BY <3>2, <1>7, <1>11, Zenon
    <3> QED
      BY <1>1, <3>1, <3>2, <3>3, Zenon DEF EventInv
  <2> QED
    BY <2>1, <2>2, Zenon
<1>13. \A i, m \in 1..Len(events') : events'[i].job = events'[m].job => i = m
  <2> SUFFICES ASSUME NEW i \in 1..Len(events'), NEW m \in 1..Len(events'),
                      events'[i].job = events'[m].job
               PROVE  i = m
    BY Zenon
  <2>1. ASSUME NEW x \in 1..Len(events'), x # p  PROVE events'[x].job # k
    <3>1. PICK y \in 1..Len(events) : events'[x] = events[y]
      BY <1>9, <2>1, Zenon
    <3> QED
      BY <3>1, <1>11, Zenon
  <2>2. CASE i = p \/ m = p
    BY <1>5, <1>8, <2>1, <2>2, Zenon
  <2>3. CASE i # p /\ m # p
    <3>1. PICK a \in 1..Len(events) : events'[i] = events[a] /\ a = IF i < p THEN i ELSE i - 1
      BY <1>9, <2>3, Zenon
    <3>2. PICK b \in 1..Len(events) : events'[m] = events[b] /\ b = IF m < p THEN m ELSE m - 1
      BY <1>9, <2>3, Zenon
    <3>3. a = b
      BY <3>1, <3>2, Zenon DEF EventsInv
    <3>4. i \in Nat /\ m \in Nat /\ p \in Nat
      BY <1>2, <1>8, SMT, Z3
    <3> QED
      BY <3>1, <3>2, <3>3, <3>4, <2>3, SMT, Z3
  <2> QED
    BY <2>2, <2>3, Zenon
<1>14. ASSUME NEW j \in Trace, HasEvent(j) \/ j = k  PROVE HasEvent(j)'
  <2>1. CASE j = k
    BY <1>5, <1>8, <2>1, Zenon DEF HasEvent
  <2>2. CASE HasEvent(j)
    <3>1. PICK m \in 1..Len(events) : events[m].job = j
      BY <2>2, Zenon DEF HasEvent
    <3>2. CASE m < p
      <4>1. m \in 1..Len(events') /\ events'[m] = events[m]
        BY <1>2, <1>6, <1>8, <3>2, SMT, Z3 DEF Inserted
      <4> QED
        BY <3>1, <4>1, Zenon DEF HasEvent
    <3>3. CASE ~(m < p)
      <4>1. m + 1 \in 1..Len(events') /\ ~(m + 1 < p) /\ m + 1 # p /\ m + 1 - 1 = m
        BY <1>2, <1>8, <3>3, SMT, Z3
      <4>2. events'[m + 1] = events[m]
        BY <1>6, <4>1, SMT, Z3 DEF Inserted
      <4> QED
        BY <3>1, <4>1, <4>2, Zenon DEF HasEvent
    <3> QED
      BY <3>2, <3>3, Zenon
  <2> QED
    BY <1>14, <2>1, <2>2, Zenon
<1>15. /\ \A j \in Trace : j \in completed' \/ term'[j] = "epilog" => launch'[j].pc = "over"
       /\ \A j \in completed' : term'[j] # "epilog"
  BY <1>1, <1>7, Zenon DEF EventsInv
<1>16. ASSUME NEW j \in Trace, job_state'[j] = "RUNNING", launch'[j].pc = "over"
       PROVE  HasEvent(j)'
  BY <1>1, <1>7, <1>14, <1>16, Zenon DEF EventsInv
<1> QED
  BY <1>1, <1>12, <1>13, <1>15, <1>16, Zenon DEF EventsInv

\* Either scheduler starts a job: it has no event yet, nor had it one before.
LEMMA EventsStarts ==
  ASSUME TypeInv, JobsInv, EventsInv, NEW k \in Trace, Starts(k)
  PROVE  EventsInv'
PROOF
<1> USE DEF sdVars, listVars
<1>1. /\ job_state[k] = "PENDING"
      /\ job_state' = [job_state EXCEPT ![k] = "RUNNING"]
      /\ start_time' = [start_time EXCEPT ![k] = current_sim]
      /\ launch' = [launch EXCEPT ![k].pc = "sent"]
      /\ UNCHANGED <<events, completed, term, sd_pc, current_event, now>>
  BY Zenon DEF Starts, ScheduleStart, BackfillStart, StartJob, Pending, SimTime
<1>2. /\ job_state \in [Trace -> JobStates] /\ start_time \in [Trace -> Nat]
      /\ launch \in [Trace -> [pc : {"none", "sent", "read", "over"}, now : Nat]]
  BY JobTypes, Zenon
<1>3. launch[k].pc = "none" /\ launch'[k].pc = "sent"
  BY <1>1, <1>2, Zenon DEF JobsInv, JobInv
<1>4. \A j \in Trace : j # k => /\ launch'[j] = launch[j] /\ start_time'[j] = start_time[j]
                                /\ job_state'[j] = job_state[j]
  BY <1>1, <1>2, Zenon
<1>5. k \notin completed /\ term[k] # "epilog"
  BY <1>3, Zenon DEF EventsInv
<1>6. \A i \in 1..Len(events) : EventInv(events[i])'
  <2> SUFFICES ASSUME NEW i \in 1..Len(events)  PROVE EventInv(events[i])'
    OBVIOUS
  <2>1. EventInv(events[i]) /\ events[i].job \in Trace /\ events[i].job # k
    BY <1>3, ListTypes, ZenonT(30) DEF EventsInv, EventInv
  <2> QED
    BY <1>1, <1>4, <2>1, Zenon DEF EventInv
<1>7. ASSUME sd_pc \in {"complete", "acked"}
      PROVE  current_event \in Trace /\ current_event # k
  BY <1>3, <1>7, CompletedWasLaunched, Zenon
<1>8. /\ sd_pc' \in {"complete", "acked"} => current_event' \in completed'
      /\ sd_pc' = "complete" =>
           now' >= start_time'[current_event'] + Duration[current_event']
  <2>1. sd_pc \in {"complete", "acked"} => current_event \in completed
    BY Zenon DEF EventsInv
  <2>2. sd_pc = "complete" =>
          now >= start_time[current_event] + Duration[current_event]
    BY Zenon DEF EventsInv
  <2>3. sd_pc = "complete" => start_time'[current_event] = start_time[current_event]
    BY <1>4, <1>7, Zenon
  <2> QED
    BY <1>1, <2>1, <2>2, <2>3, Zenon
<1>9. /\ \A j \in Trace : j \in completed' \/ term'[j] = "epilog" => launch'[j].pc = "over"
      /\ \A j \in completed' : term'[j] # "epilog"
  <2>1. \A j \in completed : term[j] # "epilog"
    BY Zenon DEF EventsInv
  <2>2. ASSUME NEW j \in Trace, j \in completed \/ term[j] = "epilog"
        PROVE  launch'[j].pc = "over"
    <3>1. j # k /\ launch[j].pc = "over"
      BY <1>5, <2>2, Zenon DEF EventsInv
    <3> QED
      BY <1>4, <3>1, Zenon
  <2> QED
    BY <1>1, <2>1, <2>2, Zenon
<1>10. ASSUME NEW j \in Trace, job_state'[j] = "RUNNING", launch'[j].pc = "over"
       PROVE  HasEvent(j)' \/ (sd_pc' = "complete" /\ current_event' = j)
  <2>1. j # k
    BY <1>3, <1>10, Zenon
  <2>2. job_state[j] = "RUNNING" /\ launch[j].pc = "over"
    BY <1>4, <1>10, <2>1, Zenon
  <2>3. HasEvent(j)' <=> HasEvent(j)
    BY <1>1, Zenon DEF HasEvent
  <2> QED
    BY <1>1, <2>2, <2>3, Zenon DEF EventsInv
<1>11. \A i, m \in 1..Len(events') : events'[i].job = events'[m].job => i = m
  BY <1>1, Zenon DEF EventsInv
<1> QED
  BY <1>1, <1>6, <1>8, <1>9, <1>10, <1>11, Zenon DEF EventsInv

\* The launch thread reads the clock; terminate handlers take jobs off the
\* completed list, outside the helper's event loop.
LEMMA EventsThreads ==
  ASSUME TypeInv, JobsInv, EventsInv, NEW k \in Trace, LaunchRead(k) \/ TermLookup(k)
  PROVE  EventsInv'
PROOF
<1> USE DEF sdVars, listVars, jobVars
<1>1. CASE LaunchRead(k)
  <2>1. launch[k].pc = "sent" /\ launch'[k].pc = "read"
    BY <1>1, JobsLaunch, ZenonT(30) DEF LaunchRead
  <2>2. UNCHANGED <<events, completed, term, job_state, start_time, sd_pc, current_event, now>>
    BY <1>1, Zenon DEF LaunchRead
  <2>3. \A j \in Trace : j # k => launch'[j] = launch[j]
    BY <1>1, JobTypes, ZenonT(30) DEF LaunchRead
  <2>4. \A j \in Trace : launch'[j].pc = "over" <=> launch[j].pc = "over"
    BY <2>1, <2>3, Zenon
  <2>5. \A i \in 1..Len(events) : EventInv(events[i])'
    <3> SUFFICES ASSUME NEW i \in 1..Len(events)  PROVE EventInv(events[i])'
      OBVIOUS
    <3>1. EventInv(events[i]) /\ events[i].job \in Trace
      BY ListTypes, Zenon DEF EventsInv
    <3> QED
      BY <2>2, <2>4, <3>1, Zenon DEF EventInv
  <2>6. \A j \in Trace : HasEvent(j)' <=> HasEvent(j)
    BY <2>2, Zenon DEF HasEvent
  <2>7. \A j \in Trace : job_state'[j] = "RUNNING" /\ launch'[j].pc = "over" =>
          HasEvent(j)' \/ (sd_pc' = "complete" /\ current_event' = j)
    BY <2>2, <2>4, <2>6, ZenonT(30) DEF EventsInv
  <2>8. \A j \in Trace : j \in completed' \/ term'[j] = "epilog" => launch'[j].pc = "over"
    BY <2>2, <2>4, ZenonT(30) DEF EventsInv
  <2> QED
    BY <2>2, <2>5, <2>7, <2>8, ZenonT(30) DEF EventsInv
<1>2. CASE TermLookup(k)
  <2>1. /\ term[k] = "sent" /\ sd_pc \notin {"complete", "acked"}
        /\ completed' = completed \ {k}
        /\ term' = [term EXCEPT ![k] = IF k \in completed THEN "epilog" ELSE "none"]
        /\ UNCHANGED <<events, launch, job_state, start_time, sd_pc, current_event, now>>
    BY <1>2, Zenon DEF TermLookup, SimulatorMutexFree
  <2>2. /\ term'[k] = IF k \in completed THEN "epilog" ELSE "none"
        /\ \A j \in Trace : j # k => term'[j] = term[j]
    BY <2>1, ListTypes, ZenonT(30)
  <2>3. \A i \in 1..Len(events) : EventInv(events[i])'
    <3> SUFFICES ASSUME NEW i \in 1..Len(events)  PROVE EventInv(events[i])'
      OBVIOUS
    <3>1. EventInv(events[i]) /\ events[i].job \in Trace
      BY ListTypes, Zenon DEF EventsInv
    <3>2. term'[events[i].job] # "epilog"
      BY <2>2, <3>1, Zenon DEF EventInv
    <3> QED
      BY <2>1, <3>1, <3>2, ZenonT(30) DEF EventInv
  <2>4. \A j \in Trace : HasEvent(j)' <=> HasEvent(j)
    BY <2>1, Zenon DEF HasEvent
  <2>5. \A j \in Trace : job_state'[j] = "RUNNING" /\ launch'[j].pc = "over" =>
          HasEvent(j)' \/ (sd_pc' = "complete" /\ current_event' = j)
    BY <2>1, <2>4, ZenonT(30) DEF EventsInv
  <2>6. ASSUME NEW j \in Trace, j \in completed' \/ term'[j] = "epilog"
        PROVE  launch'[j].pc = "over"
    <3>1. j \in completed \/ term[j] = "epilog"
      BY <2>1, <2>2, <2>6, SMT, Z3
    <3> QED
      BY <2>1, <3>1, Zenon DEF EventsInv
  <2>7. \A j \in completed' : term'[j] # "epilog"
    BY <2>1, <2>2, ListTypes, Zenon DEF EventsInv
  <2>8. \A i, m \in 1..Len(events') : events'[i].job = events'[m].job => i = m
    BY <2>1, ZenonT(30) DEF EventsInv
  <2> QED
    BY <2>1, <2>3, <2>5, <2>6, <2>7, <2>8, ZenonT(30) DEF EventsInv
<1> QED
  BY <1>1, <1>2, Zenon

\* What the answer to a completion request does to the job table.
LEMMA CompleteEffect ==
  ASSUME TypeInv, JobsInv, EventsInv, CompleteBatchScript
  PROVE  LET j == current_event IN
         /\ j \in Trace /\ sd_pc = "complete" /\ sd_pc' = "acked"
         /\ \A i \in Trace : i # j => job_state'[i] = job_state[i] /\ end_time'[i] = end_time[i]
         /\ \/ job_state'[j] = job_state[j] /\ end_time'[j] = end_time[j]
               /\ job_state[j] \notin {"NONE", "PENDING", "RUNNING"}
               /\ UNCHANGED <<job_state, end_time>>
            \/ /\ job_state[j] = "RUNNING" /\ end_time'[j] = current_sim
               /\ job_state' = [job_state EXCEPT ![j] = CompletedState(j)]
               /\ job_state'[j] = CompletedState(j)
               /\ job_state'[j] \in {"COMPLETE_CG", "TIMEOUT_CG"}
         /\ \A i \in Trace : term'[i] = "epilog" <=> term[i] = "epilog"
         /\ UNCHANGED <<current_sim, mgr_pc, trace_head, sim_info, launch, start_time,
                        idle_nodes, events, completed, current_event, now>>
PROOF
<1> USE DEF mgrVars, listVars
<1> DEFINE j == current_event
<1>1. sd_pc = "complete" /\ sd_pc' = "acked"
  BY Zenon DEF CompleteBatchScript
<1>2. j \in Trace /\ job_state[j] \notin {"NONE", "PENDING"}
  BY <1>1, CompletedWasLaunched, ZenonT(30)
<1>3. UNCHANGED <<current_sim, mgr_pc, trace_head, sim_info, launch, start_time,
                  idle_nodes, events, completed, current_event, now>>
  BY Zenon DEF CompleteBatchScript
<1>4. job_state \in [Trace -> JobStates] /\ end_time \in [Trace -> Nat]
      /\ term \in [Trace -> {"none", "sent", "epilog"}]
  BY JobTypes, ListTypes, ZenonT(30)
<1>5. CASE IsJobFinished(j)
  <2>1. UNCHANGED <<job_state, end_time, term>>
    BY <1>5, Zenon DEF CompleteBatchScript
  <2>2. job_state[j] # "RUNNING"
    BY <1>5, Zenon DEF IsJobFinished, Completing, Ended
  <2> QED
    BY <1>1, <1>2, <1>3, <2>1, <2>2, ZenonT(30)
<1>6. CASE ~IsJobFinished(j)
  <2>1. /\ job_state' = [job_state EXCEPT ![j] = CompletedState(j)]
        /\ end_time' = [end_time EXCEPT ![j] = current_sim]
        /\ term' = SendTerminate(term, {j})
    BY <1>6, Zenon DEF CompleteBatchScript, SimTime
  <2>2. job_state[j] = "RUNNING"
    BY <1>2, <1>4, <1>6, Zenon DEF IsJobFinished, Completing, Ended, JobStates
  <2>3. CompletedState(j) \in {"COMPLETE_CG", "TIMEOUT_CG"}
    BY Zenon DEF CompletedState
  <2>4. \A i \in Trace : term'[i] = "epilog" <=> term[i] = "epilog"
    BY <1>4, <2>1, SendTerminateKeepsEpilog, Zenon
  <2>5. /\ job_state'[j] = CompletedState(j) /\ end_time'[j] = current_sim
        /\ \A i \in Trace : i # j => job_state'[i] = job_state[i] /\ end_time'[i] = end_time[i]
    BY <1>2, <1>4, <2>1, Zenon
  <2> QED
    BY <1>1, <1>2, <1>3, <2>1, <2>2, <2>3, <2>4, <2>5, ZenonT(30)
<1> QED
  BY <1>5, <1>6, ZenonT(30)

\* Answering a completion request keeps both invariants.
LEMMA EventsComplete ==
  ASSUME TypeInv, JobsInv, EventsInv, CompleteBatchScript
  PROVE  JobsInv' /\ EventsInv'
PROOF
<1> DEFINE j == current_event
<1>1. /\ j \in Trace /\ sd_pc = "complete" /\ sd_pc' = "acked"
      /\ \A i \in Trace : i # j => job_state'[i] = job_state[i] /\ end_time'[i] = end_time[i]
      /\ \A i \in Trace : term'[i] = "epilog" <=> term[i] = "epilog"
      /\ UNCHANGED <<current_sim, mgr_pc, trace_head, sim_info, launch, start_time,
                     events, completed, current_event, now>>
  BY CompleteEffect, ZenonT(30)
<1>2. \/ job_state'[j] = job_state[j] /\ end_time'[j] = end_time[j]
         /\ job_state[j] \notin {"NONE", "PENDING", "RUNNING"}
      \/ job_state[j] = "RUNNING" /\ job_state'[j] \in {"COMPLETE_CG", "TIMEOUT_CG"}
  BY CompleteEffect, ZenonT(30)
<1>3. JobsInv'
  <2>1. \A i \in Trace :
           \/ job_state'[i] = job_state[i] /\ end_time'[i] = end_time[i]
           \/ job_state[i] \notin {"NONE", "PENDING"}
              /\ job_state'[i] \notin {"NONE", "PENDING", "RUNNING"}
    BY <1>1, <1>2, Zenon
  <2> QED
    BY <1>1, <2>1, JobsMoveOn, ZenonT(30)
<1>4. \A i \in 1..Len(events) : EventInv(events[i])'
  <2> SUFFICES ASSUME NEW i \in 1..Len(events)  PROVE EventInv(events[i])'
    OBVIOUS
  <2>1. EventInv(events[i]) /\ events[i].job \in Trace
    BY ListTypes, ZenonT(30) DEF EventsInv
  <2> QED
    BY <1>1, <2>1, Zenon DEF EventInv
<1>5. /\ \A i \in Trace : i \in completed' \/ term'[i] = "epilog" => launch'[i].pc = "over"
      /\ \A i \in completed' : term'[i] # "epilog"
  BY <1>1, ListTypes, ZenonT(30) DEF EventsInv
<1>6. \A i \in Trace : HasEvent(i)' <=> HasEvent(i)
  BY <1>1, ZenonT(30) DEF HasEvent
<1>7. ASSUME NEW i \in Trace, job_state'[i] = "RUNNING", launch'[i].pc = "over"
      PROVE  HasEvent(i)'
  BY <1>1, <1>2, <1>6, <1>7, ZenonT(30) DEF EventsInv
<1>8. current_event' \in completed'
  BY <1>1, ZenonT(30) DEF EventsInv
<1>9. \A i, m \in 1..Len(events') : events'[i].job = events'[m].job => i = m
  BY <1>1, Zenon DEF EventsInv
<1> QED
  BY <1>1, <1>3, <1>4, <1>5, <1>7, <1>8, <1>9, ZenonT(30) DEF EventsInv


\* All other steps leave the event list alone.
LEMMA EventsOthers ==
  ASSUME TypeInv, TurnInv, EventsInv,
         \/ QuietStep /\ ~SdEvent /\ ~(\E j \in Trace : TermLookup(j))
         \/ MgrSubmit \/ MgrSimJob \/ MgrAdvance
         \/ \E j \in Trace, o \in Origins : EpilogNote(j, o)
         \/ JobTimeLimit
  PROVE  EventsInv'
PROOF
<1>0. term \in [Trace -> {"none", "sent", "epilog"}] /\ job_state \in [Trace -> JobStates]
  BY ListTypes, JobTypes, ZenonT(30)
<1>1. CASE MgrSubmit \/ MgrSimJob \/ MgrAdvance \/ MgrTop \/ MgrTerminate \/ MgrPost
  <2>1. \A j \in Trace : job_state'[j] = "RUNNING" => job_state[j] = "RUNNING"
    <3>1. CASE MgrSubmit
      <4>1. job_state' = [job_state EXCEPT ![trace_head] = "PENDING"]
        BY <3>1, Zenon DEF MgrSubmit
      <4> QED
        BY <1>0, <4>1, Zenon
    <3> QED
      BY <1>1, <3>1, ManagerFrame, Zenon
  <2> QED
    BY <1>1, <2>1, ManagerFrame, EventsFrame, ZenonT(30)
<1>2. CASE Helper /\ ~SdEvent
  BY <1>2, HelperFrame, EventsFrame, ZenonT(30)
<1>3. CASE CycleStep
  <2>1. sd_pc' = sd_pc \/ (sd_pc = "cycle" /\ sd_pc' = "post")
    BY <1>3, CycleFrame, HandlerHasTurn, Zenon
  <2> QED
    BY <1>3, <2>1, CycleFrame, EventsFrame, ZenonT(30)
<1>4. CASE EndOfLog \/ PurgeOldJob
  BY <1>4, BackgroundFrame, EventsFrame, ZenonT(30)
<1>5. CASE JobTimeLimit
  BY <1>5, LimitFrame, EventsFrame, ZenonT(30)
<1>6. ASSUME NEW k \in Trace, TermAnswered(k)
      PROVE  EventsInv'
  <2>1. /\ UNCHANGED <<events, completed, launch, start_time, job_state, sd_pc,
                       current_event, now>>
        /\ term' = [term EXCEPT ![k] = "none"]
    BY <1>6, Zenon DEF TermAnswered, sdVars, listVars, jobVars
  <2>2. \A j \in Trace : term'[j] = "epilog" => term[j] = "epilog"
    BY <1>0, <2>1, Zenon
  <2> QED
    BY <2>1, <2>2, EventsFrame, ZenonT(30)
<1>7. ASSUME NEW k \in Trace, KillTimelimit(k) \/ QueueAfterSubmit(k) \/ LoseKill(k)
      PROVE  EventsInv'
  BY <1>7, ThreadFrame, EventsFrame, ZenonT(30)
<1>8. ASSUME NEW k \in Trace, NEW o \in Origins, EpilogTail(k, o)
      PROVE  EventsInv'
  BY <1>8, TailFrame, EventsFrame, Zenon
<1>9. ASSUME NEW k \in Trace, NEW o \in Origins, EpilogNote(k, o)
      PROVE  EventsInv'
  <2>1. UNCHANGED <<events, completed, launch, start_time, term, sd_pc, current_event, now>>
    BY <1>9, ZenonT(30) DEF EpilogNote, sdVars, listVars, msgVars
  <2>2. \A j \in Trace : job_state'[j] = "RUNNING" => job_state[j] = "RUNNING"
    BY <1>0, <1>9 DEF EpilogNote
  <2> QED
    BY <2>1, <2>2, EventsFrame, ZenonT(30)
<1>10. CASE UNCHANGED vars
  BY <1>10, EventsFrame, Zenon DEF vars, sdVars, listVars, jobVars, msgVars
<1>11. CASE QuietStep /\ ~SdEvent /\ ~(\E j \in Trace : TermLookup(j))
  BY <1>1, <1>2, <1>3, <1>4, <1>6, <1>7, <1>8, <1>10, <1>11, Zenon DEF QuietStep
<1> QED
  BY <1>1, <1>5, <1>9, <1>11, Zenon

-----------------------------------------------------------------------------
(* The two invariants together, and what follows from them                 *)

BaseInv == TypeInv /\ TurnInv /\ JobsInv /\ EventsInv

\* The invariants hold when time_mgr enters its main loop.
LEMMA BaseInitially ==
  ASSUME Init
  PROVE  BaseInv
PROOF
<1>1. TypeInv /\ TurnInv
  BY TypeInitially, TurnInitially, Zenon
<1>2. JobsInv
  <2>1. /\ mgr_pc = "top" /\ current_sim = 1 /\ trace_head = 1 /\ sim_info = {}
        /\ launch = [j \in Trace |-> [pc |-> "none", now |-> 0]]
        /\ job_state = [j \in Trace |-> "NONE"] /\ start_time = [j \in Trace |-> 0]
    BY Zenon DEF Init
  <2>2. \A j \in Trace : j \in Nat /\ j >= 1
    BY ConstantsAssumption, SMT, Z3 DEF Trace
  <2>3. current_sim <= MaxTime
    BY <2>1, ConstantsAssumption, SMT, Z3
  <2>4. ASSUME NEW j \in Trace PROVE JobInv(j)
    <3>1. job_state[j] = "NONE" /\ launch[j].pc = "none" /\ start_time[j] = 0
      BY <2>1, ZenonT(30)
    <3>2. j >= trace_head /\ ~(j < trace_head)
      BY <2>1, <2>2, SMT, Z3
    <3>3. start_time[j] <= current_sim
      BY <2>1, <3>1, SMT, Z3
    <3> QED
      BY <2>1, <3>1, <3>2, <3>3, Zenon DEF JobInv
  <2> QED
    BY <2>3, <2>4, Zenon DEF JobsInv
<1>3. EventsInv
  <2>1. /\ events = <<>> /\ completed = {} /\ term = [j \in Trace |-> "none"]
        /\ job_state = [j \in Trace |-> "NONE"] /\ sd_pc = "sem_wait"
    BY Zenon DEF Init
  <2>2. Len(events) = 0
    BY <2>1, Zenon
  <2>3. ASSUME NEW i \in 1..Len(events)  PROVE FALSE
    BY <2>2, SMT, Z3
  <2> QED
    BY <2>1, <2>3, ZenonT(30) DEF EventsInv
<1> QED
  BY <1>1, <1>2, <1>3, Zenon DEF BaseInv

\* The clock moves on, up to its bound.
LEMMA ClockMovesOn ==
  ASSUME TypeInv, JobsInv, MgrAdvance
  PROVE  /\ current_sim' \in Nat /\ current_sim <= current_sim' /\ current_sim' <= MaxTime
         /\ mgr_pc = "wait" /\ mgr_pc' = "top"
         /\ UNCHANGED <<trace_head, sim_info, launch, jobVars>>
PROOF
<1>1. current_sim \in Nat /\ current_sim <= MaxTime /\ TimeIncr \in Nat /\ MaxTime \in Nat
  BY JobTypes, ConstantsAssumption, Zenon DEF JobsInv
<1>2. current_sim' = Advance(current_sim)
  BY Zenon DEF MgrAdvance
<1>3. current_sim' \in Nat /\ current_sim <= current_sim' /\ current_sim' <= MaxTime
  BY <1>1, <1>2, SMT, Z3 DEF Advance
<1> QED
  BY <1>3, ZenonT(30) DEF MgrAdvance, listVars, msgVars

\* Every step keeps JobsInv.
LEMMA JobsInductive ==
  ASSUME BaseInv, [Next]_vars
  PROVE  JobsInv'
PROOF
<1>0. TypeInv /\ TurnInv /\ JobsInv /\ EventsInv
  BY Zenon DEF BaseInv
<1>1. CASE QuietStep
  <2>1. UNCHANGED jobView /\ (mgr_pc' = "sim_job" <=> mgr_pc = "sim_job")
    BY <1>1, QuietIsQuiet, Zenon
  <2>2. current_sim \in Nat /\ current_sim <= MaxTime
    BY <1>0, JobTypes, Zenon DEF JobsInv
  <2>3. /\ current_sim' = current_sim
        /\ UNCHANGED <<trace_head, sim_info, launch, job_state, start_time, end_time>>
    BY <2>1, Zenon DEF jobView
  <2>4. current_sim' \in Nat /\ current_sim <= current_sim' /\ current_sim' <= MaxTime
    BY <2>2, <2>3, SMT, Z3
  <2> QED
    BY <1>0, <2>1, <2>3, <2>4, JobsFrame, Zenon
<1>2. CASE MgrAdvance
  BY <1>0, <1>2, ClockMovesOn, JobsFrame, Zenon DEF jobVars
<1>3. CASE MgrSubmit \/ MgrSimJob
  BY <1>0, <1>3, JobsGenerate, ZenonT(30)
<1>4. CASE \E j \in Trace : LaunchRead(j) \/ LaunchInsert(j)
  BY <1>0, <1>4, JobsLaunch, Zenon
<1>5. CASE CompleteBatchScript
  BY <1>0, <1>5, EventsComplete, Zenon
<1>6. CASE JobTimeLimit \/ \E j \in Trace, o \in Origins : EpilogNote(j, o)
  BY <1>0, <1>6, JobsReleaseKill, Zenon
<1>7. CASE \E j \in Trace : Starts(j)
  BY <1>0, <1>7, JobsStarts, Zenon
<1> QED
  BY <1>1, <1>2, <1>3, <1>4, <1>5, <1>6, <1>7, StepKinds, Zenon

\* Every step keeps EventsInv.
LEMMA EventsInductive ==
  ASSUME InsertFact, BaseInv, [Next]_vars
  PROVE  EventsInv'
PROOF
<1>0. TypeInv /\ TurnInv /\ JobsInv /\ EventsInv
  BY Zenon DEF BaseInv
<1>1. CASE SdEvent
  BY <1>0, <1>1, EventsSdEvent, Zenon
<1>2. CASE \E j \in Trace : TermLookup(j) \/ LaunchRead(j)
  BY <1>0, <1>2, EventsThreads, Zenon
<1>3. CASE \E j \in Trace : LaunchInsert(j)
  BY <1>0, <1>3, EventsLaunchInsert, Zenon
<1>4. CASE \E j \in Trace : Starts(j)
  BY <1>0, <1>4, EventsStarts, Zenon
<1>5. CASE CompleteBatchScript
  BY <1>0, <1>5, EventsComplete, Zenon
<1>6. CASE \/ QuietStep /\ ~SdEvent /\ ~(\E j \in Trace : TermLookup(j))
           \/ MgrSubmit \/ MgrSimJob \/ MgrAdvance
           \/ \E j \in Trace, o \in Origins : EpilogNote(j, o)
           \/ JobTimeLimit
  BY <1>0, <1>6, EventsOthers, Zenon
<1> QED
  BY <1>1, <1>2, <1>3, <1>4, <1>5, <1>6, StepKinds, Zenon

\* All four invariants are kept by every step.
LEMMA BaseInductive ==
  ASSUME InsertFact, BaseInv, [Next]_vars
  PROVE  BaseInv'
PROOF
<1>1. TypeInv' /\ TurnInv'
  BY TypeInductive, TurnInductive, ZenonT(30) DEF BaseInv, TypeInv
<1> QED
  BY <1>1, JobsInductive, EventsInductive, Zenon DEF BaseInv

-----------------------------------------------------------------------------
(* No job ends early                                                       *)

\* job_complete is called for a job only when its duration is over.
LEMMA CompletesInTime ==
  ASSUME BaseInv, CompleteBatchScript
  PROVE  current_sim >= start_time[current_event] + Duration[current_event]
PROOF
<1>1. sd_pc = "complete"
  BY Zenon DEF CompleteBatchScript
<1>2. now = current_sim
  BY <1>1, Zenon DEF BaseInv, TurnInv, HelperTimeIsCurrent, SdTurn
<1> QED
  BY <1>1, <1>2, Zenon DEF BaseInv, EventsInv

\* Every step keeps NeverEarly.
LEMMA NeverEarlyInductive ==
  ASSUME BaseInv, NeverEarly, [Next]_vars
  PROVE  NeverEarly'
PROOF
<1> DEFINE ByEvent == {"COMPLETE_CG", "COMPLETE"}
<1>0. /\ TypeInv /\ JobsInv /\ EventsInv
      /\ job_state \in [Trace -> JobStates] /\ start_time \in [Trace -> Nat]
      /\ end_time \in [Trace -> Nat]
  BY JobTypes, ZenonT(30) DEF BaseInv
\* It is enough that a job that ends by its event is in time.
<1>1. SUFFICES ASSUME NEW j \in Trace, job_state'[j] \in ByEvent
               PROVE  /\ UNCHANGED <<start_time[j], end_time[j]>>
                         /\ job_state[j] \in ByEvent
                      \/ end_time'[j] >= start_time'[j] + Duration[j]
  BY ZenonT(30) DEF NeverEarly
<1>2. CASE CompleteBatchScript
  <2> DEFINE k == current_event
  <2>1. /\ \A i \in Trace : i # k => job_state'[i] = job_state[i] /\ end_time'[i] = end_time[i]
        /\ \/ job_state'[k] = job_state[k] /\ end_time'[k] = end_time[k]
           \/ end_time'[k] = current_sim
        /\ start_time' = start_time
    BY <1>0, <1>2, CompleteEffect, ZenonT(30)
  <2>2. current_sim >= start_time[k] + Duration[k]
    BY <1>2, CompletesInTime, Zenon
  <2> QED
    BY <1>1, <2>1, <2>2, ZenonT(30)
<1>3. ASSUME NEW k \in Trace, NEW o \in Origins, EpilogNote(k, o)
      PROVE  UNCHANGED <<start_time[j], end_time[j]>> /\ job_state[j] \in ByEvent
  <2>1. UNCHANGED <<start_time, end_time>>
    BY <1>3, Zenon DEF EpilogNote
  <2>2. job_state[j] \in ByEvent
    BY <1>0, <1>1, <1>3, ZenonT(30) DEF EpilogNote, EpilogEndsJob, Completing
  <2> QED
    BY <2>1, <2>2, Zenon
<1>4. CASE JobTimeLimit
  BY <1>1, <1>4, ZenonT(30) DEF JobTimeLimit
<1>5. ASSUME NEW k \in Trace, Starts(k)
      PROVE  UNCHANGED <<start_time[j], end_time[j]>> /\ job_state[j] \in ByEvent
  <2>1. /\ job_state' = [job_state EXCEPT ![k] = "RUNNING"]
        /\ start_time' = [start_time EXCEPT ![k] = current_sim]
        /\ end_time' = [end_time EXCEPT ![k] = current_sim + TimeLimit[k]]
    BY <1>5, StartFrame, Zenon
  <2>2. j # k
    BY <1>0, <1>1, <2>1, Zenon
  <2> QED
    BY <1>0, <1>1, <2>1, <2>2, Zenon
<1>6. CASE MgrSubmit
  BY <1>0, <1>1, <1>6, Zenon DEF MgrSubmit
<1>7. CASE MgrSimJob \/ MgrAdvance \/ \E k \in Trace : LaunchRead(k) \/ LaunchInsert(k)
  <2>1. UNCHANGED <<job_state, start_time, end_time>>
    BY <1>7, LaunchFrame, ManagerFrame, Zenon DEF MgrSimJob, MgrAdvance, jobVars
  <2> QED
    BY <1>1, <2>1, Zenon
<1>8. CASE QuietStep
  BY <1>1, <1>8, QuietIsQuiet, Zenon DEF jobView
<1> QED
  BY <1>2, <1>3, <1>4, <1>5, <1>6, <1>7, <1>8, StepKinds, ZenonT(30)

-----------------------------------------------------------------------------
(* Refinement                                                              *)

\* Every step of the cycle is a step of JobLife, or leaves what JobLife
\* speaks of alone.
LEMMA JobLifeStep ==
  ASSUME BaseInv, [Next]_vars
  PROVE  [JobLifeCycle!Next]_(JobLifeCycle!life)
PROOF
<1> USE DEF JobLifeCycle!life
<1>0. /\ TypeInv /\ JobsInv /\ EventsInv
      /\ job_state \in [Trace -> JobStates] /\ start_time \in [Trace -> Nat]
      /\ end_time \in [Trace -> Nat] /\ current_sim \in Nat
      /\ JobLifeCycle!Jobs = Trace
  BY JobTypes, Zenon DEF BaseInv, JobLifeCycle!Jobs, Trace
<1>1. CASE QuietStep
  BY <1>1, QuietIsQuiet, Zenon DEF jobView
<1>2. CASE MgrSimJob \/ \E k \in Trace : LaunchRead(k) \/ LaunchInsert(k)
  BY <1>2, Zenon DEF MgrSimJob, LaunchRead, LaunchInsert, mgrVars, jobVars
<1>3. CASE MgrSubmit
  <2>1. /\ mgr_pc = "submit" /\ trace_head <= NJobs
        /\ current_sim >= Submit[trace_head]
        /\ job_state' = [job_state EXCEPT ![trace_head] = "PENDING"]
        /\ UNCHANGED <<current_sim, start_time, idle_nodes>>
    BY <1>3, Zenon DEF MgrSubmit, JobDue
  <2>2. trace_head \in Trace /\ trace_head \in Nat
    <3>1. trace_head \in Nat /\ trace_head >= 1 /\ NJobs \in Nat
      BY <1>0, ConstantsAssumption, SMT, Z3 DEF TypeInv, TypeOK, MgrTypeOK
    <3> QED
      BY <2>1, <3>1, SMT, Z3 DEF Trace
  <2>3. \A k \in Trace : job_state[k] = "NONE" <=> k >= trace_head
    BY <1>0, <2>1, Zenon DEF JobsInv, JobInv
  <2>4. job_state[trace_head] = "NONE"
    <3>1. trace_head >= trace_head
      BY <2>2, SMT, Z3
    <3> QED
      BY <2>2, <2>3, <3>1, Zenon
  <2>5. \A k \in 1..(trace_head - 1) : job_state[k] # "NONE"
    <3>1. \A k \in 1..(trace_head - 1) : k \in Trace /\ ~(k >= trace_head)
      BY <2>1, <2>2, ConstantsAssumption, SMT, Z3 DEF Trace
    <3> QED
      BY <2>3, <3>1, Zenon
  <2>6. JobLifeCycle!Arrive(trace_head)
    BY <2>1, <2>4, <2>5, Zenon DEF JobLifeCycle!Arrive
  <2> QED
    BY <1>0, <2>2, <2>6, Zenon DEF JobLifeCycle!Next
<1>4. CASE MgrAdvance
  <2>1. /\ current_sim' \in Nat /\ current_sim <= current_sim'
        /\ UNCHANGED <<job_state, start_time, idle_nodes>>
    BY <1>0, <1>4, ClockMovesOn, Zenon DEF jobVars
  <2>2. CASE current_sim' = current_sim
    BY <2>1, <2>2, Zenon
  <2>3. CASE current_sim' # current_sim
    <3>1. current_sim' > current_sim
      BY <1>0, <2>1, <2>3, SMT, Z3
    <3> QED
      BY <2>1, <3>1, Zenon DEF JobLifeCycle!Next, JobLifeCycle!Tick
  <2> QED
    BY <2>2, <2>3, Zenon
<1>5. CASE CompleteBatchScript
  <2> DEFINE k == current_event
  <2>1. k \in Trace /\ UNCHANGED <<current_sim, start_time, idle_nodes>>
    BY <1>0, <1>5, CompleteEffect, ZenonT(30)
  <2>2. CASE UNCHANGED job_state
    BY <2>1, <2>2, Zenon
  <2>3. CASE /\ job_state[k] = "RUNNING"
             /\ job_state' = [job_state EXCEPT ![k] = CompletedState(k)]
    <3>1. current_sim >= start_time[k] + Duration[k]
      BY <1>5, CompletesInTime, ZenonT(30)
    <3>2. end_time[k] = start_time[k] + TimeLimit[k]
      BY <1>0, <2>1, <2>3, Zenon DEF JobsInv, JobInv
    <3>3. CompletedState(k) = IF JobLifeCycle!LimitEnd(k) < current_sim
                              THEN "TIMEOUT_CG" ELSE "COMPLETE_CG"
      BY <3>2, ZenonT(30) DEF CompletedState, JobLifeCycle!LimitEnd, SimTime
    <3>4. JobLifeCycle!Finish(k)
      BY <2>1, <2>3, <3>1, <3>3, ZenonT(30) DEF JobLifeCycle!Finish
    <3> QED
      BY <1>0, <2>1, <3>4, Zenon DEF JobLifeCycle!Next
  <2> QED
    BY <1>0, <1>5, <2>2, <2>3, CompleteEffect, ZenonT(30)
<1>6. ASSUME NEW k \in Trace, NEW o \in Origins, EpilogNote(k, o)
      PROVE  [JobLifeCycle!Next]_(JobLifeCycle!life)
  <2>1. UNCHANGED <<current_sim, start_time>>
    BY <1>6, Zenon DEF EpilogNote, mgrVars
  <2>2. CASE ~Completing(k)
    BY <1>6, <2>1, <2>2, Zenon DEF EpilogNote, EpilogEndsJob
  <2>3. CASE Completing(k)
    <3>1. /\ job_state' = [job_state EXCEPT ![k] =
                IF @ = "TIMEOUT_CG" THEN "TIMEOUT" ELSE "COMPLETE"]
          /\ idle_nodes' = idle_nodes + Width[k]
      BY <1>6, <2>3, Zenon DEF EpilogNote, EpilogEndsJob
    <3>2. \/ job_state[k] = "COMPLETE_CG"
             /\ job_state' = [job_state EXCEPT ![k] = "COMPLETE"]
          \/ job_state[k] = "TIMEOUT_CG"
             /\ job_state' = [job_state EXCEPT ![k] = "TIMEOUT"]
      BY <2>3, <3>1, Zenon DEF Completing
    <3>3. JobLifeCycle!Release(k)
      BY <2>1, <3>1, <3>2 DEF JobLifeCycle!Release
    <3> QED
      BY <1>0, <3>3, Zenon DEF JobLifeCycle!Next
  <2> QED
    BY <2>2, <2>3, ZenonT(30)
<1>7. ASSUME NEW k \in Trace, Starts(k)
      PROVE  [JobLifeCycle!Next]_(JobLifeCycle!life)
  <2>1. JobLifeCycle!Start(k)
    BY <1>7, Zenon DEF Starts, ScheduleStart, BackfillStart, StartJob, Pending, Fits,
       SimTime, mgrVars, JobLifeCycle!Start
  <2> QED
    BY <1>0, <2>1, Zenon DEF JobLifeCycle!Next
<1>8. CASE JobTimeLimit
  <2> DEFINE J == {j \in Trace : job_state[j] = "RUNNING" /\ PastLimit(j)}
  <2>1. /\ job_state' = [j \in Trace |-> IF j \in J THEN "TIMEOUT_CG" ELSE job_state[j]]
        /\ UNCHANGED <<current_sim, start_time, idle_nodes>>
    BY <1>8, Zenon DEF JobTimeLimit, mgrVars
  <2>2. ASSUME NEW j \in J
        PROVE  job_state[j] = "RUNNING" /\ current_sim >= JobLifeCycle!LimitEnd(j)
    <3>1. /\ j \in Trace /\ job_state[j] = "RUNNING"
          /\ end_time[j] <= current_sim - OverTimeLimit
      BY <2>2, Zenon DEF PastLimit, SimTime
    <3>2. end_time[j] = start_time[j] + TimeLimit[j]
      BY <1>0, <3>1, Zenon DEF JobsInv, JobInv
    <3>3. start_time[j] \in Nat /\ TimeLimit[j] \in Nat /\ OverTimeLimit \in Nat
      BY <1>0, <3>1, JobTypes, ConstantsAssumption, ZenonT(30)
    <3> QED
      BY <1>0, <3>1, <3>2, <3>3, SMT, Z3 DEF JobLifeCycle!LimitEnd
  <2>3. JobLifeCycle!TimeOut(J)
    BY <1>0, <2>1, <2>2, Zenon DEF JobLifeCycle!TimeOut
  <2>4. J \in SUBSET Trace
    OBVIOUS
  <2> HIDE DEF J
  <2> QED
    BY <1>0, <2>3, <2>4, ZenonT(30) DEF JobLifeCycle!Next
<1> QED
  BY <1>1, <1>2, <1>3, <1>4, <1>5, <1>6, <1>7, <1>8, StepKinds, ZenonT(30)
=============================================================================
