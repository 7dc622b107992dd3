--------------------------- MODULE SimCycleProofs ---------------------------
(***************************************************************************)
(* Theorems about the simulation cycle, for every trace, every cluster and *)
(* every setting of the intervals: what the event list does, and each      *)
(* property of SimCycle that the invariants of SimCycleBaseProofs and      *)
(* SimCycleEpilogProofs imply.                                             *)
(***************************************************************************)
EXTENDS SimCycleEpilogProofs, EventQueueProofs, FiniteSetTheorems

-----------------------------------------------------------------------------
(* What the libraries say of the event list and of sets of jobs            *)

\* What the steps of the launch threads were shown with.
LEMMA InsertHolds == InsertFact
PROOF BY AddFutureEventInserts DEF InsertFact

-----------------------------------------------------------------------------
(* Types and turn                                                          *)

\* Every variable of the three processes keeps to its range, in particular
\* the trace position of time_mgr and the jobs in slurmd's lists.
THEOREM TypeCorrect == Spec => []TypeOK
PROOF
<1>1. Init => TypeInv
  BY TypeInitially
<1>2. TypeInv /\ [Next]_vars => TypeInv'
  BY InsertHolds, TypeInductive, ZenonT(30)
<1>3. TypeInv => TypeOK
  BY DEF TypeInv
<1> QED
  BY <1>1, <1>2, <1>3, PTL DEF Spec

\* sim_mgr and slurmd alternate by their two semaphores, and slurmctld's
\* helper-cycle handler runs only inside slurmd's turn.
THEOREM LockStepHolds == Spec => []LockStep
PROOF
<1>1. Init => TypeInv /\ TurnInv
  BY TypeInitially, TurnInitially
<1>2. TypeInv /\ TurnInv /\ [Next]_vars => TypeInv' /\ TurnInv'
  BY InsertHolds, TypeInductive, TurnInductive, ZenonT(30) DEF TypeInv
<1>3. TurnInv => LockStep
  BY DEF TurnInv
<1> QED
  BY <1>1, <1>2, <1>3, PTL DEF Spec

\* The helper of slurmd always works with the time sim_mgr has set.
THEOREM HelperTimeHolds == Spec => []HelperTimeIsCurrent
PROOF
<1>1. Init => TypeInv /\ TurnInv
  BY TypeInitially, TurnInitially
<1>2. TypeInv /\ TurnInv /\ [Next]_vars => TypeInv' /\ TurnInv'
  BY InsertHolds, TypeInductive, TurnInductive DEF TypeInv
<1>3. TurnInv => HelperTimeIsCurrent
  BY DEF TurnInv
<1> QED
  BY <1>1, <1>2, <1>3, PTL DEF Spec

\* sim_mgr neither moves the clock nor submits a job while slurmd or
\* slurmctld work on a cycle.
THEOREM ClockFrozen == Spec => ClockFrozenDuringCycle
PROOF
<1>1. Init => TypeInv /\ TurnInv
  BY TypeInitially, TurnInitially
<1>2. TypeInv /\ TurnInv /\ [Next]_vars => TypeInv' /\ TurnInv'
  BY InsertHolds, TypeInductive, TurnInductive DEF TypeInv
<1>3. ASSUME TypeInv, TurnInv, [Next]_vars, SdTurn
      PROVE  current_sim' = current_sim /\ trace_head' = trace_head
  <2> USE DEF mgrVars
  <2>1. mgr_pc = "wait" /\ sim_sem = 0
    <3>1. SdTurn /\ LockStep
      BY <1>3 DEF TurnInv
    <3>2. slurm_sem \in Nat /\ sim_sem \in Nat
      BY <1>3 DEF TypeInv, TypeOK, MgrTypeOK
    <3> QED
      BY <3>1, <3>2, ZenonT(30) DEF LockStep, MgrTurn
  <2>2. ~Manager
    <3>1. ~MgrTop /\ ~MgrTerminate
      BY <2>1, Zenon DEF MgrTop, MgrTerminate
    <3>2. ~MgrSubmit /\ ~MgrSimJob
      BY <2>1, ZenonT(30) DEF MgrSubmit, MgrSimJob
    <3>3. ~MgrPost /\ ~MgrAdvance
      BY <2>1, SMTT(30) DEF MgrPost, MgrAdvance, SemWait
    <3> QED
      BY <3>1, <3>2, <3>3, ZenonT(30) DEF Manager
  <2>3. CASE Helper \/ CompleteBatchScript
    BY <2>3, ZenonT(30) DEF Helper, SdWake, SdEvent, SdCompleteAcked, SdEventsDone,
       SdEpilogsDone, SdSendCycle, SdPost, CompleteBatchScript
  <2>4. CASE HelperCycle
    BY <2>4 DEF HelperCycle, CycleFinished, CycleEpilogs, CycleResetEpilogs,
       CycleSchedCnt, CycleResetCnt, ScheduleStart, ScheduleDone,
       CycleBackfillDue, BackfillDone, CycleReply
  <2>5. CASE \/ \E j \in Trace : SlurmdThread(j) \/ QueueAfterSubmit(j)
                                 \/ BackfillStart(j) \/ LoseKill(j)
             \/ \E j \in Trace, o \in Origins : EpilogThread(j, o)
             \/ Background \/ EndOfLog
    BY <2>5, OutsideTheTurn, ZenonT(30)
  <2>6. CASE UNCHANGED vars
    BY <2>6 DEF vars
  <2> QED
    BY <1>3, <2>2, <2>3, <2>4, <2>5, <2>6, ZenonT(30) DEF Next, Terminated
<1>4. TypeInv /\ TurnInv /\ [Next]_vars
        => [SdTurn => current_sim' = current_sim /\ trace_head' = trace_head]_vars
  BY <1>3
<1> QED
  BY <1>1, <1>2, <1>4, PTL DEF Spec, ClockFrozenDuringCycle

-----------------------------------------------------------------------------
(* The event list                                                          *)

\* The event list is in time order whatever the order in which the launch
\* threads call simulator_add_future_event.
THEOREM EventsStaySorted == Spec => []EventsSorted
PROOF
<1>1. Init => TypeInv /\ EventsSorted
  <2>1. Init => EventsSorted
    <3> SUFFICES ASSUME Init PROVE EventsSorted
      OBVIOUS
    <3>1. events = <<>>
      BY DEF Init
    <3>2. Len(events) = 0
      BY <3>1
    <3> QED
      BY <3>2, SMTT(30) DEF EventsSorted, SortedByTime
  <2> QED
    BY <2>1, TypeInitially, ZenonT(30)
<1>2. ASSUME TypeInv, EventsSorted, [Next]_vars PROVE EventsSorted'
  <2> USE DEF listVars
  <2>1. ASSUME NEW j \in Trace, LaunchInsert(j) PROVE EventsSorted'
    <3>1. events \in Seq(EventRec(Trace))
      BY <1>2, EventsAreRecords, Zenon DEF TypeInv
    <3>2. launch[j].now \in Nat
      BY <1>2, Zenon DEF TypeInv, TypeOK, MessageTypeOK
    <3>3. [job |-> j, when |-> launch[j].now + Duration[j]] \in EventRec(Trace)
      BY <3>2, FinishEventIsRecord, ZenonT(30)
    <3> QED
      BY <1>2, <2>1, <3>1, <3>3, AddFutureEventSorted, ZenonT(30) DEF LaunchInsert, EventsSorted
  <2>2. CASE SdEvent
    <3>1. events # <<>> /\ events \in Seq(EventRec(Trace)) /\ events' = Tail(events)
      BY <1>2, <2>2, EventsAreRecords, ZenonT(30) DEF SdEvent, EventDue, TypeInv
    <3>2. /\ Len(Tail(events)) = Len(events) - 1 /\ Len(events) \in Nat
          /\ \A i \in 1..Len(Tail(events)) : Tail(events)[i] = events[i + 1]
      BY <3>1, HeadTailProperties, LenProperties, ZenonT(30)
    <3>3. ASSUME NEW i \in 1..Len(Tail(events)), NEW k \in 1..Len(Tail(events)), i <= k
          PROVE  Tail(events)[i].when <= Tail(events)[k].when
      <4>1. i + 1 \in 1..Len(events) /\ k + 1 \in 1..Len(events) /\ i + 1 <= k + 1
        BY <3>2, <3>3, SMTT(30)
      <4>2. events[i + 1].when <= events[k + 1].when
        BY <1>2, <4>1, ZenonT(30) DEF EventsSorted, SortedByTime
      <4> QED
        BY <3>2, <4>2, ZenonT(30)
    <3> QED
      BY <3>1, <3>3, ZenonT(30) DEF EventsSorted, SortedByTime
  <2>3. CASE UNCHANGED events
    BY <1>2, <2>3, Zenon DEF EventsSorted
  <2>4. (\E j \in Trace : LaunchInsert(j)) \/ SdEvent \/ UNCHANGED events
    <3>1. ASSUME Manager PROVE UNCHANGED events
      BY <3>1, ZenonT(30) DEF Manager, MgrTop, MgrTerminate, MgrSubmit, MgrSimJob, MgrPost,
         MgrAdvance
    <3>2. ASSUME Helper \/ CompleteBatchScript PROVE SdEvent \/ UNCHANGED events
      BY <3>2, ZenonT(30) DEF Helper, SdWake, SdCompleteAcked, SdEventsDone,
         SdEpilogsDone, SdSendCycle, SdPost, CompleteBatchScript
    <3>3. ASSUME HelperCycle PROVE UNCHANGED events
      BY <3>3, ZenonT(30) DEF HelperCycle, CycleFinished, CycleEpilogs, CycleResetEpilogs,
         CycleSchedCnt, CycleResetCnt, ScheduleStart, ScheduleDone,
         CycleBackfillDue, BackfillDone, CycleReply
    <3>4. ASSUME NEW j \in Trace, SlurmdThread(j)
          PROVE  LaunchInsert(j) \/ UNCHANGED events
      BY <3>4, Zenon DEF SlurmdThread, LaunchRead, TermLookup, TermAnswered, KillTimelimit
    <3>5. ASSUME NEW j \in Trace, QueueAfterSubmit(j) \/ BackfillStart(j) \/ LoseKill(j)
          PROVE  UNCHANGED events
      BY <3>5, Zenon DEF QueueAfterSubmit, BackfillStart, LoseKill
    <3>6. ASSUME NEW j \in Trace, NEW o \in Origins, EpilogThread(j, o)
          PROVE  UNCHANGED events
      BY <3>6, Zenon DEF EpilogThread, EpilogNote, EpilogReply, EpilogArrived, EpilogLoad,
         EpilogStore
    <3>7. ASSUME Background \/ EndOfLog PROVE UNCHANGED events
      BY <3>7, Zenon DEF Background, JobTimeLimit, PurgeOldJob, EndOfLog
    <3>8. ASSUME UNCHANGED vars PROVE UNCHANGED events
      BY <3>8 DEF vars
    <3> QED
      BY <1>2, <3>1, <3>2, <3>3, <3>4, <3>5, <3>6, <3>7, <3>8, ZenonT(30) DEF Next, Terminated
  <2> QED
    BY <2>1, <2>2, <2>3, <2>4, ZenonT(30)
<1>3. TypeInv /\ EventsSorted /\ [Next]_vars => TypeInv' /\ EventsSorted'
  BY InsertHolds, <1>2, TypeInductive, ZenonT(30)
<1> QED
  BY <1>1, <1>3, PTL DEF Spec

-----------------------------------------------------------------------------
(* Jobs                                                                    *)

\* They hold in every state of the cycle.
LEMMA BaseHolds == Spec => []BaseInv
PROOF
<1>1. Init => BaseInv
  BY BaseInitially
<1>2. BaseInv /\ [Next]_vars => BaseInv'
  BY InsertHolds, BaseInductive
<1> QED
  BY <1>1, <1>2, PTL DEF Spec

\* REQUEST_SIM_JOB reaches slurmd before the launch request of the job does:
\* simulator_add_future_event always finds the duration.
THEOREM LaunchKnown == Spec => []LaunchKnowsJob
PROOF
<1>1. BaseInv => LaunchKnowsJob
  BY DEF BaseInv, JobsInv, JobInv, LaunchKnowsJob
<1> QED
  BY <1>1, BaseHolds, PTL

\* Each running job has one completion event on its way, and no job has two
\* in the list, so the helper completes no job twice and forgets none.
THEOREM OneEvent == Spec => []OneEventPerRunningJob
PROOF
<1>1. ASSUME BaseInv PROVE OneEventPerRunningJob
  <2> SUFFICES ASSUME NEW j \in Trace
               PROVE  /\ Cardinality(EventIndices(j)) <= 1
                      /\ job_state[j] = "RUNNING" =>
                           \/ launch[j].pc \in {"sent", "read"} /\ EventIndices(j) = {}
                           \/ launch[j].pc = "over"
                              /\ (EventIndices(j) = {}
                                    => sd_pc = "complete" /\ current_event = j)
    BY DEF OneEventPerRunningJob
  <2>0. TypeInv /\ JobInv(j) /\ EventsInv
    BY <1>1, ZenonT(30) DEF BaseInv, JobsInv
  <2>1. \A i, k \in EventIndices(j) : i = k
    BY <2>0 DEF EventsInv, EventIndices
  <2>2. Cardinality(EventIndices(j)) <= 1
    <3>1. CASE EventIndices(j) = {}
      BY <3>1, FS_EmptySet, SMTT(30)
    <3>2. CASE EventIndices(j) # {}
      <4>1. PICK i \in EventIndices(j) : TRUE
        BY <3>2
      <4>2. EventIndices(j) = {i}
        BY <2>1, <4>1, Zenon
      <4> QED
        BY <4>2, FS_Singleton, SMTT(30)
    <3> QED
      BY <3>1, <3>2, ZenonT(30)
  <2>3. EventIndices(j) # {} => launch[j].pc = "over"
    BY <2>0, ListTypes, Zenon DEF EventIndices, EventsInv, EventInv
  <2>4. EventIndices(j) = {} <=> ~HasEvent(j)
    BY DEF EventIndices, HasEvent
  <2>5. launch[j].pc \in {"none", "sent", "read", "over"}
    BY <2>0, JobTypes, ZenonT(30)
  <2>6. job_state[j] = "RUNNING" => launch[j].pc # "none"
    BY <2>0, ZenonT(30) DEF JobInv
  <2>7. job_state[j] = "RUNNING" /\ launch[j].pc = "over" =>
          HasEvent(j) \/ (sd_pc = "complete" /\ current_event = j)
    BY <2>0 DEF EventsInv
  <2> QED
    BY <2>2, <2>3, <2>4, <2>5, <2>6, <2>7, ZenonT(30)
<1> QED
  BY <1>1, BaseHolds, PTL

\* No job that ends by its completion event ends before its duration is over,
\* however late its launch request is and however the events are inserted.
THEOREM JobsNeverEarly == Spec => []NeverEarly
PROOF
<1>1. Init => NeverEarly
  BY DEF Init, NeverEarly
<1>2. BaseInv /\ NeverEarly /\ [Next]_vars => NeverEarly'
  BY NeverEarlyInductive
<1> QED
  BY <1>1, <1>2, BaseHolds, PTL DEF Spec

\* The three processes implement JobLife: through the clock in shared memory
\* and slurmctld's job table, the simulation of any trace is one in which jobs
\* arrive in order, run for their duration or up to their limit, and give
\* their nodes back once.
THEOREM CycleSimulatesJobs == Spec => SimulatesJobs
PROOF
<1>1. Init => JobLifeCycle!Init
  BY DEF Init, JobLifeCycle!Init, JobLifeCycle!Jobs, Trace
<1>2. BaseInv /\ [Next]_vars => [JobLifeCycle!Next]_(JobLifeCycle!life)
  BY JobLifeStep, Zenon
<1> QED
  BY <1>1, <1>2, BaseHolds, PTL DEF Spec, SimulatesJobs, JobLifeCycle!Spec

-----------------------------------------------------------------------------
(* Epilogs and scheduling requests                                         *)

\* The jobs of a trace can be counted.
LEMMA CountHolds == CountFact
PROOF
<1> SUFFICES ASSUME NEW S \in SUBSET Trace
             PROVE  /\ Cardinality(S) \in Nat
                    /\ Cardinality(S) = 0 <=> S = {}
                    /\ \A j \in Trace \ S : Cardinality(S \cup {j}) = Cardinality(S) + 1
                    /\ \A j \in S : Cardinality(S \ {j}) = Cardinality(S) - 1
  BY DEF CountFact
<1>1. IsFiniteSet(Trace)
  BY ConstantsAssumption, FS_Interval, SMTT(30) DEF Trace
<1>2. IsFiniteSet(S)
  BY <1>1, FS_Subset, Zenon
<1>3. Cardinality(S) \in Nat
  BY <1>2, FS_CardinalityType, Zenon
<1>4. Cardinality(S) = 0 <=> S = {}
  BY <1>2, FS_EmptySet, Zenon
<1>5. \A j \in Trace \ S : Cardinality(S \cup {j}) = Cardinality(S) + 1
  BY <1>2, FS_AddElement, ZenonT(30)
<1>6. \A j \in S : Cardinality(S \ {j}) = Cardinality(S) - 1
  BY <1>2, FS_RemoveElement, ZenonT(30)
<1> QED
  BY <1>3, <1>4, <1>5, <1>6, ZenonT(30)

\* The account and NodesComeBack hold in every state.
LEMMA EpilogHolds == Spec => []EpilogInv
PROOF
<1>1. ASSUME Init PROVE EpilogInv
  <2>1. EpilogsOwed = {}
    BY <1>1 DEF Init, EpilogsOwed
  <2>2. Cardinality(EpilogsOwed) = 0
    BY <2>1, FS_EmptySet, ZenonT(30)
  <2> QED
    BY <1>1, <2>1, <2>2, SMTT(30) DEF Init, EpilogInv, OwedInv, NodesComeBack,
       ComesBack
<1>2. ASSUME BaseInv, EpilogInv, [Next]_vars PROVE EpilogInv'
  <2>1. OwedInv'
    BY <1>2, CountHolds, OwedHelper, OwedTerminate, OwedOthers, ZenonT(30) DEF EpilogInv
  <2>2. \A j \in Trace : NodesComeBack(j)'
    <3>1. \A j \in Trace : ComesBack(j, "COMPLETE_CG")
      BY <1>2, Zenon DEF EpilogInv, NodesComeBack
    <3> QED
      BY <1>2, <3>1, ComeBackInductive, SMTT(30) DEF NodesComeBack
  <2> QED
    BY <2>1, <2>2, ZenonT(30) DEF EpilogInv
<1> QED
  BY <1>1, <1>2, BaseHolds, PTL DEF Spec

\* waiting_epilog_msgs is the number of epilogs owed, and never negative: the
\* helper's wait for zero is right at every moment.
THEOREM EpilogsAccounted == Spec => []EpilogAccounting
PROOF
<1>1. ASSUME BaseInv, EpilogInv PROVE EpilogAccounting
  <2>1. /\ EpilogsOwed \in SUBSET Trace /\ Cardinality(EpilogsOwed) \in Nat
        /\ waiting_epilog_msgs = Cardinality(EpilogsOwed)
                                 - (IF sd_pc \in {"complete", "acked"} THEN 1 ELSE 0)
    BY <1>1, CountHolds, OwedTypes, ZenonT(30) DEF BaseInv, EpilogInv, OwedInv
  <2>2. sd_pc \in {"complete", "acked"} => EpilogsOwed # {}
    BY <1>1, ListTypes, ZenonT(30) DEF BaseInv, EventsInv, EpilogsOwed
  <2>3. sd_pc \in {"complete", "acked"} => Cardinality(EpilogsOwed) # 0
    BY <2>1, <2>2, CountHolds, ZenonT(30) DEF CountFact
  <2>4. waiting_epilog_msgs >= 0
    BY <2>1, <2>3, SMTT(30)
  <2> QED
    BY <2>1, <2>4, ZenonT(30) DEF EpilogAccounting
<1> QED
  BY <1>1, BaseHolds, EpilogHolds, PTL

\* The helper cycle schedules only when the jobs that completed in this cycle
\* have given their nodes back.
THEOREM NodesFreedFirst == Spec => []SchedulerSeesFreedNodes
PROOF
<1>1. ASSUME BaseInv, EpilogInv PROVE SchedulerSeesFreedNodes
  <2> SUFFICES ASSUME ctl_pc # "idle", NEW j \in Trace, job_state[j] = "COMPLETE_CG"
               PROVE  FALSE
    BY DEF SchedulerSeesFreedNodes
  <2>1. EpilogsOwed = {}
    BY <1>1, HandlerHasTurn, ZenonT(30) DEF BaseInv, EpilogInv, OwedInv
  <2>2. j \in EpilogsOwed
    BY <1>1 DEF EpilogInv, NodesComeBack, ComesBack, EpilogsOwed
  <2> QED
    BY <2>1, <2>2, ZenonT(30)
<1> QED
  BY <1>1, BaseHolds, EpilogHolds, PTL

\* Whenever the first job of the queue fits and the helper cycle is over or
\* about to answer, a scheduling pass is requested or about to be: no change
\* of the queue or the nodes is forgotten.
THEOREM RequestsKept == Spec => []NoLostScheduling
PROOF
<1> DEFINE Inv == (\A j \in Trace : FreshInv(j)) /\ RequestInv
<1>1. ASSUME Init PROVE Inv
  <2>1. /\ launch = [j \in Trace |-> [pc |-> "none", now |-> 0]] /\ kill_msg = {}
        /\ epilog = [j \in Trace |-> [o \in Origins |-> "none"]]
        /\ job_state = [j \in Trace |-> "NONE"]
    BY <1>1, ZenonT(30) DEF Init
  <2>2. \A j \in Trace : FreshInv(j)
    BY <2>1, ZenonT(30) DEF FreshInv, Origins
  <2>3. Pending = {}
    BY <2>1 DEF Pending
  <2> QED
    BY <2>2, <2>3, ZenonT(30) DEF RequestInv, FirstPending
<1>2. BaseInv /\ Inv /\ [Next]_vars => Inv'
  BY InsertHolds, FreshInductive, RequestInductive, ZenonT(30)
<1>3. Inv => NoLostScheduling
  BY DEF RequestInv, NoLostScheduling
<1> HIDE DEF Inv
<1> QED
  BY <1>1, <1>2, <1>3, BaseHolds, PTL DEF Spec

-----------------------------------------------------------------------------
(* The nodes                                                               *)

\* The nodes a job can hold, and those all jobs hold, can be counted.
LEMMA HeldCount ==
  /\ IsFiniteSet(HeldNodes) /\ Cardinality(HeldNodes) \in Nat
  /\ \A k \in Trace : /\ Width[k] \in Nat
                       /\ IsFiniteSet({k} \X (1..Width[k]))
                       /\ Cardinality({k} \X (1..Width[k])) = Width[k]
PROOF
<1>1. ASSUME NEW k \in Trace
      PROVE  /\ Width[k] \in Nat /\ IsFiniteSet({k} \X (1..Width[k]))
             /\ Cardinality({k} \X (1..Width[k])) = Width[k]
  <2>1. Width[k] \in Nat
    BY ConstantsAssumption
  <2>2. IsFiniteSet(1..Width[k]) /\ Cardinality(1..Width[k]) = Width[k]
    <3>1. 1 \in Int /\ Width[k] \in Int
          /\ Width[k] = IF 1 > Width[k] THEN 0 ELSE Width[k] - 1 + 1
      BY <2>1
    <3> QED
      BY <3>1, FS_Interval, Zenon
  <2>3. IsFiniteSet({k}) /\ Cardinality({k}) = 1
    BY FS_Singleton, Zenon
  <2>4. /\ IsFiniteSet({k} \X (1..Width[k]))
        /\ Cardinality({k} \X (1..Width[k])) = Cardinality({k}) * Cardinality(1..Width[k])
    BY <2>2, <2>3, FS_Product, Zenon
  <2> QED
    BY <2>1, <2>2, <2>3, <2>4, SMTT(30)
<1>2. IsFiniteSet(HeldNodes)
  <2>1. IsFiniteSet(Trace) /\ IsFiniteSet(1..NNodes)
    BY ConstantsAssumption, FS_Interval, SMTT(30) DEF Trace
  <2>2. IsFiniteSet(Trace \X (1..NNodes))
    BY <2>1, FS_Product, Zenon
  <2>3. HeldNodes \in SUBSET (Trace \X (1..NNodes))
    <3>1. ASSUME NEW k \in Trace PROVE {k} \X (1..Width[k]) \subseteq Trace \X (1..NNodes)
      <4>1. Width[k] \in Nat /\ NNodes \in Nat /\ Width[k] <= NNodes
        BY ConstantsAssumption
      <4>2. 1..Width[k] \subseteq 1..NNodes
        BY <4>1, SMTT(30)
      <4> QED
        BY <4>2
    <3> QED
      BY <3>1 DEF HeldNodes, Holding
  <2> QED
    BY <2>2, <2>3, FS_Subset, Zenon
<1>3. Cardinality(HeldNodes) \in Nat
  BY <1>2, FS_CardinalityType, Zenon
<1> QED
  BY <1>1, <1>2, <1>3, Zenon

\* A step of JobLife keeps the number of nodes: a start moves the width of the
\* job from the idle to the held, a release moves it back, nothing else does.
LEMMA ConservedStep ==
  ASSUME BaseInv, NodesConserved, [Next]_vars PROVE NodesConserved'
PROOF
<1>0. /\ job_state \in [Trace -> JobStates] /\ JobLifeCycle!Jobs = Trace
      /\ idle_nodes \in Int /\ NNodes \in Nat
  BY JobTypes, ConstantsAssumption DEF BaseInv, JobLifeCycle!Jobs, Trace, TypeInv, TypeOK,
     JobTypeOK
<1>1. [JobLifeCycle!Next]_(JobLifeCycle!life)
  BY JobLifeStep, Zenon
<1>2. ASSUME idle_nodes' = idle_nodes, Holding' = Holding  PROVE NodesConserved'
  <2>1. HeldNodes' = HeldNodes
    BY <1>2 DEF HeldNodes
  <2> QED
    BY <1>2, <2>1 DEF NodesConserved
<1> DEFINE Of(k) == {k} \X (1..Width[k])
           Held == Cardinality(HeldNodes)
<1>8. /\ idle_nodes >= 0 /\ idle_nodes + Held = NNodes /\ Held \in Nat
      /\ IsFiniteSet(HeldNodes)
      /\ \A k \in Trace : Width[k] \in Nat /\ IsFiniteSet(Of(k)) /\ Cardinality(Of(k)) = Width[k]
  BY HeldCount, Zenon DEF NodesConserved
<1>3. ASSUME NEW k \in Trace, JobLifeCycle!Start(k)  PROVE NodesConserved'
  <2>1. /\ job_state[k] = "PENDING" /\ Width[k] <= idle_nodes
        /\ job_state' = [job_state EXCEPT ![k] = "RUNNING"]
        /\ idle_nodes' = idle_nodes - Width[k]
    BY <1>3 DEF JobLifeCycle!Start
  <2>2. k \notin Holding /\ Holding' = Holding \cup {k}
    BY <1>0, <2>1 DEF Holding, Completing
  <2>3. HeldNodes' = HeldNodes \cup Of(k) /\ HeldNodes \cap Of(k) = {}
    BY <2>2 DEF HeldNodes
  <2>4. Cardinality(HeldNodes') = Cardinality(HeldNodes) + Width[k]
    <3> HIDE DEF Of
    <3>1. Cardinality(HeldNodes \cup Of(k)) =
            Cardinality(HeldNodes) + Cardinality(Of(k)) - Cardinality(HeldNodes \cap Of(k))
      BY <1>8, FS_Union, Zenon
    <3>2. Cardinality(HeldNodes \cap Of(k)) = 0
      BY <2>3, FS_EmptySet, Zenon
    <3> QED
      BY <1>8, <2>3, <3>1, <3>2, SMTT(30)
  <2>5. idle_nodes' >= 0 /\ idle_nodes' + Cardinality(HeldNodes') = NNodes
    <3> HIDE DEF Of
    <3>1. /\ Width[k] \in Nat /\ Cardinality(HeldNodes') = Held + Width[k]
          /\ Held \in Nat /\ idle_nodes + Held = NNodes
      BY <1>8, <2>4, Zenon
    <3> HIDE DEF Held
    <3>2. idle_nodes' >= 0
      BY <1>0, <2>1, <3>1, SMTT(30)
    <3>3. idle_nodes' + Cardinality(HeldNodes') = NNodes
      BY <1>0, <2>1, <3>1, SMTT(30)
    <3> QED
      BY <3>2, <3>3, Zenon
  <2> QED
    BY <2>5, Zenon DEF NodesConserved
<1>4. ASSUME NEW k \in Trace, JobLifeCycle!Release(k)  PROVE NodesConserved'
  <2>1. /\ Completing(k) /\ idle_nodes' = idle_nodes + Width[k]
        /\ \E s \in {"COMPLETE", "TIMEOUT"} : job_state' = [job_state EXCEPT ![k] = s]
    BY <1>4 DEF JobLifeCycle!Release, Completing
  <2>2. k \in Holding /\ Holding' = Holding \ {k}
    BY <1>0, <2>1, SMTT(30) DEF Holding, Completing
  <2>3. HeldNodes = HeldNodes' \cup Of(k) /\ HeldNodes' \cap Of(k) = {}
    BY <2>2 DEF HeldNodes
  <2>4. HeldNodes' \in SUBSET HeldNodes
    BY <2>3
  <2>5. IsFiniteSet(HeldNodes') /\ Cardinality(HeldNodes') \in Nat
    BY <2>4, HeldCount, FS_Subset, FS_CardinalityType, Zenon
  <2>6. Held = Cardinality(HeldNodes') + Width[k]
    <3> HIDE DEF Of
    <3>1. Cardinality(HeldNodes' \cup Of(k)) =
            Cardinality(HeldNodes') + Cardinality(Of(k)) - Cardinality(HeldNodes' \cap Of(k))
      BY <1>8, <2>5, FS_Union, Zenon
    <3>2. Cardinality(HeldNodes' \cap Of(k)) = 0
      BY <2>3, FS_EmptySet, Zenon
    <3> QED
      BY <1>8, <2>3, <2>5, <3>1, <3>2, SMTT(30)
  <2>7. idle_nodes' >= 0 /\ idle_nodes' + Cardinality(HeldNodes') = NNodes
    <3> HIDE DEF Of, Held
    <3>1. Width[k] \in Nat
      BY <1>8
    <3> QED
      BY <1>0, <1>8, <2>1, <2>5, <2>6, <3>1, SMTT(30)
  <2> QED
    BY <2>7, Zenon DEF NodesConserved
<1>5. ASSUME NEW k \in Trace, JobLifeCycle!Arrive(k) \/ JobLifeCycle!Finish(k)
      PROVE  NodesConserved'
  <2>1. idle_nodes' = idle_nodes /\ Holding' = Holding
    BY <1>0, <1>5, SMTT(30) DEF JobLifeCycle!Arrive, JobLifeCycle!Finish, Holding, Completing
  <2> QED
    BY <1>2, <2>1, Zenon
<1>6. ASSUME NEW J \in SUBSET Trace, JobLifeCycle!TimeOut(J)  PROVE NodesConserved'
  <2>1. idle_nodes' = idle_nodes /\ Holding' = Holding
    BY <1>0, <1>6, SMTT(30) DEF JobLifeCycle!TimeOut, Holding, Completing
  <2> QED
    BY <1>2, <2>1, Zenon
<1>7. CASE UNCHANGED <<job_state, idle_nodes>>
  BY <1>2, <1>7 DEF Holding, Completing
<1> QED
  BY <1>0, <1>1, <1>3, <1>4, <1>5, <1>6, <1>7, SMTT(30) DEF JobLifeCycle!Next, JobLifeCycle!Tick,
     JobLifeCycle!life

\* No node is lost and none is given twice: the idle ones and those of running
\* and completing jobs make up the cluster, also when jobs are killed at their
\* limit, kills are lost or an epilog comes twice.
THEOREM NodesStayConserved == Spec => []NodesConserved
PROOF
<1>1. ASSUME Init PROVE NodesConserved
  <2>1. HeldNodes = {} /\ idle_nodes = NNodes
    BY <1>1, SMTT(30) DEF Init, HeldNodes, Holding, Completing
  <2> QED
    BY <2>1, ConstantsAssumption, FS_EmptySet, SMTT(30) DEF NodesConserved
<1>2. BaseInv /\ NodesConserved /\ [Next]_vars => NodesConserved'
  BY ConservedStep
<1> QED
  BY <1>1, <1>2, BaseHolds, PTL DEF Spec

-----------------------------------------------------------------------------
(* Messages: what every cycle can count on                                 *)

\* What is on its way for each job, how long ago a completing job was active,
\* and how many completions were reported.
MsgInv ==
  /\ FinishedInv
  /\ \A j \in Trace : FreshInv(j) /\ MessageInv(j) /\ ActiveNow(j, "COMPLETE_CG")

\* The three hold in every state.
LEMMA MessagesHold == Spec => []MsgInv
PROOF
<1>1. ASSUME Init PROVE MsgInv
  <2>1. /\ sd_pc = "sem_wait" /\ ctl_pc = "idle" /\ total_finished_jobs = 0
        /\ \A j \in Trace : /\ launch[j].pc = "none" /\ job_state[j] = "NONE"
                            /\ term[j] = "none"
                            /\ \A o \in Origins : epilog[j][o] = "none"
        /\ kill_msg = {}
    BY <1>1 DEF Init
  <2>2. FinishedInv
    BY <2>1, SMTT(30) DEF FinishedInv
  <2>3. ASSUME NEW j \in Trace
        PROVE  FreshInv(j) /\ MessageInv(j) /\ ActiveNow(j, "COMPLETE_CG")
    <3>1. /\ job_state[j] = "NONE" /\ term[j] = "none" /\ kill_msg = {}
          /\ epilog[j]["sim"] = "none" /\ epilog[j]["real"] = "none"
      BY <2>1, Zenon DEF Origins
    <3> QED
      BY <2>1, <3>1, SMTT(30) DEF FreshInv, MessageInv, ActiveNow
  <2> QED
    BY <2>2, <2>3, Zenon DEF MsgInv
<1>2. ASSUME BaseInv, EpilogInv, MsgInv, [Next]_vars PROVE MsgInv'
  <2>1. FinishedInv'
    BY <1>2, FinishedInductive, Zenon DEF MsgInv
  <2>2. ASSUME NEW j \in Trace
        PROVE  FreshInv(j)' /\ MessageInv(j)' /\ ActiveNow(j, "COMPLETE_CG")'
    <3>1. /\ FreshInv(j) /\ MessageInv(j) /\ ActiveNow(j, "COMPLETE_CG")
          /\ ComesBack(j, "COMPLETE_CG") /\ OwedInv
      BY <1>2, Zenon DEF MsgInv, EpilogInv, NodesComeBack
    <3>2. \A k \in Trace : FreshInv(k)
      BY <1>2, Zenon DEF MsgInv
    <3>3. FreshInv(j)'
      BY <1>2, <3>2, InsertHolds, FreshInductive, ZenonT(30)
    <3>4. MessageInv(j)'
      BY <1>2, <3>1, MessagesInductive, Zenon
    <3>5. ActiveNow(j, "COMPLETE_CG")'
      BY <1>2, <3>1, ActiveInductive, ZenonT(30)
    <3> QED
      BY <3>3, <3>4, <3>5, Zenon
  <2> QED
    BY <2>1, <2>2, SMTT(30) DEF MsgInv
<1> QED
  BY <1>1, <1>2, BaseHolds, EpilogHolds, PTL DEF Spec

\* When slurmctld starts to wait for the completions of a cycle they have all
\* been counted: the wait for total_finished_jobs never turns, whatever is
\* killed or lost.
THEOREM CompletionsCounted ==
  Spec => [](ctl_pc = "finished" => total_finished_jobs = total_jobs_ended)
PROOF
<1>1. ASSUME MsgInv
      PROVE  ctl_pc = "finished" => total_finished_jobs = total_jobs_ended
  BY <1>1 DEF MsgInv, FinishedInv
<1> QED
  BY <1>1, MessagesHold, PTL

\* purge_old_job never re-kills a job that completed by its event: while such
\* a job is completing the clock stands still, so it never looks old.
THEOREM CompletedNotRekilled ==
  Spec => [][\A j \in Trace : PurgeOldJob /\ job_state[j] = "COMPLETE_CG" =>
                                term'[j] = term[j]]_vars
PROOF
<1>1. ASSUME BaseInv, MsgInv
      PROVE  \A j \in Trace : PurgeOldJob /\ job_state[j] = "COMPLETE_CG" =>
                                term'[j] = term[j]
  <2> SUFFICES ASSUME NEW j \in Trace, PurgeOldJob, job_state[j] = "COMPLETE_CG"
               PROVE  term'[j] = term[j]
    OBVIOUS
  <2>1. TypeInv /\ ActiveNow(j, "COMPLETE_CG")
    BY <1>1, Zenon DEF BaseInv, MsgInv
  <2>2. ~Stuck(j)
    BY <2>1, ActiveNotStuck, Zenon DEF ActiveNow
  <2> QED
    BY <2>1, <2>2, ListTypes, SMTT(30) DEF PurgeOldJob, SendTerminate, Stuck
<1> QED
  BY <1>1, BaseHolds, MessagesHold, PTL DEF Spec

\* A lost kill is final.  Once the helper of slurmd waits for the epilog of a
\* completed job whose terminate request the agent failed to deliver, it waits
\* for good: the agent does not retry (retry = 0 in deallocate_nodes),
\* re_kill_job does not come, and time_mgr, which waits for the helper, never
\* advances the clock again.
THEOREM LostKillIsFinal ==
  ASSUME NEW j \in Trace
  PROVE  Spec => [](AwaitsLostKill(j) => [](AwaitsLostKill(j) /\ mgr_pc = "wait" /\ sim_sem = 0))
PROOF
<1> DEFINE Here == AwaitsLostKill(j) /\ mgr_pc = "wait" /\ sim_sem = 0
<1>1. BaseInv /\ EpilogInv /\ MsgInv /\ AwaitsLostKill(j) /\ [Next]_vars => AwaitsLostKill(j)'
  BY CountHolds, LostKillStays, ZenonT(30) DEF EpilogInv, MsgInv
<1>2. ASSUME BaseInv, AwaitsLostKill(j)  PROVE Here
  BY <1>2, Zenon DEF BaseInv, TurnInv, LockStep, MgrTurn, SdTurn, AwaitsLostKill
<1> QED
  BY <1>1, <1>2, BaseHolds, EpilogHolds, MessagesHold, PTL DEF Spec

-----------------------------------------------------------------------------
(* The busy waits                                                          *)

\* Undisturbed, what slurmd and slurmctld wait for adds up.
SpinInv ==
  /\ Unkilled /\ ArrivedInv
  /\ \A j \in Trace : SentInv(j)

\* The busy waits of a cycle are for messages that have been sent, as long as
\* no job is killed at its limit and no kill is lost: neither the handler of
\* slurmctld nor the helper of slurmd waits for something nobody will do.
THEOREM SpinsAlwaysEnd == Spec /\ []Undisturbed => []SpinsEnd
PROOF
<1>1. ASSUME Init PROVE SpinInv
  <2>1. /\ sd_pc = "sem_wait" /\ completed = {} /\ events = <<>>
        /\ arrived_jobs_epilogs = 0 /\ ctl_pc = "idle"
        /\ \A j \in Trace : /\ launch[j].pc = "none"
                            /\ \A o \in Origins : epilog[j][o] = "none"
    BY <1>1 DEF Init
  <2>2. Unkilled
    BY <2>1, Zenon DEF Unkilled, Origins
  <2>3. ArrivedInv
    <3>1. Uncounted = {}
      BY <2>1, ZenonT(30) DEF Uncounted, Origins
    <3>2. Cardinality(Uncounted) = 0
      BY <3>1, FS_EmptySet, Zenon
    <3>3. EpilogsDue = 0
      BY <2>1, Zenon DEF EpilogsDue
    <3> QED
      BY <2>1, <3>1, <3>2, <3>3, SMTT(30) DEF ArrivedInv
  <2>4. ASSUME NEW j \in Trace  PROVE SentInv(j)
    BY <2>1 DEF SentInv, AboutToComplete, HasEvent
  <2> QED
    BY <2>2, <2>3, <2>4, Zenon DEF SpinInv
<1>2. ASSUME BaseInv, MsgInv, SpinInv, Undisturbed, Undisturbed', [Next]_vars
      PROVE  SpinInv'
  <2>1. kill_msg = {} /\ kill_msg' = {} /\ lost = 0 /\ lost' = 0 /\ TypeInv
    BY <1>2, Zenon DEF Undisturbed, BaseInv
  <2>2. Unkilled'
    BY <1>2, <2>1, UnkilledStays, Zenon DEF SpinInv
  <2>3. ArrivedInv'
    BY <1>2, CountHolds, ArrivedInductive, ZenonT(30) DEF SpinInv, MsgInv
  <2>4. ASSUME NEW j \in Trace  PROVE SentInv(j)'
    <3>1. MessageInv(j) /\ SentInv(j)
      BY <1>2, Zenon DEF MsgInv, SpinInv
    <3> QED
      BY <1>2, <2>1, <3>1, InsertHolds, SentInductive, ZenonT(30)
  <2> QED
    BY <2>2, <2>3, <2>4, Zenon DEF SpinInv
<1>3. ASSUME BaseInv, EpilogInv, MsgInv, SpinInv  PROVE SpinsEnd
  <2>1. ctl_pc = "finished" => total_finished_jobs = total_jobs_ended
    BY <1>3 DEF MsgInv, FinishedInv
  <2>2. ASSUME ctl_pc = "epilogs"
        PROVE  arrived_jobs_epilogs + Cardinality({j \in Trace : epilog[j]["sim"] = "replied"})
                 = total_jobs_ended
    <3>1. sd_pc = "cycle" /\ EpilogsOwed = {} /\ total_jobs_ended = jobs_ended
      BY <1>3, <2>2, Zenon DEF BaseInv, TurnInv, LockStep, EpilogInv, OwedInv, MsgInv,
         FinishedInv
    <3>2. \A j \in Trace : j \notin completed /\ term[j] # "epilog"
      BY <3>1, Zenon DEF EpilogsOwed
    <3>3. \A j \in Trace : epilog[j]["sim"] \notin {"sent", "noted"}
      BY <1>3, <3>2, Zenon DEF MsgInv, MessageInv
    <3>4. Uncounted = {j \in Trace : epilog[j]["sim"] = "replied"}
      BY <3>2, <3>3, ZenonT(30) DEF Uncounted
    <3>5. EpilogsDue = jobs_ended + 0
      BY <2>2, <3>1, Zenon DEF EpilogsDue
    <3>6. jobs_ended \in Nat
      BY <1>3, SMTT(30) DEF BaseInv, TypeInv, TypeOK, SlurmdTypeOK
    <3> QED
      BY <1>3, <3>1, <3>4, <3>5, <3>6, SMTT(30) DEF SpinInv, ArrivedInv
  <2>3. ASSUME sd_pc = "epilogs", NEW j \in completed  PROVE term[j] = "sent"
    BY <1>3, <2>3, ListTypes, SMTT(30) DEF BaseInv, SpinInv, SentInv, AboutToComplete
  <2> QED
    BY <2>1, <2>2, <2>3, Zenon DEF SpinsEnd
<1> QED
  BY <1>1, <1>2, <1>3, BaseHolds, EpilogHolds, MessagesHold, PTL DEF Spec

-----------------------------------------------------------------------------
(* The end of the simulation                                               *)

\* Only the end-of-simulation test of slurmctld sets trace_recs_end_sim.
LEMMA EndChanges ==
  ASSUME [Next]_vars  PROVE EndOfLog \/ UNCHANGED trace_recs_end_sim
PROOF
<1>1. CASE MgrTop \/ MgrTerminate \/ MgrPost \/ MgrSubmit \/ MgrSimJob \/ MgrAdvance
  BY <1>1, ZenonT(30) DEF MgrTop, MgrTerminate, MgrPost, MgrSubmit, MgrSimJob, MgrAdvance
<1>2. CASE Helper
  BY <1>2, ZenonT(30) DEF Helper, SdWake, SdEvent, SdCompleteAcked, SdEventsDone,
     SdEpilogsDone, SdSendCycle, SdPost
<1>3. CASE CycleStep
  BY <1>3, ZenonT(30) DEF CycleStep, CycleFinished, CycleEpilogs, CycleResetEpilogs,
     CycleSchedCnt, CycleResetCnt, ScheduleDone, CycleBackfillDue, BackfillDone, CycleReply
<1>4. CASE PurgeOldJob \/ JobTimeLimit \/ CompleteBatchScript \/ UNCHANGED vars
  BY <1>4, ZenonT(30) DEF PurgeOldJob, JobTimeLimit, CompleteBatchScript, vars
<1>5. ASSUME NEW k \in Trace, TermLookup(k) \/ TermAnswered(k) \/ KillTimelimit(k)
                              \/ QueueAfterSubmit(k) \/ LoseKill(k)
      PROVE  UNCHANGED trace_recs_end_sim
  BY <1>5, ZenonT(30) DEF TermLookup, TermAnswered, KillTimelimit, QueueAfterSubmit, LoseKill
<1>6. ASSUME NEW k \in Trace, LaunchRead(k) \/ LaunchInsert(k) \/ Starts(k)
      PROVE  UNCHANGED trace_recs_end_sim
  BY <1>6, ZenonT(30) DEF LaunchRead, LaunchInsert, Starts, ScheduleStart, BackfillStart
<1>7. ASSUME NEW k \in Trace, NEW o \in Origins, EpilogNote(k, o) \/ EpilogTail(k, o)
      PROVE  UNCHANGED trace_recs_end_sim
  BY <1>7, ZenonT(30) DEF EpilogNote, EpilogTail, EpilogReply, EpilogArrived, EpilogLoad,
     EpilogStore
<1>8. CASE QuietStep
  BY <1>1, <1>2, <1>3, <1>4, <1>5, <1>7, <1>8, ZenonT(30) DEF QuietStep
<1> QED
  BY <1>1, <1>4, <1>6, <1>7, <1>8, StepKinds, Zenon

\* When as many jobs have sent their last epilog as the log has, all have.
LEMMA AllOver ==
  ASSUME OverJobs \in SUBSET Trace, Cardinality(OverJobs) >= NJobs  PROVE OverJobs = Trace
PROOF
<1>1. IsFiniteSet(Trace) /\ Cardinality(Trace) = NJobs
  BY ConstantsAssumption, FS_Interval, SMTT(30) DEF Trace
<1>2. Cardinality(OverJobs) <= Cardinality(Trace)
  BY <1>1, FS_Subset, SMTT(30)
<1>3. Cardinality(OverJobs) \in Nat
  BY CountHolds, Zenon DEF CountFact
<1>4. Cardinality(OverJobs) = Cardinality(Trace)
  BY <1>1, <1>2, <1>3, ConstantsAssumption, SMTT(30)
<1> QED
  BY <1>1, <1>4, FS_Subset, SMTT(30)

\* slurmctld asks for the end of the simulation only when every job of the log
\* has ended and given its nodes back, as long as purge_old_job re-kills no
\* job; a lost update of total_epilog_complete_jobs can delay the end but not
\* bring it early.
THEOREM EndsAfterAll == Spec /\ NoReKill => []EndOnlyAfterAll
PROOF
<1> DEFINE Step == [PurgeOldJob => term' = term]_vars
           Inv  == CountInv /\ EndOnlyAfterAll /\ \A j \in Trace : OneOrigin(j)
<1>1. ASSUME Init PROVE Inv
  <2>1. /\ trace_recs_end_sim = 0 /\ total_epilog_complete_jobs = 0 /\ kill_msg = {}
        /\ \A j \in Trace, o \in Origins : loaded[j][o] = 0 /\ epilog[j][o] = "none"
    BY <1>1 DEF Init
  <2>2. Cardinality(OverJobs) \in Nat
    BY CountHolds, Zenon DEF OverJobs, CountFact
  <2>3. CountInv
    <3>1. 0 <= Cardinality(OverJobs)
      BY <2>2
    <3> QED
      BY <2>1, <3>1, ZenonT(30) DEF CountInv
  <2>4. EndOnlyAfterAll
    BY <2>1 DEF EndOnlyAfterAll, EndFlag
  <2>5. \A j \in Trace : OneOrigin(j)
    BY <2>1 DEF OneOrigin, Origins
  <2> QED
    BY <2>3, <2>4, <2>5, Zenon
<1>2. ASSUME BaseInv, MsgInv, Inv, [Next]_vars, Step PROVE Inv'
  <2>1. \A j \in Trace : FreshInv(j) /\ MessageInv(j) /\ OneOrigin(j)
    BY <1>2, Zenon DEF MsgInv
  <2>2. CountInv'
    BY <1>2, <2>1, CountHolds, CountInductive, ZenonT(30)
  <2>3. ASSUME NEW j \in Trace  PROVE OneOrigin(j)'
    BY <1>2, <2>1, OriginInductive, ZenonT(30)
  <2>4. ASSUME trace_recs_end_sim' = EndFlag, NEW j \in Trace  PROVE Ended(j)'
    <3>1. CASE EndOfLog
      <4>1. total_epilog_complete_jobs = NJobs /\ OverJobs \in SUBSET Trace
        BY <3>1, Zenon DEF EndOfLog, AllCounted, OverJobs
      <4>2. Cardinality(OverJobs) >= NJobs
        <5>1. Cardinality(OverJobs) \in Nat
          BY <4>1, CountHolds, Zenon DEF CountFact
        <5> QED
          BY <1>2, <4>1, <5>1, ConstantsAssumption, SMTT(30) DEF CountInv
      <4>3. PICK o \in Origins : epilog[j][o] = "over"
        BY <4>1, <4>2, AllOver, Zenon DEF OverJobs
      <4>4. epilog[j][o] \notin {"none", "sent"}
        BY <4>3
      <4>5. Ended(j)
        BY <2>1, <4>4, Zenon DEF MessageInv
      <4> QED
        BY <1>2, <4>5, LifeStable, Zenon
    <3>2. CASE UNCHANGED trace_recs_end_sim
      <4>1. Ended(j)
        BY <1>2, <2>4, <3>2, Zenon DEF EndOnlyAfterAll, EndFlag
      <4> QED
        BY <1>2, <4>1, LifeStable, Zenon
    <3> QED
      BY <1>2, <3>1, <3>2, EndChanges, Zenon
  <2>5. EndOnlyAfterAll'
    BY <2>4 DEF EndOnlyAfterAll, EndFlag
  <2> QED
    BY <2>2, <2>3, <2>5, Zenon
<1>3. Inv => EndOnlyAfterAll
  OBVIOUS
<1> HIDE DEF Inv
<1> QED
  BY <1>1, <1>2, <1>3, BaseHolds, MessagesHold, PTL DEF Spec, NoReKill

\* A purge that finds no job completing for too long sends nothing.
LEMMA NothingToKill ==
  ASSUME TypeInv, PurgeOldJob, \A j \in Trace : ~Stuck(j)  PROVE term' = term
PROOF
<1>1. term' = SendTerminate(term, {})
  <2>1. {j \in Trace : Completing(j) /\ last_active[j] < SimTime - KillAge} = {}
    BY DEF Stuck
  <2> QED
    BY <2>1, Zenon DEF PurgeOldJob
<1>2. term \in [Trace -> {"none", "sent", "epilog"}]
  BY ListTypes, Zenon
<1> QED
  BY <1>1, <1>2, SMTT(30) DEF SendTerminate

\* No job reaches its time limit.
NoKills == kill_msg = {}

\* Re-kills come only with jobs killed at their limit: as long as job_time_limit
\* kills none, a completing job gives its nodes back before the clock moves,
\* and purge_old_job finds nothing to do.
THEOREM RekillsNeedKills == Spec /\ []NoKills => NoReKill
PROOF
<1> DEFINE Inv == \A j \in Trace : ComesBack(j, "TIMEOUT_CG") /\ ActiveNow(j, "TIMEOUT_CG")
<1>1. ASSUME Init PROVE Inv
  BY <1>1 DEF Init, ComesBack, ActiveNow
<1>2. ASSUME BaseInv, EpilogInv, Inv, NoKills', [Next]_vars PROVE Inv'
  <2>1. \A j \in Trace : ComesBack(j, "TIMEOUT_CG")'
    BY <1>2, ComeBackInductive, SMTT(30) DEF NoKills
  <2>2. ASSUME NEW j \in Trace  PROVE ActiveNow(j, "TIMEOUT_CG")'
    <3>1. ComesBack(j, "TIMEOUT_CG") /\ ActiveNow(j, "TIMEOUT_CG") /\ OwedInv
      BY <1>2, Zenon DEF EpilogInv
    <3> QED
      BY <1>2, <3>1, ActiveInductive, ZenonT(30)
  <2> QED
    BY <2>1, <2>2, ZenonT(30)
<1>3. ASSUME BaseInv, MsgInv, Inv  PROVE PurgeOldJob => term' = term
  <2>1. ASSUME NEW j \in Trace  PROVE ~Stuck(j)
    <3>1. Completing(j) => last_active[j] = current_sim
      BY <1>3 DEF MsgInv, ActiveNow, Completing
    <3> QED
      BY <1>3, <3>1, ActiveNotStuck, Zenon DEF BaseInv, Stuck
  <2> QED
    BY <1>3, <2>1, NothingToKill, Zenon DEF BaseInv
<1> HIDE DEF Inv
<1> QED
  BY <1>1, <1>2, <1>3, BaseHolds, EpilogHolds, MessagesHold, PTL DEF Spec, NoReKill

\* Without kills at the limit the end never comes early, also when kill
\* requests of completed jobs are lost.
THEOREM EndsAfterAllUnkilled == Spec /\ []NoKills => []EndOnlyAfterAll
PROOF
  BY RekillsNeedKills, EndsAfterAll, PTL
=============================================================================
