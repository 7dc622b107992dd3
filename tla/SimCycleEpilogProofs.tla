------------------------ MODULE SimCycleEpilogProofs ------------------------
(***************************************************************************)
(* The epilogs, the scheduling requests and the counters of the simulation *)
(* cycle, given the invariants of SimCycleBaseProofs.  EpilogInv says      *)
(* which epilogs are still owed where the helper is; FreshInv that each    *)
(* epilog message is sent once; RequestInv is the promise of               *)
(* NoLostScheduling made inductive.  MessageInv and ActiveNow say what is  *)
(* on its way for a job, FinishedInv, ArrivedInv and CountInv what the     *)
(* three counters of slurmctld count, and SentInv what the helper waits    *)
(* for.                                                                    *)
(***************************************************************************)
EXTENDS SimCycleBaseProofs

-----------------------------------------------------------------------------
(* The epilogs slurmd owes                                                 *)

\* waiting_epilog_msgs counts the epilogs owed but for the one of the event
\* the helper works on.  Between cycles none is owed; in the event loop only
\* when jobs_ended says so, or for the current event.
OwedInv ==
  /\ waiting_epilog_msgs = Cardinality(EpilogsOwed)
                           - (IF sd_pc \in {"complete", "acked"} THEN 1 ELSE 0)
  /\ sd_pc \in {"sem_wait", "send_cycle", "cycle", "post"} => EpilogsOwed = {}
  /\ sd_pc = "events" /\ jobs_ended = 0 => EpilogsOwed = {}
  /\ sd_pc \in {"complete", "acked"} /\ jobs_ended = 0 => EpilogsOwed \subseteq {current_event}

\* A job that completes by its event has its epilog still before it.
ComesBack(j, s) ==
  job_state[j] = s =>
    j \in completed \/ (term[j] = "epilog" /\ epilog[j]["sim"] = "sent")

NodesComeBack(j) == ComesBack(j, "COMPLETE_CG")

EpilogInv == OwedInv /\ \A j \in Trace : NodesComeBack(j)

\* What the account needs of the size of a set of jobs.  SimCycleProofs
\* proves it (CountHolds).
CountFact ==
  \A S \in SUBSET Trace :
    /\ Cardinality(S) \in Nat
    /\ Cardinality(S) = 0 <=> S = {}
    /\ \A j \in Trace \ S : Cardinality(S \cup {j}) = Cardinality(S) + 1
    /\ \A j \in S : Cardinality(S \ {j}) = Cardinality(S) - 1

\* The owed epilogs are those of jobs of the trace; their number and the
\* counters are numbers.
LEMMA OwedTypes ==
  ASSUME CountFact, TypeInv
  PROVE  /\ EpilogsOwed \in SUBSET Trace /\ Cardinality(EpilogsOwed) \in Nat
         /\ waiting_epilog_msgs \in Int /\ jobs_ended \in Nat
PROOF
<1>1. EpilogsOwed \in SUBSET Trace
  BY DEF EpilogsOwed
<1>2. Cardinality(EpilogsOwed) \in Nat
  BY <1>1 DEF CountFact
<1> QED
  BY <1>1, <1>2 DEF TypeInv, TypeOK, SlurmdTypeOK

\* The helper's own steps keep the account.
LEMMA OwedHelper ==
  ASSUME CountFact, BaseInv, OwedInv, Helper
  PROVE  OwedInv'
PROOF
<1>0. TypeInv /\ EventsInv
  BY DEF BaseInv
<1>1. /\ EpilogsOwed \in SUBSET Trace /\ Cardinality(EpilogsOwed) \in Nat
      /\ waiting_epilog_msgs \in Int /\ jobs_ended \in Nat
  BY <1>0, OwedTypes
<1>2. CASE SdEvent
  <2> DEFINE h == events[1].job
  <2>1. /\ sd_pc = "events" /\ sd_pc' = "complete" /\ events # <<>>
        /\ current_event' = Head(events).job
        /\ completed' = completed \cup {Head(events).job}
        /\ UNCHANGED <<jobs_ended, waiting_epilog_msgs, term>>
    BY <1>2 DEF SdEvent, EventDue, msgVars
  <2>2. /\ events \in Seq(EventRec(Trace)) /\ Len(events) \in Nat
        /\ \A i \in 1..Len(events) : events[i].job \in Trace
    BY <1>0, ListTypes
  <2>3. 1 \in 1..Len(events) /\ Head(events) = events[1]
    BY <2>1, <2>2
  <2>4. h \in Trace /\ h \notin completed /\ term[h] # "epilog"
    BY <1>0, <2>2, <2>3 DEF EventsInv, EventInv
  <2>5. current_event' = h /\ completed' = completed \cup {h}
    BY <2>1, <2>3
  <2>6. h \notin EpilogsOwed /\ EpilogsOwed' = EpilogsOwed \cup {h}
    BY <2>1, <2>4, <2>5 DEF EpilogsOwed
  <2>7. Cardinality(EpilogsOwed') = Cardinality(EpilogsOwed) + 1
    BY <1>1, <2>4, <2>6 DEF CountFact
  <2>8. waiting_epilog_msgs' = Cardinality(EpilogsOwed') - 1
    BY <1>1, <2>1, <2>7 DEF OwedInv
  <2>9. jobs_ended' = 0 => EpilogsOwed' \subseteq {current_event'}
    BY <2>1, <2>5, <2>6 DEF OwedInv
  <2> QED
    BY <2>1, <2>8, <2>9 DEF OwedInv
<1>3. CASE SdCompleteAcked
  <2>1. /\ sd_pc = "acked" /\ sd_pc' = "events"
        /\ waiting_epilog_msgs' = waiting_epilog_msgs + 1
        /\ jobs_ended' = jobs_ended + 1 /\ EpilogsOwed' = EpilogsOwed
    BY <1>3 DEF SdCompleteAcked, CountEnded, EpilogsOwed, listVars, msgVars
  <2>2. jobs_ended' # 0
    BY <1>1, <2>1
  <2>3. waiting_epilog_msgs' = Cardinality(EpilogsOwed')
    BY <1>1, <2>1 DEF OwedInv
  <2> QED
    BY <2>1, <2>2, <2>3 DEF OwedInv
<1>4. CASE SdWake \/ SdEventsDone \/ SdEpilogsDone \/ SdSendCycle \/ SdPost
  <2>1. EpilogsOwed' = EpilogsOwed /\ waiting_epilog_msgs' = waiting_epilog_msgs
    BY <1>4 DEF SdWake, SdEventsDone, SdEpilogsDone, SdSendCycle, SdPost, EpilogsOwed,
       listVars, msgVars
  <2>2. sd_pc \notin {"complete", "acked"} /\ sd_pc' \notin {"complete", "acked"}
    BY <1>4 DEF SdWake, SdEventsDone, SdEpilogsDone, SdSendCycle, SdPost
  <2>3. sd_pc' # "epilogs" => EpilogsOwed = {}
    <3>1. CASE SdEpilogsDone
      <4>1. Cardinality(EpilogsOwed) = 0
        BY <1>1, <2>2, <3>1 DEF SdEpilogsDone, OwedInv
      <4> QED
        BY <1>1, <4>1 DEF CountFact
    <3>2. CASE SdEventsDone
      BY <1>1, <3>2 DEF SdEventsDone, OwedInv
    <3>3. CASE SdWake \/ SdSendCycle \/ SdPost
      BY <3>3 DEF SdWake, SdSendCycle, SdPost, OwedInv
    <3> QED
      BY <1>4, <3>1, <3>2, <3>3
  <2>4. waiting_epilog_msgs' = Cardinality(EpilogsOwed')
    BY <1>1, <2>1, <2>2 DEF OwedInv
  <2> QED
    BY <2>1, <2>2, <2>3, <2>4, ZenonT(30) DEF OwedInv
<1> QED
  BY <1>2, <1>3, <1>4 DEF Helper

\* The terminate handlers of slurmd keep the account: taking a job off the
\* completed list does not settle it, the answer to the epilog message does.
LEMMA OwedTerminate ==
  ASSUME CountFact, BaseInv, OwedInv, NEW k \in Trace, TermLookup(k) \/ TermAnswered(k)
  PROVE  OwedInv'
PROOF
<1>0. /\ TypeInv /\ EventsInv /\ completed \subseteq Trace
      /\ term \in [Trace -> {"none", "sent", "epilog"}]
  BY ListTypes DEF BaseInv
<1>1. /\ EpilogsOwed \in SUBSET Trace /\ Cardinality(EpilogsOwed) \in Nat
      /\ waiting_epilog_msgs \in Int
  BY <1>0, OwedTypes
<1>2. UNCHANGED <<sd_pc, jobs_ended, current_event>>
  BY DEF TermLookup, TermAnswered, sdVars
<1>3. CASE TermLookup(k)
  <2>1. /\ term[k] = "sent" /\ completed' = completed \ {k}
        /\ term' = [term EXCEPT ![k] = IF k \in completed THEN "epilog" ELSE "none"]
        /\ waiting_epilog_msgs' = waiting_epilog_msgs
    BY <1>3 DEF TermLookup
  <2>2. \A j \in Trace : j \in EpilogsOwed' <=> j \in EpilogsOwed
    BY <1>0, <2>1 DEF EpilogsOwed
  <2>3. EpilogsOwed' = EpilogsOwed
    BY <2>2 DEF EpilogsOwed
  <2> QED
    BY <1>2, <2>1, <2>3 DEF OwedInv
<1>4. CASE TermAnswered(k)
  <2>1. /\ term[k] = "epilog" /\ term' = [term EXCEPT ![k] = "none"]
        /\ waiting_epilog_msgs' = waiting_epilog_msgs - 1 /\ completed' = completed
    BY <1>4, SMTT(30) DEF TermAnswered, listVars
  <2>2. k \in EpilogsOwed /\ k \notin completed
    BY <1>0, <2>1 DEF EpilogsOwed, EventsInv
  <2>3. \A j \in Trace : j \in EpilogsOwed' <=> j \in EpilogsOwed /\ j # k
    BY <1>0, <2>1, <2>2 DEF EpilogsOwed
  <2>4. EpilogsOwed' = EpilogsOwed \ {k}
    BY <2>3 DEF EpilogsOwed
  <2>5. Cardinality(EpilogsOwed') = Cardinality(EpilogsOwed) - 1
    BY <1>1, <2>2, <2>4 DEF CountFact
  <2>6. waiting_epilog_msgs' = Cardinality(EpilogsOwed')
                               - (IF sd_pc' \in {"complete", "acked"} THEN 1 ELSE 0)
    BY <1>1, <1>2, <2>1, <2>5 DEF OwedInv
  <2> QED
    BY <1>2, <2>4, <2>6 DEF OwedInv
<1> QED
  BY <1>3, <1>4

\* No other step changes the account; slurmctld's answers move the helper on
\* between places with the same account.
LEMMA OwedOthers ==
  ASSUME BaseInv, OwedInv, [Next]_vars, ~Helper,
         ~\E j \in Trace : TermLookup(j) \/ TermAnswered(j)
  PROVE  OwedInv'
PROOF
<1> DEFINE Same == UNCHANGED <<waiting_epilog_msgs, jobs_ended, current_event, completed>>
           Terms == \A j \in Trace : term'[j] = "epilog" <=> term[j] = "epilog"
<1>0. TypeInv /\ TurnInv /\ EventsInv /\ JobsInv
      /\ term \in [Trace -> {"none", "sent", "epilog"}]
  BY ListTypes DEF BaseInv
<1>1. SUFFICES /\ Same /\ Terms
               /\ \/ sd_pc' = sd_pc
                  \/ sd_pc = "complete" /\ sd_pc' = "acked"
                  \/ sd_pc = "cycle" /\ sd_pc' = "post"
  <2>1. EpilogsOwed' = EpilogsOwed
    BY <1>1 DEF EpilogsOwed
  <2> QED
    BY <1>1, <2>1 DEF OwedInv
<1>2. CASE MgrTop \/ MgrTerminate \/ MgrPost \/ MgrSubmit \/ MgrSimJob \/ MgrAdvance
  BY <1>2, ManagerFrame
<1>3. CASE CycleStep
  <2>1. sd_pc' = sd_pc \/ (sd_pc = "cycle" /\ sd_pc' = "post")
    BY <1>0, <1>3, CycleFrame, HandlerHasTurn
  <2> QED
    BY <1>3, <2>1, CycleFrame
<1>4. CASE EndOfLog \/ PurgeOldJob
  BY <1>0, <1>4, BackgroundFrame, Zenon
<1>5. CASE JobTimeLimit
  BY <1>5, LimitFrame, SMTT(30)
<1>6. ASSUME NEW k \in Trace, KillTimelimit(k) \/ QueueAfterSubmit(k) \/ LoseKill(k)
      PROVE  Same /\ Terms /\ sd_pc' = sd_pc
  BY <1>0, <1>6, ThreadFrame, Zenon
<1>7. ASSUME NEW k \in Trace, NEW o \in Origins, EpilogTail(k, o)
      PROVE  Same /\ Terms /\ sd_pc' = sd_pc
  BY <1>7, TailFrame
<1>8. ASSUME NEW k \in Trace, NEW o \in Origins, EpilogNote(k, o)
      PROVE  Same /\ Terms /\ sd_pc' = sd_pc
  BY <1>8 DEF EpilogNote, sdVars, listVars, msgVars
<1>9. ASSUME NEW k \in Trace, LaunchRead(k) \/ LaunchInsert(k)
      PROVE  Same /\ Terms /\ sd_pc' = sd_pc
  BY <1>9, LaunchFrame
<1>10. ASSUME NEW k \in Trace, Starts(k)
       PROVE  Same /\ Terms /\ sd_pc' = sd_pc
  BY <1>10, StartFrame, SMTT(30)
<1>11. CASE CompleteBatchScript
  <2>1. Same /\ sd_pc = "complete" /\ sd_pc' = "acked"
    BY <1>11, SMTT(30) DEF CompleteBatchScript, listVars
  <2>2. Terms
    BY <1>0, <1>11, CompleteEffect
  <2> QED
    BY <2>1, <2>2
<1>12. CASE UNCHANGED vars
  BY <1>12 DEF vars, sdVars, listVars, msgVars
<1> HIDE DEF Same, Terms
<1>13. CASE QuietStep
  BY <1>2, <1>3, <1>4, <1>6, <1>7, <1>12, <1>13, Zenon DEF QuietStep
<1> QED
  BY <1>2, <1>5, <1>8, <1>9, <1>10, <1>11, <1>13, StepKinds, Zenon

\* No step takes the epilog of a completing job away; of the jobs that are
\* completing after a timeout this holds when none was killed at its limit.
LEMMA ComeBackInductive ==
  ASSUME BaseInv, NEW s \in {"COMPLETE_CG", "TIMEOUT_CG"}, \A j \in Trace : ComesBack(j, s),
         [Next]_vars, s = "TIMEOUT_CG" => kill_msg' = {}
  PROVE  \A j \in Trace : ComesBack(j, s)'
PROOF
<1>0. /\ TypeInv /\ TurnInv /\ EventsInv /\ JobsInv
      /\ term \in [Trace -> {"none", "sent", "epilog"}] /\ completed \subseteq Trace
      /\ job_state \in [Trace -> JobStates]
      /\ epilog \in [Trace -> [Origins -> EpilogStates]]
  BY ListTypes, JobTypes, Zenon DEF BaseInv, TypeInv, TypeOK, MessageTypeOK
<1>1. SUFFICES ASSUME NEW j \in Trace, job_state'[j] = s
               PROVE  j \in completed' \/ (term'[j] = "epilog" /\ epilog'[j]["sim"] = "sent")
  BY DEF ComesBack
<1>2. ComesBack(j, s)
  BY SMTT(30)
\* What is enough for a step that does not complete j.
<1>3. ASSUME job_state[j] = s, j \in completed => j \in completed',
             term[j] = "epilog" => term'[j] = "epilog",
             epilog[j]["sim"] = "sent" => epilog'[j]["sim"] = "sent"
      PROVE  j \in completed' \/ (term'[j] = "epilog" /\ epilog'[j]["sim"] = "sent")
  BY <1>2, <1>3 DEF ComesBack
<1>4. CASE CompleteBatchScript
  <2>1. /\ UNCHANGED <<completed, epilog>>
        /\ \A i \in Trace : i # current_event => job_state'[i] = job_state[i]
        /\ \A i \in Trace : term'[i] = "epilog" <=> term[i] = "epilog"
        /\ sd_pc = "complete"
    BY <1>0, <1>4, CompleteEffect, ZenonT(30) DEF CompleteBatchScript, listVars
  <2>2. current_event \in completed
    BY <1>0, <2>1, Zenon DEF EventsInv
  <2> QED
    BY <1>1, <1>3, <2>1, <2>2, SMTT(30)
<1> DEFINE Goal == j \in completed' \/ (term'[j] = "epilog" /\ epilog'[j]["sim"] = "sent")
<1>5. ASSUME NEW k \in Trace, NEW o \in Origins, EpilogNote(k, o)
      PROVE  Goal
  <2>1. UNCHANGED <<completed, term>> /\ epilog' = [epilog EXCEPT ![k][o] = "noted"]
    BY <1>5 DEF EpilogNote, listVars, msgVars
  <2>2. job_state[j] = s /\ j # k
    BY <1>0, <1>1, <1>5 DEF EpilogNote, EpilogEndsJob, Completing
  <2>3. epilog'[j] = epilog[j]
    BY <1>0, <2>1, <2>2
  <2> QED
    BY <1>3, <2>1, <2>2, <2>3, Zenon
<1>16. ASSUME NEW k \in Trace, NEW o \in Origins, EpilogTail(k, o)
       PROVE  Goal
  <2>1. /\ UNCHANGED <<job_state, completed, term>> /\ epilog[k][o] # "sent"
        /\ \E e : epilog' = [epilog EXCEPT ![k][o] = e]
    BY <1>16, TailFrame
  <2>2. epilog[j]["sim"] = "sent" => epilog'[j]["sim"] = "sent"
    BY <1>0, <2>1 DEF Origins
  <2> QED
    BY <1>1, <1>3, <2>1, <2>2
<1>6. ASSUME NEW k \in Trace, TermLookup(k)
      PROVE  Goal
  <2>1. job_state' = job_state /\ term[k] = "sent" /\ completed' = completed \ {k}
    BY <1>6 DEF TermLookup, jobVars
  <2>2. CASE k \in completed
    BY <1>0, <1>1, <1>2, <1>6, <2>1, <2>2, ZenonT(30) DEF TermLookup, ComesBack, Origins
  <2>3. CASE k \notin completed
    BY <1>0, <1>1, <1>2, <1>6, <2>1, <2>3, Zenon DEF TermLookup, ComesBack, Origins
  <2> QED
    BY <2>2, <2>3
<1>7. ASSUME NEW k \in Trace, TermAnswered(k)
      PROVE  Goal
  <2>1. /\ term' = [term EXCEPT ![k] = "none"] /\ epilog[k]["sim"] # "sent"
        /\ UNCHANGED <<job_state, completed, epilog>>
    BY <1>7, Zenon DEF TermAnswered, EpilogAnswered, jobVars, listVars
  <2> QED
    BY <1>0, <1>1, <1>2, <2>1, SMTT(30) DEF ComesBack
<1>8. ASSUME NEW k \in Trace, KillTimelimit(k) \/ QueueAfterSubmit(k) \/ LoseKill(k)
      PROVE  Goal
  BY <1>0, <1>1, <1>3, <1>8, ThreadFrame, ZenonT(30)
<1>9. CASE PurgeOldJob \/ EndOfLog
  BY <1>0, <1>1, <1>3, <1>9, BackgroundFrame, SMTT(30)
<1>10. CASE Helper
  <2>1. completed \subseteq completed'
    BY <1>10, HelperFrame, ZenonT(30) DEF SdEvent
  <2> QED
    BY <1>1, <1>3, <1>10, <2>1, HelperFrame, ZenonT(30)
<1>11. CASE JobTimeLimit
  <2>1. job_state[j] = s
    <3>1. CASE job_state'[j] = job_state[j]
      BY <1>1, <3>1, Zenon
    <3>2. CASE job_state'[j] # job_state[j]
      <4>1. j \in kill_msg' /\ job_state'[j] = "TIMEOUT_CG"
        BY <1>0, <1>11, <3>2 DEF JobTimeLimit
      <4> QED
        BY <1>1, <4>1, Zenon
    <3> QED
      BY <3>1, <3>2, Zenon
  <2> QED
    BY <1>3, <1>11, <2>1, LimitFrame, ZenonT(30)
<1>12. CASE MgrTop \/ MgrTerminate \/ MgrPost \/ MgrSubmit \/ MgrSimJob \/ MgrAdvance
  <2>1. job_state[j] = s
    <3>1. CASE MgrSubmit
      BY <1>0, <1>1, <3>1, SMTT(30) DEF MgrSubmit
    <3> QED
      BY <1>1, <1>12, <3>1, ManagerFrame, ZenonT(30)
  <2>2. UNCHANGED <<completed, term, epilog>>
    BY <1>12, ManagerFrame, Zenon
  <2> QED
    BY <1>3, <2>1, <2>2, Zenon
<1>13. CASE CycleStep
  BY <1>1, <1>3, <1>13, CycleFrame, ZenonT(30)
<1>14. CASE UNCHANGED vars
  BY <1>1, <1>3, <1>14, ZenonT(30) DEF vars, jobVars, listVars, msgVars
<1>17. ASSUME NEW k \in Trace, LaunchRead(k) \/ LaunchInsert(k)
       PROVE  Goal
  BY <1>1, <1>3, <1>17, LaunchFrame, ZenonT(30)
<1>18. ASSUME NEW k \in Trace, Starts(k)
       PROVE  Goal
  <2>1. job_state[j] = s
    BY <1>0, <1>1, <1>18, StartFrame
  <2> QED
    BY <1>3, <1>18, <2>1, StartFrame
<1>15. CASE QuietStep
  BY <1>6, <1>7, <1>8, <1>9, <1>10, <1>12, <1>13, <1>14, <1>15, <1>16, ZenonT(30) DEF QuietStep
<1> QED
  BY <1>4, <1>5, <1>11, <1>12, <1>15, <1>17, <1>18, StepKinds, ZenonT(30)

-----------------------------------------------------------------------------
(* Requests for a scheduling pass                                          *)

\* An epilog message is sent once from each place: by the simulator's handler
\* after the job's event, by the time-limit handler after the kill.
FreshInv(j) ==
  /\ launch[j].pc # "over" \/ HasEvent(j) \/ j \in completed => epilog[j]["sim"] = "none"
  /\ job_state[j] \in {"NONE", "PENDING", "RUNNING"} =>
       j \notin kill_msg /\ epilog[j]["real"] = "none"
  /\ j \in kill_msg => epilog[j]["real"] = "none"

\* A job that has ended does not come back to life.
LEMMA EndedForGood ==
  ASSUME BaseInv, [Next]_vars, NEW j \in Trace,
         job_state'[j] \in {"NONE", "PENDING", "RUNNING"}
  PROVE  job_state[j] \in {"NONE", "PENDING", "RUNNING"}
PROOF
<1>0. job_state \in [Trace -> JobStates] /\ JobLifeCycle!Jobs = Trace
  BY JobTypes DEF BaseInv, JobLifeCycle!Jobs, Trace
<1>1. [JobLifeCycle!Next]_(JobLifeCycle!life)
  BY JobLifeStep
<1>2. CASE UNCHANGED job_state
  BY <1>2
<1>3. ASSUME NEW k \in Trace, JobLifeCycle!Arrive(k) \/ JobLifeCycle!Start(k)
                              \/ JobLifeCycle!Finish(k) \/ JobLifeCycle!Release(k)
      PROVE  job_state[j] \in {"NONE", "PENDING", "RUNNING"}
  BY <1>0, <1>3 DEF JobLifeCycle!Arrive, JobLifeCycle!Start, JobLifeCycle!Finish,
     JobLifeCycle!Release
<1>4. ASSUME NEW J \in SUBSET Trace, JobLifeCycle!TimeOut(J)
      PROVE  job_state[j] \in {"NONE", "PENDING", "RUNNING"}
  BY <1>0, <1>4, ZenonT(30) DEF JobLifeCycle!TimeOut
<1> QED
  BY <1>0, <1>1, <1>2, <1>3, <1>4 DEF JobLifeCycle!Next, JobLifeCycle!Tick,
     JobLifeCycle!life

\* FreshInv after a step that adds no event, no completion, no kill and no
\* epilog message for the job.
LEMMA FreshFrame ==
  ASSUME BaseInv, [Next]_vars, NEW j \in Trace, FreshInv(j),
         launch'[j].pc # "over" \/ HasEvent(j)' \/ j \in completed' =>
           launch[j].pc # "over" \/ HasEvent(j) \/ j \in completed,
         j \in kill_msg' => j \in kill_msg,
         \A o \in Origins : epilog[j][o] = "none" => epilog'[j][o] = "none"
  PROVE  FreshInv(j)'
PROOF BY EndedForGood DEF FreshInv, Origins

\* An event is in the list only when it was, or when its thread inserts it.
LEMMA EventMoves ==
  ASSUME InsertFact, BaseInv, [Next]_vars, NEW j \in Trace, HasEvent(j)'
  PROVE  HasEvent(j) \/ LaunchInsert(j)
PROOF
<1>0. /\ TypeInv /\ events \in Seq(EventRec(Trace)) /\ Len(events) \in Nat
      /\ launch \in [Trace -> [pc : {"none", "sent", "read", "over"}, now : Nat]]
  BY ListTypes, JobTypes, Zenon DEF BaseInv
<1>1. PICK i \in 1..Len(events') : events'[i].job = j
  BY Zenon DEF HasEvent
<1>2. CASE SdEvent
  <2>1. events # <<>> /\ events' = Tail(events)
    BY <1>2, Zenon DEF SdEvent, EventDue
  <2>2. /\ Len(Tail(events)) = Len(events) - 1
        /\ \A m \in 1..Len(Tail(events)) : Tail(events)[m] = events[m + 1]
    BY <1>0, <2>1
  <2>3. i + 1 \in 1..Len(events) /\ events'[i] = events[i + 1]
    BY <1>0, <2>1, <2>2
  <2> QED
    BY <1>1, <2>3, Zenon DEF HasEvent
<1>3. ASSUME NEW k \in Trace, LaunchInsert(k), k # j  PROVE HasEvent(j)
  <2> DEFINE e == [job |-> k, when |-> launch[k].now + Duration[k]]
  <2>1. events' = AddFutureEvent(events, e)
    BY <1>3, Zenon DEF LaunchInsert
  <2>2. PICK p \in 1..(Len(events) + 1) : Inserted(events, e, p, events')
    <3>1. e \in EventRec(Trace)
      BY <1>0, FinishEventIsRecord, Zenon
    <3> HIDE DEF e
    <3> QED
      BY <1>0, <2>1, <3>1, Zenon DEF InsertFact
  <2>3. e.job = k
    BY SMTT(30)
  <2> HIDE DEF e
  <2>4. Len(events') = Len(events) + 1 /\ i # p
    BY <1>1, <1>3, <2>2, <2>3, SMTT(30) DEF Inserted
  <2>5. CASE i < p
    <3>1. i \in 1..Len(events) /\ events'[i] = events[i]
      BY <1>0, <2>2, <2>4, <2>5, SMTT(30) DEF Inserted
    <3> QED
      BY <1>1, <3>1, ZenonT(30) DEF HasEvent
  <2>6. CASE ~(i < p)
    <3>1. i - 1 \in 1..Len(events)
      BY <1>0, <2>4, <2>6, SMTT(30)
    <3>2. events'[i] = events[i - 1]
      BY <2>2, <2>4, <2>6 DEF Inserted
    <3> QED
      BY <1>1, <3>1, <3>2 DEF HasEvent
  <2> QED
    BY <2>5, <2>6
<1>4. CASE UNCHANGED events
  BY <1>1, <1>4, Zenon DEF HasEvent
<1>5. SdEvent \/ (\E k \in Trace : LaunchInsert(k)) \/ UNCHANGED events
  <2>1. CASE MgrTop \/ MgrTerminate \/ MgrPost \/ MgrSubmit \/ MgrSimJob \/ MgrAdvance
    BY <2>1, ManagerFrame, Zenon
  <2>2. CASE Helper \/ CycleStep
    BY <2>2, HelperFrame, CycleFrame, Zenon
  <2>3. CASE PurgeOldJob \/ EndOfLog \/ JobTimeLimit
    BY <1>0, <2>3, BackgroundFrame, LimitFrame, Zenon
  <2>4. ASSUME NEW k \in Trace, TermLookup(k) \/ TermAnswered(k)  PROVE UNCHANGED events
    BY <2>4, Zenon DEF TermLookup, TermAnswered, listVars
  <2>5. ASSUME NEW k \in Trace, KillTimelimit(k) \/ QueueAfterSubmit(k) \/ LoseKill(k)
        PROVE  UNCHANGED events
    BY <1>0, <2>5, ThreadFrame, Zenon
  <2>6. ASSUME NEW k \in Trace, NEW o \in Origins, EpilogNote(k, o) \/ EpilogTail(k, o)
        PROVE  UNCHANGED events
    BY <2>6, TailFrame, Zenon DEF EpilogNote, listVars
  <2>7. ASSUME NEW k \in Trace, LaunchRead(k)  PROVE UNCHANGED events
    BY <2>7, Zenon DEF LaunchRead, listVars
  <2>8. ASSUME NEW k \in Trace, Starts(k)  PROVE UNCHANGED events
    BY <2>8, StartFrame, Zenon
  <2>9. CASE UNCHANGED vars \/ CompleteBatchScript
    BY <2>9, Zenon DEF vars, listVars, CompleteBatchScript
  <2>10. CASE QuietStep
    BY <2>1, <2>2, <2>3, <2>4, <2>5, <2>6, <2>9, <2>10, Zenon DEF QuietStep
  <2> QED
    BY <2>1, <2>3, <2>6, <2>7, <2>8, <2>9, <2>10, StepKinds, Zenon
<1> QED
  BY <1>2, <1>3, <1>4, <1>5, Zenon

\* Every step keeps FreshInv.
LEMMA FreshInductive ==
  ASSUME InsertFact, BaseInv, [Next]_vars, \A j \in Trace : FreshInv(j)
  PROVE  \A j \in Trace : FreshInv(j)'
PROOF
<1>0. /\ TypeInv /\ EventsInv /\ JobsInv /\ events \in Seq(EventRec(Trace))
      /\ Len(events) \in Nat
      /\ launch \in [Trace -> [pc : {"none", "sent", "read", "over"}, now : Nat]]
      /\ term \in [Trace -> {"none", "sent", "epilog"}] /\ completed \subseteq Trace
      /\ epilog \in [Trace -> [Origins -> EpilogStates]]
  BY ListTypes, JobTypes, Zenon DEF BaseInv, TypeInv, TypeOK, MessageTypeOK
<1>1. SUFFICES ASSUME NEW j \in Trace PROVE FreshInv(j)'
  OBVIOUS
<1>2. FreshInv(j)
  BY SMTT(30)
<1> DEFINE Lists == UNCHANGED <<events, completed>>
           Launched == launch'[j].pc # "over" => launch[j].pc # "over"
           Epilogs == \A o \in Origins : epilog[j][o] = "none" => epilog'[j][o] = "none"
<1>3. ASSUME Lists, Launched, Epilogs, j \in kill_msg' => j \in kill_msg
      PROVE  FreshInv(j)'
  <2>1. HasEvent(j)' <=> HasEvent(j)
    BY <1>3, ZenonT(30) DEF HasEvent
  <2> QED
    BY <1>2, <1>3, <2>1, FreshFrame, ZenonT(30)
<1>4. CASE SdEvent
  <2>1. /\ events # <<>> /\ events' = Tail(events)
        /\ completed' = completed \cup {Head(events).job}
        /\ UNCHANGED <<launch, kill_msg, epilog>>
    BY <1>4, Zenon DEF SdEvent, EventDue, msgVars
  <2>2. Head(events) = events[1] /\ 1 \in 1..Len(events)
    BY <1>0, <2>1
  <2>3. j \in completed' => HasEvent(j) \/ j \in completed
    BY <2>1, <2>2, SMTT(30) DEF HasEvent
  <2>4. HasEvent(j)' => HasEvent(j)
    <3>1. ~LaunchInsert(j)
      BY <1>4, Zenon DEF SdEvent, LaunchInsert, SimulatorMutexFree
    <3> QED
      BY <3>1, EventMoves, Zenon
  <2> QED
    BY <1>2, <2>1, <2>3, <2>4, FreshFrame, ZenonT(30)
<1>5. ASSUME NEW k \in Trace, LaunchInsert(k)
      PROVE  FreshInv(j)'
  <2>1. /\ launch[k].pc = "read" /\ launch' = [launch EXCEPT ![k].pc = "over"]
        /\ UNCHANGED <<completed, epilog, kill_msg>>
    BY <1>5 DEF LaunchInsert
  <2>2. j # k => launch'[j] = launch[j]
    BY <1>0, <2>1
  <2>3. CASE j = k
    BY <1>2, <2>1, <2>3, FreshFrame
  <2>4. CASE j # k
    <3>1. launch[j].pc = "read" => launch[j].pc # "over"
      OBVIOUS
    <3>2. HasEvent(j)' => HasEvent(j) \/ launch[j].pc # "over"
      BY <3>1, EventMoves, Zenon DEF LaunchInsert
    <3> QED
      BY <1>2, <2>1, <2>2, <3>2, FreshFrame, Zenon
  <2> QED
    BY <2>3, <2>4
<1>6. ASSUME NEW k \in Trace, TermLookup(k)
      PROVE  FreshInv(j)'
  <2>1. /\ completed' = completed \ {k} /\ UNCHANGED <<events, launch, kill_msg>>
        /\ epilog' = IF k \in completed THEN [epilog EXCEPT ![k]["sim"] = "sent"] ELSE epilog
    BY <1>6 DEF TermLookup
  <2>2. HasEvent(j)' <=> HasEvent(j)
    BY <2>1, Zenon DEF HasEvent
  <2>3. CASE j = k /\ k \in completed
    <3>1. launch[k].pc = "over" /\ ~HasEvent(k)
      BY <1>0, <2>3, Zenon DEF EventsInv, EventInv, HasEvent
    <3>2. epilog'[k]["real"] = epilog[k]["real"]
      BY <1>0, <2>1, Zenon DEF Origins
    <3> QED
      BY <1>2, <2>1, <2>2, <2>3, <3>1, <3>2, EndedForGood, SMTT(30) DEF FreshInv
  <2>4. CASE j # k \/ k \notin completed
    <3>1. epilog'[j] = epilog[j]
      BY <1>0, <2>1, <2>4, ZenonT(30)
    <3> QED
      BY <1>2, <2>1, <2>2, <3>1, FreshFrame, Zenon
  <2> QED
    BY <2>3, <2>4
<1>7. ASSUME NEW k \in Trace, KillTimelimit(k)
      PROVE  FreshInv(j)'
  <2>1. /\ k \in kill_msg /\ kill_msg' = kill_msg \ {k}
        /\ epilog' = [epilog EXCEPT ![k]["real"] = "sent"]
        /\ UNCHANGED <<events, completed, launch>>
    BY <1>7 DEF KillTimelimit, listVars
  <2>2. HasEvent(j)' <=> HasEvent(j)
    BY <2>1, Zenon DEF HasEvent
  <2>3. CASE j = k
    <3>1. epilog'[j]["sim"] = epilog[j]["sim"] /\ j \notin kill_msg'
      BY <1>0, <2>1, <2>3, SMTT(30) DEF Origins
    <3>2. job_state[j] \notin {"NONE", "PENDING", "RUNNING"}
      BY <1>2, <2>1, <2>3 DEF FreshInv
    <3> QED
      BY <1>2, <2>1, <2>2, <3>1, <3>2, EndedForGood, ZenonT(30) DEF FreshInv
  <2>4. CASE j # k
    <3>1. epilog'[j] = epilog[j]
      BY <1>0, <2>1, <2>4, ZenonT(30)
    <3> QED
      BY <1>3, <2>1, <3>1
  <2> QED
    BY <2>3, <2>4
<1>8. CASE JobTimeLimit
  <2>1. /\ UNCHANGED <<events, completed, launch, epilog>>
        /\ j \in kill_msg' /\ j \notin kill_msg =>
             job_state[j] = "RUNNING" /\ job_state'[j] = "TIMEOUT_CG"
    BY <1>8, LimitFrame, ZenonT(30)
  <2>2. HasEvent(j)' <=> HasEvent(j)
    BY <2>1 DEF HasEvent
  <2> QED
    BY <1>2, <2>1, <2>2, EndedForGood, SMTT(30) DEF FreshInv
<1>9. ASSUME NEW k \in Trace, NEW o \in Origins, EpilogNote(k, o) \/ EpilogTail(k, o)
      PROVE  FreshInv(j)'
  <2>1. /\ Lists /\ Launched /\ kill_msg' = kill_msg /\ epilog[k][o] # "none"
        /\ \E s : epilog' = [epilog EXCEPT ![k][o] = s]
    BY <1>9, TailFrame, ZenonT(30) DEF EpilogNote, listVars, msgVars
  <2>2. Epilogs
    BY <1>0, <2>1, SMTT(30)
  <2> QED
    BY <1>3, <2>1, <2>2, Zenon
<1>10. ASSUME NEW k \in Trace, LaunchRead(k)
       PROVE  FreshInv(j)'
  <2>1. Launched /\ events' = events
    BY <1>0, <1>10, Zenon DEF LaunchRead, listVars
  <2> QED
    BY <1>3, <1>10, <2>1, LaunchFrame, ZenonT(30)
<1>11. ASSUME NEW k \in Trace, Starts(k)
       PROVE  FreshInv(j)'
  <2>1. job_state[k] = "PENDING" /\ launch' = [launch EXCEPT ![k].pc = "sent"]
    BY <1>11, StartFrame
  <2>2. launch[k].pc = "none"
    BY <1>0, <2>1 DEF JobsInv, JobInv
  <2>3. Launched
    BY <1>0, <2>1, <2>2, SMTT(30)
  <2> QED
    BY <1>3, <1>11, <2>3, StartFrame
<1>12. ASSUME NEW k \in Trace, TermAnswered(k)
       PROVE  FreshInv(j)'
  BY <1>3, <1>12, ZenonT(30) DEF TermAnswered, listVars
<1>13. ASSUME NEW k \in Trace, QueueAfterSubmit(k) \/ LoseKill(k)
       PROVE  FreshInv(j)'
  <2>1. epilog' = epilog
    BY <1>13, SMTT(30) DEF QueueAfterSubmit, LoseKill
  <2> QED
    BY <1>0, <1>3, <1>13, <2>1, ThreadFrame, SMTT(30)
<1>14. CASE MgrTop \/ MgrTerminate \/ MgrPost \/ MgrSubmit \/ MgrSimJob \/ MgrAdvance
  BY <1>3, <1>14, ManagerFrame, ZenonT(30)
<1>15. CASE Helper /\ ~SdEvent
  BY <1>3, <1>15, HelperFrame, Zenon
<1>16. CASE CycleStep
  BY <1>3, <1>16, CycleFrame, Zenon
<1>17. CASE PurgeOldJob \/ EndOfLog
  BY <1>0, <1>3, <1>17, BackgroundFrame, Zenon
<1>18. CASE CompleteBatchScript
  BY <1>3, <1>18, ZenonT(30) DEF CompleteBatchScript, listVars
<1>19. CASE UNCHANGED vars
  BY <1>3, <1>19 DEF vars, listVars, msgVars
<1>20. CASE QuietStep
  BY <1>4, <1>6, <1>7, <1>9, <1>12, <1>13, <1>14, <1>15, <1>16, <1>17, <1>19, <1>20,
     Zenon DEF QuietStep
<1> QED
  BY <1>5, <1>8, <1>9, <1>10, <1>11, <1>14, <1>18, <1>20, StepKinds, ZenonT(30)

\* A request for a scheduling pass stays until the helper cycle takes it.
LEMMA RequestStays ==
  ASSUME BaseInv, \A j \in Trace : FreshInv(j), [Next]_vars,
         SchedulingRequested, ~CycleResetCnt
  PROVE  SchedulingRequested'
PROOF
<1>0. /\ TypeInv /\ job_sched_cnt \in Nat
      /\ epilog \in [Trace -> [Origins -> EpilogStates]]
      /\ submit_thread \subseteq Trace /\ completed \subseteq Trace
  BY ListTypes, SMTT(30) DEF BaseInv, TypeInv, TypeOK, MessageTypeOK, SlurmctldTypeOK
<1>1. CASE UNCHANGED <<job_sched_cnt, submit_thread, epilog>>
  BY <1>1 DEF SchedulingRequested
<1>2. ASSUME NEW k \in Trace, QueueAfterSubmit(k) PROVE SchedulingRequested'
  BY <1>0, <1>2, SMTT(30) DEF QueueAfterSubmit, QueueJobScheduler, SchedulingRequested
<1>3. CASE MgrSubmit
  BY <1>3 DEF MgrSubmit, SchedulingRequested
<1>4. ASSUME NEW k \in Trace, NEW o \in Origins, EpilogTail(k, o) \/ EpilogNote(k, o)
      PROVE  SchedulingRequested'
  <2>1. CASE EpilogReply(k, o)
    BY <1>0, <2>1, SMTT(30) DEF EpilogReply, QueueJobScheduler, SchedulingRequested
  <2>2. CASE EpilogNote(k, o)
    <3>1. epilog' = [epilog EXCEPT ![k][o] = "noted"]
      BY <2>2 DEF EpilogNote
    <3>2. epilog'[k][o] = "noted"
      BY <1>0, <3>1, SMTT(30)
    <3> QED
      BY <3>2 DEF SchedulingRequested
  <2>3. CASE EpilogArrived(k, o) \/ EpilogLoad(k, o) \/ EpilogStore(k, o)
    <3>1. UNCHANGED <<job_sched_cnt, submit_thread>> /\ epilog[k][o] # "noted"
      BY <2>3 DEF EpilogArrived, EpilogLoad, EpilogStore
    <3>2. \E s : epilog' = [epilog EXCEPT ![k][o] = s]
      BY <2>3, TailFrame DEF EpilogTail
    <3>3. \A i \in Trace, q \in Origins : epilog[i][q] = "noted" => epilog'[i][q] = "noted"
      BY <1>0, <3>1, <3>2, SMTT(30)
    <3> QED
      BY <3>1, <3>3, SMTT(30) DEF SchedulingRequested
  <2> QED
    BY <1>4, <2>1, <2>2, <2>3, SMTT(30) DEF EpilogTail
<1>5. ASSUME NEW k \in Trace, TermLookup(k) \/ KillTimelimit(k)
      PROVE  SchedulingRequested'
  <2>1. UNCHANGED <<job_sched_cnt, submit_thread>>
    BY <1>5, SMTT(30) DEF TermLookup, KillTimelimit
  <2>2. \/ epilog' = epilog
        \/ k \in completed /\ epilog' = [epilog EXCEPT ![k]["sim"] = "sent"]
        \/ k \in kill_msg /\ epilog' = [epilog EXCEPT ![k]["real"] = "sent"]
    BY <1>5 DEF TermLookup, KillTimelimit
  <2>3. FreshInv(k)
    OBVIOUS
  <2>4. \A i \in Trace, q \in Origins : epilog[i][q] = "noted" => epilog'[i][q] = "noted"
    <3>1. CASE epilog' = epilog
      BY <3>1
    <3>2. CASE k \in completed /\ epilog' = [epilog EXCEPT ![k]["sim"] = "sent"]
      <4>1. epilog[k]["sim"] = "none"
        BY <2>3, <3>2 DEF FreshInv
      <4> QED
        BY <1>0, <3>2, <4>1 DEF Origins
    <3>3. CASE k \in kill_msg /\ epilog' = [epilog EXCEPT ![k]["real"] = "sent"]
      <4>1. epilog[k]["real"] = "none"
        BY <2>3, <3>3, SMTT(30) DEF FreshInv
      <4> QED
        BY <1>0, <3>3, <4>1 DEF Origins
    <3> QED
      BY <2>2, <3>1, <3>2, <3>3
  <2> QED
    BY <2>1, <2>4, Zenon DEF SchedulingRequested
<1>6. ASSUME NEW k \in Trace, TermAnswered(k) \/ LoseKill(k)
      PROVE  SchedulingRequested'
  BY <1>1, <1>6 DEF TermAnswered, LoseKill
<1>7. ASSUME NEW k \in Trace, LaunchRead(k) \/ LaunchInsert(k) \/ Starts(k)
      PROVE  SchedulingRequested'
  BY <1>1, <1>7, LaunchFrame, StartFrame
<1>8. CASE MgrTop \/ MgrTerminate \/ MgrPost \/ MgrSimJob \/ MgrAdvance
  <2>1. CASE ~MgrSubmit
    BY <1>1, <1>8, <2>1, ManagerFrame
  <2> QED
    BY <1>3, <2>1
<1>9. CASE Helper
  BY <1>1, <1>9, HelperFrame
<1>10. CASE CycleStep
  BY <1>1, <1>10, CycleFrame, Zenon
<1>11. CASE PurgeOldJob \/ EndOfLog
  BY <1>0, <1>1, <1>11, BackgroundFrame, Zenon
<1>12. CASE JobTimeLimit
  BY <1>1, <1>12, LimitFrame, ZenonT(30)
<1>13. CASE CompleteBatchScript
  BY <1>1, <1>13 DEF CompleteBatchScript
<1>14. CASE UNCHANGED vars
  BY <1>1, <1>14 DEF vars
<1>15. CASE QuietStep
  BY <1>2, <1>4, <1>5, <1>6, <1>8, <1>9, <1>10, <1>11, <1>14, <1>15, Zenon DEF QuietStep
<1> QED
  BY <1>3, <1>4, <1>7, <1>8, <1>12, <1>13, <1>15, StepKinds, ZenonT(30)

\* While schedule() holds the lock it does not leave the helper cycle's place
\* but by ending its pass.
LEMMA SchedulePass ==
  ASSUME BaseInv, [Next]_vars, ctl_pc = "schedule", ctl_pc' # "schedule"
  PROVE  ScheduleDone
PROOF
<1>0. TypeInv /\ sd_pc = "cycle"
  BY HandlerHasTurn DEF BaseInv
<1>1. ~(MgrTop \/ MgrTerminate \/ MgrPost \/ MgrSubmit \/ MgrSimJob \/ MgrAdvance)
  BY ManagerFrame, ZenonT(30)
<1>2. ~Helper
  BY <1>0 DEF Helper, SdWake, SdEvent, SdCompleteAcked, SdEventsDone, SdEpilogsDone,
     SdSendCycle, SdPost
<1>3. CycleStep => ScheduleDone
  BY CycleFrame, SMTT(30)
<1>4. ~(PurgeOldJob \/ EndOfLog \/ JobTimeLimit)
  BY <1>0, BackgroundFrame, LimitFrame, ZenonT(30)
<1>5. ~CompleteBatchScript
  BY DEF CompleteBatchScript, cycVars
<1>6. ASSUME NEW k \in Trace
      PROVE  /\ ~(KillTimelimit(k) \/ QueueAfterSubmit(k) \/ LoseKill(k))
             /\ ~(LaunchRead(k) \/ LaunchInsert(k)) /\ ~Starts(k)
  BY <1>0, ThreadFrame, LaunchFrame, StartFrame, Zenon
<1>7. ASSUME NEW k \in Trace
      PROVE  ~(TermLookup(k) \/ TermAnswered(k))
  BY Zenon DEF TermLookup, TermAnswered, cycVars
<1>8. ASSUME NEW k \in Trace, NEW o \in Origins
      PROVE  ~EpilogNote(k, o) /\ ~EpilogTail(k, o)
  BY TailFrame DEF EpilogNote, cycVars
<1>9. ~UNCHANGED vars
  BY DEF vars, cycVars
<1> QED
  BY <1>1, <1>2, <1>3, <1>4, <1>5, <1>6, <1>7, <1>8, <1>9, StepKinds, Zenon DEF QuietStep

\* Outside schedule() itself, a first job that fits has a pass requested.
RequestInv ==
  ctl_pc # "schedule" =>
    \A j \in Trace : FirstPending(j) /\ Fits(j) => SchedulingRequested

\* Every step keeps RequestInv.
LEMMA RequestInductive ==
  ASSUME BaseInv, \A j \in Trace : FreshInv(j), RequestInv, [Next]_vars
  PROVE  RequestInv'
PROOF
<1> USE DEF jobVars
<1>0. /\ TypeInv /\ JobsInv /\ EventsInv /\ job_state \in [Trace -> JobStates]
      /\ epilog \in [Trace -> [Origins -> EpilogStates]] /\ idle_nodes \in Int
  BY JobTypes DEF BaseInv, TypeInv, TypeOK, MessageTypeOK, JobTypeOK
<1>1. SUFFICES ASSUME ctl_pc' # "schedule", NEW j \in Trace,
                      FirstPending(j)', Fits(j)'
               PROVE  SchedulingRequested'
  BY DEF RequestInv
\* A step that keeps the queue and the idle nodes keeps the request.
<1>2. ASSUME Pending' = Pending, idle_nodes' = idle_nodes
      PROVE  SchedulingRequested'
  <2>1. FirstPending(j) /\ Fits(j)
    BY <1>1, <1>2 DEF FirstPending, Fits
  <2>2. ctl_pc # "schedule"
    <3>1. CASE ctl_pc = "schedule"
      BY <1>1, <2>1, <3>1, SchedulePass, Zenon DEF ScheduleDone
    <3> QED
      BY <3>1
  <2>3. SchedulingRequested /\ ~CycleResetCnt
    BY <1>1, <2>1, <2>2, ZenonT(30) DEF RequestInv, CycleResetCnt
  <2> QED
    BY <2>3, RequestStays
<1>3. CASE MgrSubmit
  BY <1>3 DEF MgrSubmit, SchedulingRequested
<1>4. ASSUME NEW k \in Trace, NEW o \in Origins, EpilogNote(k, o)
      PROVE  SchedulingRequested'
  <2>1. epilog'[k][o] = "noted"
    BY <1>0, <1>4 DEF EpilogNote
  <2> QED
    BY <2>1, SMTT(30) DEF SchedulingRequested
<1>5. ASSUME NEW k \in Trace, Starts(k) PROVE SchedulingRequested'
  <2>1. /\ k \in Pending /\ Fits(k) /\ ctl_pc' = ctl_pc
        /\ job_state' = [job_state EXCEPT ![k] = "RUNNING"]
        /\ idle_nodes' = idle_nodes - Width[k]
    BY <1>5, StartFrame DEF Pending
  <2>2. Pending' = Pending \ {k}
    BY <1>0, <2>1 DEF Pending
  <2>3. Width[j] \in Nat /\ Width[k] \in Nat /\ j \in Nat /\ Pending \subseteq Nat
    BY ConstantsAssumption DEF Trace, Pending
  <2>4. Fits(j) /\ j \in Pending /\ \A i \in Pending : i # k => j <= i
    BY <1>0, <1>1, <2>1, <2>2, <2>3 DEF Fits, FirstPending
  <2>5. \E i \in Trace : FirstPending(i) /\ Fits(i)
    <3>1. CASE j <= k
      BY <2>4, <3>1 DEF FirstPending
    <3>2. CASE ~(j <= k)
      <4>1. \A i \in Pending : k <= i
        BY <2>1, <2>3, <2>4, <3>2, SMTT(30)
      <4> QED
        BY <2>1, <4>1 DEF FirstPending
    <3> QED
      BY <3>1, <3>2
  <2>6. SchedulingRequested /\ ~CycleResetCnt
    BY <1>1, <2>1, <2>5 DEF RequestInv, CycleResetCnt
  <2> QED
    BY <2>6, RequestStays
<1>6. CASE CompleteBatchScript
  <2>1. idle_nodes' = idle_nodes
    BY <1>6, SMTT(30) DEF CompleteBatchScript
  <2>2. \A i \in Trace : job_state'[i] = "PENDING" <=> job_state[i] = "PENDING"
    BY <1>0, <1>6, CompleteEffect, Zenon
  <2>3. Pending' = Pending
    BY <2>2, SMTT(30) DEF Pending
  <2> QED
    BY <1>2, <2>1, <2>3, ZenonT(30)
<1>7. CASE JobTimeLimit
  <2>1. idle_nodes' = idle_nodes
    BY <1>7, LimitFrame, ZenonT(30)
  <2>2. \A i \in Trace : job_state'[i] = "PENDING" <=> job_state[i] = "PENDING"
    BY <1>7, LimitFrame
  <2>3. Pending' = Pending
    BY <2>2 DEF Pending
  <2> QED
    BY <1>2, <2>1, <2>3
<1>8. CASE MgrSimJob \/ MgrAdvance \/ \E k \in Trace : LaunchRead(k) \/ LaunchInsert(k)
  <2>1. UNCHANGED <<job_state, idle_nodes>>
    BY <1>8, LaunchFrame DEF MgrSimJob, MgrAdvance
  <2> QED
    BY <1>2, <2>1, ZenonT(30) DEF Pending
<1>9. CASE QuietStep
  BY <1>2, <1>9, QuietIsQuiet DEF jobView, Pending
<1> QED
  BY <1>3, <1>4, <1>5, <1>6, <1>7, <1>8, <1>9, StepKinds, ZenonT(30)

-----------------------------------------------------------------------------
(* What changes the messages and the counters                              *)

\* An epilog message is sent by a terminate or a time-limit handler of slurmd
\* and taken on by its handler in slurmctld; nothing else touches it.
LEMMA EpilogChanges ==
  ASSUME TypeInv, [Next]_vars
  PROVE  \/ epilog' = epilog
         \/ \E k \in Trace, o \in Origins : EpilogNote(k, o) \/ EpilogTail(k, o)
         \/ \E k \in Trace : (TermLookup(k) /\ k \in completed) \/ KillTimelimit(k)
PROOF
<1>1. CASE MgrTop \/ MgrTerminate \/ MgrPost \/ MgrSubmit \/ MgrSimJob \/ MgrAdvance
  BY <1>1, ManagerFrame, Zenon
<1>2. CASE Helper
  BY <1>2, HelperFrame, Zenon
<1>3. CASE CycleStep
  BY <1>3, CycleFrame, Zenon
<1>4. CASE PurgeOldJob \/ EndOfLog
  BY <1>4, BackgroundFrame, Zenon
<1>5. CASE JobTimeLimit
  BY <1>5, LimitFrame, Zenon
<1>6. ASSUME NEW k \in Trace, TermLookup(k)
      PROVE  (TermLookup(k) /\ k \in completed) \/ epilog' = epilog
  BY <1>6, Zenon DEF TermLookup
<1>7. ASSUME NEW k \in Trace, TermAnswered(k) PROVE epilog' = epilog
  BY <1>7, Zenon DEF TermAnswered
<1>8. ASSUME NEW k \in Trace, KillTimelimit(k) \/ QueueAfterSubmit(k) \/ LoseKill(k)
      PROVE  KillTimelimit(k) \/ epilog' = epilog
  BY <1>8, ThreadFrame, Zenon
<1>9. ASSUME NEW k \in Trace, LaunchRead(k) \/ LaunchInsert(k) PROVE epilog' = epilog
  BY <1>9, LaunchFrame, Zenon
<1>10. ASSUME NEW k \in Trace, Starts(k) PROVE epilog' = epilog
  BY <1>10, StartFrame, Zenon
<1>11. CASE CompleteBatchScript
  BY <1>11, Zenon DEF CompleteBatchScript
<1>12. CASE UNCHANGED vars
  BY <1>12, Zenon DEF vars
<1>13. CASE QuietStep
  BY <1>1, <1>2, <1>3, <1>4, <1>6, <1>7, <1>8, <1>12, <1>13, Zenon DEF QuietStep
<1> QED
  BY <1>1, <1>5, <1>9, <1>10, <1>11, <1>13, StepKinds, Zenon

\* A terminate request is sent by a completion or by purge_old_job, and taken
\* by its handler in slurmd or lost.
LEMMA TermChanges ==
  ASSUME TypeInv, [Next]_vars
  PROVE  \/ term' = term
         \/ \E k \in Trace : TermLookup(k) \/ TermAnswered(k) \/ LoseKill(k)
         \/ CompleteBatchScript \/ PurgeOldJob
PROOF
<1>1. CASE MgrTop \/ MgrTerminate \/ MgrPost \/ MgrSubmit \/ MgrSimJob \/ MgrAdvance
  BY <1>1, ManagerFrame, Zenon
<1>2. CASE Helper
  BY <1>2, HelperFrame, Zenon
<1>3. CASE CycleStep
  BY <1>3, CycleFrame, Zenon
<1>4. CASE EndOfLog
  BY <1>4, Zenon DEF EndOfLog, msgVars
<1>5. CASE JobTimeLimit
  BY <1>5, LimitFrame, Zenon
<1>6. ASSUME NEW k \in Trace, NEW o \in Origins, EpilogNote(k, o) PROVE term' = term
  BY <1>6, Zenon DEF EpilogNote, msgVars
<1>7. ASSUME NEW k \in Trace, NEW o \in Origins, EpilogTail(k, o) PROVE term' = term
  BY <1>7, TailFrame, Zenon
<1>8. ASSUME NEW k \in Trace, KillTimelimit(k) \/ QueueAfterSubmit(k) PROVE term' = term
  BY <1>8, Zenon DEF KillTimelimit, QueueAfterSubmit, msgVars
<1>9. ASSUME NEW k \in Trace, LaunchRead(k) \/ LaunchInsert(k) PROVE term' = term
  BY <1>9, LaunchFrame, Zenon
<1>10. ASSUME NEW k \in Trace, Starts(k) PROVE term' = term
  BY <1>10, StartFrame, Zenon
<1>12. CASE UNCHANGED vars
  BY <1>12, Zenon DEF vars, msgVars
<1>13. CASE QuietStep
  BY <1>1, <1>2, <1>3, <1>4, <1>7, <1>8, <1>12, <1>13, Zenon DEF QuietStep
<1> QED
  BY <1>1, <1>5, <1>6, <1>9, <1>10, <1>13, StepKinds, Zenon

\* Only job_time_limit sends kills.
LEMMA KillChanges ==
  ASSUME TypeInv, [Next]_vars
  PROVE  JobTimeLimit \/ kill_msg' \subseteq kill_msg
PROOF
<1>1. CASE MgrTop \/ MgrTerminate \/ MgrPost \/ MgrSubmit \/ MgrSimJob \/ MgrAdvance
  BY <1>1, ManagerFrame, Zenon
<1>2. CASE Helper
  BY <1>2, HelperFrame, Zenon
<1>3. CASE CycleStep
  BY <1>3, CycleFrame, Zenon
<1>4. CASE PurgeOldJob \/ EndOfLog
  BY <1>4, BackgroundFrame, Zenon
<1>6. ASSUME NEW k \in Trace, NEW o \in Origins, EpilogNote(k, o) PROVE kill_msg' = kill_msg
  BY <1>6, Zenon DEF EpilogNote, msgVars
<1>7. ASSUME NEW k \in Trace, NEW o \in Origins, EpilogTail(k, o) PROVE kill_msg' = kill_msg
  BY <1>7, TailFrame, Zenon
<1>8. ASSUME NEW k \in Trace, KillTimelimit(k) \/ QueueAfterSubmit(k) \/ LoseKill(k)
      PROVE  kill_msg' \subseteq kill_msg
  BY <1>8, ThreadFrame, Zenon
<1>9. ASSUME NEW k \in Trace, LaunchRead(k) \/ LaunchInsert(k) PROVE kill_msg' = kill_msg
  BY <1>9, LaunchFrame, Zenon
<1>10. ASSUME NEW k \in Trace, Starts(k) PROVE kill_msg' = kill_msg
  BY <1>10, StartFrame, Zenon
<1>11. ASSUME NEW k \in Trace, TermLookup(k) \/ TermAnswered(k) PROVE kill_msg' = kill_msg
  BY <1>11, Zenon DEF TermLookup, TermAnswered
<1>12. CASE UNCHANGED vars \/ CompleteBatchScript
  BY <1>12, Zenon DEF vars, msgVars, CompleteBatchScript
<1>13. CASE QuietStep
  BY <1>1, <1>2, <1>3, <1>4, <1>7, <1>8, <1>11, <1>12, <1>13, Zenon DEF QuietStep
<1> QED
  BY <1>1, <1>6, <1>9, <1>10, <1>12, <1>13, StepKinds, Zenon

\* A job is put on the completed list by the event loop and taken off it by
\* its terminate handler.
LEMMA CompletedMoves ==
  ASSUME TypeInv, [Next]_vars, NEW j \in Trace
  PROVE  SdEvent \/ (TermLookup(j) /\ j \notin completed') \/ (j \in completed' <=> j \in completed)
PROOF
<1>1. CASE MgrTop \/ MgrTerminate \/ MgrPost \/ MgrSubmit \/ MgrSimJob \/ MgrAdvance
  BY <1>1, ManagerFrame, Zenon
<1>2. CASE Helper \/ CycleStep
  BY <1>2, HelperFrame, CycleFrame, Zenon
<1>3. CASE PurgeOldJob \/ EndOfLog \/ JobTimeLimit
  BY <1>3, BackgroundFrame, LimitFrame, Zenon
<1>4. ASSUME NEW k \in Trace, TermLookup(k)
      PROVE  (TermLookup(j) /\ j \notin completed') \/ (j \in completed' <=> j \in completed)
  <2>1. completed' = completed \ {k}
    BY <1>4, Zenon DEF TermLookup
  <2> QED
    BY <1>4, <2>1, Zenon
<1>5. ASSUME NEW k \in Trace, TermAnswered(k)  PROVE UNCHANGED completed
  BY <1>5, Zenon DEF TermAnswered, listVars
<1>6. ASSUME NEW k \in Trace, KillTimelimit(k) \/ QueueAfterSubmit(k) \/ LoseKill(k)
      PROVE  UNCHANGED completed
  BY <1>6, ThreadFrame, Zenon
<1>7. ASSUME NEW k \in Trace, NEW o \in Origins, EpilogNote(k, o) \/ EpilogTail(k, o)
      PROVE  UNCHANGED completed
  BY <1>7, TailFrame, Zenon DEF EpilogNote, listVars
<1>8. ASSUME NEW k \in Trace, LaunchRead(k) \/ LaunchInsert(k)  PROVE UNCHANGED completed
  BY <1>8, LaunchFrame, Zenon
<1>9. ASSUME NEW k \in Trace, Starts(k)  PROVE UNCHANGED completed
  BY <1>9, StartFrame, Zenon
<1>10. CASE UNCHANGED vars \/ CompleteBatchScript
  BY <1>10, Zenon DEF vars, listVars, CompleteBatchScript
<1>11. CASE QuietStep
  BY <1>1, <1>2, <1>3, <1>4, <1>5, <1>6, <1>7, <1>10, <1>11, Zenon DEF QuietStep
<1> QED
  BY <1>1, <1>3, <1>7, <1>8, <1>9, <1>10, <1>11, StepKinds, Zenon

\* The place in the cycle and its counters of jobs.
CycleView == <<sd_pc, current_event, ctl_pc, jobs_ended, total_jobs_ended,
               total_finished_jobs>>

\* Outside the helper, the completion handler and the helper-cycle handler,
\* the place in the cycle and its counters of jobs do not change.
LEMMA CycleChanges ==
  ASSUME TypeInv, [Next]_vars
  PROVE  \/ Helper \/ CompleteBatchScript \/ CycleStep
         \/ UNCHANGED CycleView
PROOF
<1> USE DEF CycleView, sdVars, cntVars, cycVars
<1>1. CASE MgrTop \/ MgrTerminate \/ MgrPost \/ MgrSubmit \/ MgrSimJob \/ MgrAdvance
  BY <1>1, Zenon DEF MgrTop, MgrTerminate, MgrPost, MgrSubmit, MgrSimJob, MgrAdvance
<1>2. CASE PurgeOldJob \/ EndOfLog \/ JobTimeLimit
  BY <1>2, Zenon DEF PurgeOldJob, EndOfLog, JobTimeLimit
<1>3. ASSUME NEW k \in Trace, TermLookup(k) \/ TermAnswered(k) \/ KillTimelimit(k)
                              \/ QueueAfterSubmit(k) \/ LoseKill(k)
      PROVE  UNCHANGED CycleView
  BY <1>3, ZenonT(30) DEF TermLookup, TermAnswered, KillTimelimit, QueueAfterSubmit, LoseKill
<1>4. ASSUME NEW k \in Trace, LaunchRead(k) \/ LaunchInsert(k) \/ Starts(k)
      PROVE  UNCHANGED CycleView
  BY <1>4, ZenonT(30) DEF LaunchRead, LaunchInsert, Starts, ScheduleStart, BackfillStart
<1>5. ASSUME NEW k \in Trace, NEW o \in Origins, EpilogNote(k, o) \/ EpilogTail(k, o)
      PROVE  UNCHANGED CycleView
  BY <1>5, ZenonT(30) DEF EpilogNote, EpilogTail, EpilogReply, EpilogArrived, EpilogLoad,
     EpilogStore
<1>6. CASE UNCHANGED vars
  BY <1>6, Zenon DEF vars
<1>7. CASE QuietStep
  BY <1>1, <1>2, <1>3, <1>5, <1>6, <1>7, Zenon DEF QuietStep
<1> QED
  BY <1>1, <1>2, <1>4, <1>5, <1>7, StepKinds, Zenon

-----------------------------------------------------------------------------
(* The first spin of the helper-cycle handler                              *)

\* total_finished_jobs runs with jobs_ended through the event loop, one ahead
\* between the completion and its answer, and is zero from the end of the spin
\* to the next cycle.
FinishedInv ==
  /\ sd_pc \in {"events", "complete", "epilogs", "send_cycle"} =>
       total_finished_jobs = jobs_ended
  /\ sd_pc = "acked" => total_finished_jobs = jobs_ended + 1
  /\ ctl_pc = "finished" => total_finished_jobs = jobs_ended
  /\ sd_pc \in {"sem_wait", "post"} \/ ctl_pc \notin {"idle", "finished"} =>
       total_finished_jobs = 0
  /\ ctl_pc # "idle" => total_jobs_ended = jobs_ended

\* Every step keeps the count of completions.
LEMMA FinishedInductive ==
  ASSUME BaseInv, FinishedInv, [Next]_vars PROVE FinishedInv'
PROOF
<1>0. /\ TypeInv /\ TurnInv /\ (ctl_pc # "idle" <=> sd_pc = "cycle")
      /\ jobs_ended \in Nat /\ total_finished_jobs \in Nat
      /\ sd_pc \in {"sem_wait", "events", "complete", "acked", "epilogs", "send_cycle",
                    "cycle", "post"}
      /\ ctl_pc \in {"idle", "finished", "epilogs", "reset_epilogs", "sched_cnt",
                     "reset_cnt", "schedule", "backfill_due", "backfill", "reply"}
  BY Zenon DEF BaseInv, TypeInv, TypeOK, SlurmdTypeOK, SlurmctldTypeOK, TurnInv, LockStep
<1> USE DEF sdVars, cntVars, cycVars
<1>1. CASE SdWake
  <2>1. /\ sd_pc = "sem_wait" /\ sd_pc' = "events" /\ jobs_ended' = 0
        /\ UNCHANGED <<ctl_pc, total_jobs_ended, total_finished_jobs>>
    BY <1>1, Zenon DEF SdWake
  <2> QED
    BY <1>0, <2>1, SMTT(30) DEF FinishedInv
<1>2. CASE SdEvent \/ SdEventsDone \/ SdEpilogsDone
  <2>1. /\ sd_pc \in {"events", "epilogs"} /\ sd_pc' \in {"complete", "epilogs", "send_cycle"}
        /\ UNCHANGED <<ctl_pc, jobs_ended, total_jobs_ended, total_finished_jobs>>
    BY <1>2, Zenon DEF SdEvent, SdEventsDone, SdEpilogsDone
  <2> QED
    BY <1>0, <2>1, SMTT(30) DEF FinishedInv
<1>3. CASE SdCompleteAcked
  <2>1. /\ sd_pc = "acked" /\ sd_pc' = "events" /\ jobs_ended' = jobs_ended + 1
        /\ UNCHANGED <<ctl_pc, total_jobs_ended, total_finished_jobs>>
    BY <1>3, Zenon DEF SdCompleteAcked, CountEnded
  <2> QED
    BY <1>0, <2>1, SMTT(30) DEF FinishedInv
<1>4. CASE SdSendCycle
  <2>1. /\ sd_pc = "send_cycle" /\ sd_pc' = "cycle" /\ ctl_pc' = "finished"
        /\ total_jobs_ended' = jobs_ended /\ UNCHANGED <<jobs_ended, total_finished_jobs>>
    BY <1>4, Zenon DEF SdSendCycle
  <2> QED
    BY <1>0, <2>1, SMTT(30) DEF FinishedInv
<1>5. CASE SdPost
  <2>1. /\ sd_pc = "post" /\ sd_pc' = "sem_wait"
        /\ UNCHANGED <<ctl_pc, jobs_ended, total_jobs_ended, total_finished_jobs>>
    BY <1>5, Zenon DEF SdPost
  <2> QED
    BY <1>0, <2>1, SMTT(30) DEF FinishedInv
<1>6. CASE CompleteBatchScript
  <2>1. /\ sd_pc = "complete" /\ sd_pc' = "acked"
        /\ total_finished_jobs' = total_finished_jobs + 1
        /\ UNCHANGED <<ctl_pc, jobs_ended, total_jobs_ended>>
    BY <1>6, Zenon DEF CompleteBatchScript
  <2> QED
    BY <1>0, <2>1, SMTT(30) DEF FinishedInv
<1>7. CASE CycleFinished
  <2>1. /\ ctl_pc = "finished" /\ ctl_pc' = "epilogs" /\ total_finished_jobs' = 0
        /\ UNCHANGED <<sd_pc, jobs_ended, total_jobs_ended>>
    BY <1>7, Zenon DEF CycleFinished
  <2> QED
    BY <1>0, <2>1, SMTT(30) DEF FinishedInv
<1>8. CASE CycleReply
  <2>1. /\ ctl_pc = "reply" /\ ctl_pc' = "idle" /\ sd_pc' = "post"
        /\ UNCHANGED <<jobs_ended, total_jobs_ended, total_finished_jobs>>
    BY <1>8, Zenon DEF CycleReply
  <2> QED
    BY <1>0, <2>1, SMTT(30) DEF FinishedInv
<1>9. CASE CycleStep /\ ~CycleFinished /\ ~CycleReply
  <2>1. /\ ctl_pc \notin {"idle", "finished"} /\ ctl_pc' \notin {"idle", "finished"}
        /\ UNCHANGED <<sd_pc, jobs_ended, total_jobs_ended, total_finished_jobs>>
    BY <1>9, ZenonT(30) DEF CycleStep, CycleEpilogs, CycleResetEpilogs, CycleSchedCnt,
       CycleResetCnt, ScheduleDone, CycleBackfillDue, BackfillDone
  <2> QED
    BY <1>0, <2>1, SMTT(30) DEF FinishedInv
<1>10. CASE UNCHANGED CycleView
  BY <1>10, Zenon DEF FinishedInv, CycleView
<1> QED
  BY <1>0, <1>1, <1>2, <1>3, <1>4, <1>5, <1>6, <1>7, <1>8, <1>9, <1>10, CycleChanges,
     Zenon DEF Helper

-----------------------------------------------------------------------------
(* The messages of one job                                                 *)

\* What a step can do to one epilog message.
EpilogMove(j, o) ==
  \/ epilog'[j][o] = epilog[j][o]
  \/ EpilogNote(j, o) /\ epilog[j][o] = "sent" /\ epilog'[j][o] = "noted"
  \/ EpilogReply(j, o) /\ epilog[j][o] = "noted" /\ epilog'[j][o] = "replied"
  \/ EpilogArrived(j, o) /\ epilog[j][o] = "replied" /\ epilog'[j][o] = "arrived"
  \/ EpilogLoad(j, o) /\ epilog[j][o] = "arrived" /\ epilog'[j][o] = "loaded"
  \/ EpilogStore(j, o) /\ epilog[j][o] = "loaded" /\ epilog'[j][o] = "over"
  \/ o = "sim" /\ TermLookup(j) /\ j \in completed /\ epilog'[j][o] = "sent"
  \/ o = "real" /\ KillTimelimit(j) /\ epilog'[j][o] = "sent"

\* Each step of the three processes does one of these.
LEMMA EpilogMoves ==
  ASSUME TypeInv, [Next]_vars, NEW j \in Trace, NEW o \in Origins
  PROVE  EpilogMove(j, o)
PROOF
<1>0. epilog \in [Trace -> [Origins -> EpilogStates]]
  BY Zenon DEF TypeInv, TypeOK, MessageTypeOK
<1>1. ASSUME NEW k \in Trace, NEW p \in Origins, NEW s,
             epilog' = [epilog EXCEPT ![k][p] = s], k # j \/ p # o
      PROVE  epilog'[j][o] = epilog[j][o]
  BY <1>0, <1>1
<1>2. ASSUME NEW s, epilog' = [epilog EXCEPT ![j][o] = s]  PROVE epilog'[j][o] = s
  BY <1>0, <1>2
<1>3. ASSUME NEW k \in Trace, NEW p \in Origins, EpilogNote(k, p)  PROVE EpilogMove(j, o)
  <2>1. epilog[k][p] = "sent" /\ epilog' = [epilog EXCEPT ![k][p] = "noted"]
    BY <1>3, Zenon DEF EpilogNote
  <2>2. CASE k = j /\ p = o
    <3>1. epilog'[j][o] = "noted"
      BY <1>2, <2>1, <2>2, Zenon
    <3> QED
      BY <1>3, <2>1, <2>2, <3>1, Zenon DEF EpilogMove
  <2>3. CASE k # j \/ p # o
    <3>1. epilog'[j][o] = epilog[j][o]
      BY <1>1, <2>1, <2>3, Zenon
    <3> QED
      BY <3>1, Zenon DEF EpilogMove
  <2> QED
    BY <2>2, <2>3, Zenon
<1>4. ASSUME NEW k \in Trace, NEW p \in Origins, EpilogReply(k, p)  PROVE EpilogMove(j, o)
  <2>1. epilog[k][p] = "noted" /\ epilog' = [epilog EXCEPT ![k][p] = "replied"]
    BY <1>4, Zenon DEF EpilogReply
  <2>2. CASE k = j /\ p = o
    <3>1. epilog'[j][o] = "replied"
      BY <1>2, <2>1, <2>2, Zenon
    <3> QED
      BY <1>4, <2>1, <2>2, <3>1, Zenon DEF EpilogMove
  <2>3. CASE k # j \/ p # o
    <3>1. epilog'[j][o] = epilog[j][o]
      BY <1>1, <2>1, <2>3, Zenon
    <3> QED
      BY <3>1, Zenon DEF EpilogMove
  <2> QED
    BY <2>2, <2>3, Zenon
<1>5. ASSUME NEW k \in Trace, NEW p \in Origins, EpilogArrived(k, p)  PROVE EpilogMove(j, o)
  <2>1. epilog[k][p] = "replied" /\ epilog' = [epilog EXCEPT ![k][p] = "arrived"]
    BY <1>5, Zenon DEF EpilogArrived
  <2>2. CASE k = j /\ p = o
    <3>1. epilog'[j][o] = "arrived"
      BY <1>2, <2>1, <2>2, Zenon
    <3> QED
      BY <1>5, <2>1, <2>2, <3>1, Zenon DEF EpilogMove
  <2>3. CASE k # j \/ p # o
    <3>1. epilog'[j][o] = epilog[j][o]
      BY <1>1, <2>1, <2>3, Zenon
    <3> QED
      BY <3>1, Zenon DEF EpilogMove
  <2> QED
    BY <2>2, <2>3, Zenon
<1>6. ASSUME NEW k \in Trace, NEW p \in Origins, EpilogLoad(k, p)  PROVE EpilogMove(j, o)
  <2>1. epilog[k][p] = "arrived" /\ epilog' = [epilog EXCEPT ![k][p] = "loaded"]
    BY <1>6, Zenon DEF EpilogLoad
  <2>2. CASE k = j /\ p = o
    <3>1. epilog'[j][o] = "loaded"
      BY <1>2, <2>1, <2>2, Zenon
    <3> QED
      BY <1>6, <2>1, <2>2, <3>1, Zenon DEF EpilogMove
  <2>3. CASE k # j \/ p # o
    <3>1. epilog'[j][o] = epilog[j][o]
      BY <1>1, <2>1, <2>3, Zenon
    <3> QED
      BY <3>1, Zenon DEF EpilogMove
  <2> QED
    BY <2>2, <2>3, Zenon
<1>7. ASSUME NEW k \in Trace, NEW p \in Origins, EpilogStore(k, p)  PROVE EpilogMove(j, o)
  <2>1. epilog[k][p] = "loaded" /\ epilog' = [epilog EXCEPT ![k][p] = "over"]
    BY <1>7, Zenon DEF EpilogStore
  <2>2. CASE k = j /\ p = o
    <3>1. epilog'[j][o] = "over"
      BY <1>2, <2>1, <2>2, Zenon
    <3> QED
      BY <1>7, <2>1, <2>2, <3>1, Zenon DEF EpilogMove
  <2>3. CASE k # j \/ p # o
    <3>1. epilog'[j][o] = epilog[j][o]
      BY <1>1, <2>1, <2>3, Zenon
    <3> QED
      BY <3>1, Zenon DEF EpilogMove
  <2> QED
    BY <2>2, <2>3, Zenon
<1>8. ASSUME NEW k \in Trace, TermLookup(k), k \in completed  PROVE EpilogMove(j, o)
  <2>1. epilog' = [epilog EXCEPT ![k]["sim"] = "sent"] /\ "sim" \in Origins
    BY <1>8, Zenon DEF TermLookup, Origins
  <2> QED
    BY <1>1, <1>2, <1>8, <2>1, Zenon DEF EpilogMove
<1>9. ASSUME NEW k \in Trace, KillTimelimit(k)  PROVE EpilogMove(j, o)
  <2>1. epilog' = [epilog EXCEPT ![k]["real"] = "sent"] /\ "real" \in Origins
    BY <1>9, Zenon DEF KillTimelimit, Origins
  <2> QED
    BY <1>1, <1>2, <1>9, <2>1, Zenon DEF EpilogMove
<1>10. CASE epilog' = epilog
  BY <1>10, Zenon DEF EpilogMove
<1> QED
  BY <1>3, <1>4, <1>5, <1>6, <1>7, <1>8, <1>9, <1>10, EpilogChanges, Zenon DEF EpilogTail

\* purge_old_job takes the job for one that has been completing too long.
Stuck(j) == Completing(j) /\ last_active[j] < SimTime - KillAge

\* What a step can do to the terminate request of one job.
TermMove(j) ==
  \/ term'[j] = term[j]
  \/ TermLookup(j) /\ term[j] = "sent" /\ j \in completed /\ term'[j] = "epilog"
  \/ TermLookup(j) /\ term[j] = "sent" /\ j \notin completed /\ term'[j] = "none"
  \/ TermAnswered(j) /\ term[j] = "epilog" /\ term'[j] = "none"
  \/ LoseKill(j) /\ term[j] = "sent" /\ term'[j] = "none" /\ lost' = lost + 1
  \/ /\ CompleteBatchScript /\ j = current_event /\ ~IsJobFinished(j)
     /\ term[j] = "none" /\ term'[j] = "sent"
  \/ PurgeOldJob /\ Stuck(j) /\ term[j] = "none" /\ term'[j] = "sent"

\* Each step of the three processes does one of these.
LEMMA TermMoves ==
  ASSUME TypeInv, [Next]_vars, NEW j \in Trace
  PROVE  TermMove(j)
PROOF
<1>0. term \in [Trace -> {"none", "sent", "epilog"}]
  BY Zenon DEF TypeInv, TypeOK, MessageTypeOK
<1>1. ASSUME NEW k \in Trace, NEW s, term' = [term EXCEPT ![k] = s]
      PROVE  IF k = j THEN term'[j] = s ELSE term'[j] = term[j]
  BY <1>0, <1>1
<1>2. ASSUME NEW k \in Trace, TermLookup(k)  PROVE TermMove(j)
  <2>1. /\ term[k] = "sent"
        /\ \/ k \in completed /\ term' = [term EXCEPT ![k] = "epilog"]
           \/ k \notin completed /\ term' = [term EXCEPT ![k] = "none"]
    BY <1>2, Zenon DEF TermLookup
  <2>2. CASE k = j
    <3>1. \/ k \in completed /\ term'[k] = "epilog"
          \/ k \notin completed /\ term'[k] = "none"
      BY <1>1, <2>1, <2>2
    <3> QED
      BY <1>2, <2>1, <2>2, <3>1, Zenon DEF TermMove
  <2>3. CASE k # j
    <3>1. term'[j] = term[j]
      BY <1>1, <2>1, <2>3
    <3> QED
      BY <3>1, Zenon DEF TermMove
  <2> QED
    BY <2>2, <2>3, Zenon
<1>3. ASSUME NEW k \in Trace, TermAnswered(k)  PROVE TermMove(j)
  <2>1. term[k] = "epilog" /\ term' = [term EXCEPT ![k] = "none"]
    BY <1>3, Zenon DEF TermAnswered
  <2>2. CASE k = j
    <3>1. term'[k] = "none"
      BY <1>1, <2>1, <2>2, Zenon
    <3> QED
      BY <1>3, <2>1, <2>2, <3>1, Zenon DEF TermMove
  <2>3. CASE k # j
    <3>1. term'[j] = term[j]
      BY <1>1, <2>1, <2>3
    <3> QED
      BY <3>1, Zenon DEF TermMove
  <2> QED
    BY <2>2, <2>3, Zenon
<1>4. ASSUME NEW k \in Trace, LoseKill(k)  PROVE TermMove(j)
  <2>1. /\ lost' = lost + 1
        /\ term' = term \/ (term[k] = "sent" /\ term' = [term EXCEPT ![k] = "none"])
    BY <1>4, Zenon DEF LoseKill
  <2> QED
    BY <1>1, <1>4, <2>1, Zenon DEF TermMove
<1>5. ASSUME NEW J, term' = SendTerminate(term, J)
      PROVE  \/ term'[j] = term[j]
             \/ j \in J /\ term[j] = "none" /\ term'[j] = "sent"
  BY <1>5 DEF SendTerminate
<1>6. CASE CompleteBatchScript
  <2>1. \/ term' = term
        \/ ~IsJobFinished(current_event) /\ term' = SendTerminate(term, {current_event})
    BY <1>6, Zenon DEF CompleteBatchScript
  <2>2. \/ term'[j] = term[j]
        \/ /\ ~IsJobFinished(current_event) /\ j \in {current_event}
           /\ term[j] = "none" /\ term'[j] = "sent"
    BY <1>5, <2>1, Zenon
  <2> QED
    BY <1>6, <2>2, Zenon DEF TermMove
<1>7. CASE PurgeOldJob
  <2>1. term' = SendTerminate(term, {i \in Trace : Stuck(i)})
    BY <1>7, Zenon DEF PurgeOldJob, Stuck
  <2>2. \/ term'[j] = term[j]
        \/ j \in {i \in Trace : Stuck(i)} /\ term[j] = "none" /\ term'[j] = "sent"
    BY <1>5, <2>1, Zenon
  <2> QED
    BY <1>7, <2>2, Zenon DEF TermMove
<1>8. CASE term' = term
  BY <1>8, Zenon DEF TermMove
<1> QED
  BY <1>2, <1>3, <1>4, <1>6, <1>7, <1>8, TermChanges, Zenon

\* A job that has ended stays as it is, and a job counted as timed out stays
\* timed out.
LEMMA LifeStable ==
  ASSUME BaseInv, [Next]_vars, NEW j \in Trace
  PROVE  /\ Ended(j) => Ended(j)'
         /\ job_state[j] \in {"TIMEOUT_CG", "TIMEOUT"} =>
              job_state'[j] \in {"TIMEOUT_CG", "TIMEOUT"}
PROOF
<1>0. job_state \in [Trace -> JobStates] /\ JobLifeCycle!Jobs = Trace
  BY JobTypes DEF BaseInv, JobLifeCycle!Jobs, Trace
<1>1. [JobLifeCycle!Next]_(JobLifeCycle!life)
  BY JobLifeStep
<1>2. CASE UNCHANGED job_state
  BY <1>2, Zenon DEF Ended
<1> DEFINE Goal == /\ Ended(j) => Ended(j)'
                   /\ job_state[j] \in {"TIMEOUT_CG", "TIMEOUT"} =>
                        job_state'[j] \in {"TIMEOUT_CG", "TIMEOUT"}
<1>3. ASSUME NEW k \in Trace, JobLifeCycle!Arrive(k) \/ JobLifeCycle!Start(k)
                              \/ JobLifeCycle!Finish(k) \/ JobLifeCycle!Release(k)
      PROVE  Goal
  BY <1>0, <1>3 DEF JobLifeCycle!Arrive, JobLifeCycle!Start, JobLifeCycle!Finish,
     JobLifeCycle!Release, Ended
<1>4. ASSUME NEW J \in SUBSET Trace, JobLifeCycle!TimeOut(J)  PROVE Goal
  BY <1>0, <1>4 DEF JobLifeCycle!TimeOut, Ended
<1> HIDE DEF Goal
<1>5. Goal
  BY <1>0, <1>1, <1>2, <1>3, <1>4 DEF JobLifeCycle!Next, JobLifeCycle!Tick,
     JobLifeCycle!life, Goal
<1> QED
  BY <1>5 DEF Goal

\* A handler of slurmd that has sent an epilog message waits for the answer; a
\* job that has not finished has no terminate request and no epilog; the
\* handler of an epilog has ended the job; only a job that ran into its limit
\* has a kill or the epilog of one.
MessageInv(j) ==
  /\ epilog[j]["sim"] \in {"sent", "noted"} => term[j] = "epilog"
  /\ job_state[j] \in {"NONE", "PENDING", "RUNNING"} =>
       term[j] = "none" /\ epilog[j]["sim"] = "none"
  /\ \A o \in Origins : epilog[j][o] \notin {"none", "sent"} => Ended(j)
  /\ j \in kill_msg \/ epilog[j]["real"] # "none" =>
       job_state[j] \in {"TIMEOUT_CG", "TIMEOUT"}

\* Every step keeps them.
LEMMA MessagesInductive ==
  ASSUME BaseInv, [Next]_vars, NEW j \in Trace, FreshInv(j), MessageInv(j)
  PROVE  MessageInv(j)'
PROOF
<1>0. /\ TypeInv /\ EventsInv /\ job_state \in [Trace -> JobStates]
      /\ term \in [Trace -> {"none", "sent", "epilog"}]
      /\ epilog \in [Trace -> [Origins -> EpilogStates]] /\ kill_msg \subseteq Trace
  BY JobTypes, Zenon DEF BaseInv, TypeInv, TypeOK, MessageTypeOK
<1>1. TermMove(j)
  BY <1>0, TermMoves, Zenon
<1>2. EpilogMove(j, "sim") /\ EpilogMove(j, "real")
  BY <1>0, EpilogMoves, Zenon DEF Origins
<1>3. epilog'[j]["sim"] \in {"sent", "noted"} => term'[j] = "epilog"
  <2>1. ASSUME epilog'[j]["sim"] \in {"sent", "noted"}, epilog'[j]["sim"] = epilog[j]["sim"]
        PROVE  term'[j] = "epilog"
    <3>1. term[j] = "epilog" /\ ~TermAnswered(j)
      BY <2>1, Zenon DEF MessageInv, TermAnswered, EpilogAnswered
    <3> QED
      BY <1>1, <3>1, Zenon DEF TermMove
  <2>2. ASSUME EpilogNote(j, "sim"), epilog[j]["sim"] = "sent"  PROVE term'[j] = "epilog"
    BY <2>2, Zenon DEF EpilogNote, msgVars, MessageInv
  <2>3. ASSUME TermLookup(j), j \in completed  PROVE term'[j] = "epilog"
    BY <1>0, <2>3, SMTT(30) DEF TermLookup
  <2> QED
    BY <1>2, <2>1, <2>2, <2>3, Zenon DEF EpilogMove
<1>4. ASSUME job_state'[j] \in {"NONE", "PENDING", "RUNNING"}
      PROVE  term'[j] = "none" /\ epilog'[j]["sim"] = "none"
  <2>1. job_state[j] \in {"NONE", "PENDING", "RUNNING"}
    BY <1>4, EndedForGood, Zenon
  <2>2. term[j] = "none" /\ epilog[j]["sim"] = "none" /\ ~Stuck(j)
    BY <2>1, Zenon DEF MessageInv, Stuck, Completing
  <2>3. ~(CompleteBatchScript /\ j = current_event)
    <3> SUFFICES ASSUME CompleteBatchScript, j = current_event  PROVE FALSE
      OBVIOUS
    <3>1. ~IsJobFinished(j)
      BY <2>1, Zenon DEF IsJobFinished, Completing, Ended
    <3>2. job_state'[j] \in {"TIMEOUT_CG", "COMPLETE_CG"}
      BY <1>0, <3>1 DEF CompleteBatchScript, CompletedState
    <3> QED
      BY <1>4, <3>2
  <2>4. term'[j] = "none"
    BY <1>1, <2>2, <2>3, Zenon DEF TermMove
  <2>5. ~TermLookup(j)
    BY <2>2, Zenon DEF TermLookup
  <2> QED
    BY <1>2, <2>2, <2>4, <2>5, Zenon DEF EpilogMove
<1>5. ASSUME NEW o \in Origins, epilog'[j][o] \notin {"none", "sent"}
      PROVE  Ended(j)'
  <2>1. CASE epilog[j][o] \notin {"none", "sent"}
    BY <2>1, LifeStable, Zenon DEF MessageInv
  <2>2. CASE epilog[j][o] \in {"none", "sent"}
    <3>1. EpilogNote(j, o) /\ epilog[j][o] = "sent"
      BY <1>0, <1>5, <2>2, EpilogMoves, Zenon DEF EpilogMove
    <3>2. IsJobFinished(j)
      <4>1. job_state[j] \notin {"NONE", "PENDING", "RUNNING"}
        BY <3>1, Zenon DEF MessageInv, FreshInv, Origins
      <4> QED
        BY <1>0, <4>1 DEF IsJobFinished, Completing, Ended, JobStates
    <3>3. CASE Completing(j)
      BY <1>0, <3>1, <3>3 DEF EpilogNote, EpilogEndsJob, Ended
    <3>4. CASE Ended(j)
      BY <3>4, LifeStable, Zenon
    <3> QED
      BY <3>2, <3>3, <3>4, Zenon DEF IsJobFinished
  <2> QED
    BY <2>1, <2>2, Zenon
<1>6. ASSUME j \in kill_msg' \/ epilog'[j]["real"] # "none"
      PROVE  job_state'[j] \in {"TIMEOUT_CG", "TIMEOUT"}
  <2>1. CASE j \in kill_msg \/ epilog[j]["real"] # "none"
    BY <2>1, LifeStable, Zenon DEF MessageInv
  <2>2. CASE ~(j \in kill_msg \/ epilog[j]["real"] # "none")
    <3>1. epilog'[j]["real"] = "none"
      <4>1. ~KillTimelimit(j)
        BY <2>2, Zenon DEF KillTimelimit
      <4> QED
        BY <1>2, <2>2, <4>1, Zenon DEF EpilogMove
    <3>2. JobTimeLimit \/ kill_msg' \subseteq kill_msg
      BY <1>0, KillChanges, Zenon
    <3>3. JobTimeLimit
      BY <1>6, <2>2, <3>1, <3>2, Zenon
    <3> QED
      BY <1>6, <2>2, <3>1, <3>3, LimitFrame, Zenon
  <2> QED
    BY <2>1, <2>2, Zenon
<1> QED
  BY <1>3, <1>4, <1>5, <1>6, Zenon DEF MessageInv

-----------------------------------------------------------------------------
(* How long jobs are completing                                            *)

\* The clock and the time of a job's last activity change only here.
LEMMA ActiveChanges ==
  ASSUME TypeInv, [Next]_vars
  PROVE  \/ MgrAdvance \/ JobTimeLimit \/ PurgeOldJob \/ CompleteBatchScript
         \/ \E k \in Trace : Starts(k)
         \/ UNCHANGED <<current_sim, last_active>>
PROOF
<1> USE DEF mgrVars, jobVars
<1>1. CASE MgrTop \/ MgrTerminate \/ MgrPost \/ MgrSubmit \/ MgrSimJob
  BY <1>1, Zenon DEF MgrTop, MgrTerminate, MgrPost, MgrSubmit, MgrSimJob
<1>2. CASE Helper
  BY <1>2, ZenonT(30) DEF Helper, SdWake, SdEvent, SdCompleteAcked, SdEventsDone,
     SdEpilogsDone, SdSendCycle, SdPost
<1>3. CASE CycleStep
  BY <1>3, ZenonT(30) DEF CycleStep, CycleFinished, CycleEpilogs, CycleResetEpilogs,
     CycleSchedCnt, CycleResetCnt, ScheduleDone, CycleBackfillDue, BackfillDone, CycleReply
<1>4. CASE EndOfLog \/ UNCHANGED vars
  BY <1>4, Zenon DEF EndOfLog, vars
<1>5. ASSUME NEW k \in Trace, TermLookup(k) \/ TermAnswered(k) \/ KillTimelimit(k)
                              \/ QueueAfterSubmit(k) \/ LoseKill(k)
      PROVE  UNCHANGED <<current_sim, last_active>>
  BY <1>5, ZenonT(30) DEF TermLookup, TermAnswered, KillTimelimit, QueueAfterSubmit, LoseKill
<1>6. ASSUME NEW k \in Trace, LaunchRead(k) \/ LaunchInsert(k)
      PROVE  UNCHANGED <<current_sim, last_active>>
  BY <1>6, ZenonT(30) DEF LaunchRead, LaunchInsert
<1>7. ASSUME NEW k \in Trace, NEW o \in Origins, EpilogNote(k, o) \/ EpilogTail(k, o)
      PROVE  UNCHANGED <<current_sim, last_active>>
  BY <1>7, ZenonT(30) DEF EpilogNote, EpilogTail, EpilogReply, EpilogArrived, EpilogLoad,
     EpilogStore
<1>8. CASE QuietStep
  BY <1>1, <1>2, <1>3, <1>4, <1>5, <1>7, <1>8, Zenon DEF QuietStep
<1> QED
  BY <1>1, <1>6, <1>7, <1>8, StepKinds, Zenon

\* A job becomes completing by its completion or by its limit.
LEMMA BecomesCompleting ==
  ASSUME BaseInv, [Next]_vars, NEW j \in Trace, Completing(j)',
         ~CompleteBatchScript, ~JobTimeLimit
  PROVE  job_state'[j] = job_state[j]
PROOF
<1>0. TypeInv /\ job_state \in [Trace -> JobStates]
  BY JobTypes, Zenon DEF BaseInv
<1>1. CASE QuietStep
  BY <1>1, QuietIsQuiet, Zenon DEF jobView
<1>2. CASE MgrSubmit
  BY <1>0, <1>2 DEF MgrSubmit, Completing
<1>3. CASE MgrSimJob \/ MgrAdvance
  BY <1>3, ManagerFrame, Zenon DEF MgrSubmit, MgrSimJob, MgrAdvance
<1>4. ASSUME NEW k \in Trace, LaunchRead(k) \/ LaunchInsert(k)
      PROVE  job_state' = job_state
  BY <1>4, LaunchFrame, Zenon
<1>5. ASSUME NEW k \in Trace, NEW o \in Origins, EpilogNote(k, o)
      PROVE  job_state'[j] = job_state[j]
  BY <1>0, <1>5 DEF EpilogNote, Completing
<1>6. ASSUME NEW k \in Trace, Starts(k)  PROVE job_state'[j] = job_state[j]
  BY <1>0, <1>6, StartFrame DEF Completing
<1> QED
  BY <1>1, <1>2, <1>3, <1>4, <1>5, <1>6, StepKinds, Zenon

\* A job that completes by its event has been active at the current time: the
\* clock does not move on before its epilog is noted.
ActiveNow(j, s) == job_state[j] = s => last_active[j] = current_sim

\* No step makes such a job look old.
LEMMA ActiveInductive ==
  ASSUME BaseInv, OwedInv, [Next]_vars, NEW j \in Trace,
         NEW s \in {"COMPLETE_CG", "TIMEOUT_CG"}, ComesBack(j, s), ActiveNow(j, s)
  PROVE  ActiveNow(j, s)'
PROOF
<1>0. /\ TypeInv /\ TurnInv /\ job_state \in [Trace -> JobStates]
      /\ last_active \in [Trace -> Nat]
  BY JobTypes, Zenon DEF BaseInv, TypeInv, TypeOK, JobTypeOK
<1>1. SUFFICES ASSUME job_state'[j] = s  PROVE last_active'[j] = current_sim'
  BY Zenon DEF ActiveNow
<1> USE DEF mgrVars, jobVars
<1>2. Completing(j)'
  BY <1>1, Zenon DEF Completing
<1>3. CASE CompleteBatchScript
  <2>1. /\ current_sim' = current_sim
        /\ \/ UNCHANGED <<job_state, last_active>>
           \/ /\ job_state' = [job_state EXCEPT ![current_event] = CompletedState(current_event)]
              /\ last_active' = [last_active EXCEPT ![current_event] = SimTime]
    BY <1>3, Zenon DEF CompleteBatchScript
  <2>2. CASE current_event = j
    BY <1>0, <1>1, <2>1, <2>2 DEF ActiveNow, SimTime
  <2>3. CASE current_event # j
    BY <1>0, <1>1, <2>1, <2>3 DEF ActiveNow
  <2> QED
    BY <2>2, <2>3, Zenon
<1>4. CASE JobTimeLimit
  <2>1. /\ current_sim' = current_sim
        /\ \/ last_active'[j] = SimTime
           \/ job_state'[j] = job_state[j] /\ last_active'[j] = last_active[j]
    BY <1>4, Zenon DEF JobTimeLimit
  <2> QED
    BY <1>1, <2>1, Zenon DEF ActiveNow, SimTime
<1>5. CASE ~CompleteBatchScript /\ ~JobTimeLimit
  <2>1. job_state[j] = s
    BY <1>1, <1>2, <1>5, BecomesCompleting, Zenon
  <2>2. last_active[j] = current_sim /\ j \in EpilogsOwed
    BY <2>1, Zenon DEF ActiveNow, ComesBack, EpilogsOwed
  <2>3. ~MgrAdvance
    <3> SUFFICES ASSUME MgrAdvance  PROVE FALSE
      OBVIOUS
    <3>1. sim_sem > 0 /\ sim_sem \in Nat /\ slurm_sem \in Nat
      BY <1>0, Zenon DEF MgrAdvance, SemWait, TypeInv, TypeOK, MgrTypeOK
    <3>2. sd_pc = "sem_wait"
      BY <1>0, <3>1, SMTT(30) DEF TurnInv, LockStep, SdTurn
    <3> QED
      BY <2>2, <3>2, Zenon DEF OwedInv
  <2>4. CASE PurgeOldJob
    <3>1. current_sim' = current_sim /\ last_active'[j] \in {SimTime, last_active[j]}
      BY <2>4 DEF PurgeOldJob
    <3> QED
      BY <2>2, <3>1, Zenon DEF SimTime
  <2>5. ASSUME NEW k \in Trace, Starts(k)  PROVE last_active'[j] = current_sim'
    <3>1. /\ current_sim' = current_sim /\ job_state[k] = "PENDING"
          /\ last_active' = [last_active EXCEPT ![k] = SimTime]
      BY <2>5, Zenon DEF Starts, ScheduleStart, BackfillStart, StartJob, Pending
    <3>2. last_active'[j] = last_active[j]
      BY <1>0, <2>1, <3>1
    <3> QED
      BY <2>2, <3>1, <3>2, Zenon
  <2>6. CASE UNCHANGED <<current_sim, last_active>>
    BY <2>2, <2>6, Zenon
  <2> QED
    BY <1>0, <1>5, <2>3, <2>4, <2>5, <2>6, ActiveChanges, Zenon
<1> QED
  BY <1>3, <1>4, <1>5, Zenon

\* A job that has been active now is not stuck for purge_old_job.
LEMMA ActiveNotStuck ==
  ASSUME TypeInv, NEW j \in Trace, last_active[j] = current_sim  PROVE ~Stuck(j)
PROOF
<1>1. current_sim \in Nat /\ KillAge \in Nat
  BY JobTypes, ConstantsAssumption, Zenon
<1>2. ~(current_sim < current_sim - KillAge)
  BY <1>1, SMTT(30)
<1> QED
  BY <1>2, Zenon DEF Stuck, SimTime

\* The helper of slurmd waits for the epilog of a job whose terminate request
\* is gone: sent, and lost on its way.
AwaitsLostKill(j) ==
  /\ sd_pc = "epilogs" /\ j \in completed
  /\ term[j] = "none" /\ job_state[j] = "COMPLETE_CG"

\* Nothing ends that wait: no request is sent again, no other epilog comes for
\* the job, and waiting_epilog_msgs stays above zero.
LEMMA LostKillStays ==
  ASSUME CountFact, BaseInv, OwedInv, [Next]_vars, NEW j \in Trace, FreshInv(j),
         MessageInv(j), ActiveNow(j, "COMPLETE_CG"), AwaitsLostKill(j)
  PROVE  AwaitsLostKill(j)'
PROOF
<1>0. /\ TypeInv /\ (ctl_pc # "idle" <=> sd_pc = "cycle") /\ sd_pc = "epilogs"
      /\ j \in completed /\ term[j] = "none" /\ job_state[j] = "COMPLETE_CG"
      /\ job_state \in [Trace -> JobStates]
  BY JobTypes, Zenon DEF BaseInv, TurnInv, LockStep, AwaitsLostKill
<1>1. ~CompleteBatchScript /\ ~SdEvent /\ ~TermLookup(j)
  BY <1>0, Zenon DEF CompleteBatchScript, SdEvent, TermLookup
<1>2. term'[j] = "none"
  <2>1. ~Stuck(j)
    BY <1>0, ActiveNotStuck, Zenon DEF ActiveNow
  <2> QED
    BY <1>0, <1>1, <2>1, TermMoves, Zenon DEF TermMove
<1>3. sd_pc' = "epilogs"
  <2>1. waiting_epilog_msgs # 0
    <3>1. EpilogsOwed \in SUBSET Trace /\ EpilogsOwed # {}
      BY <1>0, OwedTypes, Zenon DEF EpilogsOwed
    <3>2. Cardinality(EpilogsOwed) # 0 /\ Cardinality(EpilogsOwed) \in Nat
      BY <3>1, Zenon DEF CountFact
    <3> QED
      BY <1>0, <3>2, SMTT(30) DEF OwedInv
  <2>2. ~Helper
    BY <1>0, <1>1, <2>1, ZenonT(30) DEF Helper, SdWake, SdCompleteAcked, SdEventsDone,
       SdEpilogsDone, SdSendCycle, SdPost
  <2>3. ~CycleStep
    BY <1>0, ZenonT(30) DEF CycleStep, CycleFinished, CycleEpilogs, CycleResetEpilogs,
       CycleSchedCnt, CycleResetCnt, ScheduleDone, CycleBackfillDue, BackfillDone, CycleReply
  <2> QED
    BY <1>0, <1>1, <2>2, <2>3, CycleChanges, Zenon DEF CycleView
<1>4. ASSUME NEW o \in Origins, epilog[j][o] = "sent"  PROVE FALSE
  <2>1. epilog[j]["sim"] = "none" /\ epilog[j]["real"] = "none"
    BY <1>0, Zenon DEF FreshInv, MessageInv
  <2> QED
    BY <1>4, <2>1, Zenon DEF Origins
<1>5. j \in completed'
  BY <1>0, <1>1, CompletedMoves, Zenon
<1>6. job_state'[j] = "COMPLETE_CG"
  <2>1. ASSUME NEW k \in Trace, NEW o \in Origins, EpilogNote(k, o)
        PROVE  job_state'[j] = job_state[j]
    <3>1. k # j
      BY <1>4, <2>1, Zenon DEF EpilogNote
    <3> QED
      BY <1>0, <2>1, <3>1 DEF EpilogNote
  <2>2. CASE JobTimeLimit
    BY <1>0, <2>2, LimitFrame, Zenon
  <2>3. CASE MgrSubmit
    <3>1. trace_head # j
      <4>1. JobInv(j) /\ mgr_pc # "sim_job"
        BY <2>3, Zenon DEF BaseInv, JobsInv, MgrSubmit
      <4> QED
        BY <1>0, <4>1, JobTypes, SMTT(30) DEF JobInv
    <3> QED
      BY <1>0, <2>3, <3>1, SMTT(30) DEF MgrSubmit
  <2>4. CASE MgrSimJob \/ MgrAdvance
    BY <1>0, <2>4, ManagerFrame, Zenon DEF MgrSubmit, MgrSimJob, MgrAdvance
  <2>5. ASSUME NEW k \in Trace, LaunchRead(k) \/ LaunchInsert(k)
        PROVE  UNCHANGED job_state
    BY <2>5, LaunchFrame, Zenon
  <2>6. ASSUME NEW k \in Trace, Starts(k)  PROVE job_state'[j] = job_state[j]
    BY <1>0, <2>6, StartFrame
  <2>7. CASE QuietStep
    BY <1>0, <2>7, QuietIsQuiet, Zenon DEF jobView
  <2> QED
    BY <1>0, <1>1, <2>1, <2>2, <2>3, <2>4, <2>5, <2>6, <2>7, StepKinds, Zenon
<1> QED
  BY <1>2, <1>3, <1>5, <1>6, Zenon DEF AwaitsLostKill

-----------------------------------------------------------------------------
(* The count of finished jobs                                              *)

\* A job killed at its limit gets its epilog from the time-limit handler and
\* no other.  It takes that purge_old_job re-kills no job.
OneOrigin(j) ==
  j \in kill_msg \/ epilog[j]["real"] # "none" => term[j] = "none" /\ epilog[j]["sim"] = "none"

\* Every step but a re-kill keeps it.
LEMMA OriginInductive ==
  ASSUME BaseInv, [Next]_vars, [PurgeOldJob => term' = term]_vars, NEW j \in Trace,
         FreshInv(j), MessageInv(j), OneOrigin(j)
  PROVE  OneOrigin(j)'
PROOF
<1>0. TypeInv /\ EpilogMove(j, "sim") /\ EpilogMove(j, "real") /\ TermMove(j)
  BY EpilogMoves, TermMoves, Zenon DEF BaseInv, Origins
<1>1. SUFFICES ASSUME j \in kill_msg' \/ epilog'[j]["real"] # "none"
               PROVE  term'[j] = "none" /\ epilog'[j]["sim"] = "none"
  BY Zenon DEF OneOrigin
<1>2. CASE j \in kill_msg \/ epilog[j]["real"] # "none"
  <2>1. term[j] = "none" /\ epilog[j]["sim"] = "none" /\ IsJobFinished(j)
    BY <1>2, Zenon DEF OneOrigin, MessageInv, IsJobFinished, Completing, Ended
  <2>2. PurgeOldJob => term' = term
    BY Zenon DEF vars, msgVars
  <2>3. term'[j] = "none"
    BY <1>0, <2>1, <2>2, Zenon DEF TermMove
  <2>4. ~TermLookup(j)
    BY <2>1, Zenon DEF TermLookup
  <2> QED
    BY <1>0, <2>1, <2>3, <2>4, Zenon DEF EpilogMove
<1>3. CASE ~(j \in kill_msg \/ epilog[j]["real"] # "none")
  <2>1. epilog'[j]["real"] = "none"
    <3>1. ~KillTimelimit(j)
      BY <1>3, Zenon DEF KillTimelimit
    <3> QED
      BY <1>0, <1>3, <3>1, Zenon DEF EpilogMove
  <2>2. JobTimeLimit
    BY <1>0, <1>1, <1>3, <2>1, KillChanges, Zenon
  <2>3. job_state[j] = "RUNNING" /\ UNCHANGED <<term, epilog>>
    BY <1>1, <1>3, <2>1, <2>2, LimitFrame, Zenon
  <2> QED
    BY <2>3, Zenon DEF MessageInv
<1> QED
  BY <1>2, <1>3, Zenon

\* The jobs one of whose epilogs has been counted to the end.
OverJobs == {j \in Trace : \E o \in Origins : epilog[j][o] = "over"}

\* total_epilog_complete_jobs, and what a handler has loaded of it, is at most
\* the number of these jobs: updates may be lost but none is made twice.
CountInv ==
  /\ total_epilog_complete_jobs <= Cardinality(OverJobs)
  /\ \A j \in Trace, o \in Origins : loaded[j][o] <= Cardinality(OverJobs)

\* Only the handlers of epilogs touch the counter.
LEMMA TotalChanges ==
  ASSUME [Next]_vars
  PROVE  \/ \E k \in Trace, o \in Origins : EpilogLoad(k, o) \/ EpilogStore(k, o)
         \/ UNCHANGED <<total_epilog_complete_jobs, loaded>>
PROOF
<1> USE DEF totVars
<1>1. CASE MgrTop \/ MgrTerminate \/ MgrPost \/ MgrSubmit \/ MgrSimJob \/ MgrAdvance
  BY <1>1, ZenonT(30) DEF MgrTop, MgrTerminate, MgrPost, MgrSubmit, MgrSimJob, MgrAdvance
<1>2. CASE Helper
  BY <1>2, ZenonT(30) DEF Helper, SdWake, SdEvent, SdCompleteAcked, SdEventsDone,
     SdEpilogsDone, SdSendCycle, SdPost
<1>3. CASE CycleStep
  BY <1>3, ZenonT(30) DEF CycleStep, CycleFinished, CycleEpilogs, CycleResetEpilogs,
     CycleSchedCnt, CycleResetCnt, ScheduleDone, CycleBackfillDue, BackfillDone, CycleReply
<1>4. CASE PurgeOldJob \/ EndOfLog \/ JobTimeLimit \/ CompleteBatchScript \/ UNCHANGED vars
  BY <1>4, ZenonT(30) DEF PurgeOldJob, EndOfLog, JobTimeLimit, CompleteBatchScript, vars
<1>5. ASSUME NEW k \in Trace, TermLookup(k) \/ TermAnswered(k) \/ KillTimelimit(k)
                              \/ QueueAfterSubmit(k) \/ LoseKill(k)
      PROVE  UNCHANGED <<total_epilog_complete_jobs, loaded>>
  BY <1>5, ZenonT(30) DEF TermLookup, TermAnswered, KillTimelimit, QueueAfterSubmit, LoseKill
<1>6. ASSUME NEW k \in Trace, LaunchRead(k) \/ LaunchInsert(k) \/ Starts(k)
      PROVE  UNCHANGED <<total_epilog_complete_jobs, loaded>>
  BY <1>6, ZenonT(30) DEF LaunchRead, LaunchInsert, Starts, ScheduleStart, BackfillStart
<1>7. ASSUME NEW k \in Trace, NEW o \in Origins,
             EpilogNote(k, o) \/ EpilogReply(k, o) \/ EpilogArrived(k, o)
      PROVE  UNCHANGED <<total_epilog_complete_jobs, loaded>>
  BY <1>7, ZenonT(30) DEF EpilogNote, EpilogReply, EpilogArrived
<1>8. CASE QuietStep
  BY <1>1, <1>2, <1>3, <1>4, <1>5, <1>7, <1>8, ZenonT(30) DEF QuietStep, EpilogTail
<1> QED
  BY <1>1, <1>4, <1>6, <1>7, <1>8, StepKinds, Zenon

\* Every step but a re-kill keeps the bound on the counter.
LEMMA CountInductive ==
  ASSUME CountFact, BaseInv, [Next]_vars, CountInv,
         \A j \in Trace : FreshInv(j) /\ OneOrigin(j)
  PROVE  CountInv'
PROOF
<1>0. /\ TypeInv /\ epilog \in [Trace -> [Origins -> EpilogStates]]
      /\ loaded \in [Trace -> [Origins -> Nat]] /\ total_epilog_complete_jobs \in Nat
      /\ \A j \in Trace, o \in Origins : EpilogMove(j, o)
  BY EpilogMoves, Zenon DEF BaseInv, TypeInv, TypeOK, MessageTypeOK, SlurmctldTypeOK
<1>1. OverJobs \in SUBSET Trace /\ Cardinality(OverJobs) \in Nat
  BY Zenon DEF OverJobs, CountFact
\* A message once over stays over, and only EpilogStore makes it so.
<1>2. ASSUME NEW j \in Trace, NEW o \in Origins, ~EpilogStore(j, o)
      PROVE  epilog'[j][o] = "over" <=> epilog[j][o] = "over"
  <2>1. EpilogMove(j, o) /\ FreshInv(j)
    BY <1>0, Zenon
  <2>2. ASSUME o = "sim", j \in completed  PROVE epilog[j][o] = "none"
    BY <2>1, <2>2, Zenon DEF FreshInv
  <2>3. ASSUME o = "real", KillTimelimit(j)  PROVE epilog[j][o] = "none"
    BY <2>1, <2>3, Zenon DEF FreshInv, KillTimelimit
  <2> QED
    BY <1>2, <2>1, <2>2, <2>3, Zenon DEF EpilogMove
<1>3. ASSUME NEW k \in Trace, NEW o \in Origins, EpilogStore(k, o)  PROVE CountInv'
  <2>1. /\ epilog[k][o] = "loaded" /\ epilog' = [epilog EXCEPT ![k][o] = "over"]
        /\ total_epilog_complete_jobs' = loaded[k][o] + 1
        /\ loaded' = [loaded EXCEPT ![k][o] = 0]
    BY <1>3, Zenon DEF EpilogStore
  <2>2. k \notin OverJobs
    <3>1. OneOrigin(k) /\ Origins = {"sim", "real"}
      BY Zenon DEF Origins
    <3>2. \A p \in Origins : p # o => epilog[k][p] # "over"
      BY <2>1, <3>1, SMTT(30) DEF OneOrigin
    <3> QED
      BY <2>1, <3>2 DEF OverJobs
  <2>3. OverJobs' = OverJobs \cup {k}
    <3>1. \A j \in Trace : j \in OverJobs' <=> j \in OverJobs \/ j = k
      BY <1>0, <2>1 DEF OverJobs
    <3> QED
      BY <3>1, <1>1, Zenon DEF OverJobs
  <2>4. Cardinality(OverJobs') = Cardinality(OverJobs) + 1
    BY <1>1, <2>2, <2>3, Zenon DEF CountFact
  <2>5. \A j \in Trace, p \in Origins : loaded[j][p] \in Nat /\ loaded[j][p] <= Cardinality(OverJobs)
    BY <1>0, Zenon DEF CountInv
  <2>6. total_epilog_complete_jobs' <= Cardinality(OverJobs')
    BY <1>1, <2>1, <2>4, <2>5, SMTT(30)
  <2>7. ASSUME NEW j \in Trace, NEW p \in Origins  PROVE loaded'[j][p] <= Cardinality(OverJobs')
    <3>1. loaded'[j][p] \in {loaded[j][p], 0}
      BY <1>0, <2>1
    <3> QED
      BY <1>1, <2>4, <2>5, <3>1, SMTT(30)
  <2> QED
    BY <2>6, <2>7, Zenon DEF CountInv
<1>4. CASE ~\E k \in Trace, o \in Origins : EpilogStore(k, o)
  <2>1. OverJobs' = OverJobs
    BY <1>2, <1>4 DEF OverJobs
  <2>2. ASSUME NEW k \in Trace, NEW o \in Origins, EpilogLoad(k, o)  PROVE CountInv'
    <3>1. /\ total_epilog_complete_jobs' = total_epilog_complete_jobs
          /\ loaded' = [loaded EXCEPT ![k][o] = total_epilog_complete_jobs]
      BY <2>2, Zenon DEF EpilogLoad
    <3>2. \A j \in Trace, p \in Origins :
            loaded'[j][p] \in {loaded[j][p], total_epilog_complete_jobs}
      BY <1>0, <3>1
    <3> QED
      BY <2>1, <3>1, <3>2, ZenonT(30) DEF CountInv
  <2>3. CASE UNCHANGED <<total_epilog_complete_jobs, loaded>>
    BY <2>1, <2>3, Zenon DEF CountInv
  <2> QED
    BY <1>4, <2>2, <2>3, TotalChanges, Zenon
<1> QED
  BY <1>3, <1>4, Zenon

-----------------------------------------------------------------------------
(* The second spin of the helper-cycle handler                             *)

\* No job has an epilog from the time-limit handler.
Unkilled == \A j \in Trace : epilog[j]["real"] = "none"

\* Without kills it stays so.
LEMMA UnkilledStays ==
  ASSUME TypeInv, [Next]_vars, kill_msg = {}, Unkilled  PROVE Unkilled'
PROOF
<1> SUFFICES ASSUME NEW j \in Trace  PROVE epilog'[j]["real"] = "none"
  BY Zenon DEF Unkilled
<1>1. EpilogMove(j, "real") /\ epilog[j]["real"] = "none" /\ ~KillTimelimit(j)
  BY EpilogMoves, Zenon DEF Unkilled, Origins, KillTimelimit
<1> QED
  BY <1>1, Zenon DEF EpilogMove

\* The jobs of this cycle whose epilog has not been counted yet.
Uncounted ==
  {j \in Trace : j \in completed \/ epilog[j]["sim"] \in {"sent", "noted", "replied"}}

\* The number of epilogs that have come or will come in this cycle: one for
\* each completion, from the event loop to the reset of the counter.
EpilogsDue ==
  IF sd_pc \notin {"sem_wait", "post"} /\ ctl_pc \in {"idle", "finished", "epilogs", "reset_epilogs"}
    THEN jobs_ended + (IF sd_pc \in {"complete", "acked"} THEN 1 ELSE 0)
    ELSE 0

\* arrived_jobs_epilogs counts those that have come.
ArrivedInv ==
  /\ arrived_jobs_epilogs + Cardinality(Uncounted) = EpilogsDue
  /\ ctl_pc = "reset_epilogs" => Uncounted = {}

\* Only the handlers of epilogs and the reset touch the counter.
LEMMA ArrivedChanges ==
  ASSUME [Next]_vars
  PROVE  \/ \E k \in Trace, o \in Origins : EpilogArrived(k, o)
         \/ CycleResetEpilogs
         \/ UNCHANGED arrived_jobs_epilogs
PROOF
<1> USE DEF cntVars
<1>1. CASE MgrTop \/ MgrTerminate \/ MgrPost \/ MgrSubmit \/ MgrSimJob \/ MgrAdvance
  BY <1>1, ZenonT(30) DEF MgrTop, MgrTerminate, MgrPost, MgrSubmit, MgrSimJob, MgrAdvance
<1>2. CASE Helper
  BY <1>2, ZenonT(30) DEF Helper, SdWake, SdEvent, SdCompleteAcked, SdEventsDone,
     SdEpilogsDone, SdSendCycle, SdPost
<1>3. CASE CycleStep
  BY <1>3, ZenonT(30) DEF CycleStep, CycleFinished, CycleEpilogs, CycleSchedCnt,
     CycleResetCnt, ScheduleDone, CycleBackfillDue, BackfillDone, CycleReply
<1>4. CASE PurgeOldJob \/ EndOfLog \/ JobTimeLimit \/ CompleteBatchScript \/ UNCHANGED vars
  BY <1>4, ZenonT(30) DEF PurgeOldJob, EndOfLog, JobTimeLimit, CompleteBatchScript, vars
<1>5. ASSUME NEW k \in Trace, TermLookup(k) \/ TermAnswered(k) \/ KillTimelimit(k)
                              \/ QueueAfterSubmit(k) \/ LoseKill(k)
      PROVE  UNCHANGED arrived_jobs_epilogs
  BY <1>5, ZenonT(30) DEF TermLookup, TermAnswered, KillTimelimit, QueueAfterSubmit, LoseKill
<1>6. ASSUME NEW k \in Trace, LaunchRead(k) \/ LaunchInsert(k) \/ Starts(k)
      PROVE  UNCHANGED arrived_jobs_epilogs
  BY <1>6, ZenonT(30) DEF LaunchRead, LaunchInsert, Starts, ScheduleStart, BackfillStart
<1>7. ASSUME NEW k \in Trace, NEW o \in Origins,
             EpilogNote(k, o) \/ EpilogReply(k, o) \/ EpilogLoad(k, o) \/ EpilogStore(k, o)
      PROVE  UNCHANGED arrived_jobs_epilogs
  BY <1>7, ZenonT(30) DEF EpilogNote, EpilogReply, EpilogLoad, EpilogStore
<1>8. CASE QuietStep
  BY <1>1, <1>2, <1>3, <1>4, <1>5, <1>7, <1>8, ZenonT(30) DEF QuietStep, EpilogTail
<1> QED
  BY <1>1, <1>4, <1>6, <1>7, <1>8, StepKinds, Zenon

\* The event loop adds a job to the uncounted, the handler of its epilog takes
\* it off, and every other step leaves them.
LEMMA UncountedMoves ==
  ASSUME BaseInv, [Next]_vars, \A j \in Trace : FreshInv(j), Unkilled
  PROVE  \/ SdEvent
         \/ \E k \in Trace : EpilogArrived(k, "sim")
         \/ Uncounted' = Uncounted
PROOF
<1>0. TypeInv
  BY Zenon DEF BaseInv
<1>1. SUFFICES ASSUME ~SdEvent, ~\E k \in Trace : EpilogArrived(k, "sim"), NEW j \in Trace
               PROVE  j \in Uncounted' <=> j \in Uncounted
  BY DEF Uncounted
<1>2. CASE TermLookup(j) /\ j \in completed
  <2>1. j \in Uncounted
    BY <1>2, Zenon DEF Uncounted
  <2>2. epilog'[j]["sim"] = "sent"
    BY <1>0, <1>2, SMTT(30) DEF TermLookup, TypeInv, TypeOK, MessageTypeOK, Origins
  <2> QED
    BY <2>1, <2>2 DEF Uncounted
<1>3. CASE ~(TermLookup(j) /\ j \in completed)
  <2>1. j \in completed' <=> j \in completed
    BY <1>0, <1>1, <1>3, CompletedMoves, Zenon
  <2>2. epilog'[j]["sim"] \in {"sent", "noted", "replied"} <=>
          epilog[j]["sim"] \in {"sent", "noted", "replied"}
    <3>1. EpilogMove(j, "sim")
      BY <1>0, EpilogMoves, Zenon DEF Origins
    <3> QED
      BY <1>1, <1>3, <3>1, Zenon DEF EpilogMove
  <2> QED
    BY <2>1, <2>2, Zenon DEF Uncounted
<1> QED
  BY <1>2, <1>3, Zenon

\* Every step keeps the count of epilogs, as long as no job is killed.
LEMMA ArrivedInductive ==
  ASSUME CountFact, BaseInv, [Next]_vars, \A j \in Trace : FreshInv(j), Unkilled,
         FinishedInv, ArrivedInv
  PROVE  ArrivedInv'
PROOF
<1>0. /\ TypeInv /\ EventsInv /\ (ctl_pc # "idle" <=> sd_pc = "cycle")
      /\ jobs_ended \in Nat /\ arrived_jobs_epilogs \in Nat
      /\ sd_pc \in {"sem_wait", "events", "complete", "acked", "epilogs", "send_cycle",
                    "cycle", "post"}
      /\ epilog \in [Trace -> [Origins -> EpilogStates]]
  BY Zenon DEF BaseInv, TypeInv, TypeOK, SlurmdTypeOK, SlurmctldTypeOK, MessageTypeOK,
     TurnInv, LockStep
<1>1. Uncounted \in SUBSET Trace /\ Cardinality(Uncounted) \in Nat
  BY Zenon DEF Uncounted, CountFact
<1> USE DEF sdVars, cntVars, cycVars
<1>2. CASE SdEvent
  <2> DEFINE h == events[1].job
  <2>1. /\ sd_pc = "events" /\ sd_pc' = "complete" /\ events # <<>>
        /\ completed' = completed \cup {Head(events).job}
        /\ UNCHANGED <<jobs_ended, ctl_pc, arrived_jobs_epilogs, epilog>>
    BY <1>2, Zenon DEF SdEvent, EventDue
  <2>2. /\ events \in Seq(EventRec(Trace)) /\ Len(events) \in Nat
        /\ \A i \in 1..Len(events) : events[i].job \in Trace
    BY <1>0, ListTypes, Zenon
  <2>3. 1 \in 1..Len(events) /\ Head(events) = events[1]
    BY <2>1, <2>2
  <2>4. h \in Trace /\ h \notin completed /\ epilog[h]["sim"] = "none"
    BY <1>0, <2>2, <2>3, Zenon DEF EventsInv, EventInv, FreshInv, HasEvent
  <2>5. completed' = completed \cup {h}
    BY <2>1, <2>3
  <2> HIDE DEF h
  <2>6. h \notin Uncounted /\ Uncounted' = Uncounted \cup {h}
    BY <2>1, <2>4, <2>5 DEF Uncounted
  <2>7. Cardinality(Uncounted') = Cardinality(Uncounted) + 1
    BY <1>1, <2>4, <2>6, Zenon DEF CountFact
  <2>8. EpilogsDue = jobs_ended /\ EpilogsDue' = jobs_ended + 1
    BY <1>0, <2>1, SMTT(30) DEF EpilogsDue
  <2>9. ctl_pc' # "reset_epilogs"
    BY <1>0, <2>1
  <2> QED
    BY <1>0, <1>1, <2>1, <2>7, <2>8, <2>9, SMTT(30) DEF ArrivedInv
<1>3. ASSUME NEW k \in Trace, EpilogArrived(k, "sim")  PROVE ArrivedInv'
  <2>1. /\ epilog[k]["sim"] = "replied"
        /\ epilog' = [epilog EXCEPT ![k]["sim"] = "arrived"]
        /\ arrived_jobs_epilogs' = arrived_jobs_epilogs + 1
        /\ UNCHANGED <<sd_pc, jobs_ended, ctl_pc, completed>>
    BY <1>3, Zenon DEF EpilogArrived, listVars
  <2>2. k \notin completed
    BY <2>1 DEF FreshInv
  <2>3. k \in Uncounted /\ Uncounted' = Uncounted \ {k}
    <3>1. /\ epilog'[k]["sim"] = "arrived"
          /\ \A j \in Trace : j # k => epilog'[j]["sim"] = epilog[j]["sim"]
      BY <1>0, <2>1 DEF Origins
    <3> QED
      BY <2>1, <2>2, <3>1 DEF Uncounted
  <2>4. Cardinality(Uncounted') = Cardinality(Uncounted) - 1
    BY <1>1, <2>3, Zenon DEF CountFact
  <2>5. EpilogsDue' = EpilogsDue
    BY <2>1, Zenon DEF EpilogsDue
  <2>6. Uncounted = {} => Uncounted' = {}
    BY <2>3
  <2>7. arrived_jobs_epilogs' + Cardinality(Uncounted') = EpilogsDue'
    BY <1>0, <1>1, <2>1, <2>4, <2>5, SMTT(30) DEF ArrivedInv
  <2> QED
    BY <2>1, <2>6, <2>7, Zenon DEF ArrivedInv
<1>4. ASSUME Uncounted' = Uncounted, arrived_jobs_epilogs' = arrived_jobs_epilogs,
             EpilogsDue' = EpilogsDue, ctl_pc' = "reset_epilogs" => ctl_pc = "reset_epilogs"
      PROVE  ArrivedInv'
  BY <1>4, Zenon DEF ArrivedInv
<1>5. CASE CycleEpilogs
  <2>1. /\ ctl_pc = "epilogs" /\ ctl_pc' = "reset_epilogs"
        /\ arrived_jobs_epilogs = total_jobs_ended
        /\ UNCHANGED <<sd_pc, jobs_ended, arrived_jobs_epilogs, epilog, completed>>
    BY <1>5, Zenon DEF CycleEpilogs, listVars
  <2>2. EpilogsDue = jobs_ended /\ EpilogsDue' = jobs_ended /\ total_jobs_ended = jobs_ended
    BY <1>0, <2>1, SMTT(30) DEF EpilogsDue, FinishedInv
  <2>3. Cardinality(Uncounted) = 0
    BY <1>0, <1>1, <2>1, <2>2, SMTT(30) DEF ArrivedInv
  <2>4. Uncounted = {} /\ Uncounted' = Uncounted
    BY <1>1, <2>1, <2>3, Zenon DEF CountFact, Uncounted
  <2> QED
    BY <2>1, <2>2, <2>4, Zenon DEF ArrivedInv
<1>6. CASE CycleResetEpilogs
  <2>1. /\ ctl_pc = "reset_epilogs" /\ ctl_pc' = "sched_cnt" /\ arrived_jobs_epilogs' = 0
        /\ UNCHANGED <<epilog, completed>>
    BY <1>6, Zenon DEF CycleResetEpilogs, listVars
  <2>2. Uncounted' = {} /\ EpilogsDue' = 0
    BY <2>1 DEF ArrivedInv, Uncounted, EpilogsDue
  <2>3. Cardinality(Uncounted') = 0
    BY <2>2, Zenon DEF CountFact
  <2> QED
    BY <2>1, <2>2, <2>3, SMTT(30) DEF ArrivedInv
<1>7. ASSUME ~SdEvent, ~CycleEpilogs, ~CycleResetEpilogs
      PROVE  EpilogsDue' = EpilogsDue /\ (ctl_pc' = "reset_epilogs" => ctl_pc = "reset_epilogs")
  <2>1. CASE SdWake
    <3>1. sd_pc = "sem_wait" /\ sd_pc' = "events" /\ jobs_ended' = 0 /\ ctl_pc' = ctl_pc
      BY <2>1, Zenon DEF SdWake
    <3> QED
      BY <1>0, <3>1, SMTT(30) DEF EpilogsDue
  <2>2. CASE SdCompleteAcked
    <3>1. sd_pc = "acked" /\ sd_pc' = "events" /\ jobs_ended' = jobs_ended + 1 /\ ctl_pc' = ctl_pc
      BY <2>2, Zenon DEF SdCompleteAcked, CountEnded
    <3> QED
      BY <1>0, <3>1, SMTT(30) DEF EpilogsDue
  <2>3. CASE SdEventsDone \/ SdEpilogsDone
    <3>1. /\ sd_pc \in {"events", "epilogs"} /\ sd_pc' \in {"epilogs", "send_cycle"}
          /\ UNCHANGED <<ctl_pc, jobs_ended>>
      BY <2>3, Zenon DEF SdEventsDone, SdEpilogsDone
    <3> QED
      BY <1>0, <3>1, SMTT(30) DEF EpilogsDue
  <2>4. CASE SdSendCycle
    <3>1. /\ sd_pc = "send_cycle" /\ ctl_pc = "idle" /\ sd_pc' = "cycle"
          /\ ctl_pc' = "finished" /\ jobs_ended' = jobs_ended
      BY <2>4, Zenon DEF SdSendCycle
    <3> QED
      BY <3>1, SMTT(30) DEF EpilogsDue
  <2>5. CASE SdPost
    <3>1. sd_pc = "post" /\ sd_pc' = "sem_wait" /\ ctl_pc' = ctl_pc
      BY <2>5, Zenon DEF SdPost
    <3> QED
      BY <3>1, Zenon DEF EpilogsDue
  <2>6. CASE CompleteBatchScript
    <3>1. sd_pc = "complete" /\ sd_pc' = "acked" /\ UNCHANGED <<ctl_pc, jobs_ended>>
      BY <2>6, Zenon DEF CompleteBatchScript
    <3> QED
      BY <1>0, <3>1, SMTT(30) DEF EpilogsDue
  <2>7. CASE CycleFinished
    <3>1. ctl_pc = "finished" /\ ctl_pc' = "epilogs" /\ UNCHANGED <<sd_pc, jobs_ended>>
      BY <2>7, Zenon DEF CycleFinished
    <3> QED
      BY <3>1 DEF EpilogsDue
  <2>8. CASE CycleReply
    <3>1. ctl_pc = "reply" /\ ctl_pc' = "idle" /\ sd_pc' = "post"
      BY <2>8, Zenon DEF CycleReply
    <3> QED
      BY <3>1 DEF EpilogsDue
  <2>9. CASE CycleStep /\ ~CycleFinished /\ ~CycleReply
    <3>1. /\ ctl_pc \notin {"idle", "finished", "epilogs", "reset_epilogs"}
          /\ ctl_pc' \notin {"idle", "finished", "epilogs", "reset_epilogs"}
      BY <1>7, <2>9, ZenonT(30) DEF CycleStep, CycleSchedCnt, CycleResetCnt, ScheduleDone,
         CycleBackfillDue, BackfillDone
    <3> QED
      BY <3>1, Zenon DEF EpilogsDue
  <2>10. CASE UNCHANGED CycleView
    BY <2>10, Zenon DEF CycleView, EpilogsDue
  <2> QED
    BY <1>0, <1>7, <2>1, <2>2, <2>3, <2>4, <2>5, <2>6, <2>7, <2>8, <2>9, <2>10, CycleChanges,
       Zenon DEF Helper
<1>8. ASSUME NEW k \in Trace, NEW o \in Origins, EpilogArrived(k, o)
      PROVE  EpilogArrived(k, "sim")
  <2>1. o # "real"
    BY <1>8 DEF Unkilled, EpilogArrived
  <2> QED
    BY <1>8, <2>1, Zenon DEF Origins
<1> QED
  BY <1>2, <1>3, <1>4, <1>5, <1>6, <1>7, <1>8, ArrivedChanges, UncountedMoves, Zenon

-----------------------------------------------------------------------------
(* The spin of the helper                                                  *)

\* The helper is about to report the completion of the job.
AboutToComplete(j) == sd_pc = "complete" /\ current_event = j

\* A completed job has its terminate request on its way; a job whose launch
\* or event is pending runs.
SentInv(j) ==
  /\ j \in completed => term[j] = "sent" \/ AboutToComplete(j)
  /\ HasEvent(j) \/ launch[j].pc \in {"sent", "read"} \/ AboutToComplete(j) =>
       job_state[j] = "RUNNING"

\* A job is about to complete when the helper has taken its event.
LEMMA CompleteMoves ==
  ASSUME BaseInv, [Next]_vars, NEW j \in Trace
  PROVE  /\ AboutToComplete(j)' => AboutToComplete(j) \/ (SdEvent /\ HasEvent(j))
         /\ AboutToComplete(j) => AboutToComplete(j)' \/ CompleteBatchScript
         /\ SdEvent /\ j \in completed' /\ j \notin completed => AboutToComplete(j)'
PROOF
<1>0. TypeInv /\ (ctl_pc # "idle" <=> sd_pc = "cycle")
  BY Zenon DEF BaseInv, TurnInv, LockStep
<1>1. CASE SdEvent
  <2>1. /\ sd_pc = "events" /\ events # <<>> /\ current_event' = Head(events).job
        /\ sd_pc' = "complete" /\ completed' = completed \cup {Head(events).job}
    BY <1>1, Zenon DEF SdEvent, EventDue
  <2>2. Head(events) = events[1] /\ 1 \in 1..Len(events)
    BY <1>0, <2>1, ListTypes
  <2> QED
    BY <1>1, <2>1, <2>2 DEF AboutToComplete, HasEvent
<1>2. CASE Helper /\ ~SdEvent
  BY <1>2, HelperFrame, Zenon DEF AboutToComplete
<1>3. CASE CycleStep
  <2>1. ctl_pc # "idle" /\ sd_pc' \in {sd_pc, "post"} /\ current_event' = current_event
    BY <1>3, CycleFrame, ZenonT(30) DEF CycleStep, CycleFinished, CycleEpilogs,
       CycleResetEpilogs, CycleSchedCnt, CycleResetCnt, ScheduleDone, CycleBackfillDue,
       BackfillDone, CycleReply
  <2>2. ~SdEvent
    BY <1>0, <2>1, Zenon DEF SdEvent
  <2> QED
    BY <1>0, <2>1, <2>2 DEF AboutToComplete
<1>4. CASE CompleteBatchScript
  <2>1. sd_pc = "complete" /\ sd_pc' = "acked"
    BY <1>4, Zenon DEF CompleteBatchScript
  <2> QED
    BY <1>4, <2>1, Zenon DEF AboutToComplete, SdEvent
<1>5. CASE UNCHANGED CycleView
  <2>1. ~SdEvent
    BY <1>5, Zenon DEF CycleView, SdEvent
  <2> QED
    BY <1>5, <2>1, Zenon DEF CycleView, AboutToComplete
<1> QED
  BY <1>0, <1>1, <1>2, <1>3, <1>4, <1>5, CycleChanges, Zenon

\* A launch request is sent when the job starts.
LEMMA LaunchMoves ==
  ASSUME TypeInv, [Next]_vars, NEW j \in Trace, launch'[j].pc \in {"sent", "read"}
  PROVE  Starts(j) \/ launch[j].pc \in {"sent", "read"}
PROOF
<1>0. launch \in [Trace -> [pc : {"none", "sent", "read", "over"}, now : Nat]]
  BY JobTypes, Zenon
<1>1. CASE QuietStep
  BY <1>1, QuietIsQuiet, Zenon DEF jobView
<1>2. CASE MgrSubmit \/ MgrSimJob \/ MgrAdvance
  BY <1>2, ManagerFrame, Zenon
<1>3. ASSUME NEW k \in Trace, LaunchRead(k)  PROVE launch[j].pc \in {"sent", "read"}
  <2>1. launch[k].pc = "sent" /\ \E r : launch' = [launch EXCEPT ![k] = r]
    BY <1>3, Zenon DEF LaunchRead
  <2> QED
    BY <1>0, <2>1
<1>4. ASSUME NEW k \in Trace, LaunchInsert(k)  PROVE launch[j].pc \in {"sent", "read"}
  <2>1. launch[k].pc = "read" /\ launch' = [launch EXCEPT ![k].pc = "over"]
    BY <1>4, Zenon DEF LaunchInsert
  <2> QED
    BY <1>0, <2>1
<1>5. CASE CompleteBatchScript \/ JobTimeLimit
  BY <1>5, LimitFrame, Zenon DEF CompleteBatchScript
<1>6. ASSUME NEW k \in Trace, NEW o \in Origins, EpilogNote(k, o)
      PROVE  launch[j].pc \in {"sent", "read"}
  BY <1>6, Zenon DEF EpilogNote, msgVars
<1>7. ASSUME NEW k \in Trace, Starts(k)  PROVE Starts(j) \/ launch[j].pc \in {"sent", "read"}
  <2>1. launch' = [launch EXCEPT ![k].pc = "sent"]
    BY <1>7, StartFrame, Zenon
  <2>2. k # j => launch'[j] = launch[j]
    BY <1>0, <2>1
  <2> QED
    BY <1>7, <2>2, Zenon
<1> QED
  BY <1>1, <1>2, <1>3, <1>4, <1>5, <1>6, <1>7, StepKinds, Zenon

\* A running job stops running by its completion or its limit.
LEMMA StopsRunning ==
  ASSUME BaseInv, [Next]_vars, NEW j \in Trace, job_state[j] = "RUNNING",
         job_state'[j] # "RUNNING"
  PROVE  (CompleteBatchScript /\ j = current_event) \/ j \in kill_msg'
PROOF
<1>0. TypeInv /\ JobsInv /\ EventsInv /\ job_state \in [Trace -> JobStates]
  BY JobTypes, Zenon DEF BaseInv
<1>1. ~QuietStep
  BY QuietIsQuiet, Zenon DEF jobView
<1>2. ~MgrSubmit
  <2> SUFFICES ASSUME MgrSubmit  PROVE FALSE
    OBVIOUS
  <2>1. trace_head # j
    BY <1>0 DEF JobsInv, JobInv, TypeInv, TypeOK, MgrTypeOK, Trace
  <2> QED
    BY <1>0, <2>1 DEF MgrSubmit
<1>3. ~MgrSimJob /\ ~MgrAdvance
  BY Zenon DEF MgrSimJob, MgrAdvance, jobVars
<1>4. ASSUME NEW k \in Trace, LaunchRead(k) \/ LaunchInsert(k)  PROVE FALSE
  BY <1>4, LaunchFrame, Zenon
<1>5. ASSUME NEW k \in Trace, NEW o \in Origins, EpilogNote(k, o)  PROVE FALSE
  BY <1>0, <1>5 DEF EpilogNote, EpilogEndsJob, Completing
<1>6. ASSUME NEW k \in Trace, Starts(k)  PROVE FALSE
  BY <1>0, <1>6, StartFrame
<1>7. CASE CompleteBatchScript
  BY <1>0, <1>7, CompleteEffect, Zenon
<1>8. CASE JobTimeLimit
  BY <1>8 DEF JobTimeLimit
<1> QED
  BY <1>1, <1>2, <1>3, <1>4, <1>5, <1>6, <1>7, <1>8, StepKinds, Zenon

\* Every step keeps SentInv, as long as no job is killed and no kill is lost.
LEMMA SentInductive ==
  ASSUME InsertFact, BaseInv, [Next]_vars, NEW j \in Trace, MessageInv(j), SentInv(j),
         kill_msg' = {}, lost = 0, lost' = 0
  PROVE  SentInv(j)'
PROOF
<1>0. /\ TypeInv /\ JobsInv /\ EventsInv /\ TermMove(j) /\ ~LoseKill(j)
      /\ job_state \in [Trace -> JobStates]
      /\ term \in [Trace -> {"none", "sent", "epilog"}]
  <2>1. ~LoseKill(j)
    BY SMTT(30) DEF LoseKill
  <2> QED
    BY <2>1, TermMoves, JobTypes, ListTypes, Zenon DEF BaseInv
<1>1. ASSUME j \in completed'  PROVE term'[j] = "sent" \/ AboutToComplete(j)'
  <2>1. CASE j \notin completed
    BY <1>0, <1>1, <2>1, CompletedMoves, CompleteMoves, Zenon
  <2>2. CASE j \in completed /\ term[j] = "sent"
    <3>1. ~TermLookup(j)
      BY <1>1, Zenon DEF TermLookup
    <3> QED
      BY <1>0, <2>2, <3>1, Zenon DEF TermMove
  <2>3. CASE AboutToComplete(j)
    <3>1. CASE CompleteBatchScript
      <4>1. job_state[j] = "RUNNING" /\ term[j] = "none" /\ j = current_event
        BY <2>3, Zenon DEF SentInv, MessageInv, AboutToComplete
      <4>2. term' = SendTerminate(term, {j})
        BY <3>1, <4>1, Zenon DEF CompleteBatchScript, IsJobFinished, Completing, Ended
      <4> QED
        BY <1>0, <4>1, <4>2 DEF SendTerminate
    <3> QED
      BY <2>3, <3>1, CompleteMoves, Zenon
  <2> QED
    BY <2>1, <2>2, <2>3, Zenon DEF SentInv
<1>2. ASSUME HasEvent(j)' \/ launch'[j].pc \in {"sent", "read"} \/ AboutToComplete(j)'
      PROVE  job_state'[j] = "RUNNING"
  <2>1. CASE Starts(j)
    BY <1>0, <2>1, StartFrame, SMTT(30)
  <2>2. CASE ~Starts(j)
    <3>1. HasEvent(j) \/ launch[j].pc \in {"sent", "read"} \/ AboutToComplete(j)
      <4>1. LaunchInsert(j) => launch[j].pc = "read"
        BY Zenon DEF LaunchInsert
      <4> QED
        BY <1>0, <1>2, <2>2, <4>1, EventMoves, LaunchMoves, CompleteMoves, Zenon
    <3>2. job_state[j] = "RUNNING"
      BY <3>1, Zenon DEF SentInv
    <3>3. ~(CompleteBatchScript /\ j = current_event)
      <4> SUFFICES ASSUME CompleteBatchScript, j = current_event  PROVE FALSE
        OBVIOUS
      <4>1. /\ sd_pc = "complete" /\ sd_pc' = "acked" /\ UNCHANGED <<events, launch>>
        BY Zenon DEF CompleteBatchScript, listVars
      <4>2. j \in completed /\ launch[j].pc = "over"
        BY <1>0, <4>1, CompletedWasLaunched, Zenon
      <4>3. ~HasEvent(j)
        BY <1>0, <4>2, Zenon DEF EventsInv, EventInv, HasEvent
      <4>4. ~HasEvent(j)'
        BY <4>1, <4>3, Zenon DEF HasEvent
      <4> QED
        BY <1>2, <4>1, <4>2, <4>4, Zenon DEF AboutToComplete
    <3> QED
      BY <3>2, <3>3, StopsRunning, Zenon
  <2> QED
    BY <2>1, <2>2, Zenon
<1> QED
  BY <1>1, <1>2, Zenon DEF SentInv
=============================================================================
