--------------------------- MODULE ProtocolProofs ---------------------------
(***************************************************************************)
(* Proofs about the three smaller protocols of the simulator: the start of *)
(* the processes (Startup), the handshake of the helper-cycle handler with *)
(* the threads of the plugins (PluginSync) and the rate limit of           *)
(* schedule() (SchedGate).  Each holds for every value of its own          *)
(* constants.                                                              *)
(***************************************************************************)
EXTENDS Startup, PluginSync, SchedGate, TLAPS

-----------------------------------------------------------------------------
(* Startup: for every length of the trace and every content an earlier run *)
(* may have left in the shared segment.                                    *)

(* Type correctness: the words of the shared segment and the copies the     *)
(* daemons take of them stay counts, or the end mark -1.                    *)
THEOREM StartupTypeCorrect == StartupSpec => []StartupTypeOK
<1>1. StartupInit => StartupTypeOK
  <2> SUFFICES ASSUME StartupInit PROVE StartupTypeOK
    OBVIOUS
  <2>1. launch_daemons \in BOOLEAN
    BY DEF StartupInit
  <2>2. trace_recs_end_sim \in Nat \cup {-1}
    <3>1. CASE trace_recs_end_sim = 0
      BY <3>1
    <3>2. CASE trace_recs_end_sim \in LeftRecs
      BY <3>2, StartupAssumption, Zenon
    <3> QED BY <3>1, <3>2 DEF StartupInit
  <2>3. sd_load \in Nat /\ total_log_jobs \in Nat /\ slurmd_registered \in Nat
    BY DEF StartupInit
  <2>4. mgr \in MgrStates /\ ctl \in CtlStates /\ sd \in SdStates
    BY DEF StartupInit, MgrStates, CtlStates, SdStates
  <2> QED BY <2>1, <2>2, <2>3, <2>4 DEF StartupTypeOK
<1>2. StartupTypeOK /\ [StartupNext]_startupVars => StartupTypeOK'
  <2> SUFFICES ASSUME StartupTypeOK, [StartupNext]_startupVars PROVE StartupTypeOK'
    OBVIOUS
  <2> USE DEF StartupTypeOK, MgrStates, CtlStates, SdStates
  <2>1. CASE Manager
    BY <2>1, StartupAssumption
    DEF Manager, InitJobTrace, ForkSlurmctld, ForkSlurmd, WaitSlurmctld,
        WaitSlurmd, ClearSegment, WaitRegistered
  <2>2. CASE Slurmctld
    BY <2>2 DEF Slurmctld, CtlReadTotal, CtlUp, CtlBackground
  <2>3. CASE Slurmd
    BY <2>3 DEF Slurmd, SdDaemon, SdRegister, SdNotifyLoad, SdNotifyStore
  <2>4. CASE User
    BY <2>4 DEF User, UserStartsSlurmctld, UserStartsSlurmd
  <2>5. CASE UNCHANGED startupVars
    BY <2>5 DEF startupVars
  <2> QED BY <2>1, <2>2, <2>3, <2>4, <2>5 DEF StartupNext
<1> QED BY <1>1, <1>2, PTL DEF StartupSpec

-----------------------------------------------------------------------------
(* With -f the segment holds the record count for as long as slurmctld may  *)
(* still read it: sim_mgr forks slurmctld after writing the count, and does *)
(* not clear the segment before slurmctld's main has taken its copy.        *)
CopyInv ==
  launch_daemons =>
    /\ mgr \in {"init_trace", "fork_ctl"} => ctl = "none"
    /\ mgr \in {"fork_ctl", "fork_sd", "wait_ctl"}
         => trace_recs_end_sim = NJobs
    /\ mgr \in {"wait_sd", "time_mgr", "wait_reg", "main_loop"} => ctl = "up"
    /\ ctl \in {"read", "up"} => total_log_jobs = NJobs
    /\ mgr \in {"wait_reg", "main_loop"} => trace_recs_end_sim # -1

(* Started by sim_mgr -f, slurmctld waits for exactly the jobs of the       *)
(* trace, and the simulation is not declared ended before it begins:        *)
(* whatever the processes' speeds and whatever the segment held before.     *)
THEOREM ForkedLogIsWhole == StartupSpec => []ForkedLogExpected
<1>1. StartupInit => CopyInv
  BY DEF StartupInit, CopyInv
<1>2. StartupTypeOK /\ CopyInv /\ [StartupNext]_startupVars => CopyInv'
  <2> SUFFICES ASSUME StartupTypeOK, CopyInv, [StartupNext]_startupVars PROVE CopyInv'
    OBVIOUS
  <2> USE DEF StartupTypeOK, CopyInv, MgrStates, CtlStates
  <2>0. NJobs \in Nat \ {0}
    BY StartupAssumption
  <2>1. CASE Manager
    <3>1. CASE InitJobTrace
      BY <3>1 DEF InitJobTrace
    <3>2. CASE ForkSlurmctld
      BY <3>2 DEF ForkSlurmctld
    <3>3. CASE ForkSlurmd
      BY <3>3 DEF ForkSlurmd
    <3>4. CASE WaitSlurmctld
      BY <3>4 DEF WaitSlurmctld, SlurmctldDetached
    <3>5. CASE WaitSlurmd
      BY <3>5 DEF WaitSlurmd
    <3>6. CASE ClearSegment
      BY <3>6 DEF ClearSegment
    <3>7. CASE WaitRegistered
      BY <3>7 DEF WaitRegistered
    <3> QED BY <2>1, <3>1, <3>2, <3>3, <3>4, <3>5, <3>6, <3>7 DEF Manager
  <2>2. CASE Slurmctld
    <3>1. CASE CtlReadTotal
      BY <3>1 DEF CtlReadTotal
    <3>2. CASE CtlUp
      BY <3>2 DEF CtlUp
    <3>3. CASE CtlBackground
      BY <2>0, <3>3 DEF CtlBackground
    <3> QED BY <2>2, <3>1, <3>2, <3>3 DEF Slurmctld
  <2>3. CASE Slurmd
    BY <2>3, Zenon DEF Slurmd, SdDaemon, SdRegister, SdNotifyLoad, SdNotifyStore
  <2>4. CASE User
    BY <2>4, Zenon DEF User, UserStartsSlurmctld, UserStartsSlurmd
  <2>5. CASE UNCHANGED startupVars
    BY <2>5 DEF startupVars
  <2> QED BY <2>1, <2>2, <2>3, <2>4, <2>5 DEF StartupNext
<1>3. StartupTypeOK /\ CopyInv => ForkedLogExpected
  BY DEF CopyInv, ForkedLogExpected, WholeLogExpected
<1> QED BY <1>1, <1>2, <1>3, StartupTypeCorrect, PTL DEF StartupSpec

-----------------------------------------------------------------------------
(* Once the segment is cleared, a count of registered slurmds comes from    *)
(* the slurmd of this run.                                                  *)
CountInv ==
  /\ sd \in {"notify", "loaded", "registered"} => ctl = "up"
  /\ mgr \in {"init_trace", "fork_ctl"} /\ launch_daemons => sd = "none"
  /\ mgr = "fork_sd" => sd = "none"
  /\ mgr \in {"fork_ctl", "fork_sd", "wait_ctl", "wait_sd"} => launch_daemons
  /\ mgr \in {"wait_reg", "main_loop"} /\ slurmd_registered >= 1
       => sd = "registered"
  /\ mgr = "main_loop" => slurmd_registered >= 1
  /\ mgr \in {"init_trace", "fork_ctl"} /\ launch_daemons => ctl = "none"

(* time_mgr enters its main loop only with both daemons of this run up: a   *)
(* registration an earlier run left in the segment never lets it through.   *)
THEOREM MainLoopWaitsForDaemons == StartupSpec => []MainLoopHasDaemons
<1>1. StartupInit => CountInv
  BY DEF StartupInit, CountInv
<1>2. StartupTypeOK /\ CountInv /\ [StartupNext]_startupVars => CountInv'
  <2> SUFFICES ASSUME StartupTypeOK, CountInv, [StartupNext]_startupVars PROVE CountInv'
    OBVIOUS
  <2> USE DEF StartupTypeOK, CountInv, MgrStates, CtlStates, SdStates
  <2>1. CASE Manager
    <3>1. CASE InitJobTrace
      BY <3>1 DEF InitJobTrace
    <3>2. CASE ForkSlurmctld
      BY <3>2 DEF ForkSlurmctld
    <3>3. CASE ForkSlurmd
      BY <3>3 DEF ForkSlurmd
    <3>4. CASE WaitSlurmctld
      BY <3>4 DEF WaitSlurmctld
    <3>5. CASE WaitSlurmd
      BY <3>5 DEF WaitSlurmd
    <3>6. CASE ClearSegment
      BY <3>6 DEF ClearSegment
    <3>7. CASE WaitRegistered
      BY <3>7 DEF WaitRegistered
    <3> QED BY <2>1, <3>1, <3>2, <3>3, <3>4, <3>5, <3>6, <3>7 DEF Manager
  <2>2. CASE Slurmctld
    BY <2>2 DEF Slurmctld, CtlReadTotal, CtlUp, CtlBackground
  <2>3. CASE Slurmd
    <3>1. CASE SdDaemon
      BY <3>1 DEF SdDaemon
    <3>2. CASE SdRegister
      BY <3>2 DEF SdRegister
    <3>3. CASE SdNotifyLoad
      BY <3>3 DEF SdNotifyLoad
    <3>4. CASE SdNotifyStore
      BY <3>4 DEF SdNotifyStore
    <3> QED BY <2>3, <3>1, <3>2, <3>3, <3>4 DEF Slurmd
  <2>4. CASE User
    BY <2>4 DEF User, UserStartsSlurmctld, UserStartsSlurmd
  <2>5. CASE UNCHANGED startupVars
    BY <2>5 DEF startupVars
  <2> QED BY <2>1, <2>2, <2>3, <2>4, <2>5 DEF StartupNext
<1>3. CountInv => MainLoopHasDaemons
  BY DEF CountInv, MainLoopHasDaemons
<1> QED BY <1>1, <1>2, <1>3, StartupTypeCorrect, PTL DEF StartupSpec

-----------------------------------------------------------------------------
(* PluginSync: for every interval and every bound on the clock.            *)

(* What sem_post and sem_wait do to the table of semaphores.                *)
LEMMA SemPostEffect ==
  ASSUME sem \in [SemNames -> Nat], NEW s \in SemNames, SemPost(s)
  PROVE  /\ sem' \in [SemNames -> Nat]
         /\ sem'[s] = sem[s] + 1
         /\ \A r \in SemNames \ {s} : sem'[r] = sem[r]
  BY DEF SemPost

(* sem_wait returns only from a positive count.                             *)
LEMMA SemWaitEffect ==
  ASSUME sem \in [SemNames -> Nat], NEW s \in SemNames, SemWait(s)
  PROVE  /\ sem' \in [SemNames -> Nat]
         /\ sem[s] > 0
         /\ sem'[s] = sem[s] - 1
         /\ \A r \in SemNames \ {s} : sem'[r] = sem[r]
  BY DEF SemWait

(* The names of the semaphores; the decay thread answers on the one of the  *)
(* backfill agent.                                                          *)
LEMMA Names ==
  /\ "bf_sem" \in SemNames /\ "bf_done_sem" \in SemNames /\ "mf_sem" \in SemNames
  /\ MF_DONE_SEM_NAME = "bf_done_sem"
  BY DEF SemNames, MF_DONE_SEM_NAME

(* Type correctness: no semaphore of the handshake ever counts below zero.  *)
THEOREM PluginTypeCorrect == SyncSpec => []SyncTypeOK
<1>1. SyncInit => SyncTypeOK
  BY DEF SyncInit, SyncTypeOK, DecayThread
<1>2. SyncTypeOK /\ [SyncNext]_syncVars => SyncTypeOK'
  <2> SUFFICES ASSUME SyncTypeOK, [SyncNext]_syncVars PROVE SyncTypeOK'
    OBVIOUS
  <2>1. CASE Handler
    <3>1. sem' \in [SemNames -> Nat]
      BY <2>1, Names, SemPostEffect, SemWaitEffect
      DEF SyncTypeOK, Handler, PluginInit, NextCycle, UnlockDecay, DecayReturns,
          DoBackfill, BackfillReturns
    <3> QED
      BY <2>1, <3>1, PluginAssumption
      DEF SyncTypeOK, Handler, PluginInit, NextCycle, AdvanceClock, UnlockDecay,
          DecayReturns, DoBackfill, BackfillReturns, timeVars
  <2>2. CASE BackfillAgent
    <3>1. sem' \in [SemNames -> Nat]
      BY <2>2, Names, SemPostEffect, SemWaitEffect
      DEF SyncTypeOK, BackfillAgent, AgentWake, AgentSkip, AgentStart, AgentFinish,
          AgentPost
    <3> QED
      BY <2>2, <3>1
      DEF SyncTypeOK, BackfillAgent, AgentWake, AgentSkip, AgentStart, AgentFinish,
          AgentPost, timeVars
  <2>3. CASE Decay
    <3>1. sem' \in [SemNames -> Nat]
      BY <2>3, Names, SemPostEffect, SemWaitEffect
      DEF SyncTypeOK, Decay, DecayCompute, DecayWake
    <3> QED
      BY <2>3, <3>1 DEF SyncTypeOK, Decay, DecayCompute, DecayWake, timeVars
  <2>4. CASE Kill
    BY <2>4 DEF SyncTypeOK, Kill, DecayThread
  <2>5. CASE UNCHANGED syncVars
    BY <2>5 DEF SyncTypeOK, syncVars
  <2> QED BY <2>1, <2>2, <2>3, <2>4, <2>5 DEF SyncNext
<1> QED BY <1>1, <1>2, PTL DEF SyncSpec

-----------------------------------------------------------------------------
(* The posts between the handler, the agent and the decay thread are        *)
(* conserved by every step, also when one thread's answer ends the wait for *)
(* the other's, and a kill adds at most one: whoever waits on bf_done_sem   *)
(* is always owed a post.                                                   *)
THEOREM PostsStayBalanced == SyncSpec => []PostsBalanced
<1>1. SyncInit => PostsBalanced
  BY Names DEF SyncInit, DecayThread, PostsBalanced, Tokens, Waiting, Awaiting
<1>2. SyncTypeOK /\ PostsBalanced /\ [SyncNext]_syncVars => PostsBalanced'
  <2> SUFFICES ASSUME SyncTypeOK, PostsBalanced, [SyncNext]_syncVars
               PROVE  PostsBalanced'
    OBVIOUS
  <2>0. /\ sem \in [SemNames -> Nat] /\ kills \in Nat
        /\ sem["bf_sem"] \in Nat /\ sem["bf_done_sem"] \in Nat
        /\ sem["mf_sem"] \in Nat
    BY Names DEF SyncTypeOK
  <2> USE <2>0, Names DEF PostsBalanced, Tokens, Waiting, Awaiting
  <2>1. CASE Handler
    <3>1. CASE PluginInit
      BY <3>1, SemWaitEffect DEF PluginInit
    <3>2. CASE NextCycle
      BY <3>2 DEF NextCycle
    <3>3. CASE UnlockDecay
      BY <3>3, SemPostEffect DEF UnlockDecay, MultifactorDue
    <3>4. CASE DecayReturns
      BY <3>4, SemWaitEffect DEF DecayReturns
    <3>5. CASE DoBackfill
      BY <3>5, SemPostEffect DEF DoBackfill
    <3>6. CASE BackfillReturns
      BY <3>6, SemWaitEffect DEF BackfillReturns
    <3> QED BY <2>1, <3>1, <3>2, <3>3, <3>4, <3>5, <3>6 DEF Handler
  <2>2. CASE BackfillAgent
    <3>1. CASE AgentWake
      BY <3>1, SemWaitEffect DEF AgentWake
    <3>2. CASE AgentSkip
      BY <3>2 DEF AgentSkip
    <3>3. CASE AgentStart
      BY <3>3 DEF AgentStart
    <3>4. CASE AgentFinish
      BY <3>4 DEF AgentFinish
    <3>5. CASE AgentPost
      BY <3>5, SemPostEffect DEF AgentPost
    <3> QED BY <2>2, <3>1, <3>2, <3>3, <3>4, <3>5 DEF BackfillAgent
  <2>3. CASE Decay
    <3>1. CASE DecayCompute
      BY <3>1, SemPostEffect DEF DecayCompute
    <3>2. CASE DecayWake
      BY <3>2, SemWaitEffect DEF DecayWake
    <3> QED BY <2>3, <3>1, <3>2 DEF Decay
  <2>4. CASE Kill
    BY <2>4 DEF Kill, DecayThread
  <2>5. CASE UNCHANGED syncVars
    BY <2>5 DEF syncVars
  <2> QED BY <2>1, <2>2, <2>3, <2>4, <2>5 DEF SyncNext
<1> QED BY <1>1, <1>2, PluginTypeCorrect, PTL DEF SyncSpec

-----------------------------------------------------------------------------
(* A slurmctld that starts with fresh semaphores has not been killed.       *)
LEMMA NeverKilled ==
  ASSUME MaxKills = 0
  PROVE  SyncSpec => [](kills = 0)
<1>1. SyncInit => kills = 0
  BY DEF SyncInit
<1>2. kills = 0 /\ [SyncNext]_syncVars => (kills = 0)'
  BY DEF SyncNext, syncVars, Handler, PluginInit, NextCycle, UnlockDecay,
         DecayReturns, DoBackfill, BackfillReturns, BackfillAgent, AgentWake,
         AgentSkip, AgentStart, AgentFinish, AgentPost, Decay, DecayCompute,
         DecayWake, Kill
<1> QED BY <1>1, <1>2, PTL DEF SyncSpec

(* Each thread works only while the handler waits for that thread.          *)
PostsOwned ==
  /\ handler # "bf_wait" => agent = "wait" /\ sem["bf_sem"] = 0
  /\ handler # "mf_wait" /\ handler # "init" =>
       decay # "decay" /\ sem["mf_sem"] = 0

(* Balanced posts and no kill: with the one post on its way the handler     *)
(* waits for one thread, and the other thread does nothing.                 *)
LEMMA OnePost ==
  ASSUME SyncTypeOK, PostsBalanced, kills = 0
  PROVE  /\ sem["bf_done_sem"] > 0 => /\ agent = "wait" /\ sem["bf_sem"] = 0
                                     /\ decay # "decay" /\ sem["mf_sem"] = 0
         /\ agent # "wait" => sem["bf_sem"] = 0 /\ sem["bf_done_sem"] = 0
         /\ sem["bf_sem"] > 0 => sem["bf_done_sem"] = 0
         /\ ~Awaiting => /\ agent = "wait" /\ sem["bf_sem"] = 0
                         /\ decay # "decay" /\ sem["mf_sem"] = 0
                         /\ sem["bf_done_sem"] = 0
<1>1. sem["bf_sem"] \in Nat /\ sem["bf_done_sem"] \in Nat /\ sem["mf_sem"] \in Nat
  BY Names DEF SyncTypeOK
<1> QED BY <1>1 DEF PostsBalanced, Tokens, Waiting

(* With fresh semaphores no thread takes the other's answer for its own,    *)
(* although both answer on bf_done_sem.                                     *)
LEMMA PostsStayOwned ==
  ASSUME MaxKills = 0
  PROVE  SyncSpec => []PostsOwned
<1>1. SyncInit => PostsOwned
  BY Names DEF SyncInit, PostsOwned
<1>2. SyncTypeOK /\ PostsBalanced /\ kills = 0 /\ PostsOwned /\ [SyncNext]_syncVars
        => PostsOwned'
  <2> SUFFICES ASSUME SyncTypeOK, PostsBalanced, kills = 0, PostsOwned,
                      [SyncNext]_syncVars
               PROVE  PostsOwned'
    OBVIOUS
  <2>0. /\ sem \in [SemNames -> Nat] /\ sem["bf_sem"] \in Nat
        /\ sem["bf_done_sem"] \in Nat /\ sem["mf_sem"] \in Nat
    BY Names DEF SyncTypeOK
  <2>w. /\ sem["bf_done_sem"] > 0 => /\ agent = "wait" /\ sem["bf_sem"] = 0
                                    /\ decay # "decay" /\ sem["mf_sem"] = 0
        /\ ~Awaiting => decay # "decay" /\ sem["mf_sem"] = 0
    BY OnePost
  <2> USE <2>0, Names DEF PostsOwned
  <2>1. CASE PluginInit
    BY <2>1, <2>w, SemWaitEffect DEF PluginInit, Awaiting
  <2>2. CASE NextCycle
    BY <2>2 DEF NextCycle
  <2>3. CASE UnlockDecay
    BY <2>3, SemPostEffect DEF UnlockDecay
  <2>4. CASE DecayReturns
    BY <2>4, <2>w, SemWaitEffect DEF DecayReturns
  <2>5. CASE DoBackfill
    BY <2>5, SemPostEffect DEF DoBackfill
  <2>6. CASE BackfillReturns
    BY <2>6, <2>w, SemWaitEffect DEF BackfillReturns
  <2>7. CASE AgentWake
    BY <2>7, SemWaitEffect DEF AgentWake
  <2>8. CASE AgentSkip \/ AgentStart \/ AgentFinish
    BY <2>8 DEF AgentSkip, AgentStart, AgentFinish
  <2>9. CASE AgentPost
    BY <2>9, SemPostEffect DEF AgentPost
  <2>10. CASE DecayCompute
    BY <2>10, SemPostEffect DEF DecayCompute
  <2>11. CASE DecayWake
    BY <2>11, SemWaitEffect DEF DecayWake
  <2>12. CASE Kill
    BY <2>12 DEF Kill
  <2>13. CASE UNCHANGED syncVars
    BY <2>13 DEF syncVars
  <2> QED
    BY <2>1, <2>2, <2>3, <2>4, <2>5, <2>6, <2>7, <2>8, <2>9, <2>10, <2>11,
       <2>12, <2>13
    DEF SyncNext, Handler, BackfillAgent, Decay
<1> QED
  BY <1>1, <1>2, PluginTypeCorrect, PostsStayBalanced, NeverKilled, PTL DEF SyncSpec

(* With fresh semaphores the clock stands still while the agent works.      *)
THEOREM ClockStops ==
  ASSUME MaxKills = 0
  PROVE  SyncSpec => ClockStopsForBackfill
<1>1. SyncTypeOK /\ PostsOwned /\ [SyncNext]_syncVars
        => [agent # "wait" /\ kills' = kills => current_sim' = current_sim]_syncVars
  <2> SUFFICES ASSUME SyncTypeOK, PostsOwned, SyncNext,
                      agent # "wait", kills' = kills
               PROVE  current_sim' = current_sim
    BY DEF syncVars
  <2>1. handler = "bf_wait"
    BY DEF PostsOwned
  <2>2. ~NextCycle
    BY <2>1 DEF NextCycle
  <2>3. ~Kill
    BY DEF Kill, SyncTypeOK
  <2> QED
    BY <2>2, <2>3
    DEF SyncNext, Handler, PluginInit, UnlockDecay, DecayReturns, DoBackfill,
        BackfillReturns, BackfillAgent, AgentWake, AgentSkip, AgentStart,
        AgentFinish, AgentPost, Decay, DecayCompute, DecayWake
<1> QED
  BY <1>1, PluginTypeCorrect, PostsStayOwned, PTL
  DEF SyncSpec, ClockStopsForBackfill

-----------------------------------------------------------------------------
(* With fresh semaphores do_backfill is the synchronous call of SyncCall:   *)
(* the agent makes exactly one pass for each call, between call and return. *)
THEOREM BackfillRefinesSyncCall ==
  ASSUME MaxKills = 0
  PROVE  SyncSpec => BackfillIsSynchronous
<1>1. SyncInit => BackfillCall!Init
  BY Zenon DEF SyncInit, BackfillCall!Init, CallPhase
<1>2. SyncTypeOK /\ PostsBalanced /\ kills = 0 /\ PostsOwned /\ [SyncNext]_syncVars
        => [BackfillCall!Next]_CallPhase
  <2> SUFFICES ASSUME SyncTypeOK, PostsBalanced, kills = 0, PostsOwned,
                      [SyncNext]_syncVars
               PROVE  BackfillCall!Next \/ CallPhase' = CallPhase
    OBVIOUS
  <2>0. /\ sem \in [SemNames -> Nat]
        /\ sem["bf_sem"] \in Nat /\ sem["bf_done_sem"] \in Nat
    BY Names DEF SyncTypeOK
  <2>w. /\ agent # "wait" => handler = "bf_wait" /\ sem["bf_done_sem"] = 0
        /\ handler = "backfill" => agent = "wait" /\ sem["bf_done_sem"] = 0
        /\ handler # "bf_wait" => agent = "wait" /\ sem["bf_sem"] = 0
        /\ handler = "bf_wait" => decay # "decay" /\ sem["mf_sem"] = 0
        /\ sem["bf_sem"] > 0 => sem["bf_done_sem"] = 0
        /\ sem["bf_done_sem"] > 0 => agent = "wait" /\ sem["bf_sem"] = 0
    BY <2>0, OnePost DEF PostsOwned, Awaiting
  <2> USE DEF BackfillCall!Next, BackfillCall!Call, BackfillCall!Serve, BackfillCall!Finish, BackfillCall!Return,
              CallPhase
  <2>1. CASE PluginInit
    BY <2>1 DEF PluginInit
  <2>2. CASE NextCycle
    BY <2>2 DEF NextCycle
  <2>3. CASE UnlockDecay
    BY <2>3 DEF UnlockDecay
  <2>4. CASE DecayReturns
    BY <2>4, Zenon DEF DecayReturns
  <2>5. CASE DoBackfill
    <3>1. CASE BackfillDue
      <4>1. sem'["bf_done_sem"] = 0
        BY <2>0, <2>5, <2>w, <3>1, Names, SemPostEffect DEF DoBackfill
      <4> QED BY <2>5, <2>w, <3>1, <4>1 DEF DoBackfill
    <3>2. CASE ~BackfillDue
      BY <2>5, <3>2 DEF DoBackfill
    <3> QED BY <3>1, <3>2
  <2>6. CASE BackfillReturns
    <3>1. sem["bf_done_sem"] > 0
      BY <2>0, <2>6, Names, SemWaitEffect DEF BackfillReturns
    <3> QED BY <2>6, <2>w, <3>1 DEF BackfillReturns
  <2>7. CASE AgentWake
    <3>1. sem["bf_sem"] > 0
      BY <2>0, <2>7, Names, SemWaitEffect DEF AgentWake
    <3> QED BY <2>7, <2>w, <3>1 DEF AgentWake
  <2>8. CASE AgentSkip \/ AgentStart \/ AgentFinish
    BY <2>8 DEF AgentSkip, AgentStart, AgentFinish
  <2>9. CASE AgentPost
    <3>1. sem'["bf_done_sem"] > 0
      BY <2>0, <2>9, Names, SemPostEffect DEF AgentPost
    <3> QED BY <2>9, <2>w, <3>1 DEF AgentPost
  <2>10. CASE Decay
    <3>1. handler # "bf_wait"
      BY <2>0, <2>w, <2>10, Names, SemWaitEffect DEF Decay, DecayCompute, DecayWake
    <3> QED BY <2>10, <3>1 DEF Decay, DecayCompute, DecayWake
  <2>11. CASE Kill
    BY <2>11 DEF Kill
  <2>12. CASE UNCHANGED syncVars
    BY <2>12 DEF syncVars
  <2> QED
    BY <2>1, <2>2, <2>3, <2>4, <2>5, <2>6, <2>7, <2>8, <2>9, <2>10, <2>11,
       <2>12, Zenon DEF SyncNext, Handler, BackfillAgent

<1> QED
  BY <1>1, <1>2, PluginTypeCorrect, PostsStayBalanced, NeverKilled, PostsStayOwned,
     PTL
  DEF SyncSpec, BackfillIsSynchronous, BackfillCall!Spec

-----------------------------------------------------------------------------
(* The agent's time of its last pass never passes the time at which the     *)
(* helper saw it end, and from the unlock to the agent's test the interval  *)
(* the helper has waited for still lies behind the clock.                   *)
TimesInv ==
  /\ last_backfill_time <= current_sim /\ last_helper_backfill_time <= current_sim
  /\ handler # "bf_wait" => last_backfill_time <= last_helper_backfill_time
  /\ /\ handler = "bf_wait"
     /\ last_helper_backfill_time # 0
     /\ agent = "woken" \/ agent = "pass" \/ sem["bf_sem"] > 0
     => /\ last_backfill_time <= last_helper_backfill_time
        /\ current_sim - last_helper_backfill_time > BackfillInterval

(* With fresh semaphores every unlock but the first finds the agent ready   *)
(* for a pass: helper and agent measure the same interval.                  *)
THEOREM UnlocksAreTimely ==
  ASSUME MaxKills = 0
  PROVE  SyncSpec => []UnlockIsTimely
<1>1. SyncInit => TimesInv
  <2> SUFFICES ASSUME SyncInit PROVE TimesInv
    OBVIOUS
  <2>1. /\ handler = "init" /\ current_sim = 1
        /\ last_backfill_time = 0 /\ last_helper_backfill_time = 0
    BY Zenon DEF SyncInit
  <2> QED
    BY <2>1 DEF TimesInv
<1>2. SyncTypeOK /\ PostsBalanced /\ kills = 0 /\ PostsOwned /\ TimesInv
      /\ [SyncNext]_syncVars => TimesInv'
  <2> SUFFICES ASSUME SyncTypeOK, PostsBalanced, kills = 0, PostsOwned, TimesInv,
                      [SyncNext]_syncVars
               PROVE  TimesInv'
    OBVIOUS
  <2>0. /\ sem \in [SemNames -> Nat] /\ sem["bf_sem"] \in Nat
        /\ current_sim \in Nat /\ last_backfill_time \in Nat
        /\ last_helper_backfill_time \in Nat /\ BackfillInterval \in Nat
    BY Names, PluginAssumption DEF SyncTypeOK
  <2>w. /\ agent # "wait" => handler = "bf_wait" /\ sem["bf_sem"] = 0
        /\ agent # "wait" => sem["bf_done_sem"] = 0
        /\ sem["bf_done_sem"] > 0 => agent = "wait" /\ sem["bf_sem"] = 0
        /\ handler # "bf_wait" => sem["bf_sem"] = 0
    BY <2>0, OnePost DEF PostsOwned
  <2> USE <2>0, <2>w, Names DEF TimesInv, timeVars
  <2>1. CASE PluginInit
    BY <2>1, SemWaitEffect DEF PluginInit
  <2>2. CASE NextCycle
    BY <2>2, PluginAssumption DEF NextCycle, AdvanceClock
  <2>3. CASE UnlockDecay
    BY <2>3, SemPostEffect DEF UnlockDecay
  <2>4. CASE DecayReturns
    BY <2>4, SemWaitEffect DEF DecayReturns
  <2>5. CASE DoBackfill
    BY <2>5, SemPostEffect DEF DoBackfill, BackfillDue
  <2>6. CASE BackfillReturns
    BY <2>6, SemWaitEffect DEF BackfillReturns
  <2>7. CASE AgentWake
    BY <2>7, SemWaitEffect DEF AgentWake
  <2>8. CASE AgentSkip \/ AgentStart
    BY <2>8 DEF AgentSkip, AgentStart
  <2>9. CASE AgentFinish
    BY <2>9 DEF AgentFinish
  <2>10. CASE AgentPost
    BY <2>10, SemPostEffect DEF AgentPost
  <2>11. CASE Decay
    BY <2>11, SemPostEffect, SemWaitEffect DEF Decay, DecayCompute, DecayWake
  <2>12. CASE Kill
    BY <2>12 DEF Kill
  <2>13. CASE UNCHANGED syncVars
    BY <2>13 DEF syncVars
  <2> QED
    BY <2>1, <2>2, <2>3, <2>4, <2>5, <2>6, <2>7, <2>8, <2>9, <2>10, <2>11,
       <2>12, <2>13
    DEF SyncNext, Handler, BackfillAgent
<1>3. SyncTypeOK /\ PostsOwned /\ TimesInv => UnlockIsTimely
  <2> SUFFICES ASSUME SyncTypeOK, PostsOwned, TimesInv,
                      agent = "woken", last_helper_backfill_time # 0
               PROVE  ~TooEarly
    BY DEF UnlockIsTimely
  <2>1. handler = "bf_wait"
    BY DEF PostsOwned
  <2> QED BY <2>1, PluginAssumption DEF TimesInv, TooEarly, SyncTypeOK
<1> QED
  BY <1>1, <1>2, <1>3, PluginTypeCorrect, PostsStayBalanced, NeverKilled,
     PostsStayOwned, PTL
  DEF SyncSpec

-----------------------------------------------------------------------------
(* SchedGate: for every number of handlers, interval and wrap of the       *)
(* microsecond counter.                                                    *)

\* Handlers call schedule(0): theirs is never the limited request.
CallersAskForAll == \A c \in Callers : job_limit[c] = 0

\* There is at most one agent: while it exists, the flag that stops another
\* one from being started is set.
OneAgent == pc[Agent] # "idle" => sched_pend_thread = 1

\* The inductive invariant.
GateInv == GateTypeOK /\ CallersAskForAll /\ OneAgent /\ RequestRemembered

\* gettimeofday gives a time, and leaves the counter below its wrap.
LEMMA ClockType ==
  ASSUME GateTypeOK, NEW t \in Threads, GetTimeOfDay(t)
  PROVE  /\ sec' \in Nat /\ micro' \in 0 .. (MicroWrap - 1)
         /\ now' \in [Threads -> [sec : Nat, usec : Nat]]
         /\ now'[t] \in [sec : Nat, usec : Nat]
PROOF
<1>1. MicroWrap \in Nat /\ MicroWrap > 0
  BY SchedGateAssumption
<1>2. micro \in Nat /\ micro \in 0 .. (MicroWrap - 1) /\ sec \in Nat
  BY DEF GateTypeOK
<1>3. (micro + 1) % MicroWrap \in 0 .. (MicroWrap - 1)
  BY <1>1, <1>2
<1>4. micro' \in 0 .. (MicroWrap - 1) /\ sec' \in Nat
  BY <1>2, <1>3 DEF GetTimeOfDay
<1>5. Time(sec, micro') \in [sec : Nat, usec : Nat]
  BY <1>2, <1>4 DEF Time
<1> QED
  BY <1>4, <1>5 DEF GetTimeOfDay, GateTypeOK

\* AddLimit keeps "unlimited", and a request for all makes it so.
LEMMA LimitSums ==
  ASSUME NEW old \in Nat \union {-1}, NEW n \in Nat
  PROVE  /\ AddLimit(old, n) \in Nat
         /\ (old = 0 \/ n = 0) => AddLimit(old, n) = 0
BY DEF AddLimit

\* Types are kept by every step.
LEMMA TypeStep ==
  ASSUME GateTypeOK, [GateNext]_gateVars  PROVE GateTypeOK'
PROOF
<1> USE DEF Threads
<1>1. ASSUME NEW c \in Callers, Call(c)  PROVE GateTypeOK'
  BY <1>1 DEF Call, GateTypeOK, clock, gate
<1>2. ASSUME NEW t \in Threads, ReadClock(t)  PROVE GateTypeOK'
  <2>1. /\ sec' \in Nat /\ micro' \in 0 .. (MicroWrap - 1)
        /\ now' \in [Threads -> [sec : Nat, usec : Nat]]
    BY <1>2, ClockType DEF ReadClock
  <2> QED
    BY <1>2, <2>1 DEF ReadClock, GateTypeOK, gate
<1>3. ASSUME NEW t \in Threads, ReadDelta(t)  PROVE GateTypeOK'
  <2>1. Elapsed(now[t]) \in Int /\ MinInterval \in Int
    <3>1. now[t].sec \in Nat /\ now[t].usec \in Nat /\ sched_last.sec \in Nat
          /\ sched_last.usec \in Nat
      BY DEF GateTypeOK
    <3>2. TicksPerSec \in Nat /\ MinInterval \in Nat
      BY SchedGateAssumption
    <3>3. \A a, b \in Int : a * b \in Int
      OBVIOUS
    <3>4. (now[t].sec - sched_last.sec) * TicksPerSec \in Int
      BY <3>1, <3>2, <3>3
    <3> QED
      BY <3>1, <3>2, <3>4 DEF Elapsed
  <2>2. delta' \in [Threads -> Int]
    BY <1>3, <2>1 DEF ReadDelta, GateTypeOK
  <2> QED
    BY <1>3, <2>2 DEF ReadDelta, GateTypeOK, clock, gate
<1>4. ASSUME NEW t \in Threads, PassNow(t)  PROVE GateTypeOK'
  <2>1. AddLimit(sched_job_limit, job_limit[t]) \in Nat
    BY LimitSums, Zenon DEF GateTypeOK
  <2> QED
    BY <1>4, <2>1 DEF PassNow, GateTypeOK, clock
<1>5. ASSUME NEW t \in Threads, PutOff(t)  PROVE GateTypeOK'
  <2>1. AddLimit(sched_job_limit, job_limit[t]) \in Nat
    BY LimitSums, Zenon DEF GateTypeOK
  <2>2. pc' \in [Threads -> {"idle", "clock", "delta", "mutex", "start", "pass", "poll", "reset"}]
    BY <1>5 DEF PutOff, Returns, GateTypeOK
  <2>3. owed' \subseteq Callers /\ promised' \subseteq owed'
    BY <1>5 DEF PutOff, GateTypeOK
  <2> QED
    BY <1>5, <2>1, <2>2, <2>3 DEF PutOff, GateTypeOK, clock, local
<1>6. ASSUME NEW t \in Threads, PassStart(t)  PROVE GateTypeOK'
  BY <1>6 DEF PassStart, GateTypeOK, clock, gate, local
<1>7. ASSUME NEW t \in Threads, PassEnd(t)  PROVE GateTypeOK'
  <2>1. /\ sec' \in Nat /\ micro' \in 0 .. (MicroWrap - 1)
        /\ now' \in [Threads -> [sec : Nat, usec : Nat]]
        /\ now'[t] \in [sec : Nat, usec : Nat]
    BY <1>7, ClockType DEF PassEnd
  <2> QED
    BY <1>7, <2>1, Zenon DEF PassEnd, GateTypeOK, Returns
<1>8. CASE AgentPoll
  <2>1. /\ sec' \in Nat /\ micro' \in 0 .. (MicroWrap - 1)
        /\ now' \in [Threads -> [sec : Nat, usec : Nat]]
    BY <1>8, ClockType, Zenon DEF AgentPoll
  <2> QED
    BY <1>8, <2>1 DEF AgentPoll, GateTypeOK, gate
<1>9. CASE AgentReset
  BY <1>9 DEF AgentReset, GateTypeOK, clock, local
<1>10. CASE Advance
  BY <1>10 DEF Advance, GateTypeOK, gate, local
<1>11. CASE UNCHANGED gateVars
  BY <1>11 DEF gateVars, GateTypeOK
<1> QED
  BY <1>1, <1>2, <1>3, <1>4, <1>5, <1>6, <1>7, <1>8, <1>9, <1>10, <1>11
  DEF GateNext, InSchedule, Done

\* A step that takes nothing out of the gate and starts no pass forgets nothing.
LEMMA RequestKept ==
  ASSUME RequestRemembered, UNCHANGED <<owed, sched_job_limit>>,
         \A t \in Threads : pc[t] = "start"
           => pc'[t] = "start" /\ job_limit'[t] = job_limit[t]
  PROVE  RequestRemembered'
BY ZenonT(30) DEF RequestRemembered

\* The rest of the invariant is kept by every step.
LEMMA GateStep ==
  ASSUME GateInv, [GateNext]_gateVars
  PROVE  CallersAskForAll' /\ OneAgent' /\ RequestRemembered'
PROOF
<1>0. GateTypeOK /\ CallersAskForAll /\ OneAgent /\ RequestRemembered
  BY DEF GateInv
<1>00. Agent \in Threads /\ Agent \notin Callers /\ Callers \subseteq Threads
       /\ Threads = Callers \union {Agent}
  BY SchedGateAssumption DEF Threads
<1>1. ASSUME NEW c \in Callers, Call(c)
      PROVE  CallersAskForAll' /\ OneAgent' /\ RequestRemembered'
  <2>1. CallersAskForAll' /\ OneAgent'
    BY <1>0, <1>00, <1>1 DEF Call, GateTypeOK, CallersAskForAll, OneAgent, gate
  <2>2. RequestRemembered'
    BY <1>0, <1>00, <1>1, RequestKept DEF Call, GateTypeOK, gate
  <2> QED
    BY <2>1, <2>2
<1>2. ASSUME NEW t \in Threads, ReadClock(t) \/ ReadDelta(t)
      PROVE  CallersAskForAll' /\ OneAgent' /\ RequestRemembered'
  <2>1. CallersAskForAll' /\ OneAgent'
    BY <1>0, <1>00, <1>2, Zenon
       DEF ReadClock, ReadDelta, GateTypeOK, CallersAskForAll, OneAgent, gate
  <2>2. RequestRemembered'
    BY <1>0, <1>00, <1>2, RequestKept DEF ReadClock, ReadDelta, GateTypeOK, gate
  <2> QED
    BY <2>1, <2>2
<1>4. ASSUME NEW t \in Threads, PassNow(t)
      PROVE  CallersAskForAll' /\ OneAgent' /\ RequestRemembered'
  <2>0. /\ (sched_job_limit = 0 \/ job_limit[t] = 0)
             => AddLimit(sched_job_limit, job_limit[t]) = 0
    BY <1>0, LimitSums, Zenon DEF GateTypeOK
  <2>1. CallersAskForAll'
    BY <1>0, <1>00, <1>4, <2>0 DEF PassNow, GateTypeOK, CallersAskForAll
  <2>2. OneAgent'
    BY <1>0, <1>00, <1>4 DEF PassNow, GateTypeOK, OneAgent
  <2>3. ASSUME owed' # {}
        PROVE  \E u \in Threads : pc'[u] = "start" /\ job_limit'[u] = 0
    <3>1. owed # {}
      BY <1>4, <2>3 DEF PassNow
    <3>2. CASE sched_job_limit = 0
      BY <3>2, <2>0, <1>0, <1>4 DEF PassNow, GateTypeOK
    <3>3. CASE \E u \in Threads : pc[u] = "start" /\ job_limit[u] = 0
      BY <3>3, <1>0, <1>4 DEF PassNow, GateTypeOK
    <3> QED
      BY <3>1, <3>2, <3>3, <1>0 DEF RequestRemembered
  <2> QED
    BY <2>1, <2>2, <2>3 DEF RequestRemembered
<1>5. ASSUME NEW t \in Threads, PutOff(t)
      PROVE  CallersAskForAll' /\ OneAgent' /\ RequestRemembered'
  <2>0. /\ (sched_job_limit = 0 \/ job_limit[t] = 0)
             => AddLimit(sched_job_limit, job_limit[t]) = 0
    BY <1>0, LimitSums, Zenon DEF GateTypeOK
  <2>1. CallersAskForAll' /\ OneAgent'
    BY <1>0, <1>00, <1>5 DEF PutOff, GateTypeOK, CallersAskForAll, OneAgent, local
  <2>2. RequestRemembered'
    <3>1. CASE t # Agent
      <4>1. job_limit[t] = 0
        BY <3>1, <1>0, <1>00, Zenon DEF CallersAskForAll
      <4> QED
        BY <4>1, <2>0, <1>5 DEF PutOff, RequestRemembered
    <3>2. CASE t = Agent /\ sched_job_limit = 0
      BY <3>2, <2>0, <1>5, Zenon DEF PutOff, RequestRemembered
    <3>3. CASE t = Agent /\ sched_job_limit # 0
      <4>1. owed' = owed
        BY <3>3, <1>5, Zenon DEF PutOff
      <4>2. ASSUME NEW u \in Threads, pc[u] = "start", job_limit[u] = 0
            PROVE  pc'[u] = "start" /\ job_limit'[u] = 0
        <5>1. u # t
          BY <4>2, <1>5, Zenon DEF PutOff
        <5> QED
          BY <4>2, <5>1, <3>3, <1>5, Zenon DEF PutOff, local
      <4> QED
        BY <4>1, <4>2, <3>3, <1>0 DEF RequestRemembered
    <3> QED
      BY <3>1, <3>2, <3>3
  <2> QED
    BY <2>1, <2>2
<1>6. ASSUME NEW t \in Threads, PassStart(t)
      PROVE  CallersAskForAll' /\ OneAgent' /\ RequestRemembered'
  <2>1. CallersAskForAll' /\ OneAgent'
    BY <1>0, <1>00, <1>6, Zenon
       DEF PassStart, GateTypeOK, CallersAskForAll, OneAgent, gate, local
  <2>2. CASE job_limit[t] = 0
    BY <2>1, <2>2, <1>6, Zenon DEF PassStart, RequestRemembered
  <2>3. CASE job_limit[t] # 0
    <3>1. owed' = owed /\ sched_job_limit' = sched_job_limit
      BY <2>3, <1>6 DEF PassStart, gate
    <3>2. ASSUME NEW u \in Threads, pc[u] = "start", job_limit[u] = 0
          PROVE  pc'[u] = "start" /\ job_limit'[u] = 0
      BY <3>2, <2>3, <1>0, <1>6 DEF PassStart, GateTypeOK, local
    <3> QED
      BY <2>1, <3>1, <3>2, <1>0, Zenon DEF RequestRemembered
  <2> QED
    BY <2>2, <2>3
<1>7. ASSUME NEW t \in Threads, PassEnd(t)
      PROVE  CallersAskForAll' /\ OneAgent' /\ RequestRemembered'
  <2>1. CallersAskForAll' /\ OneAgent'
    BY <1>0, <1>00, <1>7 DEF PassEnd, GateTypeOK, CallersAskForAll, OneAgent
  <2>2. RequestRemembered'
    BY <1>0, <1>7, RequestKept DEF PassEnd, GateTypeOK
  <2> QED
    BY <2>1, <2>2
<1>8. CASE AgentPoll
  <2>1. CallersAskForAll' /\ OneAgent'
    BY <1>0, <1>00, <1>8, Zenon DEF AgentPoll, GateTypeOK, CallersAskForAll, OneAgent, gate
  <2>2. RequestRemembered'
    BY <1>0, <1>00, <1>8, RequestKept DEF AgentPoll, GateTypeOK, gate
  <2> QED
    BY <2>1, <2>2
<1>9. CASE AgentReset
  <2>1. CallersAskForAll' /\ OneAgent'
    BY <1>0, <1>00, <1>9 DEF AgentReset, GateTypeOK, CallersAskForAll, OneAgent, local
  <2>2. RequestRemembered'
    BY <1>0, <1>00, <1>9, RequestKept, Zenon DEF AgentReset, GateTypeOK, local
  <2> QED
    BY <2>1, <2>2
<1>10. CASE Advance
  BY <1>0, <1>10, RequestKept, ZenonT(30) DEF Advance, CallersAskForAll, OneAgent, gate, local
<1>11. CASE UNCHANGED gateVars
  BY <1>0, <1>11, RequestKept, Zenon DEF gateVars, CallersAskForAll, OneAgent
<1> QED
  BY <1>1, <1>2, <1>4, <1>5, <1>6, <1>7, <1>8, <1>9, <1>10, <1>11
  DEF GateNext, InSchedule, Done

\* The invariant holds throughout; in particular sched_pend_thread says
\* truthfully whether there is an agent, so there is never more than one.
THEOREM GateInvariant == GateSpec => []GateInv
PROOF
<1>1. GateInit => GateInv
  <2> SUFFICES ASSUME GateInit  PROVE GateInv
    OBVIOUS
  <2>1. MicroWrap \in Nat /\ MicroWrap > 0
    BY SchedGateAssumption
  <2>2. GateTypeOK
    <3>1. Time(0, 0) \in [sec : Nat, usec : Nat]
      BY DEF Time
    <3>2. micro \in 0 .. (MicroWrap - 1)
      BY <2>1 DEF GateInit
    <3>3. sec \in Nat /\ sched_last \in [sec : Nat, usec : Nat]
      BY <3>1 DEF GateInit
    <3>4. now \in [Threads -> [sec : Nat, usec : Nat]] /\ delta \in [Threads -> Int]
          /\ job_limit \in [Threads -> Nat] /\ calls \in [Callers -> Nat]
      BY <3>1 DEF GateInit
    <3>5. pc \in [Threads -> {"idle", "clock", "delta", "mutex", "start", "pass", "poll", "reset"}]
      BY DEF GateInit
    <3> QED
      BY <3>2, <3>3, <3>4, <3>5, Zenon DEF GateInit, GateTypeOK
  <2>3. CallersAskForAll /\ OneAgent /\ RequestRemembered
    BY DEF GateInit, CallersAskForAll, OneAgent, RequestRemembered, Threads
  <2> QED
    BY <2>2, <2>3 DEF GateInv
<1>2. GateInv /\ [GateNext]_gateVars => GateInv'
  BY TypeStep, GateStep DEF GateInv
<1> QED
  BY <1>1, <1>2, PTL DEF GateSpec

\* Types: the threads of the gate keep to their program points, the limits
\* and the clock of the rate limit to their ranges.
THEOREM GateTypeCorrect == GateSpec => []GateTypeOK
PROOF
<1>1. GateInv => GateTypeOK
  BY Zenon DEF GateInv
<1> QED
  BY <1>1, GateInvariant, PTL

\* schedule(0) that was put off is never turned into schedule(1): for any
\* number of handlers, sched_job_limit remembers it until a full pass starts.
THEOREM NoRequestForgotten == GateSpec => []RequestRemembered
PROOF
<1>1. GateInv => RequestRemembered
  BY DEF GateInv
<1> QED
  BY <1>1, GateInvariant, PTL
=============================================================================
