------------------------------ MODULE Startup ------------------------------
(***************************************************************************)
(* How a simulation starts: sim_mgr's main, and the daemons that attach to *)
(* the shared segment SLURM_SIM_SHM it writes.                             *)
(*                                                                         *)
(* The segment has a fixed name and is never unlinked, so it still holds   *)
(* what the previous simulation left there.  sim_mgr writes the number of  *)
(* trace records into it, starts the daemons (-f) or leaves that to the    *)
(* user, and then time_mgr clears the whole segment.  slurmctld copies the *)
(* number of records on its way up and slurmd counts itself as registered, *)
(* both in the same segment.  time_mgr enters its main loop once a slurmd  *)
(* is counted.                                                             *)
(*                                                                         *)
(* As in SimCycle, Name_Variant is a faulty variant of Name.               *)
(***************************************************************************)
EXTENDS Integers

CONSTANTS
  NJobs,            \* number of records in the job trace
  LeftRecs          \* values an earlier run may leave in trace_recs_end_sim

(* The trace is not empty (with an empty one the simulation ends at once),  *)
(* and slurmctld marks a finished run by -1.                                *)
ASSUME StartupAssumption ==
  /\ NJobs \in Nat \ {0}
  /\ LeftRecs \subseteq Nat \cup {-1}

VARIABLES
  launch_daemons,       \* option -f of sim_mgr
  mgr,                  \* where sim_mgr is
  ctl,                  \* where slurmctld is
  sd,                   \* where slurmd is
  sd_load,              \* slurmd_registered as slurmd loaded it
  total_log_jobs,       \* slurmctld's copy of trace_recs_end_sim
  trace_recs_end_sim,   \* the words of the shared segment
  slurmd_registered

startupVars == <<launch_daemons, mgr, ctl, sd, sd_load, total_log_jobs,
          trace_recs_end_sim, slurmd_registered>>

MgrStates == {"init_trace", "fork_ctl", "fork_sd", "wait_ctl", "wait_sd",
              "time_mgr", "wait_reg", "main_loop"}

CtlStates == {"none", "start", "read", "up"}

SdStates == {"none", "start", "daemon", "notify", "loaded", "registered"}

(* The first simulation after a boot finds a segment of zeros, a later one  *)
(* what the one before left there (its slurmd registered at least once).    *)
StartupInit ==
  /\ launch_daemons \in BOOLEAN
  /\ mgr = "init_trace"
  /\ ctl = "none"
  /\ sd = "none"
  /\ sd_load = 0
  /\ total_log_jobs = 0
  /\ \/ /\ trace_recs_end_sim = 0
        /\ slurmd_registered = 0
     \/ /\ trace_recs_end_sim \in LeftRecs
        /\ slurmd_registered = 1

-----------------------------------------------------------------------------
(* sim_mgr                                                                  *)

InitJobTrace ==
  /\ mgr = "init_trace"
  /\ mgr' = IF launch_daemons THEN "fork_ctl" ELSE "time_mgr"
  /\ trace_recs_end_sim' = NJobs
  /\ UNCHANGED <<launch_daemons, ctl, sd, sd_load, total_log_jobs,
                 slurmd_registered>>

ForkSlurmctld ==
  /\ mgr = "fork_ctl"
  /\ mgr' = "fork_sd"
  /\ ctl' = "start"
  /\ UNCHANGED <<launch_daemons, sd, sd_load, total_log_jobs,
                 trace_recs_end_sim, slurmd_registered>>

ForkSlurmd ==
  /\ mgr = "fork_sd"
  /\ mgr' = "wait_ctl"
  /\ sd' = "start"
  /\ UNCHANGED <<launch_daemons, ctl, sd_load, total_log_jobs,
                 trace_recs_end_sim, slurmd_registered>>

(* xdaemon has forked the daemon proper, and the process sim_mgr started is *)
(* gone.                                                                    *)
SlurmctldDetached_NoWait ==
  TRUE

SlurmctldDetached ==
  ctl = "up"

SlurmdDetached ==
  sd \notin {"none", "start"}

WaitSlurmctld ==
  /\ mgr = "wait_ctl"
  /\ SlurmctldDetached
  /\ mgr' = "wait_sd"
  /\ UNCHANGED <<launch_daemons, ctl, sd, sd_load, total_log_jobs,
                 trace_recs_end_sim, slurmd_registered>>

WaitSlurmd ==
  /\ mgr = "wait_sd"
  /\ SlurmdDetached
  /\ mgr' = "time_mgr"
  /\ UNCHANGED <<launch_daemons, ctl, sd, sd_load, total_log_jobs,
                 trace_recs_end_sim, slurmd_registered>>

(* time_mgr clears all 32 bytes (and sets the clock).                       *)
ClearSegment_KeepsCount ==
  /\ mgr = "time_mgr"
  /\ mgr' = "wait_reg"
  /\ trace_recs_end_sim' = 0
  /\ UNCHANGED <<launch_daemons, ctl, sd, sd_load, total_log_jobs,
                 slurmd_registered>>

ClearSegment ==
  /\ mgr = "time_mgr"
  /\ mgr' = "wait_reg"
  /\ trace_recs_end_sim' = 0
  /\ slurmd_registered' = 0
  /\ UNCHANGED <<launch_daemons, ctl, sd, sd_load, total_log_jobs>>

WaitRegistered ==
  /\ mgr = "wait_reg"
  /\ slurmd_registered >= 1
  /\ mgr' = "main_loop"
  /\ UNCHANGED <<launch_daemons, ctl, sd, sd_load, total_log_jobs,
                 trace_recs_end_sim, slurmd_registered>>

-----------------------------------------------------------------------------
(* The daemons.  Without -f the user starts them, at any time.              *)

UserStartsSlurmctld ==
  /\ ~launch_daemons
  /\ ctl = "none"
  /\ ctl' = "start"
  /\ UNCHANGED <<launch_daemons, mgr, sd, sd_load, total_log_jobs,
                 trace_recs_end_sim, slurmd_registered>>

UserStartsSlurmd ==
  /\ ~launch_daemons
  /\ sd = "none"
  /\ sd' = "start"
  /\ UNCHANGED <<launch_daemons, mgr, ctl, sd_load, total_log_jobs,
                 trace_recs_end_sim, slurmd_registered>>

CtlReadTotal ==
  /\ ctl = "start"
  /\ ctl' = "read"
  /\ total_log_jobs' = trace_recs_end_sim
  /\ UNCHANGED <<launch_daemons, mgr, sd, sd_load, trace_recs_end_sim,
                 slurmd_registered>>

(* xdaemon, then the RPC server and the background thread.                  *)
CtlUp ==
  /\ ctl = "read"
  /\ ctl' = "up"
  /\ UNCHANGED <<launch_daemons, mgr, sd, sd_load, total_log_jobs,
                 trace_recs_end_sim, slurmd_registered>>

(* _slurmctld_background: no epilog has arrived yet, so the end of the log  *)
(* is declared when no job is expected.                                     *)
CtlBackground ==
  /\ ctl = "up"
  /\ total_log_jobs = 0
  /\ trace_recs_end_sim' = -1
  /\ UNCHANGED <<launch_daemons, mgr, ctl, sd, sd_load, total_log_jobs,
                 slurmd_registered>>

SdDaemon ==
  /\ sd = "start"
  /\ sd' = "daemon"
  /\ UNCHANGED <<launch_daemons, mgr, ctl, sd_load, total_log_jobs,
                 trace_recs_end_sim, slurmd_registered>>

(* _registration_engine succeeds once slurmctld answers.                    *)
SdRegister ==
  /\ sd = "daemon"
  /\ ctl = "up"
  /\ sd' = "notify"
  /\ UNCHANGED <<launch_daemons, mgr, ctl, sd_load, total_log_jobs,
                 trace_recs_end_sim, slurmd_registered>>

(* *slurmd_registered += 1: a load and a store of shared memory.  The       *)
(* semaphore held around them is not taken by time_mgr.                     *)
SdNotifyLoad ==
  /\ sd = "notify"
  /\ sd' = "loaded"
  /\ sd_load' = slurmd_registered
  /\ UNCHANGED <<launch_daemons, mgr, ctl, total_log_jobs,
                 trace_recs_end_sim, slurmd_registered>>

SdNotifyStore_Down ==
  /\ sd = "loaded"
  /\ sd' = "registered"
  /\ slurmd_registered' = sd_load - 1
  /\ UNCHANGED <<launch_daemons, mgr, ctl, sd_load, total_log_jobs,
                 trace_recs_end_sim>>

SdNotifyStore ==
  /\ sd = "loaded"
  /\ sd' = "registered"
  /\ slurmd_registered' = sd_load + 1
  /\ UNCHANGED <<launch_daemons, mgr, ctl, sd_load, total_log_jobs,
                 trace_recs_end_sim>>

-----------------------------------------------------------------------------

Manager ==
  \/ InitJobTrace
  \/ ForkSlurmctld
  \/ ForkSlurmd
  \/ WaitSlurmctld
  \/ WaitSlurmd
  \/ ClearSegment
  \/ WaitRegistered

Slurmctld ==
  \/ CtlReadTotal
  \/ CtlUp
  \/ CtlBackground

Slurmd ==
  \/ SdDaemon
  \/ SdRegister
  \/ SdNotifyLoad
  \/ SdNotifyStore

User ==
  \/ UserStartsSlurmctld
  \/ UserStartsSlurmd

StartupNext ==
  \/ Manager
  \/ Slurmctld
  \/ Slurmd
  \/ User

StartupSpec == StartupInit /\ [][StartupNext]_startupVars

(* Every process keeps running, and the user does start the daemons.        *)
StartupFairSpec ==
  /\ StartupSpec
  /\ WF_startupVars(Manager)
  /\ WF_startupVars(Slurmctld)
  /\ WF_startupVars(Slurmd)
  /\ WF_startupVars(User)

-----------------------------------------------------------------------------
(* Type correctness of the start-up state.                                  *)
StartupTypeOK ==
  /\ mgr \in MgrStates
  /\ ctl \in CtlStates
  /\ sd \in SdStates
  /\ sd_load \in Nat
  /\ total_log_jobs \in Nat \cup {-1}
  /\ trace_recs_end_sim \in Nat \cup {-1}
  /\ slurmd_registered \in Nat
  /\ launch_daemons \in BOOLEAN

(* When time_mgr enters its main loop slurmctld expects exactly the jobs of *)
(* the trace, and nobody has declared the simulation ended.                 *)
WholeLogExpected ==
  mgr = "main_loop" => /\ total_log_jobs = NJobs
                       /\ trace_recs_end_sim # -1

(* With -f this is so: the clearing of the segment by time_mgr does not     *)
(* overtake the copy slurmctld's main takes, because sim_mgr waits for the  *)
(* process that takes it, and the counts an earlier run left in the segment *)
(* are never taken for this one's.                                          *)
ForkedLogExpected ==
  launch_daemons => WholeLogExpected

(* The main loop never starts on the registration of an earlier run's       *)
(* slurmd: when it runs, this run's slurmd has been through notify_sim_mgr  *)
(* and slurmctld is up.                                                     *)
MainLoopHasDaemons ==
  mgr = "main_loop" => sd = "registered" /\ ctl = "up"

(* A slurmd that registers is noticed: time_mgr, which waits for            *)
(* slurmd_registered, enters its main loop.                                 *)
RegistrationStartsLoop ==
  sd = "registered" ~> mgr = "main_loop"

=============================================================================
