----------------------------- MODULE PluginSync -----------------------------
(***************************************************************************)
(* How the helper-cycle handler of slurmctld drives the threads of the     *)
(* scheduling plugins: the backfill agent and the decay thread of the      *)
(* multifactor_energy priority plugin.  Each waits on a named semaphore of *)
(* its own that the handler posts; both answer on the one semaphore that   *)
(* the handler waits on, so that the plugins work while the clock stands   *)
(* still.                                                                  *)
(*                                                                         *)
(* Named semaphores outlive the process.  Nothing unlinks these, so a      *)
(* slurmctld that is killed leaves its counts to the next one.             *)
(*                                                                         *)
(* As in SimCycle, Name_Variant is a faulty variant of Name.               *)
(***************************************************************************)
EXTENDS Integers

CONSTANTS
  BackfillInterval,     \* backfill_interval (bf_interval)
  MultifactorInterval,  \* multifactor_interval; 0 when no decay thread runs
  MaxTime,              \* bound on the clock, which stops there
  MaxKills              \* bound on the number of times slurmctld is killed

ASSUME PluginAssumption ==
  /\ BackfillInterval \in Nat \ {0}
  /\ MultifactorInterval \in Nat
  /\ MaxTime \in Nat
  /\ MaxKills \in Nat

VARIABLES
  sem,            \* the counts of the named semaphores
  current_sim,    \* the simulated clock
  handler,        \* where _slurm_rpc_sim_helper_cycle is
  agent,          \* where backfill_agent is
  decay,          \* where _decay_thread is
  last_helper_backfill_time,
  last_helper_multifactor_time,
  last_backfill_time,
  kills

syncVars == <<sem, current_sim, handler, agent, decay, last_helper_backfill_time,
          last_helper_multifactor_time, last_backfill_time, kills>>

timeVars == <<last_helper_backfill_time, last_helper_multifactor_time,
              last_backfill_time>>

SemNames == {"bf_sem", "bf_done_sem", "mf_sem"}

(* The semaphore the decay thread answers on.  slurmctld defines this name  *)
(* as "bf_done_sem" and the priority plugin as "mf_done_sem", both as       *)
(* globals; slurmctld is linked with -export-dynamic and dlopens its        *)
(* plugins, so its definition preempts the plugin's (as the comment on the  *)
(* plugin's globals says) and both sides open "bf_done_sem".                *)
MF_DONE_SEM_NAME == "bf_done_sem"

SemPost(s) == sem' = [sem EXCEPT ![s] = @ + 1]

SemWait_NoBlock(s) == UNCHANGED sem

SemWait_Overdraws(s) == sem' = [sem EXCEPT ![s] = @ - 1]

SemWait(s) == sem[s] > 0 /\ sem' = [sem EXCEPT ![s] = @ - 1]

DecayThread == IF MultifactorInterval = 0 THEN "none" ELSE "decay"

(* A process that has just started; the static times are zero.              *)
SyncInit ==
  /\ sem = [s \in SemNames |-> 0]
  /\ current_sim = 1
  /\ handler = "init"
  /\ agent = "wait"
  /\ decay = DecayThread
  /\ last_helper_backfill_time = 0
  /\ last_helper_multifactor_time = 0
  /\ last_backfill_time = 0
  /\ kills = 0

-----------------------------------------------------------------------------
(* The handler.  slurmctld takes RPCs once its plugins are initialised; the *)
(* init of the priority plugin eats the first post of the decay thread.     *)

PluginInit_NoEat ==
  /\ handler = "init"
  /\ handler' = "idle"
  /\ UNCHANGED <<sem, current_sim, agent, decay, timeVars, kills>>

PluginInit ==
  /\ handler = "init"
  /\ IF MultifactorInterval = 0 THEN UNCHANGED sem ELSE SemWait(MF_DONE_SEM_NAME)
  /\ handler' = "idle"
  /\ UNCHANGED <<current_sim, agent, decay, timeVars, kills>>

AdvanceClock(t) == IF t < MaxTime THEN t + 1 ELSE t

(* The clock only moves between two helper cycles.                          *)
NextCycle ==
  /\ handler = "idle"
  /\ current_sim' = AdvanceClock(current_sim)
  /\ handler' = "multifactor"
  /\ UNCHANGED <<sem, agent, decay, timeVars, kills>>

MultifactorDue ==
  /\ MultifactorInterval # 0
  /\ current_sim - last_helper_multifactor_time > MultifactorInterval

UnlockDecay ==
  /\ handler = "multifactor"
  /\ IF MultifactorDue
     THEN SemPost("mf_sem") /\ handler' = "mf_wait"
     ELSE UNCHANGED sem /\ handler' = "backfill"
  /\ UNCHANGED <<current_sim, agent, decay, timeVars, kills>>

DecayReturns ==
  /\ handler = "mf_wait"
  /\ SemWait(MF_DONE_SEM_NAME)
  /\ handler' = "backfill"
  /\ last_helper_multifactor_time' = current_sim
  /\ UNCHANGED <<current_sim, agent, decay, last_helper_backfill_time,
                 last_backfill_time, kills>>

BackfillDue_EveryCycle == TRUE

BackfillDue ==
  \/ last_helper_backfill_time = 0
  \/ current_sim - last_helper_backfill_time > BackfillInterval

DoBackfill ==
  /\ handler = "backfill"
  /\ IF BackfillDue
     THEN SemPost("bf_sem") /\ handler' = "bf_wait"
     ELSE UNCHANGED sem /\ handler' = "idle"
  /\ UNCHANGED <<current_sim, agent, decay, timeVars, kills>>

BackfillReturns ==
  /\ handler = "bf_wait"
  /\ SemWait("bf_done_sem")
  /\ handler' = "idle"
  /\ last_helper_backfill_time' = current_sim
  /\ UNCHANGED <<current_sim, agent, decay, last_helper_multifactor_time,
                 last_backfill_time, kills>>

-----------------------------------------------------------------------------
(* The backfill agent.                                                      *)

AgentWake ==
  /\ agent = "wait"
  /\ SemWait("bf_sem")
  /\ agent' = "woken"
  /\ UNCHANGED <<current_sim, handler, decay, timeVars, kills>>

TooEarly == current_sim - last_backfill_time < BackfillInterval

(* No pass when one was made less than an interval ago, or when nothing has *)
(* changed since (_more_work), no front end is up or a job is completing:   *)
(* the last three are left open.  The `continue` without a post under       *)
(* scheduling_disabled needs a federation or a backup controller, which the *)
(* simulator does not have.                                                 *)
AgentSkip_NoPost ==
  /\ agent = "woken"
  /\ agent' = "wait"
  /\ UNCHANGED <<sem, current_sim, handler, decay, timeVars, kills>>

AgentSkip ==
  /\ agent = "woken"
  /\ agent' = "post"
  /\ UNCHANGED <<sem, current_sim, handler, decay, timeVars, kills>>

AgentStart ==
  /\ agent = "woken"
  /\ ~TooEarly
  /\ agent' = "pass"
  /\ UNCHANGED <<sem, current_sim, handler, decay, timeVars, kills>>

(* The end of _attempt_backfill.                                            *)
AgentFinish ==
  /\ agent = "pass"
  /\ agent' = "post"
  /\ last_backfill_time' = current_sim
  /\ UNCHANGED <<sem, current_sim, handler, decay, last_helper_backfill_time,
                 last_helper_multifactor_time, kills>>

AgentPost ==
  /\ agent = "post"
  /\ SemPost("bf_done_sem")
  /\ agent' = "wait"
  /\ UNCHANGED <<current_sim, handler, decay, timeVars, kills>>

-----------------------------------------------------------------------------
(* The decay thread: a first computation without being asked for it.        *)

DecayCompute_NoPost ==
  /\ decay = "decay"
  /\ decay' = "wait"
  /\ UNCHANGED <<sem, current_sim, handler, agent, timeVars, kills>>

DecayCompute ==
  /\ decay = "decay"
  /\ SemPost(MF_DONE_SEM_NAME)
  /\ decay' = "wait"
  /\ UNCHANGED <<current_sim, handler, agent, timeVars, kills>>

DecayWake ==
  /\ decay = "wait"
  /\ SemWait("mf_sem")
  /\ decay' = "decay"
  /\ UNCHANGED <<current_sim, handler, agent, timeVars, kills>>

-----------------------------------------------------------------------------
(* The run scripts end with killall -9 slurmctld.  The next simulation      *)
(* starts over, with the semaphores as they are.                            *)
Kill ==
  /\ kills < MaxKills
  /\ kills' = kills + 1
  /\ current_sim' = 1
  /\ handler' = "init"
  /\ agent' = "wait"
  /\ decay' = DecayThread
  /\ last_helper_backfill_time' = 0
  /\ last_helper_multifactor_time' = 0
  /\ last_backfill_time' = 0
  /\ UNCHANGED sem

Handler ==
  \/ PluginInit
  \/ NextCycle
  \/ UnlockDecay
  \/ DecayReturns
  \/ DoBackfill
  \/ BackfillReturns

BackfillAgent ==
  \/ AgentWake
  \/ AgentSkip
  \/ AgentStart
  \/ AgentFinish
  \/ AgentPost

Decay ==
  \/ DecayCompute
  \/ DecayWake

SyncNext ==
  \/ Handler
  \/ BackfillAgent
  \/ Decay
  \/ Kill

SyncSpec == SyncInit /\ [][SyncNext]_syncVars

(* The three threads keep being scheduled.                                  *)
SyncFairSpec ==
  /\ SyncSpec
  /\ WF_syncVars(Handler)
  /\ WF_syncVars(BackfillAgent)
  /\ WF_syncVars(Decay)

-----------------------------------------------------------------------------
(* Type correctness of the handshake's state.                               *)
SyncTypeOK ==
  /\ sem \in [SemNames -> Nat]
  /\ current_sim \in Nat
  /\ handler \in {"init", "idle", "multifactor", "mf_wait", "backfill",
                  "bf_wait"}
  /\ agent \in {"wait", "woken", "pass", "post"}
  /\ decay \in {"none", "decay", "wait"}
  /\ last_helper_backfill_time \in Nat
  /\ last_helper_multifactor_time \in Nat
  /\ last_backfill_time \in Nat
  /\ kills \in Nat

(* The posts that are not yet consumed, the ones the two threads are        *)
(* working on included.                                                     *)
Tokens ==
  sem["bf_sem"] + sem["mf_sem"] + sem["bf_done_sem"]
    + (IF agent = "wait" THEN 0 ELSE 1) + (IF decay = "decay" THEN 1 ELSE 0)

(* The handler is in one of its waits, or in the plugin's init.             *)
Awaiting ==
  \/ handler \in {"mf_wait", "bf_wait"}
  \/ handler = "init" /\ MultifactorInterval # 0

Waiting == IF Awaiting THEN 1 ELSE 0

(* Whoever waits on bf_done_sem is always owed a post, by one thread or the *)
(* other, also when the semaphores come from a slurmctld that was killed;   *)
(* and each kill leaves at most one post too many: do_backfill and          *)
(* unlock_mf_decay_th may return early, never hang.                         *)
PostsBalanced ==
  Waiting <= Tokens /\ Tokens <= Waiting + kills

(* The clock stands still while the agent works, as the comment in          *)
(* _my_sleep says of the backfill loop and the loop that controls time.  (A *)
(* kill ends the agent with its process.)                                   *)
ClockStopsForBackfill ==
  [][agent # "wait" /\ kills' = kills => current_sim' = current_sim]_syncVars

(* An unlock is not wasted: but for the first one, the agent never finds    *)
(* that its last pass is too recent (helper and agent keep separate times   *)
(* for the same interval).                                                  *)
UnlockIsTimely ==
  agent = "woken" /\ last_helper_backfill_time # 0 => ~TooEarly

(* do_backfill is a synchronous call.                                       *)
CallPhase ==
  IF handler # "bf_wait" THEN "idle"
  ELSE IF agent # "wait" THEN "serving"
  ELSE IF sem["bf_done_sem"] > 0 THEN "served"
  ELSE "called"

BackfillCall == INSTANCE SyncCall WITH phase <- CallPhase

(* The detailed handshake implements SyncCall.                              *)
BackfillIsSynchronous == BackfillCall!Spec

(* The init of the plugin, unlock_mf_decay_th and do_backfill return,       *)
(* whatever was left in the semaphores and whoever takes the post the other *)
(* was waiting for.                                                         *)
WaitsReturn ==
  \A w \in {"init", "mf_wait", "bf_wait"} : handler = w ~> handler # w

(* A helper cycle that begins comes to its end, so that slurmd gets the     *)
(* answer it waits for.                                                     *)
CycleReturns ==
  handler = "multifactor" ~> handler = "idle"

=============================================================================
