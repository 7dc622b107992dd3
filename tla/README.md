# A TLA+ model of the Slurm simulator

The repository is Slurm 17.11 with the BSC simulator (`#ifdef
SLURM_SIMULATOR`): the real `slurmctld` and one `slurmd` run a trace of jobs in
simulated time, which a third process, `sim_mgr`, advances. This directory holds
TLA+ modules of the parts that make a simulation right or wrong, TLC
configurations for small instances, and TLAPS proofs for all instances.

## The system

| Part | Where | Model |
|---|---|---|
| `time_mgr`: submit due jobs, hand the turn to slurmd, advance the clock | `contribs/simulator/sim_mgr.c` | `SimCycle` |
| `main` of sim_mgr, forks, shared segment | `sim_mgr.c`, `src/common/sim_funcs.c` | `Startup` |
| `_simulator_helper`: fire due events, wait for epilogs, send the helper cycle | `src/slurmd/slurmd/slurmd.c` | `SimCycle` |
| event list, simulator RPC handlers of slurmd | `src/slurmd/slurmd/req.c` | `EventQueue`, `SimCycle` |
| registration of slurmd | `slurmd.c`, `sim_funcs.c` | `Startup` |
| submit, complete and epilog handlers | `src/slurmctld/proc_req.c`, `job_mgr.c`, `node_mgr.c` | `SimCycle` |
| `_slurm_rpc_sim_helper_cycle` | `proc_req.c` | `SimCycle`, `PluginSync` |
| `_schedule`, `select_nodes` | `job_scheduler.c`, `node_scheduler.c` | `SimCycle` |
| rate limit: `schedule`, `_sched_agent`, simulated `gettimeofday` | `job_scheduler.c`, `sim_funcs.c` | `SchedGate` |
| time limits, rekill, end of log | `controller.c`, `job_mgr.c`, `node_scheduler.c` | `SimCycle` |
| reader/writer locks of slurmctld | `locks.c`, `locks.h` | `Locks` |
| backfill agent's hand-shake | `plugins/sched/backfill/backfill.c` | `PluginSync`, `SyncCall` |
| backfill pass and its reservation table | `backfill.c`, `plugins/select/linear` | `Backfill` |
| decay thread's hand-shake | `plugins/priority/multifactor_energy` | `PluginSync` |

The processes share 32 bytes of memory (`SLURM_SIM_SHM`: clock, microseconds,
`slurmd_registered`, `trace_recs_end_sim`), two semaphores that pass the turn
(`slurm_sem`, `sim_sem`), three more inside slurmctld (`bf_sem`, `mf_sem`,
`bf_done_sem`), and RPCs. One turn goes like this:

1. `time_mgr` submits the jobs that are due (submit RPC to slurmctld, then
   `REQUEST_SIM_JOB` to slurmd), posts `slurm_sem`, waits on `sim_sem`.
2. The helper fires the events that are due. Each is a completion RPC; slurmctld
   answers and sends a terminate request, whose handler sends the epilog message.
   The helper waits for the epilogs, then sends `MESSAGE_SIM_HELPER_CYCLE`.
3. The handler waits until the completions and epilogs are counted, runs the
   scheduler when something asked for it, drives the plugins, and answers.
4. The helper posts `sim_sem`; `time_mgr` advances the clock.

Launch, terminate and time-limit messages, the tails of handlers that answer
early, and slurmctld's background loop run beside all this. `PROJECT.json` lists
the parts, the lines each definition models, and the hazards with the properties
that are about them.

## Modules

**`EventQueue`** - `simulator_add_future_event`'s insertion into the event list
as an operator on sequences. The walk of the source is the choice of the place
where it stops.

**`SimCycle`** - the turn above for one trace. State: sim_mgr (`mgr_pc`, clock,
`trace_head`, `time_end`), slurmd (`sd_pc`, `events`, `completed`, `sim_info`,
`waiting_epilog_msgs`, and a thread per launch and terminate request), slurmctld
(`job_state`, times, `idle_nodes`, `job_sched_cnt`, the epilog handlers' threads,
the helper-cycle handler `ctl_pc`, the counters, the background timers). An
action is a stretch of code no other thread can look into: what is done under one
lock, or between two RPCs. Where the code gives up a lock, answers an RPC before
it is done, or increments a variable without a lock, there are several actions.

**`JobLife`** - what a simulation promises to its user, without processes: jobs
arrive in trace order and not before their time, start when enough nodes are
free, end after their duration or at their limit, and give their nodes back once.
`SimCycle` implements it through the clock in the segment and slurmctld's job
table (`SimulatesJobs`).

**`Startup`** - sim_mgr's `main`, the daemons coming up, and the memset of the
segment, with whatever an earlier run left in it; with and without `-f`.

**`PluginSync`** - the helper-cycle handler, the backfill agent and the decay
thread on their semaphores, and slurmctld being killed (the run scripts end with
`killall -9`). Agent and decay thread answer on one semaphore, `bf_done_sem`:
slurmctld and the priority plugin both define a global `MF_DONE_SEM_NAME`, with
different values, slurmctld exports its symbols (`-export-dynamic`,
`src/slurmctld/Makefile.am:80`) and loads plugins with `dlopen(..., RTLD_LAZY)`
(`plugin.c:177`), so its value, `"bf_done_sem"`, is the one the plugin opens too.
**`SyncCall`** is what `do_backfill` promises: a synchronous call. `CallPhase` maps
the semaphores and program counters to its phase.

**`SchedGate`** - `schedule()` and the thread `_sched_agent` it starts when the
last pass is too recent. The reads of the clock and of `sched_last` before
`sched_mutex`, the decision under it, the pass outside it, and the agent's poll,
own pass and exit are separate actions. The simulated microseconds move with every
`gettimeofday` of any process and wrap.

**`Locks`** - `lock_slurmctld` and `unlock_slurmctld`: three counters for each of
five entities, one mutex, one condition variable. A pass over the counters of one
entity is one action, since `locks_mutex` covers it; going to sleep and waking up
are others.

**`Backfill`** - one pass of `_attempt_backfill` over select/linear. A job that
fits is started; for another one the pass looks for the earliest start, through
the retries at `TRY_LATER`, and reserves nodes in `node_space`, a list of
intervals that `AddReservation` cuts, takes nodes out of and merges as the code
does. In the simulator nothing yields the locks and the clock stands still during
a pass (`ClockStopsForBackfill`), so the pass is one thread at one instant.

`MCSimCycle`, `MCStartup`, `MCLocks` and `MCBackfill` supply workloads.
`*Proofs` hold the theorems. `Startup`, `PluginSync` and `SchedGate` prefix their `Init`, `Next` and
`Spec` so that one module, `ProtocolProofs`, can extend all three. A definition
`Name_Variant` next to `Name` is a faulty variant that no specification uses; put
in the place of `Name` it shows that a property notices the fault.

### What the modules leave out

- One partition, whole nodes, priority in submission order, `CompleteWait` 0,
  one node manager (front end), no accounting: the templates' configuration.
- In `SimCycle`, which of the jobs that fit the backfill agent starts is left
  open: the model allows every choice, so safety holds for the one the table of
  `Backfill` makes. When the agent may run at all is modelled in `PluginSync`.
- In `SimCycle` the `schedule(0)` of the helper cycle is never put off. With the
  default `sched_min_interval` of 2 us, which the templates keep, that is so, since
  every `gettimeofday` moves the simulated clock by 100 us, except at the wrap of
  the microseconds. With a longer interval `job_scheduler.c:1039-1099` may put it off, which
  `SchedGate` models: `NoLostScheduling`, `RequestsKept` and `AllJobsFinish` are
  about the default.
- In `PluginSync`, the `continue` of the agent under `scheduling_disabled`
  (`backfill.c:986`), which takes a post and gives none: only a federation or a
  backup controller sets it.
- `total_log_jobs` is `NJobs`; `Startup` shows when that is so.
- Reservations, pack and workflow jobs, requeue, cancelled and failed jobs, the
  purge of old job records, and RPC retries of slurmd.
- A terminate request while another one for the job is under way is dropped: its
  handler finds the job off the completed list.
- `Backfill` has no advance reservations, burst buffers, pack or array jobs,
  features, preemption or per-user limits. The option `assoc_limit_stop` is off
  (its default): with it a job over an accounting limit is not skipped but planned
  for `later_start`, or 500 s ahead (`backfill.c:2211-2235`). A start that fails is
  taken to leave the start time at the present; the failures that clear it
  (`node_scheduler.c:2526`, `2542`, `2565`, `2588`) need a burst buffer or a job
  without resources, and reserve nothing inside the window. The number of jobs a
  pass tests, which `bf_queue_limit` bounds, starts over after `sched_timeout`:
  the model may end the pass from the limit on, and may go on.

### Bounds

`MaxTime` stops the clock; the liveness runs reach their end before it. `MaxLag`
bounds how many simulated seconds a message of the agent or a handler's tail can
stay behind; with 1 such a tail still crosses a whole turn. `MaxLost` bounds lost
kills. `MaxKills` bounds kills of slurmctld. Times like `KillAge`
(`KillWait` + 2 `MessageTimeout`) are scaled down, 100 standing for "not within
this run". In `SchedGate`, `MaxCalls` bounds the calls of a handler, `MaxSec` the
clock, and `Room` keeps enough of it for a deferred pass to come due after the
last call; `TicksPerSec` scales a second down. In `Backfill`, `Minute` scales a
minute down to 2 while `Resolution` and `Window` keep their relation to it, and
`MaxRecs` is small enough for the table to fill up.

## Runs

| Run | Instance | Shows |
|---|---|---|
| `reliable` | 3 jobs, 2 nodes, one job can be backfilled | turn-taking, sorted events, no job ends early, every launch finds its job, one event per running job, epilog count, scheduling after the nodes are free, no scheduling request lost, no early end; every busy wait is for messages that have been sent |
| `limits` | 2 jobs, the first killed at its limit, one kill lost, early rekill, `sim_end_point` set | nodes are conserved and `SimCycle` implements `JobLife` with two sources of epilogs, loss and repetition |
| `live` | 2 jobs in sequence | all jobs end; the simulation ends once the epilogs are counted |
| `startup` | any leftover of an earlier run, with and without `-f` | main loop starts with this run's daemons; with `-f` the whole log is expected |
| `backfill_sync` | agent and decay thread, fresh semaphores | `do_backfill` implements `SyncCall`, at one instant, although the two threads answer on one semaphore; unlocks are timely; cycles return |
| `restarts` | agent and decay thread, two kills at any point | whoever waits on `bf_done_sem` is always owed a post, each kill leaves at most one too many, and every wait returns |
| `locks` | 3 threads with the levels of `_schedule`, the state save and a partition update | exclusion, no lost wake-up, no deadlock, waiting writers first, every call returns once no new ones are made |
| `sched_gate` | a handler and the agent, 4 calls | a full pass that is put off stays a full pass and gets made |
| `backfill_plan` | all queues of up to 3 jobs of 4 shapes, 2 nodes in any state | the table says what the plan says and fits its array, no node is promised twice, no started job delays a planned one, the pass ends |

Three runs are expected to find a violation. Each states what a comment of the
source says and shows that the code does something else:

| Run | Property | What happens |
|---|---|---|
| `limit_hang` | `EndsWhenAllFinished` | the epilog of a job at its time limit is counted in a cycle that waits for exactly its own |
| `lost_registration` | `RegistrationStartsLoop` | the memset wipes a registration |
| `stale_posts` | `ClockStopsForBackfill` | a post left by a killed slurmctld, or one of the decay thread that it lets through, ends `do_backfill` while the agent works, and the clock moves on |

`CHECK_DEADLOCK FALSE` is set where the system really may stop: the hang after a
time limit or a lost kill, and the end of start-up.

What the instances of the runs do not reach: `reliable` and `live` lose no message
and have no re-kill, so `SpinsEnd`, `AllJobsFinish` and `EndOnlyAfterAll` say
nothing there about a lost or repeated kill; `limit_hang` has one job, so its hang
is that of the epilog at the limit and not of a lost update. The list below and
the theorems with premises are about those cases.

Other instances of the modules show behaviour that no run is kept for:

- `KillAge` 0 and a job killed at its limit: `purge_old_job` kills it again while
  the first kill is answered, the two epilogs of one job count as two jobs, and
  the log is declared finished (`EndOnlyAfterAll` fails). That takes a kill at the
  limit (`RekillsNeedKills`).
- Two jobs that end together: two unlocked increments of
  `total_epilog_complete_jobs` lose one (`CountsFinishedJobs` fails).
- One lost terminate request: the resend waits for a clock that waits for the
  epilog (`CompletingEnds` fails; `LostKillIsFinal` proves that nothing resolves
  it).
- `SchedGate` with a wrap of the microseconds between the agent's test and the
  agent's own call of `schedule()`: the pass is put off again with no thread to
  make it. `DeferredRuns` therefore runs below the wrap. The same happens to a
  caller that is put off while the agent makes its own pass, since
  `sched_pend_thread` is cleared only afterwards: it waits for the next request
  (`NeverDeferredForever` fails). `promised` is the set of callers put off while
  the agent has not decided yet; `DeferredRuns` is about them.
- `Backfill` with a resolution above a minute: ends of reservations are rounded
  down (`backfill.c:2311-2314`), the table frees the nodes of a planned job before
  it is over, and `NobodyDelayed` fails. `slurm.conf.5` allows such a
  `bf_resolution`; `sched_config.shtml` says that backfill starts jobs only "if
  doing so does not delay the expected start time of any higher priority jobs".

### Fairness

Weak fairness for each thread: the kernel schedules every thread, the spins and
semaphore waits end when their condition holds, messages that are not lost
arrive. `MgrTerminate` has strong fairness: it stands for the grace period of
20 s of real time, which passes while `time_mgr` comes by the top of its loop.
Background work (`JobTimeLimit`, `PurgeOldJob`, `EndOfLog`) is a loop of its own
thread. The backfill agent is not required to start any job in `SimCycle`. In
`Startup` the user who does not use `-f` does start the daemons. In `Locks` a
thread that has its locks gives them back, and is not required to ask again. In
`SchedGate` the clock moves on between calls. `Backfill` is one thread that goes on
to its next step.

## Proofs

`tlapm` checks these for every value of the constants that satisfies the named
assumptions (`ConstantsAssumption`, `StartupAssumption`, `PluginAssumption`,
`SchedGateAssumption`, `LocksAssumption`, `BackfillAssumption`, which only say that
the constants are numbers, finite sets and functions of the right kind, that no
job is wider than the cluster, that a trace has records, and that the agent is no
handler). The bounds of the runs are constants too, so the theorems hold for every
bound; the bounds on lost and late messages included.

### The event list

`EventQueueProofs!AddFutureEventSorted`: inserting into a sorted list gives a
sorted list. The lemmas say where the walk stops (by a least position, not by
induction), what linking does to each index, and that the result is the old list
with the event at one place (`AddFutureEventInserts`).

### The simulation cycle

The proofs are in layers, each extending the one before.

- `SimCycleBaseProofs` - `TypeInv` and `TurnInv` are inductive. `TurnInv` is
  `LockStep` with the helper's copy of the clock. The Frame lemmas say for each
  kind of step (of sim_mgr, the helper, a thread, the handler, the background
  loop) what it leaves alone, so that later invariants look only at the steps that
  disturb them. `JobsInv` relates the position in the trace, the job table,
  slurmd's job information and the launch threads: a job is unknown to slurmctld
  exactly until it is submitted, known to slurmd before it can be launched, and a
  launch thread holds the time it read. `EventsInv` says that an event belongs to
  a job whose launch is over, lies at or after its start plus its duration, and is
  the only one of its job, and which jobs are on the list of completed ones.
  `BaseInv` is all of these with the types and the turn. Given `BaseInv`,
  `NeverEarly` is inductive and every step is a step of `JobLife` (`JobLifeStep`).
- `SimCycleEpilogProofs` - `EpilogInv` is the account of the epilogs made
  inductive: `waiting_epilog_msgs` is the number owed but for the one the helper
  has in hand, none is owed between two cycles, and a job that completed by its
  event is still on the list of completed jobs or has its epilog message sent.
  `FreshInv` says that each of the two handlers that send epilogs sends at most
  one per job: none before the job's event, or its kill. `RequestInv` is
  `NoLostScheduling` at every place of the handler but `schedule()` itself, which
  looks at the queue after the counter was reset. `MessageInv` says which
  messages can be under way for a job in each state, `ActiveNow` that a job that
  completed by its event was active at the current time. The three counters of
  slurmctld have an invariant each: `FinishedInv` ties `total_finished_jobs` to
  the helper's place in its event loop, `ArrivedInv` says that the epilogs
  counted and the ones still to count are the ones due, `CountInv` that
  `total_epilog_complete_jobs` and every copy a handler has loaded of it are at
  most the number of jobs whose epilog is over, so that unlocked increments lose
  updates but make none twice. `OneOrigin` and `SentInv` say where the epilog of
  a job comes from and what the helper waits for.
- `SimCycleProofs` - the theorems:
  - `TypeCorrect`, `LockStepHolds`, `HelperTimeHolds`, `ClockFrozen` from the
    turn; `EventsStaySorted` from `AddFutureEventSorted`;
  - `LaunchKnown`, `OneEvent`, `JobsNeverEarly` from `BaseInv`;
  - `CycleSimulatesJobs`: `SimCycle` implements `JobLife`; the initial states map
    to initial states and every step to a step or a stutter;
  - `EpilogsAccounted`, `NodesFreedFirst` from `EpilogInv`;
  - `RequestsKept` from `RequestInv`;
  - `NodesStayConserved`: `HeldNodes` has one element for each node a job holds,
    so that the sum over the jobs is the size of a set and changes by `Width[j]`
    when `j` starts or ends;
  - `CompletionsCounted` and `CompletedNotRekilled` from `MsgInv`, the invariants
    on messages together; `LostKillIsFinal`, that the state of the helper waiting
    for a lost kill is never left, and the clock with it;
  - `SpinsAlwaysEnd`: every busy wait is for messages that have been sent;
  - `EndsAfterAll`, `EndsAfterAllUnkilled` and `RekillsNeedKills`: the end of the
    simulation never comes early.

The two lower layers use two facts as hypotheses, what an insertion does
(`InsertFact`) and how the size of a set changes by one element (`CountFact`).
`SimCycleProofs` proves both, where the theorems on sequences and finite sets are
in scope; no theorem depends on an unproved one.

All but the last two items hold with lost kills, repeated kills and jobs killed
at their limit. So a simulation that hangs at a time limit (`limit_hang`) is still
right up to that point. The others have premises, because the code needs them:

- `SpinsAlwaysEnd` is about behaviours where no job is killed at its limit and no
  kill is lost (`[]Undisturbed`, which the instance of `reliable` implies).
  Either breaks it: `limit_hang` shows the first, `LostKillIsFinal` the second.
- `EndsAfterAll` is about behaviours in which `purge_old_job` re-kills no job
  (`NoReKill`): a job with two kills has two epilogs and counts twice.
  `RekillsNeedKills` shows that the premise holds whenever no job is killed at its
  limit, whatever is lost.

### The protocols around it (`ProtocolProofs`)

- `StartupTypeCorrect`, `ForkedLogIsWhole` (inductive `CopyInv`: at each point of
  sim_mgr's `main` what the segment and slurmctld's copy hold, which rests on the
  wait for the detached process) and `MainLoopWaitsForDaemons` (inductive
  `CountInv`: after the memset a positive count comes from this run's slurmd).
- `PluginTypeCorrect`, `PostsStayBalanced` (any number of kills; a post moves from
  a semaphore to a thread and back, and only the handler makes and takes one), and
  for a slurmctld that is never killed `ClockStops`, `BackfillRefinesSyncCall` and
  `UnlocksAreTimely`. These rest on `PostsOwned`, that a thread works only while
  the handler waits for that thread: the balance alone would let the decay
  thread's post end `do_backfill`. `TimesInv` adds that the agent's last pass is
  never later than the handler's last unlock.
- `GateTypeCorrect` and `NoRequestForgotten` from `GateInv`: with the types, that
  handlers ask for full passes and that `sched_pend_thread` says whether there is
  an agent, so there is never more than one.

### Locks (`LocksProofs`)

`LocksInv` ties each counter to the set of threads it counts (`Counted`) and says
which entities a thread has at each place (`PlaceInv`): the ones before the next in
the fixed order. `LocksTypeCorrect` (no counter goes below zero), `ExclusionHolds`,
`NoLostWakeupHolds` and `WritersComeFirst` follow. `DeadlockFreedom` takes the
sleeper that waits for the highest entity: whoever has that entity waits for a
higher one, or runs.

### Backfill (`BackfillProofs`, `BackfillRetryProofs`)

For a resolution of at most a minute (see above for why): `BackfillDelaysNobody`,
`NoNodePromisedTwice`, `TableSaysThePlan`, `TableFitsArray` and, for a window of
more than a second (`bf_window` is read in minutes), `RetriesAdvance`.
`BackfillInv` says that the table is a chain of intervals from the start of the
pass to the end of its window, that no record offers a node that is reserved then,
and that the nodes of a started job are known to be busy until it ends.
`TableExact` adds that a record offers every other node. The lemmas follow a
reservation through the cuts and the merge, which change nothing that is offered
at any instant (`AsBefore`), and the walk, which takes exactly the reserved nodes
for exactly the reserved time (`AllBut`).

`RetriesAdvance`, in a module of its own, is the safety part of `PassEnds`: each
`goto TRY_LATER` is for a later instant inside the window. It speaks of the
attempt rather than of the step, since a retry that changes nothing would be no
step. `GridInv` says that the records meet on multiples of the resolution and
inside the window. That is what makes a start refused by `_test_resv_overlap` come
after `start_res`, although the test looks from the start rounded down. An
unaligned start of the pass is no exception: `_add_reservation` cuts an empty
record off the beginning of the table, and the merge in the same call takes it
away again (`CutAtBeginning`, `FirstTwoAlike`).

### Only model-checked

- Liveness, which is outside the prover's reach: `AllJobsFinish`,
  `EndsOnceCounted`, `CycleReturns`, `WaitsReturn`, `EveryCallReturns`,
  `DeferredRuns`, `PassEnds`. `SpinsAlwaysEnd` and `RetriesAdvance` prove what
  `EndsOnceCounted` and `PassEnds` need besides fairness: that no wait is for
  something nobody will do, and that no retry is in vain.

Every safety invariant, action property and refinement of the runs is proved.
Those that are proved under a premise, and why: `EndOnlyAfterAll` and `SpinsEnd`
(above). `ClockStopsForBackfill` needs a slurmctld that is never killed: a post
left over by a killed one lets `do_backfill` of the next return early
(`stale_posts`).
`ForkedLogExpected` needs `-f`: without it a slurmctld that is started after the
segment was cleared expects 0 jobs and ends the simulation at once.

## Not modelled

- Retries of slurmd's completion and helper-cycle messages after
  `MessageTimeout`, and the failed send that ends the helper: a second handler
  instance is needed.
- The retry queue of slurmctld's agent (`agent.c`); `SimCycle` has its messages in
  flight and their loss.
- The opening of the semaphores in the decay thread, which may come after the
  `sem_wait` of the plugin's `init` (`priority_multifactor_energy.c:1731`, `2286`),
  the decay and energy computations of the priority plugins, and the decay thread
  of `priority/multifactor`, which never answers.
- Pack and workflow jobs, the module list of a trace record, reservations of the
  trace.
- The MSA backfill plugin, a copy of the backfill plugin with module selection.
- User commands, slurmdbd and the trace tools, which are clients or sequential
  file conversions outside the loop; two simulations on one host.

## Running

    tlc -workers 2 -config SimCycle_reliable.cfg MCSimCycle
    tlapm SimCycleProofs.tla

The proofs of one module take between half a minute (`EventQueueProofs`) and
a quarter of an hour (`BackfillProofs`, `SimCycleEpilogProofs`).
