----------------------------- MODULE SchedGate -----------------------------
(***************************************************************************)
(* The rate limit in front of the scheduler: schedule() and the thread     *)
(* _sched_agent it starts when it does not want to run now (src/slurmctld/ *)
(* job_scheduler.c), on the simulated gettimeofday (src/common/            *)
(* sim_funcs.c).                                                           *)
(*                                                                         *)
(* The clock of a pass is the simulated second plus a counter of           *)
(* microseconds in shared memory that each gettimeofday of any process     *)
(* moves on by 100 without a lock and that nobody sets back; a tick is     *)
(* such a step.  The handlers that call schedule() run inside a helper     *)
(* cycle, with the clock stopped; the agent does not.                      *)
(***************************************************************************)
EXTENDS Integers

CONSTANTS
  Callers,     \* handlers of slurmctld that call schedule(0)
  Agent,       \* the thread of _sched_agent
  MinInterval, \* sched_min_interval, in ticks
  TicksPerSec, \* ticks that make up a second (10000, scaled down)
  MicroWrap,   \* ticks after which the unsigned counter wraps (2^32 / 100)
  MaxCalls,    \* bound: calls of schedule() by each handler
  MaxSec,      \* bound: the clock
  Room         \* bound: seconds of clock kept in reserve after the last call

ASSUME SchedGateAssumption ==
  /\ Agent \notin Callers
  /\ {MinInterval, TicksPerSec, MicroWrap, Room} \subseteq Nat \ {0}
  /\ {MaxCalls, MaxSec} \subseteq Nat
  /\ Room * TicksPerSec >= MinInterval

Threads == Callers \union {Agent}

VARIABLES
  sec, micro,        \* current_sim, current_micro
  sched_last,        \* [sec, usec] of the last pass
  sched_running, sched_pend_thread, sched_job_limit,
  pc,                \* where each thread is
  now,               \* its struct timeval
  delta,             \* its delta_t
  job_limit,         \* its job_limit
  calls,             \* calls made by each handler (for the bound)
  owed,              \* handlers that were put off and got no pass since
  promised           \* ... of those, the ones put off while an agent still waited

clock == <<sec, micro>>
gate == <<sched_last, sched_running, sched_pend_thread, sched_job_limit>>
local == <<now, delta, job_limit>>
gateVars == <<sec, micro, sched_last, sched_running, sched_pend_thread, sched_job_limit,
          pc, now, delta, job_limit, calls, owed, promised>>

Time(s, u) == [sec |-> s, usec |-> u]

GateInit ==
  /\ sec = 1 /\ micro = 0
  /\ sched_last = Time(0, 0)
  /\ sched_running = FALSE /\ sched_pend_thread = 0 /\ sched_job_limit = -1
  /\ pc = [t \in Threads |-> "idle"]
  /\ now = [t \in Threads |-> Time(0, 0)]
  /\ delta = [t \in Threads |-> 0]
  /\ job_limit = [t \in Threads |-> 0]
  /\ calls = [c \in Callers |-> 0]
  /\ owed = {} /\ promised = {}

\* gettimeofday: the increment of current_micro is not atomic and can be lost
\* to that of another process
GetTimeOfDay(t) ==
  /\ micro' \in {micro, (micro + 1) % MicroWrap}
  /\ now' = [now EXCEPT ![t] = Time(sec, micro')]
  /\ UNCHANGED sec

Elapsed(n) == (n.sec - sched_last.sec) * TicksPerSec + n.usec - sched_last.usec

\* A handler calls schedule(0)
Call(c) ==
  /\ pc[c] = "idle" /\ calls[c] < MaxCalls /\ sec + Room <= MaxSec
  /\ calls' = [calls EXCEPT ![c] = @ + 1]
  /\ job_limit' = [job_limit EXCEPT ![c] = 0]
  /\ pc' = [pc EXCEPT ![c] = "clock"]
  /\ UNCHANGED <<clock, gate, now, delta, owed, promised>>

ReadClock(t) ==
  /\ pc[t] = "clock"
  /\ GetTimeOfDay(t)
  /\ pc' = [pc EXCEPT ![t] = "delta"]
  /\ UNCHANGED <<gate, delta, job_limit, calls, owed, promised>>

\* sched_last and sched_running are read before the mutex is taken
ReadDelta(t) ==
  /\ pc[t] = "delta"
  /\ delta' = [delta EXCEPT ![t] = IF sched_last.sec = 0 THEN MinInterval
                                   ELSE IF sched_running THEN 0
                                   ELSE Elapsed(now[t])]
  /\ pc' = [pc EXCEPT ![t] = "mutex"]
  /\ UNCHANGED <<clock, gate, now, job_limit, calls, owed, promised>>

\* What sched_job_limit becomes: 0 is unlimited and stays, -1 is unset
AddLimit_Counts(old, n) == IF old = -1 THEN n ELSE old + n
AddLimit(old, n) == IF old = 0 \/ n = 0 THEN 0 ELSE IF old = -1 THEN n ELSE old + n

\* Under sched_mutex, far enough from the last pass: go on to _schedule
PassNow(t) ==
  /\ pc[t] = "mutex" /\ delta[t] >= MinInterval
  /\ sched_last' = now[t]
  /\ sched_running' = TRUE
  /\ job_limit' = [job_limit EXCEPT ![t] = AddLimit(sched_job_limit, job_limit[t])]
  /\ sched_job_limit' = -1
  /\ pc' = [pc EXCEPT ![t] = "start"]
  /\ UNCHANGED <<clock, sched_pend_thread, now, delta, calls, owed, promised>>

Returns(t) == IF t = Agent THEN "reset" ELSE "idle"

\* The agent is past its own test when it calls schedule(1) itself
AgentWaits == sched_pend_thread = 0 \/ pc[Agent] = "poll"

\* ... too soon: leave it to an agent, a new one if there is none
PutOff_NoAgent(t) ==
  /\ pc[t] = "mutex" /\ delta[t] < MinInterval
  /\ sched_job_limit' = AddLimit(sched_job_limit, job_limit[t])
  /\ owed' = owed \union ({t} \ {Agent})
  /\ promised' = IF AgentWaits THEN promised \union ({t} \ {Agent}) ELSE promised
  /\ sched_pend_thread' = 1
  /\ pc' = [pc EXCEPT ![t] = Returns(t)]
  /\ UNCHANGED <<clock, sched_last, sched_running, local, calls>>

PutOff_CountsAgents(t) ==
  /\ pc[t] = "mutex" /\ delta[t] < MinInterval
  /\ sched_job_limit' = AddLimit(sched_job_limit, job_limit[t])
  /\ owed' = owed \union ({t} \ {Agent})
  /\ promised' = IF AgentWaits THEN promised \union ({t} \ {Agent}) ELSE promised
  /\ sched_pend_thread' = sched_pend_thread + 1
  /\ pc' = [pc EXCEPT ![t] = Returns(t), ![Agent] = "poll"]
  /\ UNCHANGED <<clock, sched_last, sched_running, local, calls>>

PutOff(t) ==
  /\ pc[t] = "mutex" /\ delta[t] < MinInterval
  /\ sched_job_limit' = AddLimit(sched_job_limit, job_limit[t])
  /\ owed' = owed \union ({t} \ {Agent})
  /\ promised' = IF AgentWaits THEN promised \union ({t} \ {Agent}) ELSE promised
  /\ sched_pend_thread' = 1
  /\ pc' = [u \in Threads |-> IF u = t THEN Returns(t)
                              ELSE IF u = Agent /\ sched_pend_thread = 0 THEN "poll"
                              ELSE pc[u]]
  /\ UNCHANGED <<clock, sched_last, sched_running, local, calls>>

\* _schedule takes the job lock and looks at the queue: a pass without a limit
\* of its own is for everyone who asked before
PassStart(t) ==
  /\ pc[t] = "start"
  /\ owed' = IF job_limit[t] = 0 THEN {} ELSE owed
  /\ promised' = IF job_limit[t] = 0 THEN {} ELSE promised
  /\ pc' = [pc EXCEPT ![t] = "pass"]
  /\ UNCHANGED <<clock, gate, local, calls>>

PassEnd(t) ==
  /\ pc[t] = "pass"
  /\ GetTimeOfDay(t)
  /\ sched_last' = now'[t]
  /\ sched_running' = FALSE
  /\ pc' = [pc EXCEPT ![t] = Returns(t)]
  /\ UNCHANGED <<sched_pend_thread, sched_job_limit, delta, job_limit, calls, owed, promised>>

\* _sched_agent: one round of its loop, then schedule(1), then it is gone
AgentPoll ==
  /\ pc[Agent] = "poll"
  /\ ~sched_running
  /\ GetTimeOfDay(Agent)
  /\ pc' = [pc EXCEPT ![Agent] = IF Elapsed(now'[Agent]) >= MinInterval
                                 THEN "clock" ELSE "poll"]
  /\ job_limit' = [job_limit EXCEPT ![Agent] = 1]
  /\ UNCHANGED <<gate, delta, calls, owed, promised>>

AgentReset ==
  /\ pc[Agent] = "reset"
  /\ sched_pend_thread' = 0
  /\ pc' = [pc EXCEPT ![Agent] = "idle"]
  /\ UNCHANGED <<clock, sched_last, sched_running, sched_job_limit, local, calls, owed, promised>>

\* sim_mgr advances the clock between helper cycles
Advance ==
  /\ \A c \in Callers : pc[c] = "idle"
  /\ sec < MaxSec
  /\ sec' = sec + 1
  /\ UNCHANGED <<micro, gate, pc, local, calls, owed, promised>>

InSchedule(t) ==
  ReadClock(t) \/ ReadDelta(t) \/ PassNow(t) \/ PutOff(t) \/ PassStart(t) \/ PassEnd(t)

\* The system may stop once the bounds are reached and the agent is gone
Done ==
  /\ \A c \in Callers : pc[c] = "idle" /\ (calls[c] = MaxCalls \/ sec + Room > MaxSec)
  /\ pc[Agent] = "idle" /\ sec = MaxSec
  /\ UNCHANGED gateVars

GateNext ==
  \/ \E c \in Callers : Call(c)
  \/ \E t \in Threads : InSchedule(t)
  \/ AgentPoll \/ AgentReset \/ Advance \/ Done

GateSpec == GateInit /\ [][GateNext]_gateVars

\* Every thread runs (usleep returns), and the simulation goes on; no handler
\* has to call.
GateFairSpec ==
  /\ GateSpec
  /\ \A t \in Threads : WF_gateVars(InSchedule(t))
  /\ WF_gateVars(AgentPoll) /\ WF_gateVars(AgentReset) /\ WF_gateVars(Advance)

----------------------------------------------------------------------------
GateTypeOK ==
  /\ sec \in Nat /\ micro \in 0..(MicroWrap - 1)
  /\ sched_last \in [sec : Nat, usec : Nat]
  /\ sched_running \in BOOLEAN /\ sched_pend_thread \in {0, 1}
  /\ sched_job_limit \in Nat \union {-1}
  /\ pc \in [Threads -> {"idle", "clock", "delta", "mutex", "start", "pass", "poll", "reset"}]
  /\ now \in [Threads -> [sec : Nat, usec : Nat]]
  /\ delta \in [Threads -> Int]
  /\ job_limit \in [Threads -> Nat]
  /\ calls \in [Callers -> Nat]
  /\ owed \subseteq Callers /\ promised \subseteq owed

\* A full pass that was put off is not turned into a pass over one job: until a
\* pass without limit starts for it, sched_job_limit says unlimited, or a
\* thread has taken that limit and is about to start.
RequestRemembered ==
  owed # {} =>
    \/ sched_job_limit = 0
    \/ \E t \in Threads : pc[t] = "start" /\ job_limit[t] = 0

\* "We don't want to run now, but also don't want to defer this forever, so
\* spawn a thread to run later": whoever is put off while the agent still waits
\* has an agent that has not taken its decision, or a pass on its way.
DeferredHasAgent ==
  promised # {} =>
    \/ pc[Agent] \in {"poll", "clock", "delta", "mutex"} /\ sched_pend_thread = 1
    \/ \E t \in Threads : pc[t] = "start" /\ job_limit[t] = 0

\* ... and gets its pass, as long as the microseconds do not wrap.
DeferredRuns == \A c \in Callers : c \in promised ~> c \notin promised

\* "don't want to defer this forever", of every caller that is put off, also
\* while the agent makes its own pass and when current_micro wraps between the
\* agent's test and the one of its call of schedule().
NeverDeferredForever == \A c \in Callers : c \in owed ~> c \notin owed
============================================================================
