------------------------------ MODULE JobLife ------------------------------
(***************************************************************************)
(* What a simulation of a job trace promises, without the processes that   *)
(* carry it out: jobs arrive in the order of the trace and not before      *)
(* their time, start when enough nodes are free, end after the duration    *)
(* the trace gives or when their time limit is over, and then give their   *)
(* nodes back, once.                                                       *)
(***************************************************************************)
EXTENDS Integers

CONSTANTS NJobs, Submit, Duration, TimeLimit, OverTimeLimit, Width, NNodes

VARIABLES clock, state, start, free

life == <<clock, state, start, free>>

Jobs == 1..NJobs

Init ==
  /\ clock = 1 /\ free = NNodes
  /\ state = [j \in Jobs |-> "NONE"] /\ start = [j \in Jobs |-> 0]

\* Time passes.
Tick ==
  /\ clock' \in Nat /\ clock' > clock
  /\ UNCHANGED <<state, start, free>>

Arrive(j) ==
  /\ state[j] = "NONE" /\ \A k \in 1..(j - 1) : state[k] # "NONE"
  /\ clock >= Submit[j]
  /\ state' = [state EXCEPT ![j] = "PENDING"]
  /\ UNCHANGED <<clock, start, free>>

Start(j) ==
  /\ state[j] = "PENDING" /\ Width[j] <= free
  /\ state' = [state EXCEPT ![j] = "RUNNING"]
  /\ start' = [start EXCEPT ![j] = clock]
  /\ free' = free - Width[j]
  /\ UNCHANGED clock

LimitEnd(j) == start[j] + TimeLimit[j] + OverTimeLimit

\* The job has run for its duration; past the limit it counts as timed out.
Finish(j) ==
  /\ state[j] = "RUNNING" /\ clock >= start[j] + Duration[j]
  /\ state' = [state EXCEPT ![j] = IF LimitEnd(j) < clock THEN "TIMEOUT_CG"
                                                          ELSE "COMPLETE_CG"]
  /\ UNCHANGED <<clock, start, free>>

\* Jobs that have reached their limit are killed, all those of J at once.
TimeOut(J) ==
  /\ \A j \in J : state[j] = "RUNNING" /\ clock >= LimitEnd(j)
  /\ state' = [j \in Jobs |-> IF j \in J THEN "TIMEOUT_CG" ELSE state[j]]
  /\ UNCHANGED <<clock, start, free>>

Release(j) ==
  /\ \/ state[j] = "COMPLETE_CG" /\ state' = [state EXCEPT ![j] = "COMPLETE"]
     \/ state[j] = "TIMEOUT_CG"  /\ state' = [state EXCEPT ![j] = "TIMEOUT"]
  /\ free' = free + Width[j]
  /\ UNCHANGED <<clock, start>>

Next ==
  \/ Tick
  \/ \E j \in Jobs : Arrive(j) \/ Start(j) \/ Finish(j) \/ Release(j)
  \/ \E J \in SUBSET Jobs : TimeOut(J)

Spec == Init /\ [][Next]_life
=============================================================================
