----------------------------- MODULE EventQueue -----------------------------
(***************************************************************************)
(* The list of future events of slurmd (head_simulator_event): the place   *)
(* where simulator_add_future_event links a new event.  The list is a      *)
(* sequence of records [job, when], its head first.  Operators named        *)
(* Name_Variant are faulty variants of Name that nothing uses.             *)
(***************************************************************************)
EXTENDS Integers, Sequences

\* The walk of the source: it starts at the head and goes on while the next
\* node exists and is strictly earlier than the new event.
WalkStopsAt(q, w) ==
  CHOOSE k \in 1..Len(q) :
    /\ k = Len(q) \/ q[k + 1].when >= w
    /\ \A i \in 1..(k - 1) : q[i + 1].when < w

LinkAfter(q, k, e) == SubSeq(q, 1, k) \o <<e>> \o SubSeq(q, k + 1, Len(q))

AddFutureEvent_AtHead(q, e) == <<e>> \o q

AddFutureEvent_LosesHead(q, e) ==
  IF q = <<>> \/ q[1].when > e.when THEN <<e>>
  ELSE LinkAfter(q, WalkStopsAt(q, e.when), e)

AddFutureEvent(q, e) ==
  IF q = <<>> THEN <<e>>
  ELSE IF q[1].when > e.when THEN <<e>> \o q
  ELSE LinkAfter(q, WalkStopsAt(q, e.when), e)

\* An event of one of the jobs J.
EventRec(J) == [job : J, when : Nat]

\* r is q with e inserted at position p.
Inserted(q, e, p, r) ==
  /\ Len(r) = Len(q) + 1
  /\ \A i \in 1..Len(r) :
       r[i] = IF i < p THEN q[i] ELSE IF i = p THEN e ELSE q[i - 1]

\* The order the helper relies on when it looks at the head only.
SortedByTime(q) ==
  \A i, k \in 1..Len(q) : i <= k => q[i].when <= q[k].when
=============================================================================
