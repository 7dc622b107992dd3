-------------------------- MODULE EventQueueProofs --------------------------
(***************************************************************************)
(* What simulator_add_future_event does to a list of events of any length: *)
(* it inserts the new event, and keeps the list sorted.                    *)
(***************************************************************************)
EXTENDS EventQueue, SequenceTheorems, WellFoundedInduction, TLAPS

\* A set of natural numbers that is not empty has a least element.
LEMMA LeastNatural ==
  ASSUME NEW T \in SUBSET Nat, T # {}
  PROVE  \E x \in T : \A y \in T : x <= y
PROOF
<1>1. PICK x \in T : \A y \in T : ~(<<y, x>> \in OpToRel(<, Nat))
  BY WFMin, NatLessThanWellFounded, Zenon
<1>2. \A y \in T : ~(y < x)
  BY <1>1, Zenon DEF OpToRel
<1> QED
  BY <1>2

\* The time of an event of the list is a natural number.
LEMMA EventTimes ==
  ASSUME NEW J, NEW q \in Seq(EventRec(J))
  PROVE  \A k \in 1..Len(q) : q[k].when \in Nat
PROOF
<1> TAKE k \in 1..Len(q)
<1>1. q[k] \in EventRec(J)
  BY ElementOfSeq
<1> QED
  BY <1>1 DEF EventRec

\* Cutting a sequence after position k and linking e there inserts e at k + 1.
LEMMA CutAndLink ==
  ASSUME NEW S, NEW q \in Seq(S), NEW e \in S, NEW k \in 0..Len(q)
  PROVE  /\ SubSeq(q, 1, k) \o <<e>> \o SubSeq(q, k + 1, Len(q)) \in Seq(S)
         /\ Inserted(q, e, k + 1, SubSeq(q, 1, k) \o <<e>> \o SubSeq(q, k + 1, Len(q)))
PROOF
<1> DEFINE a == SubSeq(q, 1, k)
           b == SubSeq(q, k + 1, Len(q))
           ae == a \o <<e>>
           r == ae \o b
<1>1. Len(q) \in Nat /\ k \in Int
  BY LenProperties
<1>2. \A i \in 1..Len(q) : q[i] \in S
  BY ElementOfSeq
<1>3. a \in Seq(S) /\ Len(a) = k /\ \A i \in 1..k : a[i] = q[i]
  <2>1. \A i \in 1..k : q[i] \in S
    BY <1>1, <1>2
  <2>2. /\ a \in Seq(S)
        /\ Len(a) = IF 1 <= k THEN k - 1 + 1 ELSE 0
        /\ \A i \in 1..(k - 1 + 1) : a[i] = q[1 + i - 1]
    BY <1>1, <2>1, SubSeqProperties
  <2> QED
    BY <1>1, <2>2
<1>4. /\ b \in Seq(S) /\ Len(b) = Len(q) - k
      /\ \A i \in 1..(Len(q) - k) : b[i] = q[k + i]
  <2>1. \A i \in (k + 1)..Len(q) : q[i] \in S
    BY <1>1, <1>2
  <2>2. /\ b \in Seq(S)
        /\ Len(b) = IF k + 1 <= Len(q) THEN Len(q) - (k + 1) + 1 ELSE 0
        /\ \A i \in 1..(Len(q) - (k + 1) + 1) : b[i] = q[(k + 1) + i - 1]
    BY <1>1, <2>1, SubSeqProperties
  <2> QED
    BY <1>1, <2>2
<1>5. <<e>> \in Seq(S) /\ Len(<<e>>) = 1 /\ <<e>>[1] = e
  OBVIOUS
<1> HIDE DEF a, b
<1>6. /\ ae \in Seq(S) /\ Len(ae) = k + 1
      /\ \A i \in 1..(k + 1) : ae[i] = IF i <= k THEN a[i] ELSE <<e>>[i - k]
  BY <1>1, <1>3, <1>5, ConcatProperties, ZenonT(30)
<1>7. \A i \in 1..(k + 1) : ae[i] = IF i < k + 1 THEN q[i] ELSE e
  BY <1>1, <1>3, <1>5, <1>6, SMTT(30)
<1> HIDE DEF ae
<1>8. /\ r \in Seq(S) /\ Len(r) = Len(q) + 1
      /\ \A i \in 1..(Len(q) + 1) : r[i] = IF i <= k + 1 THEN ae[i] ELSE b[i - (k + 1)]
  <2>1. /\ r \in Seq(S) /\ Len(r) = Len(ae) + Len(b)
        /\ \A i \in 1..(Len(ae) + Len(b)) :
             r[i] = IF i <= Len(ae) THEN ae[i] ELSE b[i - Len(ae)]
    BY <1>4, <1>6, ConcatProperties, ZenonT(30)
  <2>2. Len(ae) = k + 1 /\ Len(ae) + Len(b) = Len(q) + 1
    BY <1>1, <1>4, <1>6, SMTT(30)
  <2> QED
    BY <2>1, <2>2, Zenon
<1>9. \A i \in (k + 2)..(Len(q) + 1) : b[i - (k + 1)] = q[i - 1]
  <2> TAKE i \in (k + 2)..(Len(q) + 1)
  <2>1. i - (k + 1) \in 1..(Len(q) - k) /\ k + (i - (k + 1)) = i - 1
    BY <1>1
  <2> QED
    BY <1>4, <2>1, Zenon
<1> HIDE DEF r
<1>10. Inserted(q, e, k + 1, r)
  <2> SUFFICES ASSUME NEW i \in 1..Len(r)
               PROVE  r[i] = IF i < k + 1 THEN q[i]
                             ELSE IF i = k + 1 THEN e ELSE q[i - 1]
    BY <1>8 DEF Inserted
  <2>1. i \in 1..(Len(q) + 1)
    BY <1>8
  <2>2. CASE i <= k + 1
    <3>1. r[i] = ae[i] /\ i \in 1..(k + 1)
      BY <1>1, <1>8, <2>1, <2>2, SMTT(30)
    <3>2. i < k + 1 \/ i = k + 1
      BY <1>1, <2>1, <2>2, SMTT(30)
    <3> QED
      BY <1>7, <3>1, <3>2, ZenonT(30)
  <2>3. CASE ~(i <= k + 1)
    <3>1. r[i] = b[i - (k + 1)] /\ i \in (k + 2)..(Len(q) + 1)
      BY <1>1, <1>8, <2>1, <2>3, SMTT(30)
    <3>2. ~(i < k + 1) /\ i # k + 1
      BY <1>1, <2>1, <2>3, SMTT(30)
    <3> QED
      BY <1>9, <3>1, <3>2, ZenonT(30)
  <2> QED
    BY <2>2, <2>3, ZenonT(30)
<1> QED
  BY <1>8, <1>10 DEF r, ae, a, b

\* The walk of simulator_add_future_event stops at a node of a list that is
\* not empty: the first one whose successor is missing or not earlier.
LEMMA WalkStops ==
  ASSUME NEW J, NEW q \in Seq(EventRec(J)), q # <<>>, NEW w \in Nat
  PROVE  /\ WalkStopsAt(q, w) \in 1..Len(q)
         /\ WalkStopsAt(q, w) = Len(q) \/ q[WalkStopsAt(q, w) + 1].when >= w
         /\ \A i \in 1..(WalkStopsAt(q, w) - 1) : q[i + 1].when < w
PROOF
<1> DEFINE T == {k \in 1..Len(q) : k = Len(q) \/ q[k + 1].when >= w}
<1>1. Len(q) \in Nat /\ Len(q) >= 1
  BY EmptySeq
<1>2. \A k \in 1..Len(q) : q[k].when \in Nat
  BY EventTimes
<1>3. T \in SUBSET Nat /\ T # {}
  BY <1>1
<1>4. PICK m \in T : \A y \in T : m <= y
  BY <1>3, LeastNatural, Zenon
<1>5. \A i \in 1..(m - 1) : q[i + 1].when < w
  <2> SUFFICES ASSUME NEW i \in 1..(m - 1) PROVE q[i + 1].when < w
    OBVIOUS
  <2>1. i \in 1..Len(q) /\ i + 1 \in 1..Len(q) /\ i \notin T
    BY <1>1, <1>4
  <2> QED
    BY <2>1, <1>2
<1>6. \E k \in 1..Len(q) :
        /\ k = Len(q) \/ q[k + 1].when >= w
        /\ \A i \in 1..(k - 1) : q[i + 1].when < w
  BY <1>4, <1>5, ZenonT(30)
<1> QED
  BY <1>6, Zenon DEF WalkStopsAt

\* simulator_add_future_event inserts the event at one position and leaves
\* the others in their order: before it only events that are not later,
\* after it only events that are not earlier, when the list is in time order.
LEMMA AddFutureEventInserts ==
  ASSUME NEW J, NEW q \in Seq(EventRec(J)), NEW e \in EventRec(J)
  PROVE  /\ AddFutureEvent(q, e) \in Seq(EventRec(J))
         /\ \E p \in 1..(Len(q) + 1) :
              /\ Inserted(q, e, p, AddFutureEvent(q, e))
              /\ SortedByTime(q) =>
                   /\ \A i \in 1..(p - 1) : q[i].when <= e.when
                   /\ \A i \in p..Len(q) : e.when <= q[i].when
PROOF
<1> DEFINE S == EventRec(J)
           r == AddFutureEvent(q, e)
<1>1. Len(q) \in Nat
  BY LenProperties
<1>2. /\ \A k \in 1..Len(q) : q[k].when \in Nat
      /\ e.when \in Nat
  BY EventTimes, ZenonT(30) DEF EventRec
<1>3. CASE q = <<>>
  <2>1. r = <<e>> /\ Len(q) = 0
    BY <1>3 DEF AddFutureEvent
  <2>2. Inserted(q, e, 1, r)
    BY <2>1 DEF Inserted
  <2>3. r \in Seq(S)
    BY <2>1
  <2> QED
    BY <2>1, <2>2, <2>3
<1>4. CASE q # <<>> /\ q[1].when > e.when
  <2>1. r = <<e>> \o q
    BY <1>4 DEF AddFutureEvent
  <2>2. <<e>> \in Seq(S) /\ Len(<<e>>) = 1 /\ <<e>>[1] = e
    OBVIOUS
  <2>3. /\ <<e>> \o q \in Seq(S) /\ Len(<<e>> \o q) = 1 + Len(q)
        /\ \A i \in 1..(1 + Len(q)) :
             (<<e>> \o q)[i] = IF i <= 1 THEN <<e>>[i] ELSE q[i - 1]
    BY <2>2, ConcatProperties, ZenonT(30)
  <2>4. Inserted(q, e, 1, r)
    BY <1>1, <2>1, <2>2, <2>3, SMTT(30) DEF Inserted
  <2>5. SortedByTime(q) => \A i \in 1..Len(q) : e.when <= q[i].when
    <3> SUFFICES ASSUME SortedByTime(q), NEW i \in 1..Len(q)
                 PROVE  e.when <= q[i].when
      OBVIOUS
    <3>1. 1 \in 1..Len(q) /\ 1 <= i
      BY <1>1
    <3>2. q[1].when <= q[i].when
      BY <3>1 DEF SortedByTime
    <3> QED
      BY <1>2, <1>4, <3>1, <3>2, SMTT(30)
  <2>6. 1 \in 1..(Len(q) + 1) /\ 1..(1 - 1) = {}
    BY <1>1
  <2>7. r \in Seq(S)
    BY <2>1, <2>3, ZenonT(30)
  <2>8. SortedByTime(q) => /\ \A i \in 1..(1 - 1) : q[i].when <= e.when
                           /\ \A i \in 1..Len(q) : e.when <= q[i].when
    BY <2>5, <2>6, ZenonT(30)
  <2> QED
    BY <2>4, <2>6, <2>7, <2>8, ZenonT(30)
<1>5. CASE q # <<>> /\ ~(q[1].when > e.when)
  <2> DEFINE k == WalkStopsAt(q, e.when)
  <2>1. /\ k \in 1..Len(q)
        /\ k = Len(q) \/ q[k + 1].when >= e.when
        /\ \A i \in 1..(k - 1) : q[i + 1].when < e.when
    BY <1>2, <1>5, WalkStops, ZenonT(30)
  <2> HIDE DEF k
  <2>2. r = SubSeq(q, 1, k) \o <<e>> \o SubSeq(q, k + 1, Len(q))
    BY <1>5, ZenonT(30) DEF AddFutureEvent, LinkAfter, k
  <2>3. k \in 0..Len(q)
    BY <1>1, <2>1, SMTT(30)
  <2>4. r \in Seq(S) /\ Inserted(q, e, k + 1, r)
    BY <2>2, <2>3, CutAndLink, ZenonT(30)
  <2>5. \A i \in 1..k : q[i].when <= e.when
    <3> SUFFICES ASSUME NEW i \in 1..k PROVE q[i].when <= e.when
      OBVIOUS
    <3>1. CASE i = 1
      BY <1>1, <1>2, <1>5, <2>1, <3>1, SMTT(30)
    <3>2. CASE i # 1
      <4>1. i - 1 \in 1..(k - 1) /\ (i - 1) + 1 = i /\ i \in 1..Len(q)
        BY <1>1, <2>1, <3>2, SMTT(30)
      <4>2. q[(i - 1) + 1].when < e.when
        BY <2>1, <4>1, ZenonT(30)
      <4>3. q[i].when < e.when
        BY <4>1, <4>2, ZenonT(30)
      <4> QED
        BY <1>2, <4>1, <4>3, SMTT(30)
    <3> QED
      BY <3>1, <3>2, ZenonT(30)
  <2>6. SortedByTime(q) => \A i \in (k + 1)..Len(q) : e.when <= q[i].when
    <3> SUFFICES ASSUME SortedByTime(q), NEW i \in (k + 1)..Len(q)
                 PROVE  e.when <= q[i].when
      OBVIOUS
    <3>1. k + 1 \in 1..Len(q) /\ i \in 1..Len(q) /\ k + 1 <= i /\ k # Len(q)
      BY <1>1, <2>1
    <3>2. q[k + 1].when <= q[i].when
      BY <3>1 DEF SortedByTime
    <3>3. e.when <= q[k + 1].when
      BY <1>2, <2>1, <3>1, ZenonT(30)
    <3> QED
      BY <1>2, <3>1, <3>2, <3>3, SMTT(30)
  <2>7. k + 1 \in 1..(Len(q) + 1) /\ (k + 1) - 1 = k
    BY <1>1, <2>1, SMTT(30)
  <2> QED
    BY <2>4, <2>5, <2>6, <2>7, ZenonT(30)
<1> QED
  BY <1>3, <1>4, <1>5, ZenonT(30)

\* Inserting into a list in time order gives a list in time order, wherever
\* in time the new event lies (simulator_add_future_event).
THEOREM AddFutureEventSorted ==
  ASSUME NEW J, NEW q \in Seq(EventRec(J)), SortedByTime(q), NEW e \in EventRec(J)
  PROVE  SortedByTime(AddFutureEvent(q, e))
PROOF
<1> DEFINE r == AddFutureEvent(q, e)
<1>1. PICK p \in 1..(Len(q) + 1) :
        /\ Inserted(q, e, p, r)
        /\ \A i \in 1..(p - 1) : q[i].when <= e.when
        /\ \A i \in p..Len(q) : e.when <= q[i].when
  BY AddFutureEventInserts, Zenon
<1>2. Len(q) \in Nat
  BY LenProperties
<1>3. /\ \A k \in 1..Len(q) : q[k].when \in Nat
      /\ e.when \in Nat
  BY EventTimes, ZenonT(30) DEF EventRec
<1> HIDE DEF r
<1>4. ASSUME NEW i \in 1..Len(r), NEW l \in 1..Len(r), i <= l
      PROVE  r[i].when <= r[l].when
  <2>1. /\ Len(r) = Len(q) + 1
        /\ r[i] = IF i < p THEN q[i] ELSE IF i = p THEN e ELSE q[i - 1]
        /\ r[l] = IF l < p THEN q[l] ELSE IF l = p THEN e ELSE q[l - 1]
    BY <1>1 DEF Inserted
  <2>2. CASE i < p /\ l < p
    <3>1. i \in 1..Len(q) /\ l \in 1..Len(q)
      BY <1>2, <2>1, <2>2, SMTT(30)
    <3> QED
      BY <1>4, <2>1, <2>2, <3>1, ZenonT(30) DEF SortedByTime
  <2>3. CASE i < p /\ l = p
    <3>1. i \in 1..(p - 1) /\ r[i] = q[i] /\ r[l] = e
      BY <1>2, <2>1, <2>3, SMTT(30)
    <3> QED
      BY <1>1, <3>1, ZenonT(30)
  <2>4. CASE i < p /\ l > p
    <3>1. i \in 1..Len(q) /\ l - 1 \in 1..Len(q) /\ i <= l - 1
      BY <1>2, <2>1, <2>4, SMTT(30)
    <3>2. r[i] = q[i] /\ r[l] = q[l - 1]
      BY <1>2, <2>1, <2>4, SMTT(30)
    <3> QED
      BY <3>1, <3>2, ZenonT(30) DEF SortedByTime
  <2>5. CASE i = p /\ l = p
    <3>1. r[i].when = e.when /\ r[l].when = e.when
      BY <2>1, <2>5, SMTT(30)
    <3> QED
      BY <1>3, <3>1, SMTT(30)
  <2>6. CASE i = p /\ l > p
    <3>1. l - 1 \in p..Len(q) /\ r[i] = e /\ r[l] = q[l - 1]
      BY <1>2, <2>1, <2>6, SMTT(30)
    <3> QED
      BY <1>1, <3>1, ZenonT(30)
  <2>7. CASE i > p
    <3>1. /\ i - 1 \in 1..Len(q) /\ l - 1 \in 1..Len(q) /\ i - 1 <= l - 1
          /\ r[i] = q[i - 1] /\ r[l] = q[l - 1]
      BY <1>2, <1>4, <2>1, <2>7, SMTT(30)
    <3> QED
      BY <3>1, ZenonT(30) DEF SortedByTime
  <2> QED
    BY <1>2, <1>4, <2>1, <2>2, <2>3, <2>4, <2>5, <2>6, <2>7, SMTT(30)
<1> QED
  BY <1>4 DEF SortedByTime, r
=============================================================================
