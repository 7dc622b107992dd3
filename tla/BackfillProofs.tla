--------------------------- MODULE BackfillProofs ---------------------------
(* The reservation table says what is planned and backfilling delays nobody, *)
(* for any cluster, queue and table size, as long as the resolution of the   *)
(* table is not coarser than the unit of time limits.                        *)
EXTENDS Backfill, SequenceTheorems, FiniteSetTheorems, WellFoundedInduction, TLAPS

(* The records of the table follow one another and fill the window.          *)
Ordered(ns) ==
  /\ ns \in Seq(Record) /\ Len(ns) >= 1
  /\ ns[1].begin = SchedStart /\ ns[Len(ns)].end = window_end
  /\ \A i \in 1 .. Len(ns) : ns[i].begin <= ns[i].end
  /\ \A i \in 1 .. Len(ns) - 1 : ns[i].end = ns[i + 1].begin
  /\ \A i, j \in 1 .. Len(ns) : i < j => ns[i].end <= ns[j].begin

(* No record offers a node of the reservation while it lasts.                *)
Keeps(ns, nodes, from, to) ==
  \A i \in 1 .. Len(ns), t \in Nat :
     /\ from <= t /\ t < to
     /\ ns[i].begin <= t /\ t < ns[i].end
     => ns[i].avail \intersect nodes = {}

(* ms offers at every instant the nodes that ns offers then.                 *)
AsBefore(ms, ns) ==
  \A i \in 1 .. Len(ms), t \in Nat :
     ms[i].begin <= t /\ t < ms[i].end
     => \E k \in 1 .. Len(ns) : /\ ns[k].begin <= t /\ t < ns[k].end
                               /\ ms[i].avail = ns[k].avail

(* ms offers what ns offers, but for the nodes from one instant to another.  *)
AllBut(ms, ns, nodes, from, to) ==
  \A i \in 1 .. Len(ms), t \in Nat :
     ms[i].begin <= t /\ t < ms[i].end
     => \E k \in 1 .. Len(ns) :
          /\ ns[k].begin <= t /\ t < ns[k].end
          /\ ms[i].avail = IF from <= t /\ t < to THEN ns[k].avail \ nodes
                                                  ELSE ns[k].avail

(* No record straddles t.                                                    *)
Aligned(ns, t) == \A i \in 1 .. Len(ns) : ns[i].begin < t => ns[i].end <= t

(* The first record that does not end before t ends at t.                    *)
CutAt(ns, t) ==
  \A j \in 1 .. Len(ns) :
     ns[j].end >= t /\ (\A i \in 1 .. Len(ns) : i < j => ns[i].end < t)
       => ns[j].end = t

\* The least element of a set of natural numbers: the first record the walks of
\* _add_reservation and of the main loop stop at.
LEMMA LeastOf ==
  ASSUME NEW T \in SUBSET Nat, T # {}
  PROVE  Min(T) \in T /\ \A y \in T : Min(T) <= y
PROOF
<1>1. PICK x \in T : \A y \in T : ~(<<y, x>> \in OpToRel(<, Nat))
  BY WFMin, NatLessThanWellFounded, Zenon
<1>2. \A y \in T : ~(y < x)
  BY <1>1, Zenon DEF OpToRel
<1>3. \A y \in T : x <= y
  BY <1>2
<1> QED
  BY <1>3, Zenon DEF Min

\* The greater of two numbers: how the pass moves a start up to start_res and a
\* reservation up to the beginning of the table.
LEMMA GreatestOfTwo ==
  ASSUME NEW a \in Nat, NEW b \in Nat
  PROVE  Max({a, b}) = IF a >= b THEN a ELSE b
PROOF
<1>1. \E x \in {a, b} : \A y \in {a, b} : x >= y
  OBVIOUS
<1> QED
  BY <1>1 DEF Max

\* Rounding down to the resolution, and what a reservation loses by it: one
\* at least a resolution long still covers its first instant.
LEMMA FloorBounds ==
  ASSUME NEW t \in Nat, NEW d \in Nat, d >= Resolution
  PROVE  /\ Floor(t) \in Nat /\ Floor(t) <= t
         /\ Floor(t + d) \in Nat /\ t < Floor(t + d)
PROOF
<1> DEFINE R == Resolution
<1>0. R \in Nat /\ R > 0
  BY BackfillAssumption
<1> HIDE DEF R
<1>1. \A x \in Nat : /\ x \div R \in Nat
                     /\ (x \div R) * R <= x /\ x < (x \div R) * R + R
  BY <1>0, Z3
<1>2. \A x \in Nat : (x \div R) * R \in Nat
  BY <1>0, <1>1
<1>3. R = Resolution
  BY DEF R
<1> QED
  BY <1>0, <1>1, <1>2, <1>3 DEF Floor

-----------------------------------------------------------------------------
\* The records of an ordered table are records.
LEMMA TableRecords ==
  ASSUME NEW ns, Ordered(ns)
  PROVE  /\ Len(ns) \in Nat /\ DOMAIN ns = 1 .. Len(ns)
         /\ \A i \in 1 .. Len(ns) : /\ ns[i] \in Record
                                    /\ ns[i].begin \in Nat /\ ns[i].end \in Nat
                                    /\ ns[i].avail \in SUBSET Nodes
                                    /\ ns[i].begin >= SchedStart
PROOF
<1>1. ns \in Seq(Record)
  BY DEF Ordered
<1>2. Len(ns) \in Nat /\ DOMAIN ns = 1 .. Len(ns)
  BY <1>1, LenProperties
<1>3. \A i \in 1 .. Len(ns) : ns[i] \in Record
  BY <1>1, ElementOfSeq
<1>4. \A i \in 1 .. Len(ns) : ns[i].begin \in Nat /\ ns[i].end \in Nat
  BY <1>3 DEF Record
<1>5. ASSUME NEW i \in 1 .. Len(ns)  PROVE ns[i].begin >= SchedStart
  <2>0. SchedStart \in Nat
    BY BackfillAssumption
  <2>1. CASE i = 1
    BY <2>0, <2>1, <1>4 DEF Ordered
  <2>2. CASE i # 1
    <3>1. 1 \in 1 .. Len(ns) /\ 1 < i
      BY <2>2, <1>2
    <3>2. ns[1].begin <= ns[1].end /\ ns[1].end <= ns[i].begin
      BY <3>1 DEF Ordered
    <3> QED
      BY <3>1, <3>2, <1>4, <2>0 DEF Ordered
  <2> QED
    BY <2>1, <2>2
<1> QED
  BY <1>2, <1>3, <1>4, <1>5 DEF Record

\* Cutting a record inside its interval leaves an ordered table, with a
\* boundary at the cut, that keeps every reservation the table kept.
LEMMA SplitKeeps ==
  ASSUME NEW ns, Ordered(ns), NEW j \in 1 .. Len(ns), NEW t \in Nat,
         ns[j].begin <= t, t <= ns[j].end
  PROVE  /\ Ordered(Split(ns, j, t))
         /\ Len(Split(ns, j, t)) = Len(ns) + 1
         /\ Split(ns, j, t)[j].end = t
         /\ \A i \in 1 .. Len(ns) : i < j => Split(ns, j, t)[i] = ns[i]
         /\ AsBefore(Split(ns, j, t), ns)
PROOF
<1> DEFINE r == Split(ns, j, t)
           n == Len(ns)
<1>1. /\ n \in Nat /\ DOMAIN ns = 1 .. n
      /\ \A i \in 1 .. n : /\ ns[i] \in Record
                           /\ ns[i].begin \in Nat /\ ns[i].end \in Nat
  BY TableRecords
<1>2. /\ [ns[j] EXCEPT !.end = t] = [begin |-> ns[j].begin, end |-> t, avail |-> ns[j].avail]
      /\ [ns[j] EXCEPT !.begin = t] = [begin |-> t, end |-> ns[j].end, avail |-> ns[j].avail]
  BY <1>1 DEF Record
<1>3. \A i \in 1 .. n + 1 :
        r[i] = IF i < j THEN ns[i]
               ELSE IF i = j THEN [begin |-> ns[j].begin, end |-> t, avail |-> ns[j].avail]
               ELSE IF i = j + 1 THEN [begin |-> t, end |-> ns[j].end, avail |-> ns[j].avail]
               ELSE ns[i - 1]
  BY <1>1, <1>2 DEF Split
<1>4. r \in Seq(Record) /\ Len(r) = n + 1
  <2>1. \A i \in 1 .. n + 1 : r[i] \in Record
    BY <1>1, <1>3 DEF Record
  <2>2. r \in [1 .. n + 1 -> Record]
    BY <2>1 DEF Split
  <2>3. n + 1 \in Nat
    BY <1>1
  <2> QED
    BY <2>2, <2>3
<1> HIDE DEF r
<1>15. \A i \in 1 .. n + 1 : i < j => i \in 1 .. n /\ r[i] = ns[i]
  BY <1>1, <1>3
<1>16. /\ r[j].begin = ns[j].begin /\ r[j].end = t /\ r[j].avail = ns[j].avail
       /\ r[j + 1].begin = t /\ r[j + 1].end = ns[j].end /\ r[j + 1].avail = ns[j].avail
  <2>1. /\ j \in 1 .. n + 1 /\ ~(j < j)
        /\ j + 1 \in 1 .. n + 1 /\ ~(j + 1 < j) /\ j + 1 # j
    BY <1>1
  <2>2. r[j] = [begin |-> ns[j].begin, end |-> t, avail |-> ns[j].avail]
    BY <2>1, <1>3
  <2>3. r[j + 1] = [begin |-> t, end |-> ns[j].end, avail |-> ns[j].avail]
    BY <2>1, <1>3
  <2> QED
    BY <2>2, <2>3
<1>17. \A i \in 1 .. n + 1 : i > j + 1 => i - 1 \in 1 .. n /\ r[i] = ns[i - 1]
  <2> SUFFICES ASSUME NEW i \in 1 .. n + 1, i > j + 1
               PROVE  i - 1 \in 1 .. n /\ r[i] = ns[i - 1]
    OBVIOUS
  <2>1. i - 1 \in 1 .. n /\ ~(i < j) /\ i # j /\ i # j + 1
    BY <1>1
  <2> QED
    BY <2>1, <1>3
<1>5. /\ r[1].begin = SchedStart /\ r[n + 1].end = window_end
  <2>1. ns[1].begin = SchedStart /\ ns[n].end = window_end /\ 1 <= n
    BY DEF Ordered
  <2>2. r[1].begin = ns[1].begin
    BY <1>1, <1>3, <2>1
  <2>3. r[n + 1].end = ns[n].end
    <3>1. CASE j = n
      <4>1. r[j + 1].end = ns[j].end
        BY <1>16
      <4> QED
        BY <4>1, <3>1
    <3>2. CASE j < n
      <4>1. n + 1 \in 1 .. n + 1 /\ n + 1 > j + 1 /\ n + 1 - 1 = n
        BY <3>2, <1>1
      <4> QED
        BY <4>1, <1>17
    <3>3. j = n \/ j < n
      <4>1. n \in Nat
        BY <1>1
      <4> QED
        BY <4>1
    <3> QED
      BY <3>1, <3>2, <3>3
  <2> QED
    BY <2>1, <2>2, <2>3
<1>6. \A i \in 1 .. n : ns[i].begin <= ns[i].end
  BY DEF Ordered
<1>7. \A i \in 1 .. n + 1 : r[i].begin <= r[i].end
  <2> SUFFICES ASSUME NEW i \in 1 .. n + 1  PROVE r[i].begin <= r[i].end
    OBVIOUS
  <2>1. CASE i < j
    BY <2>1, <1>15, <1>6
  <2>2. CASE i = j
    BY <2>2, <1>16
  <2>3. CASE i = j + 1
    BY <2>3, <1>16
  <2>4. CASE i > j + 1
    BY <2>4, <1>17, <1>6, Zenon
  <2> QED
    BY <2>1, <2>2, <2>3, <2>4, <1>1
<1>8. \A i \in 1 .. n - 1 : ns[i].end = ns[i + 1].begin
  BY DEF Ordered
<1>9. ASSUME NEW i \in 1 .. n  PROVE r[i].end = r[i + 1].begin
  <2>1. CASE i < j - 1
    <3>1. i \in 1 .. n + 1 /\ i + 1 \in 1 .. n + 1 /\ i < j /\ i + 1 < j
      BY <2>1, <1>1
    <3>2. r[i] = ns[i] /\ r[i + 1] = ns[i + 1]
      BY <3>1, <1>15
    <3>3. i \in 1 .. n - 1
      BY <2>1, <1>1
    <3>4. ns[i].end = ns[i + 1].begin
      BY <3>3, <1>8
    <3> QED
      BY <3>2, <3>4
  <2>2. CASE i = j - 1
    <3>1. i \in 1 .. n + 1 /\ i < j /\ i + 1 = j
      BY <2>2, <1>1
    <3>2. r[i] = ns[i] /\ r[i + 1].begin = ns[i + 1].begin
      BY <3>1, <1>15, <1>16
    <3>3. i \in 1 .. n - 1
      BY <2>2, <1>1
    <3>4. ns[i].end = ns[i + 1].begin
      BY <3>3, <1>8
    <3> QED
      BY <3>2, <3>4
  <2>3. CASE i = j
    BY <2>3, <1>16
  <2>4. CASE i = j + 1
    <3>1. /\ i + 1 \in 1 .. n + 1 /\ i + 1 > j + 1 /\ i + 1 - 1 = i
          /\ j \in 1 .. n - 1
      BY <2>4, <1>1
    <3>2. r[i].end = ns[j].end /\ r[i + 1] = ns[i]
      BY <3>1, <2>4, <1>16, <1>17
    <3>3. ns[j].end = ns[j + 1].begin
      BY <3>1, <1>8
    <3> QED
      BY <3>2, <3>3, <2>4
  <2>5. CASE i > j + 1
    <3>0. /\ i \in 1 .. n + 1 /\ i + 1 \in 1 .. n + 1 /\ i + 1 > j + 1
          /\ i + 1 - 1 = i
      BY <2>5, <1>1
    <3>1. r[i] = ns[i - 1] /\ r[i + 1] = ns[i]
      BY <2>5, <3>0, <1>17
    <3>2. i - 1 \in 1 .. n - 1
      BY <2>5, <1>1
    <3>3. ns[i - 1].end = ns[i - 1 + 1].begin
      BY <3>2, <1>8
    <3>4. i - 1 + 1 = i
      BY <1>1
    <3> QED
      BY <3>1, <3>3, <3>4
  <2>6. i < j - 1 \/ i = j - 1 \/ i = j \/ i = j + 1 \/ i > j + 1
    BY <1>1
  <2> QED
    BY <2>1, <2>2, <2>3, <2>4, <2>5, <2>6
<1>10. \A i, k \in 1 .. n : i < k => ns[i].end <= ns[k].begin
  BY DEF Ordered
<1>11. ASSUME NEW i \in 1 .. n + 1, NEW k \in 1 .. n + 1, i < k
       PROVE  r[i].end <= r[k].begin
  <2>0. i \in Nat /\ k \in Nat /\ j \in Nat
    BY <1>1
  <2>1. CASE k < j
    <3>1. i < j
      BY <2>0, <2>1, <1>11
    <3>2. r[i] = ns[i] /\ r[k] = ns[k] /\ i \in 1 .. n /\ k \in 1 .. n
      BY <3>1, <2>1, <1>15
    <3> QED
      BY <3>2, <1>11, <1>10
  <2>2. CASE k = j
    <3>1. r[i] = ns[i] /\ i \in 1 .. n
      BY <2>2, <1>11, <1>15
    <3>2. ns[i].end <= ns[j].begin
      BY <3>1, <2>2, <1>11, <1>10
    <3> QED
      BY <3>1, <3>2, <2>2, <1>16
  <2>3. CASE k = j + 1
    <3>1. CASE i = j
      <4>1. r[i].end = t /\ r[k].begin = t
        BY <3>1, <2>3, <1>16
      <4> QED
        BY <4>1
    <3>2. CASE i < j
      <4>1. r[i] = ns[i] /\ i \in 1 .. n
        BY <3>2, <1>15
      <4>2. ns[i].end <= ns[j].begin
        BY <4>1, <3>2, <1>10
      <4>3. r[k].begin = t
        BY <2>3, <1>16
      <4>4. ns[i].end \in Nat /\ ns[j].begin \in Nat
        BY <4>1, <1>1
      <4>5. ns[i].end <= t
        BY <4>2, <4>4
      <4> QED
        BY <4>1, <4>3, <4>5
    <3>3. i = j \/ i < j
      BY <2>0, <2>3, <1>11
    <3> QED
      BY <3>1, <3>2, <3>3
  <2>4. CASE k > j + 1
    <3>0. r[k] = ns[k - 1] /\ k - 1 \in 1 .. n
      BY <2>4, <1>17
    <3>1. CASE i < j
      <4>1. r[i] = ns[i] /\ i \in 1 .. n
        BY <3>1, <1>15
      <4>2. i < k - 1
        BY <3>1, <2>4, <2>0
      <4>3. ns[i].end <= ns[k - 1].begin
        BY <4>1, <4>2, <3>0, <1>10
      <4> QED
        BY <4>1, <4>3, <3>0
    <3>5. ns[j].end <= ns[k - 1].begin
      <4>1. j < k - 1
        BY <2>4, <2>0
      <4> QED
        BY <4>1, <3>0, <1>10
    <3>2. CASE i = j
      <4>1. r[i].end = t
        BY <3>2, <1>16
      <4>2. ns[j].end \in Nat /\ ns[k - 1].begin \in Nat
        BY <3>0, <1>1
      <4>3. t <= ns[k - 1].begin
        BY <4>2, <3>5
      <4> QED
        BY <4>1, <4>3, <3>0
    <3>3. CASE i = j + 1
      <4>1. r[i].end = ns[j].end
        BY <3>3, <1>16
      <4> QED
        BY <4>1, <3>5, <3>0
    <3>4. CASE i > j + 1
      <4>1. r[i] = ns[i - 1] /\ i - 1 \in 1 .. n
        BY <3>4, <1>17
      <4>2. i - 1 < k - 1
        BY <1>11, <2>0
      <4>3. ns[i - 1].end <= ns[k - 1].begin
        BY <4>1, <4>2, <3>0, <1>10
      <4> QED
        BY <4>1, <4>3, <3>0
    <3>6. i < j \/ i = j \/ i = j + 1 \/ i > j + 1
      BY <2>0
    <3> QED
      BY <3>1, <3>2, <3>3, <3>4, <3>6
  <2>5. k < j \/ k = j \/ k = j + 1 \/ k > j + 1
    BY <2>0
  <2> QED
    BY <2>1, <2>2, <2>3, <2>4, <2>5
<1>12. Ordered(r)
  <2>1. Len(r) - 1 = n
    BY <1>4, <1>1
  <2> QED
    BY <2>1, <1>1, <1>4, <1>5, <1>7, <1>9, <1>11 DEF Ordered
<1>13. r[j].end = t
  BY <1>1, <1>3
<1>14. AsBefore(r, ns)
  <2> SUFFICES ASSUME NEW i \in 1 .. n + 1, NEW u \in Nat, r[i].begin <= u, u < r[i].end
               PROVE  \E k \in 1 .. n : /\ ns[k].begin <= u /\ u < ns[k].end
                                        /\ r[i].avail = ns[k].avail
    BY <1>4, Zenon DEF AsBefore
  <2>1. PICK k \in 1 .. n : /\ r[i].avail = ns[k].avail
                            /\ ns[k].begin <= r[i].begin /\ r[i].end <= ns[k].end
    <3>1. CASE i < j
      <4>1. r[i] = ns[i] /\ i \in 1 .. n
        BY <3>1, <1>15
      <4>2. r[i].begin <= r[i].begin /\ r[i].end <= r[i].end
        BY <4>1, <1>1
      <4> QED
        BY <4>1, <4>2
    <3>2. CASE i = j
      BY <3>2, <1>1, <1>16
    <3>3. CASE i = j + 1
      BY <3>3, <1>1, <1>16
    <3>4. CASE i > j + 1
      <4>1. r[i] = ns[i - 1] /\ i - 1 \in 1 .. n
        BY <3>4, <1>17
      <4>2. r[i].begin <= r[i].begin /\ r[i].end <= r[i].end
        BY <4>1, <1>1
      <4> QED
        BY <4>1, <4>2
    <3>5. i < j \/ i = j \/ i = j + 1 \/ i > j + 1
      BY <1>1
    <3> QED
      BY <3>1, <3>2, <3>3, <3>4, <3>5
  <2>2. r[i].begin \in Nat /\ r[i].end \in Nat
    BY <1>12, <1>4, TableRecords, Zenon
  <2>5. ns[k].begin \in Nat /\ ns[k].end \in Nat
    BY <1>1
  <2>3. ns[k].begin <= u /\ u < ns[k].end
    <3>1. /\ ns[k].begin <= r[i].begin /\ r[i].begin <= u
          /\ u < r[i].end /\ r[i].end <= ns[k].end
      BY <2>1
    <3>2. ns[k].begin <= u
      BY <3>1, <2>2, <2>5
    <3>3. u < ns[k].end
      BY <3>1, <2>2, <2>5
    <3> QED
      BY <3>2, <3>3
  <2> QED
    BY <2>1, <2>3, Zenon
<1>18. \A i \in 1 .. n : i < j => r[i] = ns[i]
  <2>1. \A i \in 1 .. n : i \in 1 .. n + 1
    BY <1>1
  <2> QED
    BY <2>1, <1>15
<1> QED
  BY <1>4, <1>12, <1>13, <1>14, <1>18 DEF r

-----------------------------------------------------------------------------
\* Where a record ends, none straddles.
LEMMA Boundary ==
  ASSUME NEW ns, Ordered(ns), NEW a \in 1 .. Len(ns)
  PROVE  Aligned(ns, ns[a].end)
PROOF
<1> SUFFICES ASSUME NEW i \in 1 .. Len(ns), ns[i].begin < ns[a].end
             PROVE  ns[i].end <= ns[a].end
  BY DEF Aligned
<1>1. /\ Len(ns) \in Nat
      /\ ns[i].begin \in Nat /\ ns[i].end \in Nat
      /\ ns[a].begin \in Nat /\ ns[a].end \in Nat
  BY TableRecords
<1>2. CASE i < a
  <2>1. ns[i].end <= ns[a].begin /\ ns[a].begin <= ns[a].end
    BY <1>2 DEF Ordered
  <2> QED
    BY <2>1, <1>1
<1>3. CASE i = a
  BY <1>3, <1>1
<1>4. CASE a < i
  <2>1. ns[a].end <= ns[i].begin
    BY <1>4 DEF Ordered
  <2> QED
    BY <2>1, <1>1
<1> QED
  BY <1>1, <1>2, <1>3, <1>4

\* The first record, from index a on, that ends no earlier than t begins no
\* later than t, when the ones before it end before t.
LEMMA FirstEnding ==
  ASSUME NEW ns, Ordered(ns), NEW j \in 1 .. Len(ns), NEW t \in Nat,
         SchedStart <= t, \A i \in 1 .. Len(ns) : i < j => ns[i].end <= t
  PROVE  ns[j].begin <= t
PROOF
<1>1. /\ Len(ns) \in Nat
      /\ \A i \in 1 .. Len(ns) : ns[i].begin \in Nat /\ ns[i].end \in Nat
  BY TableRecords
<1>2. CASE j = 1
  BY <1>2 DEF Ordered
<1>3. CASE j # 1
  <2>1. j - 1 \in 1 .. Len(ns) /\ j - 1 \in 1 .. Len(ns) - 1 /\ j - 1 < j /\ j - 1 + 1 = j
    BY <1>1, <1>3
  <2>2. ns[j - 1].end = ns[j].begin
    BY <2>1 DEF Ordered
  <2>3. ns[j - 1].end <= t
    BY <2>1
  <2> QED
    BY <2>2, <2>3
<1> QED
  BY <1>2, <1>3

\* The first cut of _add_reservation() leaves no record across the start.
LEMMA CutStartKeeps ==
  ASSUME NEW ns, Ordered(ns), NEW start \in Nat, SchedStart <= start
  PROVE  /\ Ordered(CutStart(ns, start))
         /\ CutAt(CutStart(ns, start), start)
         /\ AsBefore(CutStart(ns, start), ns)
PROOF
<1> DEFINE J == {j \in DOMAIN ns : ns[j].end >= start}
           m == Min(J)
           r == CutStart(ns, start)
<1>1. /\ Len(ns) \in Nat /\ DOMAIN ns = 1 .. Len(ns)
      /\ \A i \in 1 .. Len(ns) : ns[i].begin \in Nat /\ ns[i].end \in Nat
  BY TableRecords
<1>2. r = IF J # {} /\ ns[m].end > start THEN Split(ns, m, start) ELSE ns
  BY DEF CutStart
<1>3. \A j \in J : j \in 1 .. Len(ns) /\ ns[j].end >= start
  BY <1>1
<1>4. \A j \in 1 .. Len(ns) : ns[j].end >= start => j \in J
  BY <1>1
<1>5. J # {} => m \in J /\ \A j \in J : m <= j
  <2>1. J \in SUBSET Nat
    BY <1>1
  <2> QED
    BY <2>1, LeastOf
<1> HIDE DEF J, m, r
<1>9. AsBefore(ns, ns)
  BY Zenon DEF AsBefore
<1>6. CASE J = {}
  <2>1. r = ns
    BY <1>2, <1>6
  <2>2. \A j \in 1 .. Len(ns) : ~(ns[j].end >= start)
    BY <1>4, <1>6
  <2> QED
    BY <2>1, <2>2, <1>9, Zenon DEF r, CutAt
<1>7. CASE J # {} /\ ~(ns[m].end > start)
  <2>1. r = ns
    BY <1>2, <1>7
  <2>2. m \in 1 .. Len(ns) /\ ns[m].end = start
    BY <1>1, <1>3, <1>5, <1>7
  <2>3. ASSUME NEW j \in 1 .. Len(ns), ns[j].end >= start,
               \A i \in 1 .. Len(ns) : i < j => ns[i].end < start
        PROVE  ns[j].end = start
    <3>1. ~(m < j)
      BY <2>2, <2>3
    <3>2. m <= j
      BY <1>4, <1>5, <1>7, <2>3
    <3>3. m = j
      BY <3>1, <3>2, <2>2, <1>1
    <3> QED
      BY <3>3, <2>2
  <2> QED
    BY <2>1, <2>3, <1>9, Zenon DEF r, CutAt
<1>8. CASE J # {} /\ ns[m].end > start
  <2>1. r = Split(ns, m, start)
    BY <1>2, <1>8
  <2>2. m \in 1 .. Len(ns)
    BY <1>3, <1>5, <1>8
  <2>3. \A i \in 1 .. Len(ns) : i < m => ns[i].end < start
    <3> SUFFICES ASSUME NEW i \in 1 .. Len(ns), i < m  PROVE ns[i].end < start
      OBVIOUS
    <3>1. ~(m <= i)
      BY <2>2, <1>1
    <3>2. ~(ns[i].end >= start)
      BY <3>1, <1>4, <1>5
    <3> QED
      BY <3>2, <1>1
  <2>4. ns[m].begin <= start
    <3>1. \A i \in 1 .. Len(ns) : i < m => ns[i].end <= start
      BY <2>3, <1>1
    <3> QED
      BY <3>1, <2>2, FirstEnding
  <2>5. start <= ns[m].end
    BY <1>1, <1>8, <2>2
  <2>6. /\ Ordered(Split(ns, m, start)) /\ Len(Split(ns, m, start)) = Len(ns) + 1
        /\ Split(ns, m, start)[m].end = start
        /\ \A i \in 1 .. Len(ns) : i < m => Split(ns, m, start)[i] = ns[i]
        /\ AsBefore(Split(ns, m, start), ns)
    BY <2>2, <2>4, <2>5, SplitKeeps
  <2>7. ASSUME NEW j \in 1 .. Len(r), r[j].end >= start,
               \A i \in 1 .. Len(r) : i < j => r[i].end < start
        PROVE  r[j].end = start
    <3>1. m \in 1 .. Len(r) /\ r[m].end = start /\ Len(r) = Len(ns) + 1
      BY <2>1, <2>2, <2>6, <1>1
    <3>2. ~(m < j)
      BY <3>1, <2>7
    <3>3. CASE j < m
      <4>1. j \in 1 .. Len(ns)
        BY <3>1, <3>3, <2>2, <1>1
      <4>2. r[j] = ns[j]
        BY <4>1, <3>3, <2>1, <2>6
      <4>3. ns[j].end < start /\ ns[j].end \in Nat
        BY <4>1, <3>3, <2>3, <1>1
      <4> QED
        BY <4>2, <4>3, <2>7
    <3>4. j = m \/ j < m
      <4>1. Len(r) \in Nat
        BY <3>1, <1>1
      <4> QED
        BY <4>1, <3>1, <3>2
    <3> QED
      BY <3>1, <3>3, <3>4
  <2> QED
    BY <2>1, <2>6, <2>7 DEF r, CutAt
<1> QED
  BY <1>6, <1>7, <1>8

\* The second cut leaves none across the end, and still none across the start.
LEMMA CutEndKeeps ==
  ASSUME NEW ns, Ordered(ns), NEW start \in Nat, SchedStart <= start,
         CutAt(ns, start), NEW end_reserve \in Nat, start < end_reserve
  PROVE  /\ Ordered(CutEnd(ns, start, end_reserve))
         /\ Aligned(CutEnd(ns, start, end_reserve), start)
         /\ Aligned(CutEnd(ns, start, end_reserve), end_reserve)
         /\ AsBefore(CutEnd(ns, start, end_reserve), ns)
PROOF
<1> DEFINE J == {j \in DOMAIN ns : ns[j].end >= start}
           a == Min(J)
           K == {k \in DOMAIN ns : k > a /\ ns[k].end >= end_reserve}
           m == Min(K)
           r == CutEnd(ns, start, end_reserve)
<1>1. /\ Len(ns) \in Nat /\ DOMAIN ns = 1 .. Len(ns)
      /\ \A i \in 1 .. Len(ns) : ns[i].begin \in Nat /\ ns[i].end \in Nat
  BY TableRecords
<1>2. r = IF J # {} /\ K # {} /\ ns[m].end > end_reserve
          THEN Split(ns, m, end_reserve) ELSE ns
  BY DEF CutEnd
<1>3. /\ \A j \in J : j \in 1 .. Len(ns) /\ ns[j].end >= start
      /\ \A j \in 1 .. Len(ns) : ns[j].end >= start => j \in J
  BY <1>1
<1>4. J # {} => a \in J /\ \A j \in J : a <= j
  <2>1. J \in SUBSET Nat
    BY <1>1
  <2> QED
    BY <2>1, LeastOf
<1> HIDE DEF J, a
<1>5. /\ \A k \in K : k \in 1 .. Len(ns) /\ k > a /\ ns[k].end >= end_reserve
      /\ \A k \in 1 .. Len(ns) : k > a /\ ns[k].end >= end_reserve => k \in K
  BY <1>1
<1>6. K # {} => m \in K /\ \A k \in K : m <= k
  <2>1. K \in SUBSET Nat
    BY <1>1
  <2> QED
    BY <2>1, LeastOf
<1> HIDE DEF K, m, r
<1>14. AsBefore(ns, ns)
  BY Zenon DEF AsBefore
<1>7. CASE J = {}
  <2>1. r = ns
    BY <1>2, <1>7
  <2>2. \A j \in 1 .. Len(ns) : ns[j].end < start
    BY <1>1, <1>3, <1>7
  <2>3. \A j \in 1 .. Len(ns) : ns[j].end <= start /\ ns[j].end <= end_reserve
    BY <2>2, <1>1
  <2> QED
    BY <2>1, <2>3, <1>14, Zenon DEF r, Aligned
<1>8. ASSUME J # {}
      PROVE  a \in 1 .. Len(ns) /\ ns[a].end = start
  <2>1. a \in 1 .. Len(ns) /\ ns[a].end >= start
    BY <1>3, <1>4, <1>8
  <2>2. \A i \in 1 .. Len(ns) : i < a => ns[i].end < start
    <3> SUFFICES ASSUME NEW i \in 1 .. Len(ns), i < a  PROVE ns[i].end < start
      OBVIOUS
    <3>1. ~(a <= i)
      BY <2>1, <1>1
    <3>2. ~(ns[i].end >= start)
      BY <3>1, <1>3, <1>4
    <3> QED
      BY <3>2, <1>1
  <2> QED
    BY <2>1, <2>2 DEF CutAt
<1>9. ASSUME J # {}, NEW i \in 1 .. Len(ns), i <= a
      PROVE  ns[i].end <= start
  <2>1. a \in 1 .. Len(ns) /\ ns[a].end = start
    BY <1>8, <1>9
  <2>2. CASE i = a
    BY <2>1, <2>2
  <2>3. CASE i < a
    <3>1. ns[i].end <= ns[a].begin /\ ns[a].begin <= ns[a].end
      BY <2>1, <2>3 DEF Ordered
    <3>2. ns[i].end \in Nat /\ ns[a].begin \in Nat
      BY <2>1, <1>1
    <3> QED
      BY <3>1, <3>2, <2>1
  <2>4. i = a \/ i < a
    <3>1. Len(ns) \in Nat
      BY <1>1
    <3> QED
      BY <3>1, <2>1, <1>9
  <2> QED
    BY <2>2, <2>3, <2>4
<1>10. ASSUME J # {}, K = {}  PROVE Aligned(ns, end_reserve)
  <2> SUFFICES ASSUME NEW i \in 1 .. Len(ns)  PROVE ns[i].end <= end_reserve
    BY DEF Aligned
  <2>1. CASE i <= a
    <3>1. ns[i].end <= start
      BY <2>1, <1>9, <1>10
    <3> QED
      BY <3>1, <1>1
  <2>2. CASE i > a
    <3>1. ~(ns[i].end >= end_reserve)
      BY <2>2, <1>5, <1>10
    <3> QED
      BY <3>1, <1>1
  <2>3. i <= a \/ i > a
    <3>1. a \in 1 .. Len(ns) /\ Len(ns) \in Nat
      BY <1>1, <1>8, <1>10
    <3> QED
      BY <3>1
  <2> QED
    BY <2>1, <2>2, <2>3
<1>11. CASE J # {} /\ K = {}
  <2>1. r = ns
    BY <1>2, <1>11
  <2>2. Aligned(ns, start)
    BY <1>8, <1>11, Boundary
  <2> QED
    BY <2>1, <2>2, <1>10, <1>11, <1>14, Zenon DEF r
<1>12. CASE J # {} /\ K # {} /\ ~(ns[m].end > end_reserve)
  <2>1. r = ns
    BY <1>2, <1>12
  <2>2. Aligned(ns, start)
    BY <1>8, <1>12, Boundary
  <2>3. m \in 1 .. Len(ns) /\ ns[m].end = end_reserve
    BY <1>1, <1>5, <1>6, <1>12
  <2>4. Aligned(ns, end_reserve)
    BY <2>3, Boundary
  <2> QED
    BY <2>1, <2>2, <2>4, <1>14, Zenon DEF r
<1>13. CASE J # {} /\ K # {} /\ ns[m].end > end_reserve
  <2>1. r = Split(ns, m, end_reserve)
    BY <1>2, <1>13
  <2>2. m \in 1 .. Len(ns) /\ m > a
    BY <1>5, <1>6, <1>13
  <2>3. a \in 1 .. Len(ns) /\ ns[a].end = start
    BY <1>8, <1>13
  <2>4. \A i \in 1 .. Len(ns) : i < m => ns[i].end <= end_reserve
    <3> SUFFICES ASSUME NEW i \in 1 .. Len(ns), i < m  PROVE ns[i].end <= end_reserve
      OBVIOUS
    <3>1. CASE i <= a
      <4>1. ns[i].end <= start
        BY <3>1, <1>9, <1>13
      <4> QED
        BY <4>1, <1>1
    <3>2. CASE i > a
      <4>1. ~(m <= i)
        BY <2>2, <1>1
      <4>2. ~(ns[i].end >= end_reserve)
        BY <4>1, <3>2, <1>5, <1>6
      <4> QED
        BY <4>2, <1>1
    <3>3. i <= a \/ i > a
      <4>1. Len(ns) \in Nat
        BY <1>1
      <4> QED
        BY <4>1, <2>3
    <3> QED
      BY <3>1, <3>2, <3>3
  <2>5. ns[m].begin <= end_reserve
    <3>1. SchedStart <= end_reserve
      BY BackfillAssumption
    <3> QED
      BY <3>1, <2>2, <2>4, FirstEnding
  <2>6. end_reserve <= ns[m].end
    BY <1>1, <1>13, <2>2
  <2>7. /\ Ordered(Split(ns, m, end_reserve)) /\ Len(Split(ns, m, end_reserve)) = Len(ns) + 1
        /\ Split(ns, m, end_reserve)[m].end = end_reserve
        /\ \A i \in 1 .. Len(ns) : i < m => Split(ns, m, end_reserve)[i] = ns[i]
        /\ AsBefore(Split(ns, m, end_reserve), ns)
    BY <2>2, <2>5, <2>6, SplitKeeps
  <2>8. Ordered(r) /\ m \in 1 .. Len(r) /\ r[m].end = end_reserve
    BY <2>1, <2>2, <2>7, <1>1
  <2>9. Aligned(r, end_reserve)
    BY <2>8, Boundary
  <2>10. a \in 1 .. Len(r) /\ r[a].end = start
    <3>1. a < m
      BY <2>2, <2>3, <1>1
    <3>2. r[a] = ns[a]
      BY <3>1, <2>1, <2>3, <2>7
    <3>3. a \in 1 .. Len(ns) + 1
      BY <2>3, <1>1
    <3> QED
      BY <3>2, <3>3, <2>1, <2>3, <2>7
  <2>11. Aligned(r, start)
    BY <2>8, <2>10, Boundary
  <2> QED
    BY <2>1, <2>7, <2>9, <2>11 DEF r
<1> QED
  BY <1>7, <1>11, <1>12, <1>13

\* Between two boundaries the nodes are taken out of every record, and nowhere
\* else.
LEMMA TakeKeeps ==
  ASSUME NEW ns, Ordered(ns), NEW start \in Nat, NEW end_reserve \in Nat,
         Aligned(ns, start), Aligned(ns, end_reserve), NEW taken
  PROVE  /\ Ordered(TakeNodes(ns, start, end_reserve, taken))
         /\ AllBut(TakeNodes(ns, start, end_reserve, taken), ns, taken, start, end_reserve)
PROOF
<1> DEFINE In(j) == /\ ns[j].begin >= start /\ ns[j].end <= end_reserve
                    /\ \A m \in 1 .. j - 1 : ns[m].begin < end_reserve
           r == TakeNodes(ns, start, end_reserve, taken)
<1>1. /\ Len(ns) \in Nat /\ DOMAIN ns = 1 .. Len(ns)
      /\ \A i \in 1 .. Len(ns) : /\ ns[i] \in Record
                                 /\ ns[i].begin \in Nat /\ ns[i].end \in Nat
                                 /\ ns[i].avail \in SUBSET Nodes
  BY TableRecords
<1>2. \A i \in 1 .. Len(ns) :
        [ns[i] EXCEPT !.avail = @ \ taken]
          = [begin |-> ns[i].begin, end |-> ns[i].end, avail |-> ns[i].avail \ taken]
  <2>1. \A rec \in Record : [rec EXCEPT !.avail = @ \ taken]
           = [begin |-> rec.begin, end |-> rec.end, avail |-> rec.avail \ taken]
    BY DEF Record
  <2> QED
    BY <2>1, <1>1
<1>3. r = [j \in 1 .. Len(ns) |-> IF In(j) THEN [ns[j] EXCEPT !.avail = @ \ taken] ELSE ns[j]]
  BY <1>1 DEF TakeNodes
<1> HIDE DEF In, r
<1>4. \A i \in 1 .. Len(ns) :
        /\ r[i] \in Record /\ r[i].begin = ns[i].begin /\ r[i].end = ns[i].end
        /\ r[i].avail = IF In(i) THEN ns[i].avail \ taken ELSE ns[i].avail
  <2> SUFFICES ASSUME NEW i \in 1 .. Len(ns)
               PROVE  /\ r[i] \in Record /\ r[i].begin = ns[i].begin
                      /\ r[i].end = ns[i].end
                      /\ r[i].avail = IF In(i) THEN ns[i].avail \ taken ELSE ns[i].avail
    BY Zenon
  <2>1. CASE In(i)
    <3>1. r[i] = [begin |-> ns[i].begin, end |-> ns[i].end, avail |-> ns[i].avail \ taken]
      BY <2>1, <1>2, <1>3
    <3>2. ns[i].begin \in Nat /\ ns[i].end \in Nat /\ ns[i].avail \ taken \in SUBSET Nodes
      BY <1>1
    <3>3. r[i] \in Record
      BY <3>1, <3>2 DEF Record
    <3> QED
      BY <2>1, <3>1, <3>3
  <2>2. CASE ~In(i)
    <3>1. r[i] = ns[i]
      BY <2>2, <1>3
    <3> QED
      BY <3>1, <2>2, <1>1
  <2> QED
    BY <2>1, <2>2
<1>5. r \in Seq(Record) /\ Len(r) = Len(ns)
  <2>1. r \in [1 .. Len(ns) -> Record]
    BY <1>3, <1>4
  <2> QED
    BY <2>1, <1>1
<1>6. Ordered(r)
  <2>1. 1 \in 1 .. Len(ns) /\ Len(ns) \in 1 .. Len(ns) /\ Len(ns) >= 1
    BY <1>1 DEF Ordered
  <2>2. r[1].begin = SchedStart /\ r[Len(r)].end = window_end
    BY <2>1, <1>4, <1>5, Zenon DEF Ordered
  <2>3. \A i \in 1 .. Len(r) : r[i].begin <= r[i].end
    BY <1>4, <1>5, Zenon DEF Ordered
  <2>4. \A i \in 1 .. Len(ns) - 1 : i \in 1 .. Len(ns) /\ i + 1 \in 1 .. Len(ns)
    BY <1>1
  <2>5. \A i \in 1 .. Len(r) - 1 : r[i].end = r[i + 1].begin
    BY <2>4, <1>4, <1>5, Zenon DEF Ordered
  <2>6. \A i, j \in 1 .. Len(r) : i < j => r[i].end <= r[j].begin
    BY <1>4, <1>5, Zenon DEF Ordered
  <2> QED
    BY <2>1, <2>2, <2>3, <2>5, <2>6, <1>5 DEF Ordered
<1>7. ASSUME NEW i \in 1 .. Len(ns), NEW t \in Nat, start <= t, t < end_reserve,
             ns[i].begin <= t, t < ns[i].end
      PROVE  In(i)
  <2>0. ns[i].begin \in Nat /\ ns[i].end \in Nat /\ Len(ns) \in Nat
    BY <1>1
  <2>1. ns[i].begin >= start
    <3>1. ~(ns[i].end <= start)
      BY <2>0, <1>7
    <3>2. ~(ns[i].begin < start)
      BY <3>1 DEF Aligned
    <3> QED
      BY <3>2, <2>0
  <2>2. ns[i].begin < end_reserve
    BY <2>0, <1>7
  <2>3. ns[i].end <= end_reserve
    BY <2>2 DEF Aligned
  <2>4. ASSUME NEW m \in 1 .. i - 1  PROVE ns[m].begin < end_reserve
    <3>1. m \in 1 .. Len(ns) /\ m < i
      BY <2>0
    <3>2. ns[m].begin <= ns[m].end /\ ns[m].end <= ns[i].begin
      BY <3>1 DEF Ordered
    <3>3. ns[m].begin \in Nat /\ ns[m].end \in Nat
      BY <3>1, <1>1
    <3> QED
      BY <3>2, <3>3, <2>0, <2>2
  <2> QED
    BY <2>1, <2>3, <2>4, Zenon DEF In
<1>8. ASSUME NEW i \in 1 .. Len(ns), NEW t \in Nat, In(i), ns[i].begin <= t, t < ns[i].end
      PROVE  start <= t /\ t < end_reserve
  <2>1. ns[i].begin \in Nat /\ ns[i].end \in Nat
    BY <1>1
  <2>2. ns[i].begin >= start /\ ns[i].end <= end_reserve
    BY <1>8, Zenon DEF In
  <2> QED
    BY <2>1, <2>2, <1>8
<1>9. AllBut(r, ns, taken, start, end_reserve)
  <2> SUFFICES ASSUME NEW i \in 1 .. Len(ns), NEW t \in Nat, r[i].begin <= t, t < r[i].end
               PROVE  /\ ns[i].begin <= t /\ t < ns[i].end
                      /\ r[i].avail = IF start <= t /\ t < end_reserve
                                      THEN ns[i].avail \ taken ELSE ns[i].avail
    BY <1>5, Zenon DEF AllBut
  <2>1. ns[i].begin <= t /\ t < ns[i].end
    BY <1>4, Zenon
  <2>2. In(i) <=> start <= t /\ t < end_reserve
    BY <2>1, <1>7, <1>8, Zenon
  <2> QED
    BY <2>1, <2>2, <1>4, Zenon
<1> QED
  BY <1>6, <1>9 DEF r

\* Merging two neighbours that offer the same nodes changes nothing of it.
LEMMA MergeKeeps ==
  ASSUME NEW ns, Ordered(ns)
  PROVE  /\ Ordered(Merge(ns))
         /\ AsBefore(Merge(ns), ns)
PROOF
<1> DEFINE Same == {j \in 1 .. Len(ns) - 1 : ns[j].avail = ns[j + 1].avail}
           j == Min(Same)
           n == Len(ns)
           r == Merge(ns)
<1>1. /\ n \in Nat /\ DOMAIN ns = 1 .. n
      /\ \A i \in 1 .. n : /\ ns[i] \in Record
                           /\ ns[i].begin \in Nat /\ ns[i].end \in Nat
                           /\ ns[i].avail \in SUBSET Nodes
  BY TableRecords
<1>2. r = IF Same = {} THEN ns
          ELSE [i \in 1 .. n - 1 |->
                  CASE i < j -> ns[i]
                    [] i = j -> [ns[j] EXCEPT !.end = ns[j + 1].end]
                    [] i > j -> ns[i + 1]]
  BY DEF Merge
<1>3. CASE Same = {}
  <2>1. AsBefore(ns, ns)
    BY Zenon DEF AsBefore
  <2> QED
    BY <2>1, <1>2, <1>3
<1>4. ASSUME Same # {}  PROVE j \in 1 .. n - 1 /\ ns[j].avail = ns[j + 1].avail
  <2>1. Same \in SUBSET Nat
    BY <1>1
  <2>2. j \in Same
    BY <2>1, <1>4, LeastOf, Zenon
  <2> QED
    BY <2>2
<1> HIDE DEF r, j
<1>5. CASE Same # {}
  <2>0. /\ j \in 1 .. n - 1 /\ ns[j].avail = ns[j + 1].avail
        /\ j \in 1 .. n /\ j + 1 \in 1 .. n
    BY <1>1, <1>4, <1>5
  <2>1. r = [i \in 1 .. n - 1 |->
               CASE i < j -> ns[i]
                 [] i = j -> [ns[j] EXCEPT !.end = ns[j + 1].end]
                 [] i > j -> ns[i + 1]]
    BY <1>2, <1>5, Zenon
  <2> HIDE DEF Same
  <2>2. [ns[j] EXCEPT !.end = ns[j + 1].end]
          = [begin |-> ns[j].begin, end |-> ns[j + 1].end, avail |-> ns[j].avail]
    BY <2>0, <1>1 DEF Record
  <2>3. \A i \in 1 .. n - 1 : i < j => i \in 1 .. n /\ r[i] = ns[i]
    BY <2>0, <2>1, <1>1
  <2>4. r[j] = [begin |-> ns[j].begin, end |-> ns[j + 1].end, avail |-> ns[j].avail]
    BY <2>0, <2>1, <2>2, <1>1
  <2>5. \A i \in 1 .. n - 1 : i > j => i + 1 \in 1 .. n /\ r[i] = ns[i + 1]
    BY <2>0, <2>1, <1>1
  <2>6. \A i \in 1 .. n - 1 : i < j \/ i = j \/ i > j
    BY <2>0, <1>1
  <2>7. r \in Seq(Record) /\ Len(r) = n - 1
    <3>1. r[j] \in Record
      BY <2>0, <2>4, <1>1 DEF Record
    <3>2. \A i \in 1 .. n - 1 : r[i] \in Record
      BY <3>1, <2>3, <2>5, <2>6, <1>1
    <3>3. r \in [1 .. n - 1 -> Record]
      BY <3>2, <2>1, Zenon
    <3>4. n - 1 \in Nat
      BY <2>0, <1>1
    <3> QED
      BY <3>3, <3>4
  \* a record of the result spans records lo .. hi of the old table
  <2> DEFINE lo(i) == IF i <= j THEN i ELSE i + 1
             hi(i) == IF i < j THEN i ELSE i + 1
  <2>8. ASSUME NEW i \in 1 .. n - 1
        PROVE  /\ lo(i) \in 1 .. n /\ hi(i) \in 1 .. n
               /\ r[i].begin = ns[lo(i)].begin /\ r[i].end = ns[hi(i)].end
               /\ r[i].avail = ns[lo(i)].avail /\ r[i].avail = ns[hi(i)].avail
    <3>1. CASE i < j
      BY <3>1, <2>0, <2>3, <1>1
    <3>2. CASE i = j
      BY <3>2, <2>0, <2>4, <1>1
    <3>3. CASE i > j
      BY <3>3, <2>0, <2>5, <1>1
    <3> QED
      BY <3>1, <3>2, <3>3, <2>6
  <2>9. ASSUME NEW i \in 1 .. n - 1, NEW k \in 1 .. n - 1, i < k
        PROVE  hi(i) < lo(k)
    BY <2>0, <2>9, <1>1
  <2>10. \A i \in 1 .. n - 1 :
           \/ lo(i) = hi(i)
           \/ lo(i) = j /\ hi(i) = j + 1 /\ lo(i) < hi(i)
    BY <2>0, <1>1
  <2>11. \A i \in 1 .. n - 2 : i \in 1 .. n - 1 /\ i + 1 \in 1 .. n - 1
                               /\ hi(i) \in 1 .. n - 1 /\ hi(i) + 1 = lo(i + 1)
    BY <2>0, <1>1
  <2>12. /\ n - 1 >= 1 /\ 1 \in 1 .. n - 1 /\ n - 1 \in 1 .. n - 1
         /\ lo(1) = 1 /\ hi(n - 1) = n
    <3>1. n \in Nat /\ j \in 1 .. n - 1
      BY <2>0, <1>1
    <3>2. n - 1 >= 1 /\ 1 <= j /\ ~(n - 1 < j)
      BY <3>1
    <3>3. 1 \in 1 .. n - 1 /\ n - 1 \in 1 .. n - 1
      BY <3>1, <3>2
    <3>4. lo(1) = 1 /\ hi(n - 1) = n
      BY <3>1, <3>2
    <3> QED
      BY <3>2, <3>3, <3>4
  <2> HIDE DEF lo, hi
  <2>13. Ordered(r)
    <3>1. r[1].begin = SchedStart /\ r[n - 1].end = window_end
      BY <2>8, <2>12 DEF Ordered
    <3>2. ASSUME NEW i \in 1 .. n - 1  PROVE r[i].begin <= r[i].end
      <4>0. /\ r[i].begin = ns[lo(i)].begin /\ r[i].end = ns[hi(i)].end
            /\ lo(i) \in 1 .. n /\ hi(i) \in 1 .. n
        BY <2>8
      <4>1. CASE lo(i) = hi(i)
        BY <4>0, <4>1 DEF Ordered
      <4>2. CASE lo(i) < hi(i)
        <5>1. /\ ns[lo(i)].begin <= ns[lo(i)].end /\ ns[lo(i)].end <= ns[hi(i)].begin
              /\ ns[hi(i)].begin <= ns[hi(i)].end
          BY <4>0, <4>2 DEF Ordered
        <5>2. /\ ns[lo(i)].begin \in Nat /\ ns[lo(i)].end \in Nat
              /\ ns[hi(i)].begin \in Nat /\ ns[hi(i)].end \in Nat
          BY <4>0, <1>1
        <5> QED
          BY <4>0, <5>1, <5>2
      <4> QED
        BY <4>1, <4>2, <2>10
    <3>3. \A i \in 1 .. n - 2 : r[i].end = r[i + 1].begin
      <4> SUFFICES ASSUME NEW i \in 1 .. n - 2  PROVE r[i].end = r[i + 1].begin
        OBVIOUS
      <4>1. /\ i \in 1 .. n - 1 /\ i + 1 \in 1 .. n - 1
            /\ hi(i) \in 1 .. n - 1 /\ hi(i) + 1 = lo(i + 1)
        BY <2>11
      <4>2. ns[hi(i)].end = ns[hi(i) + 1].begin
        BY <4>1 DEF Ordered
      <4> QED
        BY <4>1, <4>2, <2>8
    <3>4. ASSUME NEW i \in 1 .. n - 1, NEW k \in 1 .. n - 1, i < k
          PROVE  r[i].end <= r[k].begin
      <4>1. ns[hi(i)].end <= ns[lo(k)].begin
        BY <2>8, <2>9, <3>4 DEF Ordered
      <4> QED
        BY <4>1, <2>8
    <3>5. Len(r) - 1 = n - 2
      BY <2>7, <1>1
    <3> QED
      BY <3>1, <3>2, <3>3, <3>4, <3>5, <2>7, <2>12 DEF Ordered
  <2>14. AsBefore(r, ns)
    <3> SUFFICES ASSUME NEW i \in 1 .. n - 1, NEW t \in Nat, r[i].begin <= t, t < r[i].end
                 PROVE  \E k \in 1 .. n : /\ ns[k].begin <= t /\ t < ns[k].end
                                          /\ r[i].avail = ns[k].avail
      BY <2>7, Zenon DEF AsBefore
    <3>0. /\ ns[lo(i)].begin <= t /\ t < ns[hi(i)].end
          /\ lo(i) \in 1 .. n /\ hi(i) \in 1 .. n
          /\ r[i].avail = ns[lo(i)].avail /\ r[i].avail = ns[hi(i)].avail
      BY <2>8
    <3>1. CASE t < ns[lo(i)].end
      BY <3>0, <3>1, Zenon
    <3>2. CASE ~(t < ns[lo(i)].end)
      <4>1. lo(i) = j /\ hi(i) = j + 1
        BY <3>0, <3>2, <2>10
      <4>2. ns[j].end = ns[j + 1].begin
        BY <2>0 DEF Ordered
      <4>3. ns[lo(i)].end = ns[hi(i)].begin /\ ns[lo(i)].end \in Nat
        BY <4>1, <4>2, <3>0, <1>1
      <4>4. ns[hi(i)].begin <= t
        BY <4>3, <3>2
      <4> QED
        BY <4>4, <3>0, Zenon
    <3> QED
      BY <3>1, <3>2
  <2> QED
    BY <2>13, <2>14 DEF r
<1> QED
  BY <1>3, <1>5

\* _add_reservation() records the reservation and loses none.
LEMMA ReservationRecorded ==
  ASSUME Ordered(node_space), NEW from \in Nat, NEW start \in Nat, NEW to \in Nat,
         from <= start, SchedStart <= start, start < to, NEW taken,
         AddReservation(from, to, taken)
  PROVE  Ordered(node_space') /\ AllBut(node_space', node_space, taken, from, to)
PROOF
<1> DEFINE s == Max({from, node_space[1].begin})
           c1 == CutStart(node_space, s)
           c2 == CutEnd(c1, s, to)
           tk == TakeNodes(c2, s, to, taken)
<1>1. node_space' = Merge(tk)
  BY DEF AddReservation
<1>2. SchedStart \in Nat /\ node_space[1].begin = SchedStart
  BY BackfillAssumption DEF Ordered
<1>3. s = IF from >= SchedStart THEN from ELSE SchedStart
  BY <1>2, GreatestOfTwo
<1>4. s \in Nat /\ SchedStart <= s /\ from <= s /\ s < to
  BY <1>2, <1>3
<1> HIDE DEF s
<1>5. Ordered(c1) /\ CutAt(c1, s) /\ AsBefore(c1, node_space)
  BY <1>4, CutStartKeeps
<1> HIDE DEF c1
<1>6. Ordered(c2) /\ Aligned(c2, s) /\ Aligned(c2, to) /\ AsBefore(c2, c1)
  BY <1>4, <1>5, CutEndKeeps
<1> HIDE DEF c2
<1>7. Ordered(tk) /\ AllBut(tk, c2, taken, s, to)
  BY <1>4, <1>6, TakeKeeps
<1> HIDE DEF tk
<1>8. Ordered(node_space') /\ AsBefore(node_space', tk)
  BY <1>1, <1>7, MergeKeeps
<1>9. AllBut(node_space', node_space, taken, from, to)
  <2> SUFFICES ASSUME NEW i \in 1 .. Len(node_space'), NEW t \in Nat,
                      node_space'[i].begin <= t, t < node_space'[i].end
               PROVE  \E k \in 1 .. Len(node_space) :
                        /\ node_space[k].begin <= t /\ t < node_space[k].end
                        /\ node_space'[i].avail = IF from <= t /\ t < to
                                                  THEN node_space[k].avail \ taken
                                                  ELSE node_space[k].avail
    BY Zenon DEF AllBut
  <2>1. node_space'[i].begin \in Nat /\ node_space'[i].begin >= SchedStart
    BY <1>8, TableRecords
  <2>2. from <= t <=> s <= t
    BY <2>1, <1>2, <1>3
  <2>3. PICK a \in 1 .. Len(tk) : /\ tk[a].begin <= t /\ t < tk[a].end
                                  /\ node_space'[i].avail = tk[a].avail
    BY <1>8, Zenon DEF AsBefore
  <2>4. PICK b \in 1 .. Len(c2) :
          /\ c2[b].begin <= t /\ t < c2[b].end
          /\ tk[a].avail = IF s <= t /\ t < to THEN c2[b].avail \ taken ELSE c2[b].avail
    BY <2>3, <1>7, Zenon DEF AllBut
  <2>5. PICK c \in 1 .. Len(c1) : /\ c1[c].begin <= t /\ t < c1[c].end
                                  /\ c2[b].avail = c1[c].avail
    BY <2>4, <1>6, Zenon DEF AsBefore
  <2>6. PICK k \in 1 .. Len(node_space) :
          /\ node_space[k].begin <= t /\ t < node_space[k].end
          /\ c1[c].avail = node_space[k].avail
    BY <2>5, <1>5, Zenon DEF AsBefore
  <2>7. node_space'[i].avail = IF from <= t /\ t < to THEN node_space[k].avail \ taken
                                                      ELSE node_space[k].avail
    BY <2>2, <2>3, <2>4, <2>5, <2>6, Zenon
  <2> QED
    BY <2>6, <2>7, Zenon
<1> QED
  BY <1>8, <1>9, Zenon

\* A table that offers all but the nodes of a new reservation honours it, and
\* every older one.
LEMMA AllButKeeps ==
  ASSUME NEW ms, NEW ns, NEW nodes, NEW from, NEW to, AllBut(ms, ns, nodes, from, to)
  PROVE  /\ Keeps(ms, nodes, from, to)
         /\ \A old, f, t : Keeps(ns, old, f, t) => Keeps(ms, old, f, t)
PROOF
<1>1. Keeps(ms, nodes, from, to)
  <2> SUFFICES ASSUME NEW i \in 1 .. Len(ms), NEW t \in Nat, from <= t, t < to,
                      ms[i].begin <= t, t < ms[i].end
               PROVE  ms[i].avail \intersect nodes = {}
    BY Zenon DEF Keeps
  <2>1. PICK k \in 1 .. Len(ns) : ms[i].avail = ns[k].avail \ nodes
    BY Zenon DEF AllBut
  <2> QED
    BY <2>1
<1>2. ASSUME NEW old, NEW f, NEW g, Keeps(ns, old, f, g)  PROVE Keeps(ms, old, f, g)
  <2> SUFFICES ASSUME NEW i \in 1 .. Len(ms), NEW t \in Nat, f <= t, t < g,
                      ms[i].begin <= t, t < ms[i].end
               PROVE  ms[i].avail \intersect old = {}
    BY Zenon DEF Keeps
  <2>1. PICK k \in 1 .. Len(ns) : /\ ns[k].begin <= t /\ t < ns[k].end
                                  /\ \/ ms[i].avail = ns[k].avail \ nodes
                                     \/ ms[i].avail = ns[k].avail
    BY Zenon DEF AllBut
  <2>2. ns[k].avail \intersect old = {}
    BY <2>1, <1>2, Zenon DEF Keeps
  <2> QED
    BY <2>1, <2>2
<1> QED
  BY <1>1, <1>2, Zenon

\* Every instant of the window lies in a record.
LEMMA Cover ==
  ASSUME NEW ns, Ordered(ns), NEW t \in Nat, SchedStart <= t, t < window_end
  PROVE  \E j \in 1 .. Len(ns) : ns[j].begin <= t /\ t < ns[j].end
PROOF
<1> DEFINE J == {j \in 1 .. Len(ns) : t < ns[j].end}
<1>1. /\ Len(ns) \in Nat
      /\ \A i \in 1 .. Len(ns) : ns[i].begin \in Nat /\ ns[i].end \in Nat
  BY TableRecords
<1>2. Len(ns) \in 1 .. Len(ns) /\ ns[Len(ns)].end = window_end
  BY <1>1 DEF Ordered
<1>3. J \in SUBSET Nat /\ J # {}
  BY <1>1, <1>2
<1>4. PICK j \in J : \A k \in J : j <= k
  BY <1>3, LeastOf, Zenon
<1>5. j \in 1 .. Len(ns) /\ t < ns[j].end
  OBVIOUS
<1>6. \A i \in 1 .. Len(ns) : i < j => ns[i].end <= t
  <2> SUFFICES ASSUME NEW i \in 1 .. Len(ns), i < j  PROVE ns[i].end <= t
    OBVIOUS
  <2>1. ~(j <= i)
    BY <1>1, <1>5
  <2>2. ~(t < ns[i].end)
    BY <2>1, <1>4
  <2> QED
    BY <2>2, <1>1
<1>7. ns[j].begin <= t
  BY <1>5, <1>6, FirstEnding
<1> QED
  BY <1>5, <1>7

-----------------------------------------------------------------------------
(* The queue and the machine; a job is in hand while one is being tried.     *)
Shape ==
  /\ jobs \in Seq(Shapes) /\ cur \in 0 .. Len(jobs)
  /\ later_start \in Nat /\ end_time \in [Nodes -> Nat]
  /\ pc = "try" => cur >= 1 /\ later_start >= now

(* Each reservation of the pass is for a time still to come, covers its      *)
(* planned start, and is honoured by the table.                              *)
PlanKept ==
  \A p \in plan :
     /\ p.nodes \subseteq Nodes
     /\ p.start \in Nat /\ p.from \in Nat /\ p.to \in Nat
     /\ now <= p.start /\ p.from <= p.start /\ p.start < p.to
     /\ Keeps(node_space, p.nodes, p.from, p.to)

(* The nodes of a job that the pass started are known to be busy until it    *)
(* ends.                                                                     *)
StartedHold ==
  \A s \in started :
     /\ s.end \in Nat /\ now < s.end /\ s.nodes \subseteq Nodes
     /\ \A n \in s.nodes : end_time[n] = s.end

(* A reservation over from .. to does not meet p within the window.          *)
Apart(from, to, p) ==
  to <= p.from \/ p.to <= from \/ Max({from, p.from}) >= window_end

(* The inductive invariant.                                                  *)
BackfillInv ==
  /\ Shape /\ Ordered(node_space) /\ PlanKept /\ StartedHold
  /\ NobodyDelayed /\ ReservationsDisjoint

\* What the pass reads of the job in hand.
LEMMA JobInHand ==
  ASSUME Shape, pc = "try", Resolution <= Minute
  PROVE  /\ Job \in JobShape
         /\ Job.min_nodes \in Nat \ {0} /\ Job.time_limit \in Nat \ {0}
         /\ Job.time_min \in Nat /\ Job.time_min <= Job.time_limit
         /\ TimeLimit \in Nat \ {0} /\ TimeLimit * Minute \in Nat
         /\ TimeLimit * Minute >= Resolution
PROOF
<1>1. jobs[cur] \in Shapes
  <2>1. Len(jobs) \in Nat /\ cur \in 1 .. Len(jobs)
    BY DEF Shape
  <2> QED
    BY <2>1, ElementOfSeq DEF Shape
<1>2. Job \in JobShape
  BY <1>1, BackfillAssumption DEF Job
<1>3. /\ Job.min_nodes \in Nat \ {0} /\ Job.time_limit \in Nat \ {0}
      /\ Job.time_min \in Nat /\ Job.time_min <= Job.time_limit
  BY <1>2 DEF JobShape
<1>4. TimeLimit \in Nat \ {0}
  BY <1>3 DEF TimeLimit
<1>5. Minute \in Nat /\ Minute >= 1 /\ Resolution \in Nat
  BY BackfillAssumption
<1>6. \A a, b \in Nat : a # 0 => a * b \in Nat /\ a * b >= b
  BY Z3
<1>7. TimeLimit * Minute \in Nat /\ TimeLimit * Minute >= Minute
  BY <1>4, <1>5, <1>6
<1> QED
  BY <1>2, <1>3, <1>4, <1>5, <1>7

\* The will-run test takes running jobs away until enough nodes are free: with
\* enough nodes in its bitmap it always comes to an end.
LEMMA FirstEndIsTime ==
  ASSUME end_time \in [Nodes -> Nat], Job.min_nodes \in Nat \ {0}, ~TooFew
  PROVE  FirstEnd \in Nat
PROOF
<1> DEFINE U == Usable
           Above(m) == {n \in U : end_time[n] > end_time[m]}
           C == {Cardinality(Above(m)) : m \in U}
           E == {end_time[n] : n \in {m \in U : Cardinality(EndedBy(end_time[m])) >= Job.min_nodes}}
<1>1. U \subseteq Nodes /\ IsFiniteSet(U)
  <2>1. U \subseteq Nodes
    BY DEF Usable
  <2> QED
    BY <2>1, FS_Subset, BackfillAssumption
<1>2. Cardinality(U) \in Nat /\ Cardinality(U) >= Job.min_nodes
  <2>1. Cardinality(U) \in Nat
    BY <1>1, FS_CardinalityType
  <2> QED
    BY <2>1 DEF TooFew
<1>3. U # {}
  BY <1>2, FS_EmptySet
<1> HIDE DEF U
<1>4. \A m \in U : IsFiniteSet(Above(m)) /\ Cardinality(Above(m)) \in Nat
  <2> SUFFICES ASSUME NEW m \in U
               PROVE  IsFiniteSet(Above(m)) /\ Cardinality(Above(m)) \in Nat
    OBVIOUS
  <2>1. Above(m) \in SUBSET U
    OBVIOUS
  <2>2. IsFiniteSet(Above(m))
    BY <2>1, <1>1, FS_Subset
  <2> QED
    BY <2>2, FS_CardinalityType
<1>5. PICK m \in U : \A k \in U : Cardinality(Above(m)) <= Cardinality(Above(k))
  <2>1. C \in SUBSET Nat /\ C # {}
    BY <1>3, <1>4, Zenon
  <2> HIDE DEF C
  <2>2. Min(C) \in C /\ \A c \in C : Min(C) <= c
    BY <2>1, LeastOf
  <2> HIDE DEF Above
  <2>3. PICK m \in U : Min(C) = Cardinality(Above(m))
    BY <2>2, Zenon DEF C
  <2>4. \A k \in U : Cardinality(Above(k)) \in C
    BY DEF C
  <2>5. \A k \in U : Cardinality(Above(m)) <= Cardinality(Above(k))
    BY <2>2, <2>3, <2>4
  <2> QED
    BY <2>5
<1>6. Above(m) = {}
  <2> SUFFICES ASSUME NEW k \in Above(m)  PROVE FALSE
    OBVIOUS
  <2>1. k \in U /\ end_time[k] > end_time[m]
    OBVIOUS
  <2>2. \A n \in U : end_time[n] \in Nat
    BY <1>1
  <2>3. Above(k) \in SUBSET Above(m) /\ k \notin Above(k)
    BY <2>1, <2>2
  <2>4. Cardinality(Above(k)) <= Cardinality(Above(m))
        /\ (Cardinality(Above(m)) = Cardinality(Above(k)) => Above(m) = Above(k))
    BY <2>3, <1>4, FS_Subset, Zenon
  <2>5. Above(m) # Above(k)
    BY <2>3
  <2>6. Cardinality(Above(m)) <= Cardinality(Above(k))
    BY <2>1, <1>5
  <2>7. Cardinality(Above(m)) \in Nat /\ Cardinality(Above(k)) \in Nat
    BY <2>1, <1>4, Zenon
  <2> HIDE DEF Above
  <2> QED
    BY <2>4, <2>5, <2>6, <2>7
<1>7. EndedBy(end_time[m]) = U
  <2>1. \A n \in U : ~(end_time[n] > end_time[m])
    BY <1>6
  <2>2. \A n \in U : end_time[n] \in Nat
    BY <1>1
  <2>3. \A n \in U : end_time[n] <= end_time[m]
    BY <2>1, <2>2
  <2> QED
    BY <2>3 DEF EndedBy, U
<1>8. end_time[m] \in E
  BY <1>2, <1>7
<1>9. E \in SUBSET Nat
  BY <1>1
<1> HIDE DEF E
<1>10. Min(E) \in Nat
  BY <1>8, <1>9, LeastOf, Zenon
<1> QED
  BY <1>10 DEF E, U, FirstEnd

\* The start chosen for a job is not before now, nor before the end of what
\* runs on its nodes; one not after now is found on idle nodes only.
LEMMA StartAfterEnds ==
  ASSUME Shape, Resolution <= Minute, NEW nodes \in Picks
  PROVE  /\ pc = "try" /\ nodes \subseteq Nodes /\ nodes \subseteq Usable
         /\ StartTime(nodes) \in Nat
         /\ StartTime(nodes) > now =>
              \A n \in nodes : end_time[n] > now => end_time[n] <= StartTime(nodes)
         /\ StartTime(nodes) <= now =>
              start_res = now /\ \A n \in nodes : end_time[n] = 0
PROOF
<1>1. pc = "try" /\ ~TooFew /\ nodes \in kSubset(Job.min_nodes, EndedBy(FirstEnd))
  BY DEF Picks
<1>2. nodes \subseteq EndedBy(FirstEnd)
  BY <1>1 DEF kSubset
<1>3. /\ nodes \subseteq Nodes /\ nodes \subseteq Usable
      /\ \A n \in nodes : end_time[n] <= FirstEnd
  BY <1>2 DEF EndedBy, Usable
<1>4. FirstEnd \in Nat /\ end_time \in [Nodes -> Nat]
  BY <1>1, FirstEndIsTime, JobInHand DEF Shape
<1>5. now \in Nat /\ start_res \in Nat /\ start_res >= now
  BY <1>1, BackfillAssumption DEF Shape, start_res, now
<1>6. /\ WillRun \in Nat
      /\ WillRun <= now => FirstEnd = 0
      /\ FirstEnd > now => WillRun = FirstEnd
  BY <1>4, <1>5 DEF WillRun
<1>7. Max({WillRun, start_res}) = IF WillRun >= start_res THEN WillRun ELSE start_res
  BY <1>5, <1>6, GreatestOfTwo
<1>8. \A n \in nodes : end_time[n] \in Nat
  BY <1>3, <1>4
<1> DEFINE mx == Max({WillRun, start_res})
<1>9. mx \in Nat /\ mx >= WillRun /\ mx >= start_res
  BY <1>5, <1>6, <1>7
<1>10. \/ StartTime(nodes) = mx
       \/ StartTime(nodes) = now + 1 /\ mx <= now
  BY DEF StartTime, MustWait
<1> HIDE DEF mx
<1>11. StartTime(nodes) \in Nat
  BY <1>5, <1>9, <1>10
<1>12. ASSUME StartTime(nodes) > now, NEW n \in nodes, end_time[n] > now
       PROVE  end_time[n] <= StartTime(nodes)
  <2>1. end_time[n] <= FirstEnd /\ end_time[n] \in Nat
    BY <1>3, <1>8
  <2>2. FirstEnd > now
    BY <2>1, <1>4, <1>5, <1>12
  <2>3. mx >= FirstEnd
    BY <2>2, <1>6, <1>9
  <2>4. StartTime(nodes) = mx
    BY <2>2, <2>3, <1>4, <1>5, <1>9, <1>10
  <2> QED
    BY <2>1, <2>3, <2>4, <1>4, <1>9
<1>13. ASSUME StartTime(nodes) <= now
       PROVE  start_res = now /\ \A n \in nodes : end_time[n] = 0
  <2>1. mx <= now
    BY <1>5, <1>9, <1>10, <1>13
  <2>2. start_res = now
    BY <2>1, <1>5, <1>9
  <2>3. FirstEnd = 0
    BY <2>1, <1>5, <1>6, <1>9
  <2> QED
    BY <2>2, <2>3, <1>3, <1>8
<1> QED
  BY <1>1, <1>3, <1>11, <1>12, <1>13

\* The limit given to a started job ends before every reservation of its nodes
\* begins: the first one is where _reset_job_time_limit() stops.
LEMMA StartedInTime ==
  ASSUME BackfillInv, Resolution <= Minute, pc = "try", start_res = now,
         NEW nodes \in SUBSET Usable
  PROVE  /\ GrantedLimit(nodes) * Minute \in Nat /\ GrantedLimit(nodes) * Minute > 0
         /\ \A p \in plan : nodes \intersect p.nodes # {} /\ p.start < window_end
              => now + GrantedLimit(nodes) * Minute <= p.start
PROOF
<1> DEFINE G == GrantedLimit(nodes)
           tl == Job.time_limit
           tm == Job.time_min
           Conflicts == {j \in DOMAIN node_space :
                           /\ node_space[j].begin # now
                           /\ node_space[j].begin < now + tl * Minute
                           /\ ~(nodes \subseteq node_space[j].avail)}
           delays == {(node_space[j].begin - now) \div Minute : j \in Conflicts}
           least == Min(delays \union {tl})
<1>1. /\ Job.min_nodes \in Nat \ {0} /\ tl \in Nat \ {0} /\ tm \in Nat /\ tm <= tl
      /\ TimeLimit \in Nat \ {0} /\ TimeLimit * Minute \in Nat
  BY JobInHand DEF BackfillInv
<1>2. now \in Nat /\ now = SchedStart /\ Minute \in Nat \ {0}
  BY BackfillAssumption DEF now
<1>3. /\ Ordered(node_space) /\ DOMAIN node_space = 1 .. Len(node_space)
      /\ Len(node_space) \in Nat
      /\ \A j \in DOMAIN node_space : node_space[j].begin \in Nat /\ node_space[j].end \in Nat
                                      /\ node_space[j].begin >= now
  BY <1>2, TableRecords DEF BackfillInv
<1>4. G = IF tm = 0 THEN tl ELSE Max({tm, least})
  BY DEF GrantedLimit
<1>5. tm # 0 => TimeLimit = tm
  BY <1>1 DEF TimeLimit
<1>6. tm = 0 => TimeLimit = tl
  BY <1>1 DEF TimeLimit
<1> HIDE DEF tl, tm, G
<1>7. \A x \in Nat : x \div Minute \in Nat /\ (x \div Minute) * Minute <= x
  <2> DEFINE M == Minute
  <2>1. M \in Nat /\ M > 0
    BY <1>2
  <2> HIDE DEF M
  <2>2. \A x \in Nat : x \div M \in Nat /\ (x \div M) * M <= x
    BY <2>1, Z3
  <2> QED
    BY <2>2 DEF M
<1>8. \A a, b \in Nat : a <= b => a * Minute \in Nat /\ a * Minute <= b * Minute
  <2> DEFINE M == Minute
  <2>1. M \in Nat
    BY <1>2
  <2> HIDE DEF M
  <2>2. \A a, b \in Nat : a <= b => a * M \in Nat /\ a * M <= b * M
    BY <2>1, Z3
  <2> QED
    BY <2>2 DEF M
<1>9. delays \in SUBSET Nat
  <2> SUFFICES ASSUME NEW j \in Conflicts
               PROVE  (node_space[j].begin - now) \div Minute \in Nat
    OBVIOUS
  <2>1. node_space[j].begin \in Nat /\ node_space[j].begin >= now
    BY <1>3
  <2>2. node_space[j].begin - now \in Nat
    BY <2>1, <1>2
  <2> QED
    BY <2>2, <1>7
<1>10. \A j \in Conflicts : (node_space[j].begin - now) \div Minute \in delays
  OBVIOUS
<1>11. \A j \in DOMAIN node_space :
         /\ node_space[j].begin # now /\ node_space[j].begin < now + tl * Minute
         /\ ~(nodes \subseteq node_space[j].avail)
         => j \in Conflicts
  OBVIOUS
<1> HIDE DEF Conflicts
<1>12. /\ least \in Nat /\ least <= tl /\ \A d \in delays : least <= d
  <2> DEFINE D == delays \union {tl}
  <2>1. D \in SUBSET Nat /\ D # {} /\ tl \in D /\ \A d \in delays : d \in D
    BY <1>1, <1>9
  <2> HIDE DEF D
  <2>2. Min(D) \in D /\ \A d \in D : Min(D) <= d
    BY <2>1, LeastOf
  <2>3. least = Min(D)
    BY DEF D
  <2> QED
    BY <2>1, <2>2, <2>3, Zenon
<1> HIDE DEF delays, least
<1>13. \/ G = TimeLimit
       \/ G = least /\ least >= tm /\ tm # 0
  <2>1. CASE tm = 0
    BY <2>1, <1>4, <1>6
  <2>2. CASE tm # 0
    <3>1. Max({tm, least}) = IF tm >= least THEN tm ELSE least
      BY <1>1, <1>12, GreatestOfTwo
    <3> QED
      BY <2>2, <3>1, <1>1, <1>4, <1>5, <1>12
  <2> QED
    BY <2>1, <2>2
<1>14. G \in Nat /\ G >= 1
  BY <1>1, <1>12, <1>13
<1>15. G * Minute \in Nat /\ G * Minute > 0
  <2>1. 1 * Minute <= G * Minute /\ G * Minute \in Nat /\ 1 * Minute = Minute
    BY <1>2, <1>8, <1>14
  <2> QED
    BY <2>1, <1>2
<1>16. ASSUME NEW p \in plan, NEW n \in nodes, n \in p.nodes, p.start < window_end
       PROVE  now + G * Minute <= p.start
  <2>1. /\ p.start \in Nat /\ p.from \in Nat /\ p.to \in Nat /\ now <= p.start
        /\ p.from <= p.start /\ p.start < p.to
        /\ Keeps(node_space, p.nodes, p.from, p.to)
    BY DEF BackfillInv, PlanKept
  <2>2. PICK j \in 1 .. Len(node_space) : node_space[j].begin <= p.start
                                          /\ p.start < node_space[j].end
    BY <2>1, <1>2, <1>3, <1>16, Cover, Zenon
  <2>3. n \notin node_space[j].avail
    <3>1. node_space[j].avail \intersect p.nodes = {}
      BY <2>1, <2>2 DEF Keeps
    <3> QED
      BY <3>1, <1>16
  <2>4. j \in DOMAIN node_space /\ node_space[j].begin \in Nat /\ node_space[j].end \in Nat
    BY <1>3
  <2>5. node_space[j].end > start_res
    BY <2>1, <2>2, <2>4, <1>2
  <2>6. PICK q \in DOMAIN node_space : /\ node_space[q].begin > start_res + TimeLimit * Minute
                                       /\ ~(j < q)
    BY <2>3, <2>4, <2>5 DEF Usable
  <2>7. node_space[q].begin <= node_space[j].begin
    <3>1. CASE q = j
      BY <3>1, <2>4
    <3>2. CASE q < j
      <4>1. q \in 1 .. Len(node_space)
        BY <1>3
      <4>2. node_space[q].begin <= node_space[q].end /\ node_space[q].end <= node_space[j].begin
        BY <4>1, <3>2, <1>3 DEF Ordered
      <4>3. node_space[q].begin \in Nat /\ node_space[q].end \in Nat
        BY <1>3
      <4> QED
        BY <4>2, <4>3, <2>4
    <3>3. q = j \/ q < j
      <4>1. Len(node_space) \in Nat /\ q \in 1 .. Len(node_space)
        BY <1>3
      <4> QED
        BY <4>1, <2>6
    <3> QED
      BY <3>1, <3>2, <3>3
  <2>8. node_space[q].begin \in Nat
    BY <1>3
  <2>9. now + TimeLimit * Minute < node_space[j].begin
    BY <2>4, <2>6, <2>7, <2>8, <1>1, <1>2
  <2>10. CASE G = TimeLimit
    BY <2>1, <2>2, <2>4, <2>9, <2>10, <1>1, <1>2
  <2>11. CASE G = least
    <3>1. CASE node_space[j].begin < now + tl * Minute
      <4>1. node_space[j].begin # now
        BY <2>4, <2>9, <1>1, <1>2
      <4>2. ~(nodes \subseteq node_space[j].avail)
        BY <2>3
      <4>3. j \in Conflicts
        BY <3>1, <4>1, <4>2, <2>4, <1>11
      <4> DEFINE x == node_space[j].begin - now
                 d == x \div Minute
      <4>4. x \in Nat
        BY <2>4, <1>2, <1>3
      <4>5. d \in delays
        BY <4>3, <1>10
      <4>6. d \in Nat /\ d * Minute <= x
        BY <4>4, <1>7
      <4> HIDE DEF d
      <4>7. G <= d
        BY <4>5, <2>11, <1>12
      <4>8. G * Minute <= d * Minute /\ d * Minute \in Nat
        BY <4>6, <4>7, <1>8, <1>14
      <4>9. G * Minute <= x
        BY <4>4, <4>6, <4>8, <1>15
      <4>10. now + G * Minute <= node_space[j].begin
        BY <4>9, <2>4, <1>2, <1>15
      <4> QED
        BY <4>10, <2>1, <2>2, <2>4, <1>2, <1>15
    <3>2. CASE ~(node_space[j].begin < now + tl * Minute)
      <4>1. G * Minute <= tl * Minute /\ tl * Minute \in Nat
        <5>1. G \in Nat /\ tl \in Nat /\ G <= tl /\ tl <= tl
          BY <2>11, <1>1, <1>12
        <5> QED
          BY <5>1, <1>8
      <4>2. now + G * Minute <= node_space[j].begin
        BY <4>1, <3>2, <2>4, <1>2, <1>15
      <4> QED
        BY <4>2, <2>1, <2>2, <2>4, <1>2, <1>15
    <3> QED
      BY <3>1, <3>2
  <2> QED
    BY <2>10, <2>11, <1>13
<1> QED
  BY <1>15, <1>16 DEF G

-----------------------------------------------------------------------------
\* The invariant holds when the pass begins: one record, nothing planned.
LEMMA BackfillInit ==
  ASSUME Init  PROVE BackfillInv
PROOF
<1>1. Shape
  <2>1. PICK n \in 0 .. MaxJobs : jobs \in [1 .. n -> Shapes]
    BY DEF Init
  <2>2. n \in Nat
    BY BackfillAssumption
  <2>3. jobs \in Seq(Shapes) /\ Len(jobs) \in Nat
    BY <2>1, <2>2
  <2>4. end_time \in [Nodes -> Nat]
    <3>1. BusyUntil \union {0} \subseteq Nat
      BY BackfillAssumption
    <3>2. end_time \in [Nodes -> BusyUntil \union {0}]
      BY DEF Init
    <3> QED
      BY <3>1, <3>2
  <2> QED
    BY <2>3, <2>4 DEF Init, Shape
<1>2. Ordered(node_space)
  <2> DEFINE rec == [begin |-> SchedStart, end |-> window_end, avail |-> Nodes]
  <2>1. node_space = <<rec>>
    BY DEF Init
  <2>2. SchedStart \in Nat /\ window_end \in Nat /\ SchedStart <= window_end
    BY BackfillAssumption DEF window_end
  <2>3. rec \in Record /\ rec.begin = SchedStart /\ rec.end = window_end
    BY <2>2 DEF Record
  <2> HIDE DEF rec
  <2>4. node_space \in Seq(Record) /\ Len(node_space) = 1 /\ node_space[1] = rec
    BY <2>1, <2>3
  <2>5. \A i \in 1 .. 1 : i = 1
    OBVIOUS
  <2>6. 1 .. 1 - 1 = {}
    OBVIOUS
  <2> QED
    BY <2>2, <2>3, <2>4, <2>5, <2>6 DEF Ordered
<1> QED
  BY <1>1, <1>2 DEF Init, BackfillInv, PlanKept, StartedHold, NobodyDelayed,
                    ReservationsDisjoint

\* A step that leaves the table, the plan and the machine alone only has to
\* keep the queue in shape.
LEMMA TableUntouched ==
  ASSUME BackfillInv, UNCHANGED <<table, machine>>, Shape'
  PROVE  BackfillInv'
PROOF
<1>1. Ordered(node_space)' /\ PlanKept' /\ StartedHold'
  BY DEF BackfillInv, table, machine, Ordered, PlanKept, StartedHold, Keeps, now
<1>2. NobodyDelayed' /\ ReservationsDisjoint'
  BY DEF BackfillInv, table, machine, NobodyDelayed, ReservationsDisjoint
<1> QED
  BY <1>1, <1>2, ZenonT(30) DEF BackfillInv

\* The steps that only move the pass on.
LEMMA MovesKeepInv ==
  ASSUME BackfillInv
  PROVE  /\ NextJob => BackfillInv'
         /\ EndOfQueue => BackfillInv'
         /\ Continue => BackfillInv'
         /\ TableFull => BackfillInv'
         /\ \A t \in Nat : pc = "try" /\ t >= now /\ TryAgain(t) => BackfillInv'
PROOF
<1>1. Shape /\ now \in Nat /\ Len(jobs) \in Nat
  BY BackfillAssumption DEF BackfillInv, Shape, now
<1>2. NextJob => BackfillInv'
  <2>1. NextJob => Shape'
    BY <1>1 DEF NextJob, Shape, machine
  <2> QED
    BY <2>1, TableUntouched DEF NextJob
<1>3. EndOfQueue => BackfillInv'
  <2>1. EndOfQueue => Shape'
    BY <1>1 DEF EndOfQueue, Shape, machine
  <2> QED
    BY <2>1, TableUntouched DEF EndOfQueue
<1>4. Continue => BackfillInv'
  <2>1. Continue => Shape'
    BY <1>1 DEF Continue, Shape, machine
  <2> QED
    BY <2>1, TableUntouched DEF Continue
<1>5. TableFull => BackfillInv'
  <2>1. TableFull => Shape'
    BY <1>1 DEF TableFull, Shape, machine
  <2> QED
    BY <2>1, TableUntouched DEF TableFull
<1>6. ASSUME NEW t \in Nat, pc = "try", t >= now, TryAgain(t)
      PROVE  BackfillInv'
  <2>1. Shape'
    BY <1>1, <1>6, ZenonT(30) DEF TryAgain, Shape, machine
  <2> QED
    BY <2>1, <1>6, TableUntouched DEF TryAgain
<1> QED
  BY <1>2, <1>3, <1>4, <1>5, <1>6

\* A retry is never earlier than now.
LEMMA LaterStartIsLater ==
  ASSUME BackfillInv
  PROVE  LaterStart \in Nat /\ (LaterStart # 0 => LaterStart >= now)
PROOF
<1> DEFINE J == {j \in DOMAIN node_space : node_space[j].end > start_res}
<1>1. /\ now \in Nat /\ now = SchedStart /\ Ordered(node_space)
      /\ Len(node_space) \in Nat /\ DOMAIN node_space = 1 .. Len(node_space)
      /\ \A j \in 1 .. Len(node_space) :
           /\ node_space[j].begin \in Nat /\ node_space[j].end \in Nat
           /\ node_space[j].begin >= SchedStart
  BY TableRecords, BackfillAssumption DEF BackfillInv, now
<1>2. \A j \in 1 .. Len(node_space) : node_space[j].end >= now
  BY <1>1 DEF Ordered
<1>3. LaterStart = IF J # {} /\ Min(J) < Len(node_space) THEN node_space[Min(J)].end ELSE 0
  BY DEF LaterStart
<1>4. J # {} => Min(J) \in 1 .. Len(node_space)
  <2>1. J \in SUBSET Nat
    BY <1>1
  <2>2. J # {} => Min(J) \in J
    BY <2>1, LeastOf
  <2> QED
    BY <2>2, <1>1
<1> HIDE DEF J
<1> QED
  BY <1>1, <1>2, <1>3, <1>4

\* Two reservations that share a node are apart when no record meeting the one
\* lacks a node of it: the other is in the table.
LEMMA FreeMeansApart ==
  ASSUME BackfillInv, NEW from \in Nat, NEW to \in Nat, from < to, SchedStart < to, NEW n,
         NEW q \in plan, n \in q.nodes,
         \A j \in 1 .. Len(node_space), t \in Nat :
            /\ SchedStart <= t /\ from <= t /\ t < to
            /\ node_space[j].begin <= t /\ t < node_space[j].end
            => n \in node_space[j].avail
  PROVE  Apart(from, to, q)
PROOF
<1> SUFFICES ASSUME ~Apart(from, to, q)  PROVE FALSE
  OBVIOUS
<1> DEFINE qf == q.from
           qt == q.to
<1>1. /\ q.start \in Nat /\ qf \in Nat /\ qt \in Nat
      /\ now <= q.start /\ qf <= q.start /\ q.start < qt
      /\ Keeps(node_space, q.nodes, qf, qt)
  BY DEF BackfillInv, PlanKept
<1>2. SchedStart \in Nat /\ now = SchedStart /\ Window \in Nat /\ Window > 0
  BY BackfillAssumption DEF now
<1>3. window_end \in Nat /\ SchedStart < window_end
  BY <1>2 DEF window_end
<1>4. Max({from, qf}) = IF from >= qf THEN from ELSE qf
  BY <1>1, GreatestOfTwo
<1>5. ~(to <= qf) /\ ~(qt <= from) /\ ~(Max({from, qf}) >= window_end)
  BY DEF Apart
<1> HIDE DEF qf, qt
<1>6. from < window_end /\ qf < window_end
  <2>1. CASE from >= qf
    <3>1. ~(from >= window_end)
      BY <2>1, <1>4, <1>5
    <3> QED
      BY <3>1, <2>1, <1>1, <1>3
  <2>2. CASE ~(from >= qf)
    <3>1. ~(qf >= window_end)
      BY <2>2, <1>4, <1>5
    <3> QED
      BY <3>1, <2>2, <1>1, <1>3
  <2> QED
    BY <2>1, <2>2
<1> DEFINE hi == IF from >= qf THEN from ELSE qf
           t == IF hi >= SchedStart THEN hi ELSE SchedStart
<1>7. /\ t \in Nat /\ SchedStart <= t /\ from <= t /\ qf <= t
      /\ t = from \/ t = qf \/ t = SchedStart
  <2>1. hi \in Nat /\ from <= hi /\ qf <= hi /\ (hi = from \/ hi = qf)
    BY <1>1
  <2> HIDE DEF hi
  <2> QED
    BY <2>1, <1>1, <1>2
<1> HIDE DEF t
<1>8. t < to /\ t < qt /\ t < window_end
  <2>1. qf < to /\ from < qt
    BY <1>1, <1>5
  <2>2. qf < qt /\ SchedStart < qt
    BY <1>1, <1>2
  <2>3. CASE t = from
    BY <2>1, <2>3, <1>6
  <2>4. CASE t = qf
    BY <2>1, <2>2, <2>4, <1>6
  <2>5. CASE t = SchedStart
    BY <2>2, <2>5, <1>3
  <2> QED
    BY <2>3, <2>4, <2>5, <1>7
<1>9. PICK j \in 1 .. Len(node_space) : node_space[j].begin <= t /\ t < node_space[j].end
  BY <1>7, <1>8, Cover DEF BackfillInv
<1>10. n \in node_space[j].avail
  BY <1>7, <1>8, <1>9
<1>11. node_space[j].avail \intersect q.nodes = {}
  BY <1>1, <1>7, <1>8, <1>9 DEF Keeps
<1> QED
  BY <1>10, <1>11

\* The nodes of a job that could start now are unreserved until its end.
LEMMA UsableMeansFree ==
  ASSUME BackfillInv, Resolution <= Minute, pc = "try", start_res = now, NEW n \in Usable,
         NEW j \in 1 .. Len(node_space), NEW t \in Nat, SchedStart <= t,
         t <= now + TimeLimit * Minute, node_space[j].begin <= t, t < node_space[j].end
  PROVE  n \in node_space[j].avail
PROOF
<1>1. /\ Ordered(node_space) /\ DOMAIN node_space = 1 .. Len(node_space)
      /\ Len(node_space) \in Nat
      /\ \A k \in 1 .. Len(node_space) :
           node_space[k].begin \in Nat /\ node_space[k].end \in Nat
  BY TableRecords DEF BackfillInv
<1>2. now \in Nat /\ now = SchedStart /\ TimeLimit * Minute \in Nat
  BY JobInHand, BackfillAssumption DEF BackfillInv, now
<1>3. node_space[j].end > start_res
  BY <1>1, <1>2
<1>4. ASSUME NEW q \in DOMAIN node_space, node_space[q].begin > start_res + TimeLimit * Minute
      PROVE  j < q
  <2>0. /\ q \in 1 .. Len(node_space) /\ Len(node_space) \in Nat
        /\ node_space[q].begin \in Nat /\ node_space[j].begin \in Nat
        /\ node_space[q].end \in Nat
    BY <1>1
  <2>1. node_space[q].begin > node_space[j].begin
    BY <2>0, <1>2, <1>4
  <2>2. CASE q < j
    <3>1. node_space[q].begin <= node_space[q].end /\ node_space[q].end <= node_space[j].begin
      BY <2>0, <2>2, <1>1 DEF Ordered
    <3> QED
      BY <3>1, <2>0, <2>1
  <2>3. CASE q = j
    BY <2>0, <2>1, <2>3
  <2>4. q < j \/ q = j \/ j < q
    BY <2>0
  <2> QED
    BY <2>2, <2>3, <2>4
<1> QED
  BY <1>1, <1>3, <1>4 DEF Usable

\* Making a reservation: the job's nodes are free of what the pass started by
\* the time it is planned to start.
LEMMA ReserveKeepsInv ==
  ASSUME BackfillInv, Resolution <= Minute, pc = "try", NEW nodes \in SUBSET Nodes,
         NEW start \in Nat, start >= now, Reserve(nodes, start),
         \A n \in nodes : end_time[n] > now => end_time[n] <= start,
         \A q \in plan : nodes \intersect q.nodes # {}
           => Apart(Floor(start), EndReserve(start), q)
  PROVE  BackfillInv'
PROOF
<1>1. CASE Continue
  BY <1>1, MovesKeepInv, Zenon
<1>2. ASSUME AddReservation(Floor(start), EndReserve(start), nodes),
             plan' = plan \union {[job |-> cur, nodes |-> nodes, start |-> start,
                                   from |-> Floor(start), to |-> EndReserve(start)]},
             pc' = "pop", UNCHANGED <<cur, later_start, machine>>
      PROVE  BackfillInv'
  <2> DEFINE from == Floor(start)
             to == EndReserve(start)
             new == [job |-> cur, nodes |-> nodes, start |-> start, from |-> from, to |-> to]
  <2>1. TimeLimit * Minute \in Nat /\ TimeLimit * Minute >= Resolution
    BY JobInHand DEF BackfillInv
  <2>2. from \in Nat /\ from <= start /\ to \in Nat /\ start < to
    BY <2>1, FloorBounds, Zenon DEF EndReserve
  <2>3. now = SchedStart /\ now \in Nat
    BY BackfillAssumption, ZenonT(30) DEF now
  <2> HIDE DEF from, to
  <2>4. /\ Ordered(node_space') /\ Keeps(node_space', nodes, from, to)
        /\ \A ns, f, t : Keeps(node_space, ns, f, t) => Keeps(node_space', ns, f, t)
    <3>1. AddReservation(from, to, nodes)
      BY <1>2 DEF from, to
    <3> QED
      BY <3>1, <2>2, <2>3, ReservationRecorded, AllButKeeps, ZenonT(30) DEF BackfillInv
  <2>5. Shape'
    BY <1>2 DEF BackfillInv, Shape, machine
  <2>6. plan' = plan \union {new}
    BY <1>2, Zenon DEF from, to
  <2>7. /\ new.nodes = nodes /\ new.start = start /\ new.from = from /\ new.to = to
    BY Zenon
  <2> HIDE DEF new
  <2>8. PlanKept'
    <3> SUFFICES ASSUME NEW p \in plan'
                 PROVE  /\ p.nodes \subseteq Nodes
                        /\ p.start \in Nat /\ p.from \in Nat /\ p.to \in Nat
                        /\ now <= p.start /\ p.from <= p.start /\ p.start < p.to
                        /\ Keeps(node_space', p.nodes, p.from, p.to)
      BY ZenonT(30) DEF PlanKept, now
    <3>1. CASE p \in plan
      BY <3>1, <2>4 DEF BackfillInv, PlanKept
    <3>2. CASE p = new
      BY <3>2, <2>2, <2>3, <2>4, <2>7, ZenonT(30)
    <3> QED
      BY <3>1, <3>2, <2>6, ZenonT(30)
  <2>9. StartedHold'
    BY <1>2 DEF BackfillInv, StartedHold, machine, now
  <2>10. NobodyDelayed'
    <3> SUFFICES ASSUME NEW s \in started, NEW p \in plan',
                        s.nodes \intersect p.nodes # {}, p.start < window_end
                 PROVE  s.end <= p.start
      BY <1>2 DEF NobodyDelayed, machine, window_end
    <3>1. CASE p \in plan
      BY <3>1 DEF BackfillInv, NobodyDelayed
    <3>2. CASE p = new
      <4>1. PICK n \in s.nodes : n \in nodes
        BY <3>2, <2>7
      <4>2. end_time[n] = s.end /\ s.end > now
        BY <2>3 DEF BackfillInv, StartedHold
      <4> QED
        BY <4>1, <4>2, <3>2, <2>7
    <3> QED
      BY <3>1, <3>2, <2>6, ZenonT(30)
  <2>11. ReservationsDisjoint'
    <3> SUFFICES ASSUME NEW p \in plan', NEW q \in plan', p.job # q.job,
                        p.nodes \intersect q.nodes # {}
                 PROVE  Apart(p.from, p.to, q)
      BY ZenonT(30) DEF ReservationsDisjoint, Apart, window_end
    <3>1. \A r \in plan' : r.from \in Nat
      BY <2>8 DEF PlanKept
    <3>2. CASE p \in plan /\ q \in plan
      BY <3>2 DEF BackfillInv, ReservationsDisjoint, Apart
    <3>3. CASE p = new /\ q \in plan
      BY <3>3, <2>7 DEF from, to
    <3>4. CASE p \in plan /\ q = new
      <4>1. Apart(from, to, p)
        BY <3>4, <2>7 DEF from, to
      <4>2. {from, p.from} = {p.from, q.from}
        BY <3>4, <2>7
      <4> QED
        BY <4>1, <4>2, <3>4, <2>7, ZenonT(30) DEF Apart
    <3> QED
      BY <3>2, <3>3, <3>4, <2>6, ZenonT(30)
  <2> QED
    BY <2>4, <2>5, <2>8, <2>9, <2>10, <2>11, ZenonT(30) DEF BackfillInv
<1> QED
  BY <1>1, <1>2, Zenon DEF Reserve

\* Starting a job: it fits before every reservation of its nodes, and was
\* given none of the nodes of the others.
LEMMA StartKeepsInv ==
  ASSUME BackfillInv, Resolution <= Minute, NEW picked \in Picks,
         NEW nodes \in SUBSET Nodes, StartJob(picked, nodes)
  PROVE  BackfillInv'
PROOF
<1> DEFINE end == now + GrantedLimit(nodes) * Minute
           new == [job |-> cur, nodes |-> nodes, end |-> end]
<1>1. pc = "try" /\ start_res = now
  <2>1. Shape
    BY DEF BackfillInv
  <2>2. StartTime(picked) <= now
    BY ZenonT(30) DEF StartJob
  <2> QED
    BY <2>1, <2>2, StartAfterEnds
<1>2. nodes \in SUBSET Usable /\ \A n \in nodes : end_time[n] = 0
  BY DEF StartJob, kSubset
<1>3. /\ GrantedLimit(nodes) * Minute \in Nat /\ GrantedLimit(nodes) * Minute > 0
      /\ \A p \in plan : nodes \intersect p.nodes # {} /\ p.start < window_end
           => now + GrantedLimit(nodes) * Minute <= p.start
  BY <1>1, <1>2, StartedInTime
<1>4. now \in Nat
  BY BackfillAssumption, Zenon DEF now
<1>5. end \in Nat /\ now < end
  BY <1>3, <1>4
<1>6. /\ end_time' = [n \in Nodes |-> IF n \in nodes THEN end ELSE end_time[n]]
      /\ started' = started \union {new}
      /\ pc' \in {"pop", "done"} /\ UNCHANGED <<jobs, cur, later_start, completing, table>>
  BY DEF StartJob
<1>7. \A p \in plan : nodes \intersect p.nodes # {} /\ p.start < window_end => end <= p.start
  BY <1>3
<1>8. new.nodes = nodes /\ new.end = end
  OBVIOUS
<1> HIDE DEF end, new
<1>9. Shape'
  BY <1>5, <1>6, Zenon DEF BackfillInv, Shape
<1>10. Ordered(node_space)' /\ PlanKept' /\ ReservationsDisjoint'
  BY <1>6, ZenonT(30)
     DEF BackfillInv, table, Ordered, PlanKept, Keeps, now, ReservationsDisjoint
<1>11. StartedHold'
  <2> SUFFICES ASSUME NEW s \in started'
               PROVE  /\ s.end \in Nat /\ now < s.end /\ s.nodes \subseteq Nodes
                      /\ \A n \in s.nodes : end_time'[n] = s.end
    BY ZenonT(30) DEF StartedHold, now
  <2>1. CASE s \in started
    <3>1. /\ s.end \in Nat /\ now < s.end /\ s.nodes \subseteq Nodes
          /\ \A n \in s.nodes : end_time[n] = s.end
      BY <2>1 DEF BackfillInv, StartedHold
    <3>2. s.end # 0
      BY <3>1, <1>4
    <3>3. \A n \in s.nodes : n \in Nodes /\ n \notin nodes
      BY <3>1, <3>2, <1>2
    <3> QED
      BY <3>1, <3>3, <1>6
  <2>2. CASE s = new
    BY <2>2, <1>5, <1>6, <1>8, ZenonT(30)
  <2> QED
    BY <2>1, <2>2, <1>6, Zenon
<1>12. NobodyDelayed'
  <2> SUFFICES ASSUME NEW s \in started', NEW p \in plan,
                      s.nodes \intersect p.nodes # {}, p.start < window_end
               PROVE  s.end <= p.start
    BY <1>6 DEF NobodyDelayed, table, window_end
  <2>1. CASE s \in started
    BY <2>1 DEF BackfillInv, NobodyDelayed
  <2>2. CASE s = new
    BY <2>2, <1>7, <1>8
  <2> QED
    BY <2>1, <2>2, <1>6
<1> QED
  BY <1>9, <1>10, <1>11, <1>12 DEF BackfillInv

\* Every step of the pass keeps the invariant.
LEMMA BackfillNext ==
  ASSUME BackfillInv, Resolution <= Minute, [Next]_vars
  PROVE  BackfillInv'
PROOF
<1>0. now \in Nat
  BY BackfillAssumption DEF now
<1>1. CASE NextJob \/ EndOfQueue
  BY <1>1, MovesKeepInv
<1>2. CASE NoRoom
  <2>1. pc = "try" /\ (Continue \/ (LaterStart # 0 /\ TryAgain(LaterStart)))
    BY <1>2 DEF NoRoom
  <2> QED
    BY <2>1, LaterStartIsLater, MovesKeepInv
<1>3. ASSUME NEW nodes \in Picks, StartRefused(nodes)  PROVE BackfillInv'
  BY <1>3, MovesKeepInv DEF StartRefused
<1>4. ASSUME NEW nodes \in Picks, StartFails(nodes)  PROVE BackfillInv'
  <2>1. /\ pc = "try" /\ nodes \subseteq Nodes /\ nodes \subseteq Usable
        /\ start_res = now /\ \A n \in nodes : end_time[n] = 0
    BY <1>4, StartAfterEnds DEF BackfillInv, StartFails
  <2>2. TableFull \/ Reserve(nodes, now)
    BY <1>4 DEF StartFails
  <2>3. \A n \in nodes : end_time[n] > now => end_time[n] <= now
    BY <2>1, <1>0
  <2>4. /\ TimeLimit * Minute \in Nat /\ EndReserve(now) \in Nat /\ Floor(now) \in Nat
        /\ Floor(now) <= now /\ now < EndReserve(now)
        /\ EndReserve(now) <= now + TimeLimit * Minute
    <3>1. TimeLimit * Minute \in Nat /\ TimeLimit * Minute >= Resolution
      BY <2>1, JobInHand DEF BackfillInv
    <3>2. /\ Floor(now) \in Nat /\ Floor(now) <= now
          /\ Floor(now + TimeLimit * Minute) \in Nat
          /\ now < Floor(now + TimeLimit * Minute)
      BY <3>1, <1>0, FloorBounds
    <3>3. now + TimeLimit * Minute \in Nat
      BY <3>1, <1>0
    <3>4. Floor(now + TimeLimit * Minute) <= now + TimeLimit * Minute
      BY <3>1, <3>3, FloorBounds
    <3> QED
      BY <3>1, <3>2, <3>4 DEF EndReserve
  <2>5. ASSUME NEW q \in plan, NEW n \in nodes, n \in q.nodes
        PROVE  Apart(Floor(now), EndReserve(now), q)
    <3>1. now = SchedStart
      BY Zenon DEF now
    <3>2. ASSUME NEW j \in 1 .. Len(node_space), NEW t \in Nat, SchedStart <= t,
                 t < EndReserve(now), node_space[j].begin <= t, t < node_space[j].end
          PROVE  n \in node_space[j].avail
      <4>1. t <= now + TimeLimit * Minute
        BY <2>4, <3>2, <1>0
      <4>2. n \in Usable
        BY <2>1
      <4> QED
        BY <4>1, <4>2, <2>1, <3>2, UsableMeansFree, ZenonT(30)
    <3>3. Floor(now) < EndReserve(now) /\ SchedStart < EndReserve(now)
      BY <2>4, <3>1, <1>0
    <3> QED
      BY <2>4, <2>5, <3>2, <3>3, FreeMeansApart
  <2>6. CASE Reserve(nodes, now)
    <3>1. \A q \in plan : nodes \intersect q.nodes # {}
             => Apart(Floor(now), EndReserve(now), q)
      BY <2>5
    <3>2. now >= now
      BY <1>0
    <3> QED
      BY <2>1, <2>3, <2>6, <3>1, <3>2, <1>0, ReserveKeepsInv, ZenonT(30)
  <2> QED
    BY <2>2, <2>6, MovesKeepInv
<1>5. ASSUME NEW nodes \in Picks, PlanAhead(nodes)  PROVE BackfillInv'
  <2> DEFINE start == StartTime(nodes)
             later == Later(nodes)
  <2>1. /\ pc = "try" /\ nodes \subseteq Nodes /\ start \in Nat
        /\ start > now =>
             \A n \in nodes : end_time[n] > now => end_time[n] <= start
    BY StartAfterEnds DEF BackfillInv
  <2>2. start > now
    BY <1>5 DEF PlanAhead
  <2>3. \/ Continue \/ TableFull \/ TryAgain(start)
        \/ Verdict(nodes, start, later) = "reserve" /\ Reserve(nodes, start)
        \/ Verdict(nodes, start, later) = "later" /\ TryAgain(later)
    BY <1>5 DEF PlanAhead
  <2>4. /\ Verdict(nodes, start, later) = "later" => later # 0
        /\ Verdict(nodes, start, later) = "reserve"
             => ~Overlaps(nodes, Floor(start), EndReserve(start))
    BY DEF Verdict
  <2>5. later \in Nat /\ (later # 0 => later >= now)
    BY LaterStartIsLater DEF Later
  <2> HIDE DEF start, later
  <2>6. CASE Continue \/ TableFull
    BY <2>6, MovesKeepInv, ZenonT(30)
  <2>7. CASE Verdict(nodes, start, later) = "reserve" /\ Reserve(nodes, start)
    <3>1. TimeLimit * Minute \in Nat /\ TimeLimit * Minute >= Resolution
      BY <2>1, JobInHand DEF BackfillInv
    <3>2. /\ Floor(start) \in Nat /\ Floor(start) <= start
          /\ EndReserve(start) \in Nat /\ start < EndReserve(start)
      BY <2>1, <3>1, FloorBounds DEF EndReserve
    <3>3. now = SchedStart
      BY DEF now
    <3>4. Floor(start) < EndReserve(start) /\ SchedStart < EndReserve(start)
      BY <2>1, <2>2, <3>2, <3>3, <1>0
    <3>5. ASSUME NEW q \in plan, NEW n \in nodes, n \in q.nodes
          PROVE  Apart(Floor(start), EndReserve(start), q)
      <4>1. ASSUME NEW j \in 1 .. Len(node_space), NEW t \in Nat, Floor(start) <= t,
                   t < EndReserve(start), node_space[j].begin <= t, t < node_space[j].end
            PROVE  n \in node_space[j].avail
        <5>1. /\ j \in DOMAIN node_space
              /\ node_space[j].begin \in Nat /\ node_space[j].end \in Nat
          BY TableRecords, Zenon DEF BackfillInv
        <5> DEFINE lo == Floor(start)
                   hi == EndReserve(start)
        <5>4. lo \in Nat /\ hi \in Nat /\ lo <= t /\ t < hi
          BY <4>1, <3>2
        <5> HIDE DEF lo, hi
        <5>5. node_space[j].end > lo /\ node_space[j].begin < hi
          BY <5>1, <5>4, <4>1
        <5>2. node_space[j].end > Floor(start) /\ node_space[j].begin < EndReserve(start)
          BY <5>5 DEF lo, hi
        <5>3. nodes \subseteq node_space[j].avail
          BY <5>1, <5>2, <2>4, <2>7 DEF Overlaps
        <5> QED
          BY <5>3
      <4> QED
        BY <4>1, <3>2, <3>4, <3>5, FreeMeansApart
    <3>6. \A q \in plan : nodes \intersect q.nodes # {}
             => Apart(Floor(start), EndReserve(start), q)
      BY <3>5
    <3>7. start >= now
      BY <2>1, <2>2, <1>0
    <3> QED
      BY <2>1, <2>2, <2>7, <3>6, <3>7, ReserveKeepsInv
  <2>8. CASE TryAgain(start)
    BY <2>1, <2>2, <2>8, <1>0, MovesKeepInv
  <2>9. CASE Verdict(nodes, start, later) = "later" /\ TryAgain(later)
    BY <2>1, <2>4, <2>5, <2>9, MovesKeepInv
  <2> QED
    BY <2>3, <2>6, <2>7, <2>8, <2>9
<1>6. ASSUME NEW picked \in Picks, NEW nodes \in SUBSET Nodes, StartJob(picked, nodes)
      PROVE  BackfillInv'
  BY <1>6, StartKeepsInv
<1>7. CASE UNCHANGED vars
  <2>1. UNCHANGED <<table, machine>> /\ Shape'
    BY <1>7 DEF vars, table, machine, BackfillInv, Shape
  <2> QED
    BY <2>1, TableUntouched
<1> QED
  BY <1>1, <1>2, <1>3, <1>4, <1>5, <1>6, <1>7 DEF Next, Step, Done

\* The invariant holds throughout.
THEOREM BackfillInvariant ==
  ASSUME Resolution <= Minute
  PROVE  Spec => []BackfillInv
PROOF
<1>1. Init => BackfillInv
  BY BackfillInit
<1>2. BackfillInv /\ [Next]_vars => BackfillInv'
  BY BackfillNext
<1> QED
  BY <1>1, <1>2, PTL DEF Spec

\* Backfilling delays nobody: whatever the cluster, the queue, the window and
\* the table size, a job started by _attempt_backfill() is over before the
\* planned start of every job that has one of its nodes reserved, provided
\* that bf_resolution is not coarser than the unit of time limits.
THEOREM BackfillDelaysNobody ==
  ASSUME Resolution <= Minute
  PROVE  Spec => []NobodyDelayed
PROOF
<1>1. BackfillInv => NobodyDelayed
  BY DEF BackfillInv
<1> QED
  BY <1>1, BackfillInvariant, PTL

\* No node is promised to two jobs at once, under the same proviso: the table
\* that _test_resv_overlap() reads holds every reservation already made.
THEOREM NoNodePromisedTwice ==
  ASSUME Resolution <= Minute
  PROVE  Spec => []ReservationsDisjoint
PROOF
<1>1. BackfillInv => ReservationsDisjoint
  BY DEF BackfillInv
<1> QED
  BY <1>1, BackfillInvariant, PTL
-----------------------------------------------------------------------------
\* What a cut, the removal of nodes and a merge do to the size of a table.
LEMMA SplitSize ==
  ASSUME NEW ns \in Seq(Record), NEW j \in 1 .. Len(ns), NEW t \in Nat
  PROVE  Split(ns, j, t) \in Seq(Record) /\ Len(Split(ns, j, t)) = Len(ns) + 1
PROOF
<1>1. Len(ns) \in Nat /\ \A i \in 1 .. Len(ns) : ns[i] \in Record
  BY ElementOfSeq
<1>2. \A rec \in Record : /\ [rec EXCEPT !.end = t] \in Record
                          /\ [rec EXCEPT !.begin = t] \in Record
  BY Zenon DEF Record
<1>3. ASSUME NEW i \in 1 .. Len(ns) + 1  PROVE Split(ns, j, t)[i] \in Record
  <2>1. CASE i < j
    BY <2>1, <1>1 DEF Split
  <2>2. CASE i = j
    <3>1. Split(ns, j, t)[i] = [ns[j] EXCEPT !.end = t]
      BY <2>2, <1>1 DEF Split
    <3> QED
      BY <3>1, <1>1, <1>2, Zenon
  <2>3. CASE i = j + 1
    <3>0. ~(i < j) /\ i # j
      BY <2>3, <1>1
    <3>1. Split(ns, j, t)[i] = [ns[j] EXCEPT !.begin = t]
      BY <2>3, <3>0 DEF Split
    <3> QED
      BY <3>1, <1>1, <1>2, Zenon
  <2>4. CASE i > j + 1
    <3>1. i - 1 \in 1 .. Len(ns) /\ ~(i < j) /\ i # j /\ i # j + 1
      BY <2>4, <1>1
    <3> QED
      BY <3>1, <2>4, <1>1 DEF Split
  <2>5. i < j \/ i = j \/ i = j + 1 \/ i > j + 1
    BY <1>1
  <2> QED
    BY <2>1, <2>2, <2>3, <2>4, <2>5
<1>4. Split(ns, j, t) \in [1 .. Len(ns) + 1 -> Record]
  BY <1>3, Zenon DEF Split
<1>5. Len(ns) + 1 \in Nat
  BY <1>1
<1> QED
  BY <1>4, <1>5

\* The cut at the start of a reservation adds at most one record to the table.
LEMMA CutStartSize ==
  ASSUME NEW ns \in Seq(Record), NEW start \in Nat
  PROVE  /\ CutStart(ns, start) \in Seq(Record)
         /\ Len(CutStart(ns, start)) \in {Len(ns), Len(ns) + 1}
PROOF
<1> DEFINE J == {j \in DOMAIN ns : ns[j].end >= start}
<1>1. J \in SUBSET Nat /\ J \subseteq 1 .. Len(ns)
  BY LenProperties
<1>2. J # {} => Min(J) \in 1 .. Len(ns)
  BY <1>1, LeastOf, ZenonT(30)
<1>3. \/ CutStart(ns, start) = ns
      \/ J # {} /\ CutStart(ns, start) = Split(ns, Min(J), start)
  BY DEF CutStart
<1> HIDE DEF J
<1> QED
  BY <1>2, <1>3, SplitSize

\* The cut at the end of a reservation adds at most one record to the table.
LEMMA CutEndSize ==
  ASSUME NEW ns \in Seq(Record), NEW start \in Nat, NEW end_reserve \in Nat
  PROVE  /\ CutEnd(ns, start, end_reserve) \in Seq(Record)
         /\ Len(CutEnd(ns, start, end_reserve)) \in {Len(ns), Len(ns) + 1}
PROOF
<1> DEFINE J == {j \in DOMAIN ns : ns[j].end >= start}
           K == {k \in DOMAIN ns : k > Min(J) /\ ns[k].end >= end_reserve}
<1>1. K \in SUBSET Nat /\ K \subseteq 1 .. Len(ns)
  BY LenProperties
<1>2. K # {} => Min(K) \in 1 .. Len(ns)
  BY <1>1, LeastOf, ZenonT(30)
<1>3. \/ CutEnd(ns, start, end_reserve) = ns
      \/ K # {} /\ CutEnd(ns, start, end_reserve) = Split(ns, Min(K), end_reserve)
  BY DEF CutEnd
<1> HIDE DEF K
<1> QED
  BY <1>2, <1>3, SplitSize

\* Taking the nodes out of the records changes their number not at all.
LEMMA TakeSize ==
  ASSUME NEW ns \in Seq(Record), NEW start, NEW end_reserve, NEW nodes
  PROVE  /\ TakeNodes(ns, start, end_reserve, nodes) \in Seq(Record)
         /\ Len(TakeNodes(ns, start, end_reserve, nodes)) = Len(ns)
PROOF
<1>1. /\ Len(ns) \in Nat /\ DOMAIN ns = 1 .. Len(ns)
      /\ \A i \in 1 .. Len(ns) : ns[i] \in Record
  BY LenProperties, ElementOfSeq
<1>2. \A rec \in Record : [rec EXCEPT !.avail = @ \ nodes] \in Record
  BY DEF Record
<1>3. TakeNodes(ns, start, end_reserve, nodes) \in [1 .. Len(ns) -> Record]
  BY <1>1, <1>2 DEF TakeNodes
<1> QED
  BY <1>1, <1>3

\* The merge adds no record and leaves at least one.
LEMMA MergeSize ==
  ASSUME NEW ns \in Seq(Record), Len(ns) >= 1
  PROVE  Merge(ns) \in Seq(Record) /\ Len(Merge(ns)) \in 1 .. Len(ns)
PROOF
<1> DEFINE Same == {j \in 1 .. Len(ns) - 1 : ns[j].avail = ns[j + 1].avail}
           j == Min(Same)
<1>1. Len(ns) \in Nat /\ \A i \in 1 .. Len(ns) : ns[i] \in Record
  BY ElementOfSeq
<1>2. CASE Same = {}
  <2>1. Merge(ns) = ns
    BY <1>2 DEF Merge
  <2> QED
    BY <2>1, <1>1
<1>3. CASE Same # {}
  <2>1. j \in Same
    <3>1. Same \in SUBSET Nat
      BY <1>1
    <3> QED
      BY <3>1, <1>3, LeastOf, Zenon
  <2>2. j \in 1 .. Len(ns) - 1
    BY <2>1
  <2>3. Merge(ns) = [i \in 1 .. Len(ns) - 1 |->
                       CASE i < j -> ns[i]
                         [] i = j -> [ns[j] EXCEPT !.end = ns[j + 1].end]
                         [] i > j -> ns[i + 1]]
    BY <1>3, Zenon DEF Merge
  <2> HIDE DEF j, Same
  <2>4. ns[j] \in Record /\ ns[j + 1] \in Record
    BY <2>2, <1>1
  <2>5. [ns[j] EXCEPT !.end = ns[j + 1].end] \in Record
    BY <2>4, Zenon DEF Record
  <2>6. ASSUME NEW i \in 1 .. Len(ns) - 1  PROVE Merge(ns)[i] \in Record
    <3>1. i \in 1 .. Len(ns) /\ i + 1 \in 1 .. Len(ns) /\ (i < j \/ i = j \/ i > j)
      BY <2>2, <1>1
    <3>2. CASE i < j
      BY <3>1, <3>2, <2>2, <2>3, <1>1
    <3>3. CASE i = j
      BY <3>1, <3>3, <2>2, <2>3, <2>5, <1>1
    <3>4. CASE i > j
      <4>1. ~(i < j) /\ i # j
        BY <3>4, <2>2, <1>1
      <4> QED
        BY <4>1, <3>1, <3>4, <2>3, <1>1
    <3> QED
      BY <3>1, <3>2, <3>3, <3>4
  <2>7. Merge(ns) \in [1 .. Len(ns) - 1 -> Record]
    BY <2>3, <2>6, Zenon
  <2>8. Len(ns) - 1 \in Nat /\ Len(ns) - 1 \in 1 .. Len(ns)
    BY <2>2, <1>1
  <2> QED
    BY <2>7, <2>8
<1> QED
  BY <1>2, <1>3

\* A reservation uses at most two entries of the array, and the list never
\* has more records than the array has entries used.
LEMMA ReservationSize ==
  ASSUME node_space \in Seq(Record), Len(node_space) >= 1, node_space_recs \in Nat,
         Len(node_space) <= node_space_recs, NEW from \in Nat, NEW to \in Nat, NEW nodes,
         AddReservation(from, to, nodes)
  PROVE  /\ node_space' \in Seq(Record) /\ Len(node_space') >= 1
         /\ node_space_recs' \in Nat /\ Len(node_space') <= node_space_recs'
         /\ node_space_recs' <= node_space_recs + 2
PROOF
<1> DEFINE s == Max({from, node_space[1].begin})
           c1 == CutStart(node_space, s)
           c2 == CutEnd(c1, s, to)
           tk == TakeNodes(c2, s, to, nodes)
<1>1. /\ node_space' = Merge(tk)
      /\ node_space_recs' = node_space_recs + Len(c2) - Len(node_space)
  BY DEF AddReservation
<1>2. s \in Nat
  <2>1. Len(node_space) \in Nat /\ 1 \in 1 .. Len(node_space)
    OBVIOUS
  <2>2. node_space[1] \in Record
    BY <2>1, ElementOfSeq
  <2>3. node_space[1].begin \in Nat
    BY <2>2 DEF Record
  <2> QED
    BY <2>3, GreatestOfTwo
<1> HIDE DEF s
<1>3. c1 \in Seq(Record) /\ Len(c1) \in {Len(node_space), Len(node_space) + 1}
  BY <1>2, CutStartSize
<1> HIDE DEF c1
<1>4. c2 \in Seq(Record) /\ Len(c2) \in {Len(c1), Len(c1) + 1}
  BY <1>2, <1>3, CutEndSize
<1> HIDE DEF c2
<1>5. tk \in Seq(Record) /\ Len(tk) = Len(c2)
  BY <1>4, TakeSize
<1> HIDE DEF tk
<1>6. Len(node_space) \in Nat /\ Len(c2) \in Nat
  BY <1>4
<1>7. Len(c2) >= Len(node_space) /\ Len(c2) <= Len(node_space) + 2
  BY <1>3, <1>4, <1>6
<1>8. Len(tk) >= 1
  BY <1>5, <1>6, <1>7
<1>9. Merge(tk) \in Seq(Record) /\ Len(Merge(tk)) \in 1 .. Len(tk)
  BY <1>5, <1>8, MergeSize
<1>10. node_space' \in Seq(Record) /\ Len(node_space') \in 1 .. Len(c2)
  BY <1>1, <1>5, <1>9, Zenon
<1>11. node_space_recs' = node_space_recs + Len(c2) - Len(node_space)
  BY <1>1, Zenon
<1> DEFINE m == Len(c2)
           k == Len(node_space)
           l == Len(node_space')
<1>12. m \in Nat /\ k \in Nat /\ l \in 1 .. m /\ m >= k /\ m <= k + 2
  BY <1>6, <1>7, <1>10, Zenon
<1>13. node_space_recs' = node_space_recs + m - k /\ k <= node_space_recs
  BY <1>11, Zenon
<1> HIDE DEF m, k, l
<1>14. /\ l >= 1 /\ node_space_recs' \in Nat /\ l <= node_space_recs'
       /\ node_space_recs' <= node_space_recs + 2
  BY <1>12, <1>13
<1> QED
  BY <1>10, <1>14, Zenon DEF l

(* Every entry used was made before the limit was reached, or by the one     *)
(* reservation that went past it.                                            *)
Fits ==
  /\ pc \in {"pop", "try", "done"} /\ completing \subseteq Nodes
  /\ node_space_recs \in Nat /\ Len(node_space) <= node_space_recs
  /\ node_space_recs <= MaxRecs + 1

\* Every step of the pass keeps the table within the array.
LEMMA FitsNext ==
  ASSUME BackfillInv, Fits, Resolution <= Minute, [Next]_vars
  PROVE  Fits'
PROOF
<1>0. MaxRecs \in Nat /\ now \in Nat
  BY BackfillAssumption DEF now
<1>1. ASSUME pc' \in {"pop", "try", "done"}, UNCHANGED <<table, completing>>  PROVE Fits'
  BY <1>1 DEF Fits, table
<1>2. /\ Continue => Fits'
      /\ TableFull => Fits'
      /\ \A t : TryAgain(t) => Fits'
  BY <1>1 DEF Continue, TableFull, TryAgain, machine, Fits
<1>3. ASSUME NEW nodes, NEW start \in Nat, pc = "try", node_space_recs < MaxRecs,
             Reserve(nodes, start)
      PROVE  Fits'
  <2>1. CASE Continue
    BY <2>1, <1>2
  <2>2. CASE AddReservation(Floor(start), EndReserve(start), nodes) /\ pc' = "pop"
             /\ UNCHANGED <<cur, later_start, machine>>
    <3>1. TimeLimit * Minute \in Nat /\ TimeLimit * Minute >= Resolution
      BY <1>3, JobInHand DEF BackfillInv
    <3>2. Floor(start) \in Nat /\ EndReserve(start) \in Nat
      BY <3>1, FloorBounds DEF EndReserve
    <3>3. node_space \in Seq(Record) /\ Len(node_space) >= 1
      BY DEF BackfillInv, Ordered
    <3>4. /\ node_space_recs' \in Nat /\ Len(node_space') <= node_space_recs'
          /\ node_space_recs' <= node_space_recs + 2
      BY <2>2, <3>2, <3>3, ReservationSize DEF Fits
    <3>5. node_space_recs' <= MaxRecs + 1
      BY <3>4, <1>0, <1>3 DEF Fits
    <3> QED
      BY <2>2, <3>4, <3>5 DEF Fits, machine
  <2> QED
    BY <1>3, <2>1, <2>2 DEF Reserve
<1>4. CASE NextJob \/ EndOfQueue
  BY <1>1, <1>4 DEF NextJob, EndOfQueue, machine
<1>5. CASE NoRoom
  BY <1>2, <1>5 DEF NoRoom
<1>6. ASSUME NEW nodes \in Picks, StartRefused(nodes)  PROVE Fits'
  BY <1>2, <1>6 DEF StartRefused
<1>7. ASSUME NEW nodes \in Picks, StartFails(nodes)  PROVE Fits'
  <2>1. TableFull \/ (~(node_space_recs >= MaxRecs) /\ Reserve(nodes, now))
    BY <1>7 DEF StartFails
  <2>2. ~(node_space_recs >= MaxRecs) => node_space_recs < MaxRecs
    BY <1>0 DEF Fits
  <2>3. pc = "try"
    BY DEF Picks
  <2> QED
    BY <2>1, <2>2, <2>3, <1>0, <1>2, <1>3, ZenonT(30)
<1>8. ASSUME NEW nodes \in Picks, PlanAhead(nodes)  PROVE Fits'
  <2> DEFINE start == StartTime(nodes)
  <2>1. \/ Continue \/ TableFull \/ \E t : TryAgain(t)
        \/ Verdict(nodes, start, Later(nodes)) = "reserve" /\ Reserve(nodes, start)
    BY <1>8 DEF PlanAhead
  <2>2. Verdict(nodes, start, Later(nodes)) = "reserve" => ~(node_space_recs >= MaxRecs)
    BY DEF Verdict
  <2>3. ~(node_space_recs >= MaxRecs) => node_space_recs < MaxRecs
    BY <1>0 DEF Fits
  <2>4. pc = "try" /\ start \in Nat
    BY StartAfterEnds DEF BackfillInv
  <2> HIDE DEF start
  <2> QED
    BY <2>1, <2>2, <2>3, <2>4, <1>2, <1>3, ZenonT(30)
<1>9. ASSUME NEW picked \in Picks, NEW nodes \in SUBSET Nodes, StartJob(picked, nodes)
      PROVE  Fits'
  BY <1>1, <1>9 DEF StartJob
<1>10. CASE UNCHANGED vars
  BY <1>1, <1>10 DEF vars, table, Fits
<1> QED
  BY <1>4, <1>5, <1>6, <1>7, <1>8, <1>9, <1>10, ZenonT(30) DEF Next, Step, Done

\* The table never outgrows the array that _attempt_backfill() allocates for
\* it, though entries are never reused: types hold, with the bound of 2 *
\* max_backfill_job_cnt + 1 entries, for every value of the constants.
THEOREM TableFitsArray ==
  ASSUME Resolution <= Minute
  PROVE  Spec => []TypeOK
PROOF
<1>1. Init => Fits
  <2>1. MaxRecs \in Nat /\ MaxRecs >= 1
    BY BackfillAssumption
  <2> SUFFICES ASSUME Init  PROVE Fits
    OBVIOUS
  <2>2. pc = "pop" /\ completing \subseteq Nodes /\ node_space_recs = 1
    BY DEF Init
  <2>3. Len(node_space) = 1
    BY DEF Init
  <2> QED
    BY <2>1, <2>2, <2>3 DEF Fits
<1>2. BackfillInv /\ Fits /\ [Next]_vars => Fits'
  BY FitsNext
<1>3. BackfillInv /\ Fits => TypeOK
  <2> SUFFICES ASSUME BackfillInv, Fits  PROVE TypeOK
    OBVIOUS
  <2>1. MaxRecs \in Nat
    BY BackfillAssumption
  <2>2. node_space \in Seq(Record) /\ Len(node_space) >= 1 /\ Len(node_space) \in Nat
    BY DEF BackfillInv, Ordered
  <2>3. node_space # <<>>
    BY <2>2
  <2>4. node_space_recs \in Len(node_space) .. Allocated
    BY <2>1, <2>2 DEF Fits, Allocated
  <2> QED
    BY <2>2, <2>3, <2>4 DEF BackfillInv, Shape, Fits, TypeOK
<1> QED
  BY <1>1, <1>2, <1>3, BackfillInvariant, PTL DEF Spec

-----------------------------------------------------------------------------
(* A record offers exactly the nodes that no reservation covers at any       *)
(* instant that lies in it.                                                  *)
TableExact ==
  \A i \in 1 .. Len(node_space), t \in Nat :
     node_space[i].begin <= t /\ t < node_space[i].end
     => node_space[i].avail = Nodes \ Reserved(t)

NewReservation(nodes, start) ==
  /\ AddReservation(Floor(start), EndReserve(start), nodes)
  /\ plan' = plan \union {[job |-> cur, nodes |-> nodes, start |-> start,
                           from |-> Floor(start), to |-> EndReserve(start)]}

\* Only _add_reservation() changes the table, and with it the plan.
LEMMA TableSteps ==
  ASSUME BackfillInv, Resolution <= Minute, [Next]_vars
  PROVE  \/ UNCHANGED <<node_space, plan>>
         \/ pc = "try" /\ \E nodes : \E start \in Nat :
                             start >= now /\ NewReservation(nodes, start)
PROOF
<1> DEFINE Same == UNCHANGED <<node_space, plan>>
           New == pc = "try" /\ \E nodes : \E start \in Nat :
                                 start >= now /\ NewReservation(nodes, start)
<1>0. now \in Nat /\ now >= now
  BY BackfillAssumption DEF now
<1>1. (NextJob \/ EndOfQueue \/ Continue \/ TableFull \/ UNCHANGED vars) => Same
  BY Zenon DEF NextJob, EndOfQueue, Continue, TableFull, vars, table
<1>2. \A t : TryAgain(t) => Same
  BY Zenon DEF TryAgain, table
<1>3. ASSUME NEW nodes, NEW start \in Nat, start >= now, pc = "try", Reserve(nodes, start)
      PROVE  Same \/ New
  BY <1>1, <1>3, Zenon DEF Reserve, NewReservation
<1>4. NoRoom => Same
  BY <1>1, <1>2, Zenon DEF NoRoom
<1>5. ASSUME NEW nodes \in Picks  PROVE pc = "try" /\ StartTime(nodes) \in Nat
  BY StartAfterEnds, Zenon DEF BackfillInv
<1>6. ASSUME NEW nodes \in Picks, StartRefused(nodes)  PROVE Same
  BY <1>1, <1>6, Zenon DEF StartRefused
<1>7. ASSUME NEW nodes \in Picks, StartFails(nodes)  PROVE Same \/ New
  <2>1. TableFull \/ Reserve(nodes, now)
    BY <1>7, Zenon DEF StartFails
  <2>2. pc = "try"
    BY <1>5, Zenon
  <2> QED
    BY <2>1, <2>2, <1>0, <1>1, <1>3, Zenon
<1>8. ASSUME NEW nodes \in Picks, PlanAhead(nodes)  PROVE Same \/ New
  <2>1. \/ Continue \/ TableFull \/ \E t : TryAgain(t)
        \/ Reserve(nodes, StartTime(nodes))
    BY <1>8, Zenon DEF PlanAhead
  <2>2. StartTime(nodes) > now
    BY <1>8, Zenon DEF PlanAhead
  <2>3. pc = "try" /\ StartTime(nodes) \in Nat
    BY <1>5, Zenon
  <2>4. StartTime(nodes) >= now
    BY <2>2, <2>3, <1>0
  <2> QED
    BY <2>1, <2>3, <2>4, <1>1, <1>2, <1>3, Zenon
<1>9. ASSUME NEW picked, NEW nodes, StartJob(picked, nodes)  PROVE Same
  BY <1>9, Zenon DEF StartJob, table
<1> HIDE DEF Same, New
<1>10. Same \/ New
  BY <1>1, <1>4, <1>6, <1>7, <1>8, <1>9, Zenon DEF Next, Step, Done
<1> QED
  BY <1>10, Zenon DEF Same, New

\* The new table is exact when the old one was: at each instant the plan and
\* the table change by the same nodes.
LEMMA ExactNext ==
  ASSUME BackfillInv, TableExact, Resolution <= Minute, [Next]_vars
  PROVE  TableExact'
PROOF
<1>1. CASE UNCHANGED <<node_space, plan>>
  <2>1. node_space' = node_space /\ plan' = plan
    BY <1>1
  <2>2. ASSUME NEW t  PROVE Reserved(t)' = Reserved(t)
    BY <2>1, Zenon DEF Reserved
  <2> QED
    BY <2>1, <2>2, Zenon DEF TableExact
<1>2. ASSUME pc = "try", NEW nodes, NEW start \in Nat, start >= now,
             NewReservation(nodes, start)
      PROVE  TableExact'
  <2> DEFINE from == Floor(start)
             to == EndReserve(start)
             new == [job |-> cur, nodes |-> nodes, start |-> start, from |-> from, to |-> to]
  <2>1. TimeLimit * Minute \in Nat /\ TimeLimit * Minute >= Resolution
    BY <1>2, JobInHand DEF BackfillInv
  <2>2. from \in Nat /\ from <= start /\ to \in Nat /\ start < to
    BY <2>1, FloorBounds DEF EndReserve
  <2>3. SchedStart <= start
    BY <1>2, Zenon DEF now
  <2>4. AddReservation(from, to, nodes) /\ plan' = plan \union {new}
    BY <1>2, Zenon DEF NewReservation
  <2>5. new.nodes = nodes /\ new.from = from /\ new.to = to
    OBVIOUS
  <2> HIDE DEF from, to, new
  <2>6. Ordered(node_space') /\ AllBut(node_space', node_space, nodes, from, to)
    BY <2>2, <2>3, <2>4, ReservationRecorded DEF BackfillInv
  <2>7. \A t : Reserved(t)' = IF from <= t /\ t < to THEN Reserved(t) \union nodes
                                                    ELSE Reserved(t)
    <3> SUFFICES ASSUME NEW t
                 PROVE  Reserved(t)' = IF from <= t /\ t < to THEN Reserved(t) \union nodes
                                                              ELSE Reserved(t)
      OBVIOUS
    <3>1. Reserved(t)' = UNION {r.nodes : r \in {p \in plan' : p.from <= t /\ t < p.to}}
      BY Zenon DEF Reserved
    <3>2. \A n : n \in Reserved(t)' <=> \E r \in plan' : r.from <= t /\ t < r.to /\ n \in r.nodes
      BY <3>1
    <3>3. \A n : n \in Reserved(t) <=> \E r \in plan : r.from <= t /\ t < r.to /\ n \in r.nodes
      BY DEF Reserved
    <3>4. \A n : n \in Reserved(t)' <=> \/ n \in Reserved(t)
                                        \/ from <= t /\ t < to /\ n \in nodes
      BY <3>2, <3>3, <2>4, <2>5, Zenon
    <3> QED
      BY <3>4
  <2>8. ASSUME NEW i \in 1 .. Len(node_space'), NEW t \in Nat,
               node_space'[i].begin <= t, t < node_space'[i].end
        PROVE  node_space'[i].avail = Nodes \ Reserved(t)'
    <3>1. PICK k \in 1 .. Len(node_space) :
            /\ node_space[k].begin <= t /\ t < node_space[k].end
            /\ node_space'[i].avail = IF from <= t /\ t < to THEN node_space[k].avail \ nodes
                                                            ELSE node_space[k].avail
      BY <2>6, <2>8, Zenon DEF AllBut
    <3>2. node_space[k].avail = Nodes \ Reserved(t)
      BY <3>1, Zenon DEF TableExact
    <3> QED
      BY <3>1, <3>2, <2>7
  <2> QED
    BY <2>8, Zenon DEF TableExact
<1> QED
  BY <1>1, <1>2, TableSteps, Zenon

\* The table that _add_reservation() maintains says what the plan says: every
\* instant of the window lies in exactly one record, which offers exactly the
\* nodes that no reservation of the pass covers then.
THEOREM TableSaysThePlan ==
  ASSUME Resolution <= Minute
  PROVE  Spec => []TableIsPlan
PROOF
<1>1. Init => TableExact
  <2> SUFFICES ASSUME Init, NEW i \in 1 .. Len(node_space)
               PROVE  \A t : node_space[i].avail = Nodes \ Reserved(t)
    BY Zenon DEF TableExact
  <2>1. node_space[i].avail = Nodes
    <3>1. node_space = <<[begin |-> SchedStart, end |-> window_end, avail |-> Nodes]>>
      BY Zenon DEF Init
    <3>2. Len(node_space) = 1
      BY <3>1
    <3>3. i = 1
      BY <3>2
    <3> QED
      BY <3>1, <3>3
  <2>2. \A t : Reserved(t) = {}
    BY DEF Init, Reserved
  <2> QED
    BY <2>1, <2>2
<1>2. BackfillInv /\ TableExact /\ [Next]_vars => TableExact'
  BY ExactNext, Zenon
<1>3. BackfillInv /\ TableExact => TableIsPlan
  <2> SUFFICES ASSUME BackfillInv, TableExact, NEW t \in SchedStart .. window_end - 1
               PROVE  LET J == {j \in DOMAIN node_space :
                                  node_space[j].begin <= t /\ t < node_space[j].end}
                      IN  /\ Cardinality(J) = 1
                          /\ \A j \in J : node_space[j].avail = Nodes \ Reserved(t)
    BY Zenon DEF TableIsPlan
  <2> DEFINE J == {j \in DOMAIN node_space :
                     node_space[j].begin <= t /\ t < node_space[j].end}
  <2>1. t \in Nat /\ SchedStart <= t /\ t < window_end
    BY BackfillAssumption DEF window_end
  <2>2. /\ Ordered(node_space) /\ DOMAIN node_space = 1 .. Len(node_space)
        /\ Len(node_space) \in Nat
        /\ \A i \in 1 .. Len(node_space) :
             node_space[i].begin \in Nat /\ node_space[i].end \in Nat
    BY TableRecords DEF BackfillInv
  <2>3. PICK j \in 1 .. Len(node_space) : node_space[j].begin <= t /\ t < node_space[j].end
    BY <2>1, <2>2, Cover
  <2>4. ASSUME NEW i \in J  PROVE i = j
    <3>1. i \in 1 .. Len(node_space) /\ node_space[i].begin <= t /\ t < node_space[i].end
      BY <2>2, <2>4, Zenon
    <3>2. ~(i < j)
      <4>1. i < j => node_space[i].end <= node_space[j].begin
        BY <3>1, <2>2, Zenon DEF Ordered
      <4> QED
        BY <4>1, <3>1, <2>1, <2>2, <2>3
    <3>3. ~(j < i)
      <4>1. j < i => node_space[j].end <= node_space[i].begin
        BY <3>1, <2>2, Zenon DEF Ordered
      <4> QED
        BY <4>1, <3>1, <2>1, <2>2, <2>3
    <3> QED
      BY <3>1, <3>2, <3>3, <2>2
  <2>5. J = {j}
    BY <2>2, <2>3, <2>4, Zenon
  <2>6. Cardinality(J) = 1
    BY <2>5, FS_Singleton, Zenon
  <2>7. node_space[j].avail = Nodes \ Reserved(t)
    BY <2>1, <2>3, Zenon DEF TableExact
  <2> QED
    BY <2>5, <2>6, <2>7, Zenon
<1> QED
  BY <1>1, <1>2, <1>3, BackfillInvariant, PTL DEF Spec
=============================================================================
