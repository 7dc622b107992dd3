------------------------- MODULE BackfillRetryProofs -------------------------
(* The retries of the backfill pass move on, for any cluster, queue and      *)
(* table size: the boundaries of the reservation table stay on multiples of  *)
(* the resolution, and every way back to TRY_LATER is for a later instant.   *)
EXTENDS BackfillProofs

-----------------------------------------------------------------------------
(* Where one record ends and the next begins: inside the window and on a     *)
(* multiple of the resolution.                                               *)
Edge(t) == t \in Nat /\ Floor(t) = t /\ t < window_end

EdgesFrom(ns, m) == \A i \in m .. Len(ns) - 1 : Edge(ns[i].end)

\* Rounding down gives the last multiple of the resolution.
LEMMA FloorIsLast ==
  ASSUME NEW t \in Nat
  PROVE  /\ Floor(t) \in Nat /\ Floor(t) <= t /\ Floor(Floor(t)) = Floor(t)
         /\ \A e \in Nat : Floor(e) = e /\ e <= t => e <= Floor(t)
PROOF
<1> DEFINE R == Resolution
<1>0. R \in Nat /\ R > 0 /\ \A x : Floor(x) = (x \div R) * R
  BY BackfillAssumption DEF Floor
<1> HIDE DEF R
<1>1. \A x \in Nat : /\ x \div R \in Nat
                     /\ (x \div R) * R <= x /\ x < (x \div R) * R + R
  BY <1>0, Z3
<1>2. \A a \in Nat : a * R \in Nat /\ (a * R) \div R = a
  BY <1>0, Z3
<1>3. ASSUME NEW e \in Nat, Floor(e) = e, e <= t  PROVE e <= Floor(t)
  <2>1. \A a, b \in Nat : a * R < b * R + R => a * R <= b * R
    BY <1>0, Z3
  <2>2. e = (e \div R) * R /\ e \div R \in Nat /\ t \div R \in Nat
    BY <1>0, <1>1, <1>3
  <2>3. (e \div R) * R < (t \div R) * R + R
    <3>1. t < (t \div R) * R + R
      BY <1>1
    <3>2. (t \div R) * R \in Nat
      BY <1>2, <2>2
    <3> QED
      BY <3>1, <3>2, <2>2, <1>0, <1>3
  <2>4. (e \div R) * R <= (t \div R) * R
    BY <2>1, <2>2, <2>3
  <2> QED
    BY <2>2, <2>4, <1>0
<1>4. Floor(t) \in Nat /\ Floor(t) <= t
  BY <1>0, <1>1, <1>2
<1>5. Floor(Floor(t)) = Floor(t)
  BY <1>0, <1>1, <1>2
<1> QED
  BY <1>3, <1>4, <1>5

\* The records of an ordered table end within the window.
LEMMA EndsInWindow ==
  ASSUME NEW ns, Ordered(ns), NEW i \in 1 .. Len(ns)
  PROVE  ns[i].end <= window_end
PROOF
<1>1. /\ Len(ns) \in Nat /\ Len(ns) \in 1 .. Len(ns) /\ ns[Len(ns)].end = window_end
      /\ \A k \in 1 .. Len(ns) : ns[k].begin \in Nat /\ ns[k].end \in Nat
      /\ ns[Len(ns)].begin <= ns[Len(ns)].end
  <2>1. Len(ns) \in Nat /\ Len(ns) >= 1
    BY TableRecords DEF Ordered
  <2>2. Len(ns) \in 1 .. Len(ns)
    BY <2>1
  <2> QED
    BY <2>2, TableRecords DEF Ordered
<1>2. CASE i = Len(ns)
  BY <1>1, <1>2
<1>3. CASE i # Len(ns)
  <2>1. i < Len(ns)
    BY <1>1, <1>3
  <2>2. ns[i].end <= ns[Len(ns)].begin
    BY <1>1, <2>1 DEF Ordered
  <2> QED
    BY <1>1, <2>2
<1> QED
  BY <1>2, <1>3

\* A cut adds the end at which it cuts to those of the records.
LEMMA SplitEnds ==
  ASSUME NEW ns \in Seq(Record), NEW j \in 1 .. Len(ns), NEW t \in Nat,
         NEW i \in 1 .. Len(ns) + 1
  PROVE  Split(ns, j, t)[i].end = IF i < j THEN ns[i].end
                                  ELSE IF i = j THEN t ELSE ns[i - 1].end
PROOF
<1>1. Len(ns) \in Nat /\ \A k \in 1 .. Len(ns) : ns[k] \in Record
  BY ElementOfSeq
<1>2. \A rec \in Record : /\ [rec EXCEPT !.end = t].end = t
                          /\ [rec EXCEPT !.begin = t].end = rec.end
  BY Zenon DEF Record
<1>3. CASE i < j
  BY <1>1, <1>3 DEF Split
<1>4. CASE i = j
  <2>1. Split(ns, j, t)[i] = [ns[j] EXCEPT !.end = t]
    BY <1>1, <1>4 DEF Split
  <2> QED
    BY <1>1, <1>2, <1>4, <2>1
<1>5. CASE i = j + 1
  <2>1. ~(i < j) /\ i # j /\ i - 1 = j
    BY <1>1, <1>5
  <2>2. Split(ns, j, t)[i] = [ns[j] EXCEPT !.begin = t]
    BY <1>5, <2>1 DEF Split
  <2> QED
    BY <1>1, <1>2, <2>1, <2>2
<1>6. CASE i > j + 1
  <2>1. ~(i < j) /\ i # j /\ i # j + 1
    BY <1>1, <1>6
  <2>2. Split(ns, j, t)[i] = ns[i - 1]
    BY <1>6, <2>1 DEF Split
  <2> QED
    BY <2>1, <2>2
<1> QED
  BY <1>1, <1>3, <1>4, <1>5, <1>6

\* A cut at an edge keeps the edges.
LEMMA SplitEdges ==
  ASSUME NEW ns \in Seq(Record), NEW j \in 1 .. Len(ns), NEW t \in Nat,
         NEW m \in Nat, 1 <= m, m <= j, EdgesFrom(ns, m), Edge(t)
  PROVE  EdgesFrom(Split(ns, j, t), m)
PROOF
<1>1. Len(ns) \in Nat /\ Len(Split(ns, j, t)) = Len(ns) + 1
  BY SplitSize
<1> SUFFICES ASSUME NEW i \in m .. Len(ns)  PROVE Edge(Split(ns, j, t)[i].end)
  BY <1>1 DEF EdgesFrom
<1>2. i \in 1 .. Len(ns) + 1
  BY <1>1
<1>3. Split(ns, j, t)[i].end = IF i < j THEN ns[i].end
                               ELSE IF i = j THEN t ELSE ns[i - 1].end
  BY <1>2, SplitEnds
<1>4. i < j => i \in m .. Len(ns) - 1
  BY <1>1
<1>5. ~(i < j) /\ i # j => i - 1 \in m .. Len(ns) - 1
  BY <1>1
<1> QED
  BY <1>3, <1>4, <1>5 DEF EdgesFrom

\* Taking nodes out moves no end.
LEMMA TakeEnds ==
  ASSUME NEW ns \in Seq(Record), NEW start, NEW end_reserve, NEW nodes, NEW i \in 1 .. Len(ns)
  PROVE  TakeNodes(ns, start, end_reserve, nodes)[i].end = ns[i].end
PROOF
<1>1. DOMAIN ns = 1 .. Len(ns) /\ ns[i] \in Record
  BY LenProperties, ElementOfSeq
<1>2. [ns[i] EXCEPT !.avail = @ \ nodes].end = ns[i].end
  BY <1>1 DEF Record
<1> QED
  BY <1>1, <1>2 DEF TakeNodes

\* A merge drops an end: the first one, when the first two records offer the
\* same nodes.
LEMMA MergeEdges ==
  ASSUME NEW ns \in Seq(Record), Len(ns) >= 1, NEW m \in {1, 2}, EdgesFrom(ns, m),
         m = 2 => Len(ns) >= 2 /\ ns[1].avail = ns[2].avail
  PROVE  EdgesFrom(Merge(ns), 1)
PROOF
<1> DEFINE Same == {j \in 1 .. Len(ns) - 1 : ns[j].avail = ns[j + 1].avail}
           j == Min(Same)
<1>1. Len(ns) \in Nat /\ \A i \in 1 .. Len(ns) : ns[i] \in Record
  BY ElementOfSeq
<1>2. m = 2 => 1 \in Same
  BY <1>1
<1>3. CASE Same = {}
  <2>1. Merge(ns) = ns /\ m = 1
    BY <1>2, <1>3, Zenon DEF Merge
  <2> QED
    BY <2>1
<1>4. CASE Same # {}
  <2>1. j \in Same /\ \A y \in Same : j <= y
    <3>1. Same \in SUBSET Nat
      BY <1>1
    <3> QED
      BY <3>1, <1>4, LeastOf, Zenon
  <2>2. j \in 1 .. Len(ns) - 1 /\ (m = 2 => j <= 1)
    BY <1>2, <2>1
  <2>3. Merge(ns) = [i \in 1 .. Len(ns) - 1 |->
                       CASE i < j -> ns[i]
                         [] i = j -> [ns[j] EXCEPT !.end = ns[j + 1].end]
                         [] i > j -> ns[i + 1]]
    BY <1>4, Zenon DEF Merge
  <2> HIDE DEF j, Same
  <2>4. Len(Merge(ns)) = Len(ns) - 1
    <3>1. Len(ns) - 1 \in Nat /\ DOMAIN Merge(ns) = 1 .. Len(ns) - 1
      BY <1>1, <2>2, <2>3
    <3>2. Merge(ns) \in Seq(Record)
      BY MergeSize
    <3> QED
      BY <3>1, <3>2, LenProperties, SMTT(30)
  <2> SUFFICES ASSUME NEW i \in 1 .. Len(ns) - 2  PROVE Edge(Merge(ns)[i].end)
    BY <1>1, <2>4 DEF EdgesFrom
  <2>5. i \in 1 .. Len(ns) - 1 /\ (i < j \/ i = j \/ i > j)
    BY <1>1, <2>2
  <2>6. CASE i < j
    <3>1. Merge(ns)[i] = ns[i] /\ m = 1
      BY <1>1, <2>2, <2>3, <2>5, <2>6
    <3> QED
      BY <2>5, <3>1 DEF EdgesFrom
  <2>7. i + 1 \in m .. Len(ns) - 1
    BY <1>1
  <2>8. CASE i = j
    <3>1. Merge(ns)[i] = [ns[j] EXCEPT !.end = ns[j + 1].end] /\ ns[j] \in Record
      BY <1>1, <2>2, <2>3, <2>5, <2>8
    <3>2. Merge(ns)[i].end = ns[i + 1].end
      BY <2>8, <3>1, Zenon DEF Record
    <3> QED
      BY <2>7, <3>2 DEF EdgesFrom
  <2>9. CASE i > j
    <3>1. ~(i < j) /\ i # j
      BY <1>1, <2>2, <2>9
    <3>2. Merge(ns)[i] = ns[i + 1]
      BY <2>3, <2>5, <2>9, <3>1
    <3> QED
      BY <2>7, <3>2 DEF EdgesFrom
  <2> QED
    BY <2>5, <2>6, <2>8, <2>9
<1> QED
  BY <1>3, <1>4

\* The cut at a start that is a multiple of the resolution keeps the edges.
LEMMA CutStartEdges ==
  ASSUME NEW ns, Ordered(ns), NEW start \in Nat, Floor(start) = start, EdgesFrom(ns, 1)
  PROVE  EdgesFrom(CutStart(ns, start), 1)
PROOF
<1> DEFINE J == {j \in DOMAIN ns : ns[j].end >= start}
           m == Min(J)
<1>1. /\ ns \in Seq(Record) /\ Len(ns) \in Nat /\ DOMAIN ns = 1 .. Len(ns)
      /\ \A i \in 1 .. Len(ns) : ns[i].end \in Nat
  BY TableRecords DEF Ordered
<1>2. CutStart(ns, start) = IF J # {} /\ ns[m].end > start THEN Split(ns, m, start) ELSE ns
  BY DEF CutStart
<1>3. J # {} => m \in 1 .. Len(ns)
  <2>1. J \in SUBSET Nat
    BY <1>1
  <2> QED
    BY <2>1, <1>1, LeastOf, ZenonT(30)
<1> HIDE DEF J, m
<1>4. CASE J # {} /\ ns[m].end > start
  <2>1. m \in 1 .. Len(ns) /\ ns[m].end <= window_end
    BY <1>3, <1>4, EndsInWindow
  <2>2. window_end \in Nat
    BY BackfillAssumption DEF window_end
  <2>3. Edge(start)
    BY <1>1, <1>4, <2>1, <2>2 DEF Edge
  <2>4. 1 \in Nat /\ 1 <= 1 /\ 1 <= m
    BY <1>1, <2>1
  <2>5. EdgesFrom(Split(ns, m, start), 1)
    BY <1>1, <2>1, <2>3, <2>4, SplitEdges
  <2> QED
    BY <1>2, <1>4, <2>5
<1> QED
  BY <1>2, <1>4

\* So does the cut at the end of the reservation, in a record after the first.
LEMMA CutEndEdges ==
  ASSUME NEW ns, Ordered(ns), NEW start, NEW to \in Nat, Floor(to) = to,
         NEW m \in {1, 2}, EdgesFrom(ns, m)
  PROVE  EdgesFrom(CutEnd(ns, start, to), m)
PROOF
<1> DEFINE J == {j \in DOMAIN ns : ns[j].end >= start}
           K == {k \in DOMAIN ns : k > Min(J) /\ ns[k].end >= to}
           c == Min(K)
<1>1. /\ ns \in Seq(Record) /\ Len(ns) \in Nat /\ DOMAIN ns = 1 .. Len(ns)
      /\ \A i \in 1 .. Len(ns) : ns[i].end \in Nat
  BY TableRecords DEF Ordered
<1>2. CutEnd(ns, start, to) = IF J # {} /\ K # {} /\ ns[c].end > to THEN Split(ns, c, to) ELSE ns
  BY DEF CutEnd
<1>3. J # {} /\ K # {} => c \in 1 .. Len(ns) /\ c >= 2
  <2> SUFFICES ASSUME J # {}, K # {}  PROVE c \in 1 .. Len(ns) /\ c >= 2
    OBVIOUS
  <2>1. J \in SUBSET Nat /\ K \in SUBSET Nat
    BY <1>1
  <2>2. Min(J) \in J /\ c \in K
    BY <2>1, LeastOf, ZenonT(30)
  <2>3. Min(J) \in 1 .. Len(ns) /\ c \in 1 .. Len(ns) /\ c > Min(J)
    BY <1>1, <2>2
  <2> HIDE DEF J, c, K
  <2> QED
    BY <1>1, <2>3
<1> HIDE DEF J, K, c
<1>4. CASE J # {} /\ K # {} /\ ns[c].end > to
  <2>1. c \in 1 .. Len(ns) /\ c >= 2 /\ ns[c].end <= window_end
    BY <1>3, <1>4, EndsInWindow
  <2>2. window_end \in Nat
    BY BackfillAssumption DEF window_end
  <2>3. Edge(to)
    BY <1>1, <1>4, <2>1, <2>2 DEF Edge
  <2>4. m \in Nat /\ 1 <= m /\ m <= c
    BY <1>1, <2>1
  <2>5. EdgesFrom(Split(ns, c, to), m)
    BY <1>1, <2>1, <2>3, <2>4, SplitEdges
  <2> QED
    BY <1>2, <1>4, <2>5
<1> QED
  BY <1>2, <1>4

\* A table that is cut at its very beginning gets an empty first record.
LEMMA CutAtBeginning ==
  ASSUME NEW ns, Ordered(ns), EdgesFrom(ns, 1), Floor(SchedStart) # SchedStart
  PROVE  /\ CutStart(ns, SchedStart) = Split(ns, 1, SchedStart)
         /\ EdgesFrom(CutStart(ns, SchedStart), 2)
PROOF
<1> DEFINE S == SchedStart
           J == {j \in DOMAIN ns : ns[j].end >= S}
<1>1. /\ ns \in Seq(Record) /\ Len(ns) \in Nat /\ Len(ns) >= 1 /\ 1 \in 1 .. Len(ns)
      /\ DOMAIN ns = 1 .. Len(ns) /\ ns[1].begin = S /\ ns[1].begin <= ns[1].end
      /\ \A i \in 1 .. Len(ns) : ns[i].end \in Nat
  <2>1. Len(ns) \in Nat /\ Len(ns) >= 1
    BY TableRecords DEF Ordered
  <2>2. 1 \in 1 .. Len(ns)
    BY <2>1
  <2> QED
    BY <2>1, <2>2, TableRecords DEF Ordered
<1>2. S \in Nat /\ window_end \in Nat /\ S < window_end
  BY BackfillAssumption DEF window_end
<1>3. ns[1].end > S
  <2>1. CASE Len(ns) = 1
    BY <1>2, <2>1 DEF Ordered
  <2>2. CASE Len(ns) # 1
    <3>1. 1 \in 1 .. Len(ns) - 1
      BY <1>1, <2>2
    <3>2. Floor(ns[1].end) = ns[1].end
      BY <3>1 DEF EdgesFrom, Edge
    <3>3. ns[1].end # S
      BY <3>2
    <3> QED
      BY <1>1, <1>2, <3>3
  <2> QED
    BY <2>1, <2>2
<1>4. 1 \in J /\ Min(J) = 1
  <2>1. 1 \in J
    BY <1>1, <1>2, <1>3
  <2>2. J \in SUBSET Nat
    BY <1>1
  <2>3. Min(J) \in J /\ Min(J) <= 1
    BY <2>1, <2>2, LeastOf, ZenonT(30)
  <2>4. Min(J) \in 1 .. Len(ns)
    BY <1>1, <2>3
  <2> QED
    BY <1>1, <2>1, <2>3, <2>4
<1>5. CutStart(ns, S) = Split(ns, 1, S)
  BY <1>3, <1>4 DEF CutStart
<1>6. Len(Split(ns, 1, S)) = Len(ns) + 1
  BY <1>1, <1>2, SplitSize
<1>7. ASSUME NEW i \in 2 .. Len(ns)  PROVE Edge(Split(ns, 1, S)[i].end)
  <2>1. i \in 1 .. Len(ns) + 1 /\ ~(i < 1) /\ i # 1 /\ i - 1 \in 1 .. Len(ns) - 1
    BY <1>1
  <2>2. Split(ns, 1, S)[i].end = ns[i - 1].end
    BY <1>1, <1>2, <2>1, SplitEnds
  <2> QED
    BY <2>1, <2>2 DEF EdgesFrom
<1> HIDE DEF J
<1>8. EdgesFrom(Split(ns, 1, S), 2)
  BY <1>1, <1>6, <1>7 DEF EdgesFrom
<1> QED
  BY <1>5, <1>8

\* The two halves of a record cut at its beginning: the first is empty.
LEMMA SplitHalves ==
  ASSUME NEW ns \in Seq(Record), NEW j \in 1 .. Len(ns), NEW t \in Nat
  PROVE  /\ \A i \in 1 .. Len(ns) : i < j => Split(ns, j, t)[i] = ns[i]
         /\ Split(ns, j, t)[j] = [ns[j] EXCEPT !.end = t]
         /\ Split(ns, j, t)[j + 1] = [ns[j] EXCEPT !.begin = t]
PROOF
<1>1. Len(ns) \in Nat
  OBVIOUS
<1>2. ASSUME NEW i \in 1 .. Len(ns), i < j  PROVE Split(ns, j, t)[i] = ns[i]
  BY <1>1, <1>2 DEF Split
<1>3. j \in 1 .. Len(ns) + 1 /\ ~(j < j)
  BY <1>1
<1>4. Split(ns, j, t)[j] = [ns[j] EXCEPT !.end = t]
  BY <1>3 DEF Split
<1>5. j + 1 \in 1 .. Len(ns) + 1 /\ ~(j + 1 < j) /\ j + 1 # j
  BY <1>1
<1>6. Split(ns, j, t)[j + 1] = [ns[j] EXCEPT !.begin = t]
  BY <1>5 DEF Split
<1> QED
  BY <1>2, <1>4, <1>6

\* After the cut at the beginning of the table and the one at the end of the
\* reservation, the first two records offer the same nodes and lie inside it.
LEMMA FirstTwoAlike ==
  ASSUME NEW ns, Ordered(ns), NEW to \in Nat, SchedStart < to,
         NEW c1, c1 = Split(ns, 1, SchedStart), Ordered(c1),
         NEW c2, c2 = CutEnd(c1, SchedStart, to)
  PROVE  /\ c2 \in Seq(Record) /\ Len(c2) >= 2 /\ Len(c2) \in Nat
         /\ c2[1].begin = SchedStart /\ c2[1].end = SchedStart
         /\ c2[2].begin = SchedStart /\ c2[2].end <= to
         /\ c2[1].avail = c2[2].avail
PROOF
<1> DEFINE S == SchedStart
           J == {j \in DOMAIN c1 : c1[j].end >= S}
           K == {k \in DOMAIN c1 : k > Min(J) /\ c1[k].end >= to}
           c == Min(K)
<1>1. /\ ns \in Seq(Record) /\ Len(ns) \in Nat /\ Len(ns) >= 1 /\ ns[1] \in Record
      /\ ns[1].begin = S /\ S \in Nat /\ 1 \in 1 .. Len(ns)
  <2>1. ns \in Seq(Record) /\ Len(ns) \in Nat /\ Len(ns) >= 1
    BY TableRecords DEF Ordered
  <2>2. 1 \in 1 .. Len(ns)
    BY <2>1
  <2> QED
    BY <2>1, <2>2, TableRecords, BackfillAssumption DEF Ordered
<1>2. c1 \in Seq(Record) /\ Len(c1) = Len(ns) + 1 /\ Len(c1) \in Nat
  BY <1>1, SplitSize
<1>3. c1[1] = [ns[1] EXCEPT !.end = S] /\ c1[2] = [ns[1] EXCEPT !.begin = S]
  <2>1. c1[1] = [ns[1] EXCEPT !.end = S] /\ c1[1 + 1] = [ns[1] EXCEPT !.begin = S]
    BY <1>1, SplitHalves
  <2> QED
    BY <2>1
<1>4. /\ c1[1].begin = S /\ c1[1].end = S /\ c1[2].begin = S
      /\ c1[1].avail = c1[2].avail /\ c1[2].end = ns[1].end /\ c1[2].end \in Nat
  BY <1>1, <1>3, Zenon DEF Record
<1>5. DOMAIN c1 = 1 .. Len(c1) /\ \A i \in 1 .. Len(c1) : c1[i].end \in Nat
  BY TableRecords
<1>6. J # {} /\ Min(J) = 1
  <2>1. 1 \in J
    BY <1>1, <1>2, <1>4, <1>5
  <2>2. J \in SUBSET Nat
    BY <1>2, <1>5
  <2>3. Min(J) \in J /\ Min(J) <= 1
    BY <2>1, <2>2, LeastOf, ZenonT(30)
  <2>4. Min(J) \in 1 .. Len(c1)
    BY <1>5, <2>3
  <2> QED
    BY <1>2, <2>1, <2>3, <2>4, SMTT(30)
<1>7. K = {k \in 1 .. Len(c1) : k > 1 /\ c1[k].end >= to}
  BY <1>5, <1>6, Zenon
<1>8. c2 = IF K # {} /\ c1[c].end > to THEN Split(c1, c, to) ELSE c1
  BY <1>6 DEF CutEnd
<1>9. 2 \in 1 .. Len(c1) /\ 1 \in 1 .. Len(c1)
  BY <1>1, <1>2
<1>10. K # {} => c \in 1 .. Len(c1) /\ c > 1 /\ \A y \in K : c <= y
  <2>1. K \in SUBSET Nat
    BY <1>2, <1>7
  <2>2. K # {} => c \in K /\ \A y \in K : c <= y
    BY <2>1, LeastOf, ZenonT(30)
  <2> HIDE DEF c
  <2> QED
    BY <2>2, <1>7
<1>11. c1[2].end > to => 2 \in K
  BY <1>4, <1>7, <1>9
<1> HIDE DEF J, K, c
<1>12. CASE K # {} /\ c1[c].end > to
  <2>1. c2 = Split(c1, c, to) /\ c \in 1 .. Len(c1) /\ c > 1
    BY <1>8, <1>10, <1>12
  <2>2. c2 \in Seq(Record) /\ Len(c2) = Len(c1) + 1
    BY <1>2, <2>1, SplitSize
  <2>h1. /\ \A i \in 1 .. Len(c1) : i < c => Split(c1, c, to)[i] = c1[i]
        /\ Split(c1, c, to)[c] = [c1[c] EXCEPT !.end = to]
    <3>1. c1 \in Seq(Record) /\ c \in 1 .. Len(c1)
      BY <1>2, <2>1
    <3>2. /\ \A i \in 1 .. Len(c1) : i < c => Split(c1, c, to)[i] = c1[i]
          /\ Split(c1, c, to)[c] = [c1[c] EXCEPT !.end = to]
          /\ Split(c1, c, to)[c + 1] = [c1[c] EXCEPT !.begin = to]
      BY <3>1, SplitHalves, SMTT(30)
    <3> QED
      BY <3>2, Zenon
  <2>3. c2[1] = c1[1]
    <3>1. 1 < c
      BY <1>2, <2>1
    <3> QED
      BY <1>9, <2>1, <2>h1, <3>1, Zenon
  <2>4. CASE c = 2
    <3>1. c2[2] = [c1[2] EXCEPT !.end = to]
      BY <2>1, <2>4, <2>h1, Zenon
    <3>2. c1[2] \in Record
      BY <1>2, <1>9, ElementOfSeq
    <3>3. c2[2].begin = c1[2].begin /\ c2[2].end = to /\ c2[2].avail = c1[2].avail
      BY <3>1, <3>2 DEF Record
    <3> QED
      BY <1>1, <1>2, <1>4, <2>2, <2>3, <3>3
  <2>5. CASE c # 2
    <3>1. 2 < c
      BY <1>2, <2>1, <2>5
    <3>2. c2[2] = c1[2]
      BY <1>9, <2>1, <2>h1, <3>1, Zenon
    <3>3. ~(c1[2].end > to)
      BY <1>2, <1>10, <1>11, <1>12, <3>1
    <3> QED
      BY <1>1, <1>2, <1>4, <2>2, <2>3, <3>2, <3>3
  <2> QED
    BY <2>4, <2>5
<1>13. CASE ~(K # {} /\ c1[c].end > to)
  <2>1. c2 = c1
    BY <1>8, <1>13
  <2>2. ~(c1[2].end > to)
    <3> SUFFICES ASSUME c1[2].end > to  PROVE FALSE
      OBVIOUS
    <3>1. 2 \in K
      BY <1>11
    <3>2. c = 2
      BY <1>2, <1>10, <3>1
    <3> QED
      BY <1>13, <3>1, <3>2
  <2> QED
    BY <1>1, <1>2, <1>4, <2>1, <2>2
<1> QED
  BY <1>12, <1>13, Zenon

\* _add_reservation() keeps every boundary of the table on the resolution: an
\* unaligned beginning of the table is cut off as an empty record, which the
\* merge that follows takes away again.
LEMMA ReservationEdges ==
  ASSUME Ordered(node_space), EdgesFrom(node_space, 1), NEW start \in Nat, SchedStart <= start,
         NEW to \in Nat, start < to, Floor(to) = to, NEW nodes,
         AddReservation(Floor(start), to, nodes)
  PROVE  EdgesFrom(node_space', 1)
PROOF
<1> DEFINE s == Max({Floor(start), node_space[1].begin})
           c1 == CutStart(node_space, s)
           c2 == CutEnd(c1, s, to)
           tk == TakeNodes(c2, s, to, nodes)
<1>1. node_space' = Merge(tk)
  BY DEF AddReservation
<1>2. SchedStart \in Nat /\ node_space[1].begin = SchedStart
  BY BackfillAssumption DEF Ordered
<1>3. /\ Floor(start) \in Nat /\ Floor(start) <= start
      /\ Floor(Floor(start)) = Floor(start)
  BY FloorIsLast
<1>4. s = IF Floor(start) >= SchedStart THEN Floor(start) ELSE SchedStart
  BY <1>2, <1>3, GreatestOfTwo
<1>5. s \in Nat /\ SchedStart <= s /\ s < to
  BY <1>2, <1>3, <1>4
<1>6. Floor(s) = s \/ s = SchedStart
  BY <1>3, <1>4
<1> HIDE DEF s
<1>7. Ordered(c1) /\ CutAt(c1, s)
  BY <1>5, CutStartKeeps
<1> HIDE DEF c1
<1>8. Ordered(c2)
  BY <1>5, <1>7, CutEndKeeps
<1> HIDE DEF c2
<1>9. c2 \in Seq(Record) /\ Len(c2) \in Nat /\ Len(c2) >= 1
  BY <1>8, TableRecords DEF Ordered
<1>10. tk \in Seq(Record) /\ Len(tk) = Len(c2)
  BY <1>9, TakeSize
<1>def. c1 = CutStart(node_space, s) /\ c2 = CutEnd(c1, s, to) /\ tk = TakeNodes(c2, s, to, nodes)
  BY Zenon DEF c1, c2, tk
<1> HIDE DEF tk
<1>11. ASSUME NEW m \in {1, 2}, EdgesFrom(c2, m)  PROVE EdgesFrom(tk, m)
  <2> SUFFICES ASSUME NEW i \in m .. Len(tk) - 1  PROVE Edge(tk[i].end)
    BY DEF EdgesFrom
  <2>1. i \in 1 .. Len(c2) /\ i \in m .. Len(c2) - 1
    BY <1>9, <1>10
  <2>2. tk[i].end = c2[i].end
    BY <1>9, <1>def, <2>1, TakeEnds
  <2>3. Edge(c2[i].end)
    BY <1>11, <2>1, Zenon DEF EdgesFrom
  <2> QED
    BY <2>2, <2>3, Zenon
<1>12. CASE Floor(s) = s
  <2>1. EdgesFrom(c1, 1)
    BY <1>5, <1>12, <1>def, CutStartEdges
  <2>2. EdgesFrom(c2, 1)
    BY <1>7, <1>def, <2>1, CutEndEdges
  <2>3. EdgesFrom(tk, 1)
    BY <1>11, <2>2
  <2> QED
    BY <1>1, <1>9, <1>10, <2>3, MergeEdges
<1>13. CASE Floor(s) # s
  <2>0. s = SchedStart
    BY <1>6, <1>13
  <2>1. c1 = Split(node_space, 1, SchedStart) /\ EdgesFrom(c1, 2)
    BY <1>13, <1>def, <2>0, CutAtBeginning
  <2>2. EdgesFrom(c2, 2)
    BY <1>7, <1>def, <2>1, CutEndEdges
  <2>3. c2 = CutEnd(c1, SchedStart, to) /\ SchedStart < to
    BY <1>5, <1>def, <2>0
  <2>4. /\ Len(c2) >= 2
        /\ c2[1].begin = SchedStart /\ c2[1].end = SchedStart
        /\ c2[2].begin = SchedStart /\ c2[2].end <= to
        /\ c2[1].avail = c2[2].avail
    BY <1>7, <2>1, <2>3, FirstTwoAlike
  <2>5. 1 \in 1 .. Len(c2) /\ 2 \in 1 .. Len(c2) /\ DOMAIN c2 = 1 .. Len(c2)
    BY <1>9, <2>4
  <2>6. c2[1] \in Record /\ c2[2] \in Record
    BY <1>9, <2>5, ElementOfSeq
  <2>7. tk[1] = [c2[1] EXCEPT !.avail = @ \ nodes]
    <3>1. \A m \in 1 .. 1 - 1 : c2[m].begin < to
      OBVIOUS
    <3>2. c2[1].begin >= s /\ c2[1].end <= to
      BY <1>2, <1>5, <2>0, <2>4
    <3> QED
      BY <1>def, <2>5, <3>1, <3>2 DEF TakeNodes
  <2>8. tk[2] = [c2[2] EXCEPT !.avail = @ \ nodes]
    <3>1. \A m \in 1 .. 2 - 1 : c2[m].begin < to
      <4>1. \A m \in 1 .. 2 - 1 : m = 1
        OBVIOUS
      <4> QED
        BY <2>3, <2>4, <4>1
    <3>2. c2[2].begin >= s /\ c2[2].end <= to
      BY <1>2, <1>5, <2>0, <2>4
    <3> QED
      BY <1>def, <2>5, <3>1, <3>2 DEF TakeNodes
  <2>9. tk[1].avail = tk[2].avail
    BY <2>4, <2>6, <2>7, <2>8 DEF Record
  <2>10. EdgesFrom(tk, 2)
    BY <1>11, <2>2
  <2> QED
    BY <1>1, <1>9, <1>10, <2>4, <2>9, <2>10, MergeEdges
<1> QED
  BY <1>12, <1>13, Zenon

-----------------------------------------------------------------------------
(* Every goto TRY_LATER tries a later instant than the attempt it leaves,    *)
(* and one inside the window.  It speaks of the attempt, not of the step: a  *)
(* retry of the same instant would change nothing, for ever.                 *)
RetriesMoveOn ==
  pc = "try" =>
    /\ Picks = {} /\ LaterStart # 0
         => later_start < LaterStart /\ LaterStart < window_end
    /\ \A nodes \in Picks :
         LET start == StartTime(nodes)
             later == Later(nodes)
         IN  start > now =>
               /\ Verdict(nodes, start, later) = "later"
                    => later_start < later /\ later < window_end
               /\ Verdict(nodes, start, later) = "overlap"
                    => later_start < start /\ start < window_end

(* The table has its boundaries on the resolution, and an attempt begins     *)
(* inside the window.                                                        *)
GridInv ==
  /\ EdgesFrom(node_space, 1)
  /\ pc = "try" => later_start < window_end

\* later_start, when the walk over the table sets it, is a later instant, and
\* one inside the window: the last record sets none.
LEMMA LaterStartMoves ==
  ASSUME BackfillInv, GridInv
  PROVE  LaterStart # 0 => LaterStart > start_res /\ LaterStart < window_end
PROOF
<1> SUFFICES ASSUME LaterStart # 0
             PROVE  LaterStart > start_res /\ LaterStart < window_end
  OBVIOUS
<1> DEFINE J == {j \in DOMAIN node_space : node_space[j].end > start_res}
           m == Min(J)
<1>1. Len(node_space) \in Nat /\ DOMAIN node_space = 1 .. Len(node_space)
  BY TableRecords DEF BackfillInv
<1>2. LaterStart = node_space[m].end /\ J # {} /\ m < Len(node_space)
  BY DEF LaterStart
<1>3. m \in J
  <2>1. J \in SUBSET Nat
    BY <1>1
  <2> QED
    BY <2>1, <1>2, LeastOf, ZenonT(30)
<1>4. m \in 1 .. Len(node_space) /\ node_space[m].end > start_res
  BY <1>1, <1>3
<1> HIDE DEF m, J
<1>5. m \in 1 .. Len(node_space) - 1
  BY <1>1, <1>2, <1>4
<1>6. node_space[m].end < window_end
  BY <1>5 DEF GridInv, EdgesFrom, Edge
<1> QED
  BY <1>2, <1>4, <1>6

\* A record that begins after start_res has one before it that sets
\* later_start.
LEMMA LaterStartSet ==
  ASSUME BackfillInv, GridInv, pc = "try",
         NEW p \in 1 .. Len(node_space), node_space[p].begin > start_res
  PROVE  LaterStart # 0
PROOF
<1> DEFINE J == {j \in DOMAIN node_space : node_space[j].end > start_res}
           m == Min(J)
<1>1. /\ Len(node_space) \in Nat /\ DOMAIN node_space = 1 .. Len(node_space)
      /\ \A i \in 1 .. Len(node_space) : node_space[i].end \in Nat /\ node_space[i].begin \in Nat
  BY TableRecords DEF BackfillInv
<1>2. SchedStart \in Nat /\ start_res \in Nat /\ start_res >= SchedStart
  BY BackfillAssumption DEF BackfillInv, Shape, start_res, now
<1>3. p # 1
  BY <1>1, <1>2 DEF BackfillInv, Ordered
<1>4. p - 1 \in 1 .. Len(node_space) - 1 /\ p - 1 \in 1 .. Len(node_space) /\ p - 1 + 1 = p
  BY <1>1, <1>3
<1>5. node_space[p - 1].end = node_space[p].begin
  BY <1>4 DEF BackfillInv, Ordered
<1>6. p - 1 \in J
  BY <1>1, <1>4, <1>5
<1>7. m \in J /\ m <= p - 1
  <2>1. J \in SUBSET Nat
    BY <1>1
  <2> QED
    BY <2>1, <1>6, LeastOf, ZenonT(30)
<1>8. m \in 1 .. Len(node_space) /\ node_space[m].end > start_res
  BY <1>1, <1>7
<1>9. LaterStart = IF J # {} /\ m < Len(node_space) THEN node_space[m].end ELSE 0
  BY DEF LaterStart
<1>10. J # {}
  BY <1>6
<1> HIDE DEF m, J
<1>11. m < Len(node_space)
  BY <1>1, <1>4, <1>7, <1>8
<1> QED
  BY <1>1, <1>2, <1>8, <1>9, <1>10, <1>11

\* A start that _test_resv_overlap() refuses, though its nodes are unreserved
\* from start_res to the end of a job started then, is after start_res: the
\* reservation it meets begins after such a job would be over.
LEMMA OverlapIsLater ==
  ASSUME BackfillInv, GridInv, Resolution <= Minute, pc = "try",
         NEW nodes \in SUBSET Usable, NEW start \in Nat, start >= start_res,
         Overlaps(nodes, Floor(start), EndReserve(start))
  PROVE  later_start < start /\ LaterStart # 0
PROOF
<1> DEFINE TL == TimeLimit * Minute
<1>1. /\ Ordered(node_space) /\ Len(node_space) \in Nat
      /\ DOMAIN node_space = 1 .. Len(node_space)
      /\ \A i \in 1 .. Len(node_space) : node_space[i].end \in Nat /\ node_space[i].begin \in Nat
  BY TableRecords DEF BackfillInv
<1>2. start_res \in Nat /\ start_res < window_end /\ start_res = later_start
  BY DEF BackfillInv, Shape, start_res, GridInv
<1>3. TL \in Nat
  BY JobInHand DEF BackfillInv
<1>4. PICK j \in 1 .. Len(node_space) :
        /\ node_space[j].end > Floor(start) /\ node_space[j].begin < EndReserve(start)
        /\ ~(nodes \subseteq node_space[j].avail)
  BY <1>1 DEF Overlaps
<1>5. Floor(start) \in Nat /\ \A e \in Nat : Floor(e) = e /\ e <= start => e <= Floor(start)
  BY FloorIsLast
<1>6. EndReserve(start) \in Nat /\ EndReserve(start) <= start + TL
  <2>1. start + TL \in Nat
    BY <1>3
  <2> HIDE DEF TL
  <2>2. Floor(start + TL) \in Nat /\ Floor(start + TL) <= start + TL
    BY <2>1, FloorIsLast
  <2> QED
    BY <2>2 DEF EndReserve, TL
<1>7. node_space[j].end > start_res
  <2>1. CASE j = Len(node_space)
    BY <1>1, <1>2, <2>1 DEF Ordered
  <2>2. CASE j # Len(node_space)
    <3>0. Len(node_space) \in Nat /\ j \in 1 .. Len(node_space)
      BY <1>1, Zenon
    <3>1. j \in 1 .. Len(node_space) - 1
      BY <2>2, <3>0
    <3>2. Floor(node_space[j].end) = node_space[j].end
      BY <3>1 DEF GridInv, EdgesFrom, Edge
    <3>3. ~(node_space[j].end <= start)
      BY <1>1, <1>4, <1>5, <3>2
    <3> QED
      BY <1>1, <1>2, <3>3
  <2> QED
    BY <2>1, <2>2
<1>8. PICK n \in nodes : n \notin node_space[j].avail
  BY <1>4
<1>9. PICK p \in 1 .. Len(node_space) : node_space[p].begin > start_res + TL /\ ~(j < p)
  BY <1>1, <1>7, <1>8 DEF Usable
<1> HIDE DEF TL
<1>10. node_space[p].begin <= node_space[j].begin
  <2>1. CASE p = j
    BY <1>1, <2>1
  <2>2. CASE p # j
    <3>1. p < j
      BY <1>1, <1>9, <2>2
    <3>2. node_space[p].begin <= node_space[p].end /\ node_space[p].end <= node_space[j].begin
      BY <1>1, <3>1 DEF Ordered
    <3> QED
      BY <1>1, <3>2
  <2> QED
    BY <2>1, <2>2
<1>11. node_space[p].begin > start_res
  BY <1>1, <1>2, <1>3, <1>9
<1>12. LaterStart # 0
  BY <1>11, LaterStartSet
<1>13. start_res + TL < start + TL
  BY <1>1, <1>2, <1>3, <1>4, <1>6, <1>9, <1>10
<1> QED
  BY <1>2, <1>3, <1>12, <1>13

\* Each of the three ways back to TRY_LATER moves on.
LEMMA RetriesMove ==
  ASSUME BackfillInv, GridInv, Resolution <= Minute, Window > 1
  PROVE  RetriesMoveOn
PROOF
<1> SUFFICES ASSUME pc = "try"
             PROVE  /\ Picks = {} /\ LaterStart # 0
                         => later_start < LaterStart /\ LaterStart < window_end
                    /\ \A nodes \in Picks :
                         StartTime(nodes) > now =>
                           /\ Verdict(nodes, StartTime(nodes), Later(nodes)) = "later"
                                => later_start < Later(nodes) /\ Later(nodes) < window_end
                           /\ Verdict(nodes, StartTime(nodes), Later(nodes)) = "overlap"
                                => later_start < StartTime(nodes)
                                   /\ StartTime(nodes) < window_end
  BY Zenon DEF RetriesMoveOn
<1>1. /\ now \in Nat /\ window_end \in Nat /\ now + 1 < window_end /\ start_res = later_start
      /\ start_res \in Nat
  BY BackfillAssumption DEF now, window_end, start_res, BackfillInv, Shape
<1>2. LaterStart \in Nat /\ (LaterStart # 0 => later_start < LaterStart /\ LaterStart < window_end)
  BY <1>1, LaterStartMoves, LaterStartIsLater
<1>3. ASSUME NEW nodes \in Picks, StartTime(nodes) > now,
             Verdict(nodes, StartTime(nodes), Later(nodes)) = "later"
      PROVE  later_start < Later(nodes) /\ Later(nodes) < window_end
  <2>1. Later(nodes) # 0
    BY <1>3 DEF Verdict
  <2>2. Later(nodes) = LaterStart
    BY <2>1 DEF Later
  <2> QED
    BY <1>2, <2>1, <2>2
<1>4. ASSUME NEW nodes \in Picks, StartTime(nodes) > now,
             Verdict(nodes, StartTime(nodes), Later(nodes)) = "overlap"
      PROVE  later_start < StartTime(nodes) /\ StartTime(nodes) < window_end
  <2> DEFINE start == StartTime(nodes)
             mx == Max({WillRun, start_res})
  <2>1. start \in Nat /\ nodes \in SUBSET Usable
    BY StartAfterEnds DEF BackfillInv
  <2>2. /\ Overlaps(nodes, Floor(start), EndReserve(start))
        /\ ~(Later(nodes) # 0 /\ start > Later(nodes))
    BY <1>4 DEF Verdict
  <2>3. mx \in Nat /\ mx >= start_res
    <3>1. FirstEnd \in Nat
      <4>1. ~TooFew
        BY DEF Picks
      <4> QED
        BY <4>1, FirstEndIsTime, JobInHand DEF BackfillInv, Shape
    <3>2. WillRun \in Nat
      BY <1>1, <3>1 DEF WillRun
    <3> QED
      BY <1>1, <3>2, GreatestOfTwo
  <2>4. CASE MustWait(nodes)
    <3>1. mx <= now /\ start = now + 1
      BY <2>4 DEF MustWait, StartTime
    <3> HIDE DEF mx, start
    <3>2. later_start < start /\ start < window_end
      BY <1>1, <2>3, <3>1
    <3> QED
      BY <3>2 DEF start
  <2>5. CASE ~MustWait(nodes)
    <3>1. start = mx /\ Later(nodes) = LaterStart
      BY <2>5 DEF StartTime, Later
    <3> HIDE DEF mx, start
    <3>2. start >= start_res
      BY <2>3, <3>1
    <3>3. later_start < start /\ LaterStart # 0
      BY <2>1, <2>2, <3>2, OverlapIsLater
    <3>4. start <= LaterStart
      BY <1>2, <2>1, <2>2, <3>1, <3>3
    <3>5. start < window_end
      BY <1>1, <1>2, <2>1, <3>3, <3>4
    <3> QED
      BY <3>3, <3>5 DEF start
  <2> QED
    BY <2>4, <2>5
<1> QED
  BY <1>2, <1>3, <1>4, Zenon

\* A step that leads to another attempt begins a job or is a retry.
LEMMA AttemptSteps ==
  ASSUME [Next]_vars, pc' = "try"
  PROVE  \/ later_start' = now
         \/ later_start' = later_start /\ pc = "try"
         \/ pc = "try" /\ Picks = {} /\ LaterStart # 0 /\ later_start' = LaterStart
         \/ \E nodes \in Picks :
              /\ StartTime(nodes) > now
              /\ \/ /\ Verdict(nodes, StartTime(nodes), Later(nodes)) = "later"
                    /\ later_start' = Later(nodes)
                 \/ /\ Verdict(nodes, StartTime(nodes), Later(nodes)) = "overlap"
                    /\ later_start' = StartTime(nodes)
PROOF
<1>1. ~Continue /\ ~TableFull /\ ~EndOfQueue
  BY DEF Continue, TableFull, EndOfQueue
<1>2. NextJob => later_start' = now
  BY DEF NextJob
<1>3. NoRoom => pc = "try" /\ Picks = {} /\ LaterStart # 0 /\ later_start' = LaterStart
  BY <1>1, Zenon DEF NoRoom, TryAgain
<1>4. ASSUME NEW nodes, NEW start  PROVE ~Reserve(nodes, start)
  BY <1>1 DEF Reserve
<1>5. ASSUME NEW nodes  PROVE ~StartRefused(nodes) /\ ~StartFails(nodes)
  BY <1>1, <1>4, Zenon DEF StartRefused, StartFails
<1>6. ASSUME NEW picked, NEW nodes  PROVE ~StartJob(picked, nodes)
  BY DEF StartJob
<1>7. ASSUME NEW nodes, PlanAhead(nodes)
      PROVE  /\ StartTime(nodes) > now
             /\ \/ /\ Verdict(nodes, StartTime(nodes), Later(nodes)) = "later"
                   /\ later_start' = Later(nodes)
                \/ /\ Verdict(nodes, StartTime(nodes), Later(nodes)) = "overlap"
                   /\ later_start' = StartTime(nodes)
  BY <1>1, <1>4, <1>7, Zenon DEF PlanAhead, TryAgain
<1>8. UNCHANGED vars => later_start' = later_start /\ pc' = pc
  BY Zenon DEF vars
<1>9. Done => later_start' = later_start /\ pc' = pc
  BY <1>8, Zenon DEF Done
<1>10. \/ NextJob \/ NoRoom \/ Done \/ UNCHANGED vars
       \/ \E nodes \in Picks : PlanAhead(nodes)
  BY <1>1, <1>5, <1>6, Zenon DEF Next, Step
<1>11. CASE NextJob
  BY <1>2, <1>11
<1>12. CASE NoRoom
  BY <1>3, <1>12
<1>13. CASE Done \/ UNCHANGED vars
  BY <1>8, <1>9, <1>13
<1>14. ASSUME NEW nodes \in Picks, PlanAhead(nodes)
       PROVE  /\ StartTime(nodes) > now
              /\ \/ /\ Verdict(nodes, StartTime(nodes), Later(nodes)) = "later"
                    /\ later_start' = Later(nodes)
                 \/ /\ Verdict(nodes, StartTime(nodes), Later(nodes)) = "overlap"
                    /\ later_start' = StartTime(nodes)
  BY <1>7, <1>14, Zenon
<1> QED
  BY <1>10, <1>11, <1>12, <1>13, <1>14

\* Every step of the pass keeps the boundaries on the resolution and the
\* attempts inside the window.
LEMMA GridNext ==
  ASSUME BackfillInv, GridInv, Resolution <= Minute, Window > 1, [Next]_vars
  PROVE  GridInv'
PROOF
<1>1. EdgesFrom(node_space, 1)'
  <2>1. CASE UNCHANGED <<node_space, plan>>
    BY <2>1 DEF GridInv, EdgesFrom, Edge, Floor, window_end
  <2>2. ASSUME pc = "try", NEW nodes, NEW start \in Nat, start >= now,
               NewReservation(nodes, start)
        PROVE  EdgesFrom(node_space, 1)'
    <3> DEFINE to == EndReserve(start)
    <3>1. TimeLimit * Minute \in Nat /\ TimeLimit * Minute >= Resolution
      BY <2>2, JobInHand DEF BackfillInv
    <3>2. to \in Nat /\ start < to
      BY <3>1, FloorBounds DEF EndReserve
    <3>3. Floor(to) = to
      <4> DEFINE e == start + TimeLimit * Minute
      <4>1. e \in Nat
        BY <3>1
      <4> HIDE DEF e
      <4>2. Floor(Floor(e)) = Floor(e)
        BY <4>1, FloorIsLast
      <4> QED
        BY <4>2 DEF EndReserve, e
    <3>4. SchedStart <= start
      BY <2>2, Zenon DEF now
    <3>5. AddReservation(Floor(start), to, nodes)
      BY <2>2, Zenon DEF NewReservation
    <3>6. Ordered(node_space) /\ EdgesFrom(node_space, 1)
      BY DEF BackfillInv, GridInv
    <3> HIDE DEF to
    <3>7. EdgesFrom(node_space', 1)
      BY <3>2, <3>3, <3>4, <3>5, <3>6, ReservationEdges
    <3> QED
      BY <3>7 DEF EdgesFrom, Edge, Floor, window_end
  <2> QED
    BY <2>1, <2>2, TableSteps, Zenon
<1>2. ASSUME pc' = "try"  PROVE later_start' < window_end
  <2>1. now < window_end
    BY BackfillAssumption DEF now, window_end
  <2>2. RetriesMoveOn
    BY RetriesMove
  <2>3. ASSUME NEW nodes \in Picks  PROVE pc = "try"
    BY DEF Picks
  <2> QED
    BY <1>2, <2>1, <2>2, <2>3, AttemptSteps, Zenon DEF RetriesMoveOn, GridInv
<1>3. window_end' = window_end
  BY DEF window_end
<1> QED
  BY <1>1, <1>2, <1>3, Zenon DEF GridInv

\* The loop through TRY_LATER of _attempt_backfill() moves on: whatever the
\* queue, the running jobs and the reservations made so far, a retry is for a
\* later instant than the attempt before it, and for one inside the window, so
\* a job is tried at most once for every instant of the window.  The window is
\* read in minutes, so it is longer than a second.
THEOREM RetriesAdvance ==
  ASSUME Resolution <= Minute, Window > 1
  PROVE  Spec => []RetriesMoveOn
PROOF
<1>1. Init => GridInv
  <2> SUFFICES ASSUME Init  PROVE GridInv
    OBVIOUS
  <2>1. Len(node_space) = 1 /\ pc = "pop"
    BY DEF Init
  <2>2. EdgesFrom(node_space, 1)
    BY <2>1 DEF EdgesFrom
  <2> QED
    BY <2>1, <2>2 DEF GridInv
<1>2. BackfillInv /\ GridInv /\ [Next]_vars => GridInv'
  BY GridNext
<1>3. BackfillInv /\ GridInv => RetriesMoveOn
  BY RetriesMove
<1> QED
  BY <1>1, <1>2, <1>3, BackfillInvariant, PTL DEF Spec
=============================================================================
