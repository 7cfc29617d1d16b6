------------------------- MODULE TCPReassemblerProofs -------------------------
(***************************************************************************)
(* TCPReassembler for every stream, every order, overlap and repetition of  *)
(* its segments, every limit and every initial sequence number.             *)
(***************************************************************************)
EXTENDS TCPReassembler, FiniteSetTheorems, FunctionTheorems, SequenceTheorems,
        WellFoundedInduction, TLAPS

-----------------------------------------------------------------------------
(* Sequence numbers                                                          *)

\* The remainder of a number at most one Modulus away from the range.
LEMMA RemainderInRange ==
  ASSUME NEW x \in 0..(Modulus - 1)
  PROVE  x % Modulus = x
  <1> Modulus \in Nat /\ Modulus > 0
    BY ReassemblerAssumption
  <1> QED
    BY Z3T(30)

LEMMA RemainderAbove ==
  ASSUME NEW x \in Modulus..(2 * Modulus - 1)
  PROVE  x % Modulus = x - Modulus
  <1> Modulus \in Nat /\ Modulus > 0
    BY ReassemblerAssumption
  <1> QED
    BY Z3T(30)

LEMMA RemainderBelow ==
  ASSUME NEW x \in (-Modulus)..(-1)
  PROVE  x % Modulus = x + Modulus
  <1> Modulus \in Nat /\ Modulus > 0
    BY ReassemblerAssumption
  <1> QED
    BY Z3T(30)

LEMMA RemainderType ==
  ASSUME NEW x \in Int
  PROVE  x % Modulus \in SeqNo
  <1> Modulus \in Nat /\ Modulus > 0
    BY ReassemblerAssumption
  <1> QED
    BY Z3T(30) DEF SeqNo

\* The constants' types, as the proofs below use them.
LEMMA Constants ==
  /\ Modulus \in Nat /\ Modulus > 2 * StreamLen /\ Modulus > StreamLen + 1
  /\ StreamLen \in Nat /\ StreamLen >= 1
  /\ ISN \in 0..(Modulus - 1)
  /\ MaxBytes \in Nat /\ MaxBytes >= 2
  /\ HelloLen \in 1..StreamLen
  BY ReassemblerAssumption

\* The sequence number of byte a.
LEMMA NumberOfByte ==
  ASSUME NEW a \in 0..(StreamLen + 1)
  PROVE  /\ (ISN + a) % Modulus \in 0..(Modulus - 1)
         /\ \/ (ISN + a) % Modulus = ISN + a
            \/ ISN + a >= Modulus /\ (ISN + a) % Modulus = (ISN + a) - Modulus
  <1>1. CASE ISN + a < Modulus
    <2>1. ISN + a \in 0..(Modulus - 1)
      BY <1>1, Constants
    <2>2. (ISN + a) % Modulus = ISN + a
      BY <2>1, RemainderInRange, Zenon
    <2> QED
      BY <2>1, <2>2, Zenon
  <1>2. CASE ISN + a >= Modulus
    <2>1. ISN + a \in Modulus..(2 * Modulus - 1)
      BY <1>2, Constants
    <2>2. (ISN + a) % Modulus = (ISN + a) - Modulus
      BY <2>1, RemainderAbove, Zenon
    <2>3. (ISN + a) - Modulus \in 0..(Modulus - 1)
      BY <2>1, Constants
    <2> QED
      BY <1>2, <2>2, <2>3, Zenon
  <1> QED
    BY <1>1, <1>2, Constants

\* seqDiff is the distance of two bytes of the stream, wherever the sequence
\* numbers wrap around.
LEMMA SeqDiffExact ==
  ASSUME NEW a \in 1..(StreamLen + 1), NEW b \in 1..(StreamLen + 1)
  PROVE  SeqDiff((ISN + a) % Modulus, (ISN + b) % Modulus) = a - b
  <1> DEFINE x == (ISN + a) % Modulus
             y == (ISN + b) % Modulus
             d == (x - y) % Modulus
  <1>1. /\ x \in 0..(Modulus - 1)
        /\ x = ISN + a \/ x = (ISN + a) - Modulus
    <2>1. a \in 0..(StreamLen + 1)
      BY Constants
    <2> QED
      BY <2>1, NumberOfByte, Zenon
  <1>2. /\ y \in 0..(Modulus - 1)
        /\ y = ISN + b \/ y = (ISN + b) - Modulus
    <2>1. b \in 0..(StreamLen + 1)
      BY Constants
    <2> QED
      BY <2>1, NumberOfByte, Zenon
  <1>3. SeqDiff(x, y) = IF 2 * d < Modulus THEN d ELSE d - Modulus
    BY DEF SeqDiff
  <1> HIDE DEF x, y
  <1>4. x - y \in {a - b, a - b - Modulus, a - b + Modulus}
    BY <1>1, <1>2, Constants
  <1>5. \/ x - y >= 0 /\ d = x - y
        \/ x - y < 0 /\ d = x - y + Modulus
    <2>1. CASE x - y >= 0
      <3>1. x - y \in 0..(Modulus - 1)
        BY <1>1, <1>2, <2>1, Constants
      <3> QED
        BY <2>1, <3>1, RemainderInRange, Zenon
    <2>2. CASE x - y < 0
      <3>1. x - y \in (-Modulus)..(-1)
        BY <1>1, <1>2, <2>2, Constants
      <3> QED
        BY <2>2, <3>1, RemainderBelow, Zenon
    <2> QED
      BY <1>1, <1>2, <2>1, <2>2
  <1> HIDE DEF d
  <1>6. SeqDiff(x, y) = a - b
    BY <1>1, <1>2, <1>3, <1>4, <1>5, Constants
  <1> QED
    BY <1>6 DEF x, y

\* The number of the byte n bytes on.
LEMMA NextNumber ==
  ASSUME NEW a \in Nat, NEW n \in Nat, a + n <= StreamLen + 1
  PROVE  (((ISN + a) % Modulus) + n) % Modulus = (ISN + (a + n)) % Modulus
  <1> DEFINE x == (ISN + a) % Modulus
             z == ISN + (a + n)
  <1>1. \/ x = ISN + a
        \/ ISN + a >= Modulus /\ x = (ISN + a) - Modulus
    <2>1. a \in 0..(StreamLen + 1)
      BY Constants
    <2> QED
      BY <2>1, NumberOfByte, Zenon
  <1> HIDE DEF x
  <1>2. CASE x = ISN + a
    <2>1. x + n = z
      BY <1>2, Constants
    <2> QED
      BY <2>1, Zenon DEF x
  <1>3. CASE ISN + a >= Modulus /\ x = (ISN + a) - Modulus
    <2>1. /\ x + n \in 0..(Modulus - 1)
          /\ z \in Modulus..(2 * Modulus - 1)
          /\ x + n = z - Modulus
      BY <1>3, Constants
    <2>2. (x + n) % Modulus = x + n
      BY <2>1, RemainderInRange, Zenon
    <2>3. z % Modulus = z - Modulus
      BY <2>1, RemainderAbove, Zenon
    <2>4. (x + n) % Modulus = z % Modulus
      BY <2>1, <2>2, <2>3, Zenon
    <2> QED
      BY <2>4, Zenon DEF x
  <1> QED
    BY <1>1, <1>2, <1>3, Zenon

-----------------------------------------------------------------------------
(* The list of future segments                                               *)

\* The segments are stretches of the stream, sorted by their first bytes.
SegmentOK(s) == /\ s \in Segment
                /\ s.from + s.length <= StreamLen + 1
                /\ s.seq = (ISN + s.from) % Modulus

ListOK(list) == /\ list \in Seq(Segment)
                /\ \A i \in DOMAIN list : SegmentOK(list[i])
                /\ \A i, j \in DOMAIN list : i < j => list[i].from < list[j].from

\* A set of naturals has a least element.
LEMMA Least ==
  ASSUME NEW T, T \subseteq Nat, T # {}
  PROVE  \E m \in T : \A k \in T : m <= k
  <1>1. PICK m \in T : \A k \in T : ~(<<k, m>> \in OpToRel(<, Nat))
    BY WFMin, NatLessThanWellFounded
  <1>2. \A k \in T : ~(k < m)
    BY <1>1 DEF OpToRel
  <1> QED
    BY <1>2

\* The distance of a buffered segment from another byte.
LEMMA SegmentDiff ==
  ASSUME NEW s, SegmentOK(s), NEW f \in 1..(StreamLen + 1)
  PROVE  /\ SeqDiff(s.seq, (ISN + f) % Modulus) = s.from - f
         /\ s.from \in 1..StreamLen /\ s.length \in 1..StreamLen
  <1>1. /\ s.from \in 1..StreamLen /\ s.length \in 1..StreamLen
        /\ s.seq = (ISN + s.from) % Modulus
    BY DEF SegmentOK, Segment, Byte
  <1>2. s.from \in 1..(StreamLen + 1)
    BY <1>1, Constants
  <1> QED
    BY <1>1, <1>2, SeqDiffExact, Zenon

\* std::lower_bound finds the place of a segment in the sorted list.
LEMMA LowerBoundFinds ==
  ASSUME ListOK(out_of_order_), NEW f \in 1..(StreamLen + 1),
         NEW n, n = LowerBound((ISN + f) % Modulus)
  PROVE  /\ n \in 0..Len(out_of_order_)
         /\ \A i \in DOMAIN out_of_order_ : i <= n <=> out_of_order_[i].from < f
  <1> DEFINE list == out_of_order_
             S == {i \in DOMAIN list : list[i].from < f}
             T == {i \in 1..(Len(list) + 1) : i \notin S}
  <1>1. /\ Len(list) \in Nat /\ DOMAIN list = 1..Len(list)
        /\ \A i \in DOMAIN list : SegmentOK(list[i])
        /\ \A i, j \in DOMAIN list : i < j => list[i].from < list[j].from
    BY LenProperties DEF ListOK
  <1>2. n = Cardinality(S)
    <2>1. \A i \in DOMAIN list : /\ SeqDiff(list[i].seq, (ISN + f) % Modulus) = list[i].from - f
                                 /\ list[i].from \in 1..StreamLen
      BY <1>1, SegmentDiff
    <2>2. {i \in DOMAIN list : SeqDiff(list[i].seq, (ISN + f) % Modulus) < 0} = S
      <3>1. \A i \in DOMAIN list : list[i].from - f < 0 <=> list[i].from < f
        BY <2>1, Constants
      <3> QED
        BY <2>1, <3>1
    <2> QED
      BY <2>2 DEF LowerBound
  <1>f. \A i \in DOMAIN list : list[i].from \in 1..StreamLen
    BY <1>1, SegmentDiff
  <1> HIDE DEF list
  <1>3. PICK m \in T : \A k \in T : m <= k
    <2>1. Len(list) + 1 \in T
      BY <1>1
    <2>2. T \subseteq Nat
      BY <1>1
    <2> HIDE DEF T
    <2> QED
      BY <2>1, <2>2, Least
  <1>4. m \in 1..(Len(list) + 1) /\ m \notin S
    OBVIOUS
  <1>5. S = 1..(m - 1)
    <2>1. \A i \in 1..(m - 1) : i \in S
      BY <1>1, <1>3, <1>4
    <2>2. \A i \in S : i < m
      <3> SUFFICES ASSUME NEW i \in S, ~(i < m) PROVE FALSE
        OBVIOUS
      <3>1. i # m /\ m \in DOMAIN list /\ i \in DOMAIN list /\ m < i
        BY <1>1, <1>4
      <3>2. list[m].from < list[i].from /\ list[i].from < f
        BY <1>1, <3>1
      <3>3. list[m].from < f
        BY <1>f, <3>1, <3>2, Constants
      <3> QED
        BY <1>4, <3>1, <3>3
    <2>3. \A i \in S : i \in 1..Len(list)
      BY <1>1
    <2> QED
      BY <1>1, <1>4, <2>1, <2>2, <2>3
  <1>6. n = m - 1
    <2>1. 1 \in Int /\ m - 1 \in Int /\ m - 1 >= 0
      BY <1>1, <1>4
    <2> DEFINE last == m - 1
    <2>2. last \in Int /\ last >= 0
      BY <2>1
    <2>3. n = Cardinality(1..last)
      BY <1>2, <1>5
    <2> HIDE DEF last
    <2>4. Cardinality(1..last) = IF 1 > last THEN 0 ELSE last - 1 + 1
      BY <2>2, FS_Interval
    <2>5. n = last
      BY <2>2, <2>3, <2>4
    <2> QED
      BY <2>5 DEF last
  <1>7. \A i \in DOMAIN list : i <= n <=> i \in S
    BY <1>1, <1>4, <1>5, <1>6
  <1>8. n \in 0..Len(list)
    BY <1>1, <1>4, <1>6
  <1> QED
    BY <1>7, <1>8 DEF list

\* Where the segments are after an insertion.
LEMMA InsertAtProperties ==
  ASSUME NEW list \in Seq(Segment), NEW n \in 0..Len(list), NEW x \in Segment
  PROVE  /\ InsertAt(list, n, x) \in Seq(Segment)
         /\ Len(InsertAt(list, n, x)) = Len(list) + 1
         /\ InsertAt(list, n, x)[n + 1] = x
         /\ \A i \in 1..n : InsertAt(list, n, x)[i] = list[i]
         /\ \A i \in (n + 1)..Len(list) : InsertAt(list, n, x)[i + 1] = list[i]
  <1> DEFINE longer == InsertAt(list, n, x)
             a == SubSeq(list, 1, n)
             b == SubSeq(list, n + 1, Len(list))
             c == a \o <<x>>
  <1>0. Len(list) \in Nat /\ \A i \in 1..Len(list) : list[i] \in Segment
    BY LenProperties, ElementOfSeq
  <1>1. /\ a \in Seq(Segment) /\ Len(a) = n
        /\ \A i \in 1..n : a[i] = list[i]
    BY <1>0
  <1>2. /\ b \in Seq(Segment) /\ Len(b) = Len(list) - n
        /\ \A i \in 1..(Len(list) - n) : b[i] = list[n + i]
    BY <1>0
  <1>3. <<x>> \in Seq(Segment) /\ Len(<<x>>) = 1 /\ <<x>>[1] = x
    OBVIOUS
  <1> HIDE DEF a, b
  <1>4. /\ c \in Seq(Segment) /\ Len(c) = n + 1 /\ c[n + 1] = x
        /\ \A i \in 1..n : c[i] = list[i]
    BY <1>1, <1>3, ConcatProperties
  <1>5. longer = c \o b
    BY DEF InsertAt, a, b
  <1> HIDE DEF c, longer
  <1>6. /\ longer \in Seq(Segment) /\ Len(longer) = Len(list) + 1
        /\ \A i \in 1..(n + 1) : longer[i] = c[i]
        /\ \A i \in (n + 2)..(Len(list) + 1) : longer[i] = b[i - (n + 1)]
    <2>1. /\ longer \in Seq(Segment) /\ Len(longer) = Len(c) + Len(b)
          /\ \A i \in 1..(Len(c) + Len(b)) :
                longer[i] = IF i <= Len(c) THEN c[i] ELSE b[i - Len(c)]
      <3>1. c \in Seq(Segment) /\ b \in Seq(Segment)
        BY <1>2, <1>4
      <3> QED
        BY <1>5, <3>1, ConcatProperties
    <2>2. Len(c) = n + 1 /\ Len(b) = Len(list) - n /\ Len(c) + Len(b) = Len(list) + 1
      BY <1>0, <1>2, <1>4
    <2>3. \A i \in 1..(Len(list) + 1) :
             longer[i] = IF i <= n + 1 THEN c[i] ELSE b[i - (n + 1)]
      BY <2>1, <2>2
    <2>4. ASSUME NEW i \in 1..(n + 1)
          PROVE  longer[i] = c[i]
      <3>1. i \in 1..(Len(list) + 1) /\ i <= n + 1
        BY <1>0
      <3> QED
        BY <2>3, <3>1, Zenon
    <2>5. ASSUME NEW i \in (n + 2)..(Len(list) + 1)
          PROVE  longer[i] = b[i - (n + 1)]
      <3>1. i \in 1..(Len(list) + 1) /\ ~(i <= n + 1)
        BY <1>0
      <3> QED
        BY <2>3, <3>1, Zenon
    <2>6. longer \in Seq(Segment) /\ Len(longer) = Len(list) + 1
      BY <2>1, <2>2, Zenon
    <2> QED
      BY <2>4, <2>5, <2>6, Zenon
  <1>7. \A i \in (n + 1)..Len(list) : longer[i + 1] = list[i]
    <2> SUFFICES ASSUME NEW i \in (n + 1)..Len(list)
                 PROVE  longer[i + 1] = list[i]
      OBVIOUS
    <2>1. /\ i + 1 \in (n + 2)..(Len(list) + 1) /\ i - n \in 1..(Len(list) - n)
          /\ (i + 1) - (n + 1) = i - n /\ n + (i - n) = i
      BY <1>0
    <2>2. longer[i + 1] = b[(i + 1) - (n + 1)]
      BY <1>6, <2>1, Zenon
    <2>3. b[i - n] = list[n + (i - n)]
      BY <1>2, <2>1, Zenon
    <2> QED
      BY <2>1, <2>2, <2>3, Zenon
  <1>8. /\ longer[n + 1] = x
        /\ \A i \in 1..n : longer[i] = list[i]
    BY <1>0, <1>4, <1>6
  <1> QED
    BY <1>6, <1>7, <1>8, Zenon DEF longer
-----------------------------------------------------------------------------
(* Counting the bytes of the future segments                                 *)

\* The cells of all segments but one.
Rest(list, k) == {c \in Cells(list) : c[1] # k}

\* A cell is a segment's place in the list and a byte's place in the segment.
LEMMA CellsAre ==
  ASSUME NEW list \in Seq(Segment)
  PROVE  /\ \A c \in Cells(list) :
               /\ c = <<c[1], c[2]>>
               /\ c[1] \in 1..Len(list) /\ c[2] \in Byte
               /\ c[2] <= list[c[1]].length
         /\ \A i \in 1..Len(list) : \A j \in Byte :
               j <= list[i].length => <<i, j>> \in Cells(list)
  <1>1. DOMAIN list = 1..Len(list)
    BY LenProperties, Zenon
  <1> QED
    BY <1>1 DEF Cells

LEMMA CellsFinite ==
  ASSUME NEW list \in Seq(Segment)
  PROVE  IsFiniteSet(Cells(list)) /\ Cardinality(Cells(list)) \in Nat
  <1> DEFINE n == Len(list)
  <1>1. DOMAIN list = 1..n /\ n \in Nat
    BY LenProperties
  <1>2. IsFiniteSet(1..n)
    <2>1. 1 \in Int /\ n \in Int
      BY <1>1
    <2> QED
      BY <2>1, FS_Interval, Zenon
  <1>3. IsFiniteSet(Byte)
    <2>1. 1 \in Int /\ StreamLen \in Int
      BY Constants
    <2>2. IsFiniteSet(1..StreamLen)
      BY <2>1, FS_Interval, Zenon
    <2> QED
      BY <2>2, Zenon DEF Byte
  <1>4. IsFiniteSet((1..n) \X Byte)
    BY <1>2, <1>3, FS_Product, Zenon
  <1>5. Cells(list) \in SUBSET ((1..n) \X Byte)
    BY <1>1 DEF Cells
  <1> HIDE DEF n
  <1>6. IsFiniteSet(Cells(list))
    BY <1>4, <1>5, FS_Subset, Zenon
  <1> QED
    BY <1>6, FS_CardinalityType, Zenon

\* One segment contributes its length.
LEMMA CellsOfOne ==
  ASSUME NEW list \in Seq(Segment), NEW k \in 1..Len(list)
  PROVE  /\ list[k].length \in Byte
         /\ Cardinality(Rest(list, k)) \in Nat
         /\ Cardinality(Cells(list)) =
               Cardinality(Rest(list, k)) + list[k].length
  <1> DEFINE m == list[k].length
             column == {k} \X (1..m)
             rest == Rest(list, k)
  <1>0. m \in Byte
    <2>1. list[k] \in Segment
      BY ElementOfSeq, Zenon
    <2> QED
      BY <2>1 DEF Segment
  <1>1. m \in Nat /\ m >= 1 /\ m <= StreamLen /\ 1..m \subseteq Byte
    BY <1>0, Constants DEF Byte
  <1> HIDE DEF m
  <1>2. IsFiniteSet(column) /\ Cardinality(column) = m
    <2>1. IsFiniteSet({k}) /\ Cardinality({k}) = 1
      BY FS_Singleton, Zenon
    <2>2. IsFiniteSet(1..m) /\ Cardinality(1..m) = m
      <3>1. 1 \in Int /\ m \in Int
        BY <1>1
      <3>2. IsFiniteSet(1..m) /\ Cardinality(1..m) = IF 1 > m THEN 0 ELSE m - 1 + 1
        BY <3>1, FS_Interval, Zenon
      <3> QED
        BY <1>1, <3>2
    <2>3. IsFiniteSet(column) /\ Cardinality(column) = Cardinality({k}) * Cardinality(1..m)
      BY <2>1, <2>2, FS_Product, Zenon
    <2> QED
      BY <1>1, <2>1, <2>2, <2>3
  <1>3. Cells(list) = rest \cup column
    <2>1. \A c \in column : c = <<k, c[2]>> /\ c[2] \in 1..m
      OBVIOUS
    <2>2. \A j \in 1..m : <<k, j>> \in Cells(list)
      <3> SUFFICES ASSUME NEW j \in 1..m PROVE <<k, j>> \in Cells(list)
        OBVIOUS
      <3>1. j \in Byte /\ j <= list[k].length
        BY <1>1 DEF m
      <3> QED
        BY <3>1, CellsAre, Zenon
    <2>3. column \subseteq Cells(list)
      BY <2>1, <2>2, Zenon
    <2>4. ASSUME NEW c \in Cells(list), c[1] = k
          PROVE  c \in column
      <3>1. c = <<c[1], c[2]>> /\ c[2] \in Byte /\ c[2] <= list[c[1]].length
        BY CellsAre, Zenon
      <3>2. c[2] \in Byte /\ c[2] <= m
        BY <2>4, <3>1, Zenon DEF m
      <3>3. c[2] \in 1..m
        BY <1>1, <3>2 DEF Byte
      <3> QED
        BY <2>4, <3>1, <3>3
    <2> QED
      BY <2>3, <2>4, Zenon DEF Rest
  <1>4. rest \cap column = {}
    BY DEF Rest
  <1>5. IsFiniteSet(rest) /\ Cardinality(rest) \in Nat
    <2>1. rest \in SUBSET Cells(list)
      BY DEF Rest
    <2> HIDE DEF rest
    <2>2. IsFiniteSet(rest)
      BY <2>1, CellsFinite, FS_Subset, Zenon
    <2> QED
      BY <2>2, FS_CardinalityType, Zenon
  <1> HIDE DEF column, rest
  <1>6. Cardinality(rest \cup column) =
          Cardinality(rest) + Cardinality(column) - Cardinality(rest \cap column)
    BY <1>2, <1>5, FS_Union, Zenon
  <1>7. Cardinality(rest \cap column) = 0
    BY <1>4, FS_EmptySet, Zenon
  <1>8. Cardinality(Cells(list)) = Cardinality(rest) + m
    BY <1>1, <1>2, <1>3, <1>5, <1>6, <1>7
  <1> QED
    BY <1>0, <1>5, <1>8, Zenon DEF rest, m

\* Leaving a segment out moves the cells of the others: a bijection.
LEMMA CellsWithoutOne ==
  ASSUME NEW list \in Seq(Segment), NEW longer \in Seq(Segment),
         Len(longer) = Len(list) + 1, NEW n \in 0..Len(list),
         \A i \in 1..n : longer[i] = list[i],
         \A i \in (n + 1)..Len(list) : longer[i + 1] = list[i]
  PROVE  Cardinality(Cells(longer)) =
            Cardinality(Cells(list)) + longer[n + 1].length
  <1> DEFINE Moved(i) == IF i <= n THEN i ELSE i + 1
             S == Cells(list)
             T == Rest(longer, n + 1)
             f == [c \in S |-> <<Moved(c[1]), c[2]>>]
  <1>0. Len(list) \in Nat
    BY LenProperties
  <1>1. \A i \in 1..Len(list) : /\ Moved(i) \in 1..Len(longer)
                                /\ Moved(i) # n + 1
                                /\ longer[Moved(i)] = list[i]
    <2> SUFFICES ASSUME NEW i \in 1..Len(list)
                 PROVE  /\ Moved(i) \in 1..Len(longer)
                        /\ Moved(i) # n + 1
                        /\ longer[Moved(i)] = list[i]
      OBVIOUS
    <2>1. CASE i <= n
      BY <1>0, <2>1
    <2>2. CASE ~(i <= n)
      <3>1. i \in (n + 1)..Len(list) /\ Moved(i) = i + 1
        BY <1>0, <2>2
      <3>2. longer[i + 1] = list[i]
        BY <3>1, Zenon
      <3>3. i + 1 \in 1..Len(longer) /\ i + 1 # n + 1
        BY <1>0, <2>2, <3>1
      <3> QED
        BY <3>1, <3>2, <3>3, Zenon
    <2> QED
      BY <2>1, <2>2
  <1>2. \A i, j \in 1..Len(list) : Moved(i) = Moved(j) => i = j
    BY <1>0
  <1>3. \A k \in 1..Len(longer) :
           k # n + 1 => \E i \in 1..Len(list) : Moved(i) = k
    <2> SUFFICES ASSUME NEW k \in 1..Len(longer), k # n + 1
                 PROVE  \E i \in 1..Len(list) : Moved(i) = k
      OBVIOUS
    <2>1. CASE k <= n
      <3>1. k \in 1..Len(list) /\ Moved(k) = k
        BY <1>0, <2>1
      <3> QED
        BY <3>1
    <2>2. CASE ~(k <= n)
      <3>1. k - 1 \in 1..Len(list) /\ Moved(k - 1) = k
        BY <1>0, <2>2
      <3> QED
        BY <3>1
    <2> QED
      BY <2>1, <2>2
  <1> HIDE DEF Moved
  <1>4. ASSUME NEW c \in S
        PROVE  <<Moved(c[1]), c[2]>> \in T
    <2>1. c[1] \in 1..Len(list) /\ c[2] \in Byte /\ c[2] <= list[c[1]].length
      BY CellsAre, Zenon
    <2>2. /\ Moved(c[1]) \in 1..Len(longer) /\ Moved(c[1]) # n + 1
          /\ longer[Moved(c[1])] = list[c[1]]
      BY <1>1, <2>1, Zenon
    <2>3. <<Moved(c[1]), c[2]>> \in Cells(longer)
      BY <2>1, <2>2, CellsAre, Zenon
    <2> QED
      BY <2>2, <2>3 DEF Rest
  <1>5. f \in [S -> T]
    BY <1>4
  <1>6. ASSUME NEW c \in S, NEW d \in S, f[c] = f[d]
        PROVE  c = d
    <2>1. /\ c = <<c[1], c[2]>> /\ c[1] \in 1..Len(list)
          /\ d = <<d[1], d[2]>> /\ d[1] \in 1..Len(list)
      BY CellsAre, Zenon
    <2>2. Moved(c[1]) = Moved(d[1]) /\ c[2] = d[2]
      BY <1>6
    <2>3. c[1] = d[1]
      BY <1>2, <2>1, <2>2, Zenon
    <2> QED
      BY <2>1, <2>2, <2>3, Zenon
  <1>7. ASSUME NEW t \in T
        PROVE  \E c \in S : f[c] = t
    <2>1. t \in Cells(longer) /\ t[1] # n + 1
      BY DEF Rest
    <2>2. /\ t = <<t[1], t[2]>> /\ t[1] \in 1..Len(longer) /\ t[2] \in Byte
          /\ t[2] <= longer[t[1]].length
      BY <2>1, CellsAre, Zenon
    <2>3. PICK i \in 1..Len(list) : Moved(i) = t[1]
      BY <1>3, <2>1, <2>2, Zenon
    <2>4. longer[t[1]] = list[i]
      BY <1>1, <2>3, Zenon
    <2>5. <<i, t[2]>> \in S
      BY <2>2, <2>4, CellsAre, Zenon
    <2>6. f[<<i, t[2]>>] = <<Moved(i), t[2]>>
      BY <2>5
    <2> QED
      BY <2>2, <2>3, <2>5, <2>6, Zenon
  <1>8. IsFiniteSet(S)
    BY CellsFinite, Zenon
  <1> HIDE DEF S, T, f
  <1>9. f \in Bijection(S, T)
    BY <1>5, <1>6, <1>7, Fun_IsBij
  <1>10. Cardinality(T) = Cardinality(S)
    <2>1. ExistsBijection(S, T)
      BY <1>9 DEF ExistsBijection
    <2> QED
      BY <1>8, <2>1, FS_Bijection, Zenon
  <1>11. n + 1 \in 1..Len(longer)
    BY <1>0
  <1>12. Cardinality(Cells(longer)) =
            Cardinality(Rest(longer, n + 1)) + longer[n + 1].length
    BY <1>11, CellsOfOne, Zenon
  <1> QED
    BY <1>10, <1>12, Zenon DEF S, T

LEMMA CellsOfInsertAt ==
  ASSUME NEW list \in Seq(Segment), NEW n \in 0..Len(list), NEW x \in Segment
  PROVE  Cardinality(Cells(InsertAt(list, n, x))) =
            Cardinality(Cells(list)) + x.length
  <1> DEFINE longer == InsertAt(list, n, x)
  <1>1. /\ longer \in Seq(Segment) /\ Len(longer) = Len(list) + 1
        /\ longer[n + 1] = x
        /\ \A i \in 1..n : longer[i] = list[i]
        /\ \A i \in (n + 1)..Len(list) : longer[i + 1] = list[i]
    BY InsertAtProperties, Zenon
  <1> HIDE DEF longer
  <1>2. Cardinality(Cells(longer)) = Cardinality(Cells(list)) + longer[n + 1].length
    BY <1>1, CellsWithoutOne, Zenon
  <1> QED
    BY <1>1, <1>2, Zenon DEF longer

LEMMA CellsOfTail ==
  ASSUME NEW list \in Seq(Segment), list # <<>>
  PROVE  /\ list[1].length \in Byte
         /\ Cardinality(Cells(list)) =
               Cardinality(Cells(Tail(list))) + list[1].length
  <1> DEFINE tail == Tail(list)
  <1>1. /\ tail \in Seq(Segment) /\ Len(tail) = Len(list) - 1
        /\ \A i \in 1..Len(tail) : tail[i] = list[i + 1]
    BY HeadTailProperties, Zenon
  <1>2. Len(list) \in Nat /\ Len(list) # 0
    BY LenProperties, EmptySeq
  <1> HIDE DEF tail
  <1>3. /\ Len(list) = Len(tail) + 1 /\ 0 \in 0..Len(tail) /\ 0 + 1 = 1
        /\ 1 \in 1..Len(list)
    BY <1>1, <1>2
  <1>4. \A i \in 1..0 : list[i] = tail[i]
    OBVIOUS
  <1>5. \A i \in (0 + 1)..Len(tail) : list[i + 1] = tail[i]
    BY <1>1, <1>3, Zenon
  <1>6. Cardinality(Cells(list)) = Cardinality(Cells(tail)) + list[0 + 1].length
    BY <1>1, <1>3, <1>4, <1>5, CellsWithoutOne, Zenon
  <1>7. list[1].length \in Byte
    BY <1>3, CellsOfOne, Zenon
  <1> QED
    BY <1>3, <1>6, <1>7, Zenon DEF tail

LEMMA CellsOfExcept ==
  ASSUME NEW list \in Seq(Segment), NEW k \in 1..Len(list), NEW x \in Segment
  PROVE  /\ Cardinality(Cells([list EXCEPT ![k] = x])) =
               Cardinality(Cells(list)) - list[k].length + x.length
         /\ list[k].length \in Byte
         /\ list[k].length <= Cardinality(Cells(list))
  <1> DEFINE other == [list EXCEPT ![k] = x]
  <1>1. /\ other \in Seq(Segment) /\ Len(other) = Len(list)
        /\ \A j \in 1..Len(list) : other[j] = IF j = k THEN x ELSE list[j]
    BY ExceptSeq
  <1> HIDE DEF other
  <1>2. Rest(other, k) = Rest(list, k)
    <2>1. DOMAIN list = 1..Len(list) /\ DOMAIN other = 1..Len(list)
      BY <1>1, LenProperties, Zenon
    <2> QED
      BY <1>1, <2>1 DEF Rest, Cells
  <1>3. /\ list[k].length \in Byte /\ Cardinality(Rest(list, k)) \in Nat
        /\ Cardinality(Cells(list)) = Cardinality(Rest(list, k)) + list[k].length
    BY CellsOfOne, Zenon
  <1>4. /\ other[k].length \in Byte
        /\ Cardinality(Cells(other)) = Cardinality(Rest(other, k)) + other[k].length
    BY <1>1, CellsOfOne, Zenon
  <1>5. other[k] = x
    BY <1>1, Zenon
  <1>6. /\ Cardinality(Cells(other)) =
               Cardinality(Cells(list)) - list[k].length + x.length
        /\ list[k].length <= Cardinality(Cells(list))
    BY <1>2, <1>3, <1>4, <1>5, Constants DEF Byte
  <1> QED
    BY <1>3, <1>6 DEF other
-----------------------------------------------------------------------------
(* The list stays sorted                                                     *)

LEMMA ListFacts ==
  ASSUME NEW list, ListOK(list)
  PROVE  /\ list \in Seq(Segment) /\ Len(list) \in Nat
         /\ DOMAIN list = 1..Len(list)
         /\ \A i \in 1..Len(list) :
               /\ list[i] \in Segment /\ SegmentOK(list[i])
               /\ list[i].from \in 1..StreamLen /\ list[i].length \in 1..StreamLen
         /\ \A i, j \in 1..Len(list) : i < j => list[i].from < list[j].from
  <1>1. list \in Seq(Segment)
    BY DEF ListOK
  <1>2. DOMAIN list = 1..Len(list) /\ Len(list) \in Nat
    BY <1>1, LenProperties, Zenon
  <1>3. \A i \in 1..Len(list) :
               /\ list[i] \in Segment /\ SegmentOK(list[i])
               /\ list[i].from \in 1..StreamLen /\ list[i].length \in 1..StreamLen
    BY <1>2 DEF ListOK, SegmentOK, Segment, Byte
  <1>4. \A i, j \in 1..Len(list) : i < j => list[i].from < list[j].from
    BY <1>2 DEF ListOK
  <1> QED
    BY <1>1, <1>2, <1>3, <1>4

\* Insertion at the place lower_bound found.
LEMMA InsertAtKeepsOrder ==
  ASSUME NEW list, ListOK(list), NEW x, SegmentOK(x),
         NEW n \in 0..Len(list),
         \A i \in DOMAIN list : i <= n <=> list[i].from < x.from,
         n < Len(list) => list[n + 1].from # x.from
  PROVE  /\ ListOK(InsertAt(list, n, x))
         /\ Range(InsertAt(list, n, x)) = Range(list) \cup {x}
  <1> DEFINE longer == InsertAt(list, n, x)
             m == Len(list)
  <1>1. /\ list \in Seq(Segment) /\ m \in Nat /\ DOMAIN list = 1..m
        /\ \A i \in 1..m : /\ list[i] \in Segment /\ SegmentOK(list[i])
                           /\ list[i].from \in 1..StreamLen
        /\ \A i, j \in 1..m : i < j => list[i].from < list[j].from
    BY ListFacts, Zenon
  <1>2. x \in Segment /\ x.from \in 1..StreamLen
    BY DEF SegmentOK, Segment, Byte
  <1>3. /\ longer \in Seq(Segment) /\ Len(longer) = m + 1
        /\ longer[n + 1] = x
        /\ \A i \in 1..n : longer[i] = list[i]
        /\ \A i \in (n + 1)..m : longer[i + 1] = list[i]
    BY <1>1, <1>2, InsertAtProperties, Zenon
  <1>4. DOMAIN longer = 1..(m + 1)
    BY <1>3, LenProperties, Zenon
  <1>5. /\ n \in 0..m
        /\ \A i \in 1..m : i <= n <=> list[i].from < x.from
        /\ n < m => list[n + 1].from # x.from
    BY <1>1, Zenon
  <1> HIDE DEF longer, m
  <1>6. ASSUME NEW k \in 1..(m + 1)
        PROVE  \/ k <= n /\ k \in 1..m /\ longer[k] = list[k]
               \/ k = n + 1 /\ longer[k] = x
               \/ k > n + 1 /\ k - 1 \in 1..m /\ longer[k] = list[k - 1]
    <2>1. CASE k <= n
      BY <1>1, <1>3, <1>5, <2>1
    <2>2. CASE k = n + 1
      BY <1>3, <2>2
    <2>3. CASE k > n + 1
      <3>1. k - 1 \in (n + 1)..m /\ (k - 1) + 1 = k /\ k - 1 \in 1..m
        BY <1>1, <1>5, <2>3
      <3>2. longer[(k - 1) + 1] = list[k - 1]
        BY <1>3, <3>1, Zenon
      <3> QED
        BY <2>3, <3>1, <3>2, Zenon
    <2> QED
      BY <1>1, <1>5, <2>1, <2>2, <2>3
  <1>7. ASSUME NEW i \in 1..m, i > n
        PROVE  x.from < list[i].from
    <2>1. /\ n < m /\ n + 1 \in 1..m /\ (i = n + 1 \/ n + 1 < i)
          /\ ~(n + 1 <= n)
      BY <1>1, <1>5, <1>7
    <2>2. ~(list[n + 1].from < x.from) /\ list[n + 1].from # x.from
      BY <1>5, <2>1
    <2>3. list[n + 1].from \in 1..StreamLen /\ list[i].from \in 1..StreamLen
      BY <1>1, <2>1
    <2>4. x.from < list[n + 1].from
      BY <1>2, <2>2, <2>3, Constants
    <2>5. i = n + 1 \/ list[n + 1].from < list[i].from
      BY <1>1, <2>1
    <2> QED
      BY <1>2, <2>3, <2>4, <2>5, Constants
  <1>8. ASSUME NEW i \in 1..(m + 1), NEW j \in 1..(m + 1), i < j
        PROVE  longer[i].from < longer[j].from
    <2>1. CASE i <= n /\ i \in 1..m /\ longer[i] = list[i]
      <3>1. CASE j <= n /\ j \in 1..m /\ longer[j] = list[j]
        BY <1>1, <1>8, <2>1, <3>1
      <3>2. CASE j = n + 1 /\ longer[j] = x
        BY <1>5, <2>1, <3>2
      <3>3. CASE j > n + 1 /\ j - 1 \in 1..m /\ longer[j] = list[j - 1]
        <4>1. i < j - 1
          BY <1>1, <1>5, <2>1, <3>3
        <4> QED
          BY <1>1, <2>1, <3>3, <4>1
      <3> QED
        BY <1>6, <3>1, <3>2, <3>3
    <2>2. CASE i = n + 1 /\ longer[i] = x
      <3>1. j > n + 1 /\ j - 1 \in 1..m /\ longer[j] = list[j - 1] /\ j - 1 > n
        BY <1>1, <1>5, <1>6, <1>8, <2>2
      <3> QED
        BY <1>7, <2>2, <3>1
    <2>3. CASE i > n + 1 /\ i - 1 \in 1..m /\ longer[i] = list[i - 1]
      <3>1. /\ j > n + 1 /\ j - 1 \in 1..m /\ longer[j] = list[j - 1]
            /\ i - 1 < j - 1
        BY <1>1, <1>5, <1>6, <1>8, <2>3
      <3> QED
        BY <1>1, <2>3, <3>1
    <2> QED
      BY <1>6, <2>1, <2>2, <2>3
  <1>9. \A k \in 1..(m + 1) : longer[k] = x \/ \E i \in 1..m : longer[k] = list[i]
    BY <1>6
  <1>10. \A k \in 1..(m + 1) : SegmentOK(longer[k])
    BY <1>1, <1>9
  <1>11. ListOK(longer)
    BY <1>3, <1>4, <1>8, <1>10 DEF ListOK
  <1>12. Range(longer) = Range(list) \cup {x}
    <2>1. n + 1 \in 1..(m + 1) /\ longer[n + 1] = x
      BY <1>1, <1>3, <1>5
    <2>2. ASSUME NEW i \in 1..m
          PROVE  \E k \in 1..(m + 1) : longer[k] = list[i]
      <3>1. CASE i <= n
        BY <1>1, <1>3, <3>1
      <3>2. CASE i > n
        <4>1. i \in (n + 1)..m /\ i + 1 \in 1..(m + 1)
          BY <1>1, <1>5, <3>2
        <4> QED
          BY <1>3, <4>1
      <3> QED
        BY <1>5, <3>1, <3>2
    <2>3. Range(list) = {list[i] : i \in 1..m} /\ Range(longer) = {longer[i] : i \in 1..(m + 1)}
      BY <1>1, <1>4, Zenon DEF Range
    <2>4. Range(longer) \subseteq Range(list) \cup {x}
      BY <1>9, <2>3
    <2>5. Range(list) \subseteq Range(longer)
      BY <2>2, <2>3
    <2>6. x \in Range(longer)
      BY <2>1, <2>3
    <2> QED
      BY <2>4, <2>5, <2>6, Zenon
  <1> QED
    BY <1>11, <1>12, Zenon DEF longer

\* A longer segment takes the place of one with the same first byte.
LEMMA ExceptKeepsOrder ==
  ASSUME NEW list, ListOK(list), NEW x, SegmentOK(x),
         NEW k \in 1..Len(list), list[k].from = x.from
  PROVE  /\ ListOK([list EXCEPT ![k] = x])
         /\ Range([list EXCEPT ![k] = x]) \subseteq Range(list) \cup {x}
         /\ Range(list) \subseteq Range([list EXCEPT ![k] = x]) \cup {list[k]}
         /\ x \in Range([list EXCEPT ![k] = x])
  <1> DEFINE other == [list EXCEPT ![k] = x]
             m == Len(list)
  <1>1. /\ list \in Seq(Segment) /\ m \in Nat /\ DOMAIN list = 1..m
        /\ \A i \in 1..m : SegmentOK(list[i])
        /\ \A i, j \in 1..m : i < j => list[i].from < list[j].from
    BY ListFacts, Zenon
  <1>2. x \in Segment
    BY DEF SegmentOK
  <1>3. /\ other \in Seq(Segment) /\ Len(other) = m
        /\ \A j \in 1..m : other[j] = IF j = k THEN x ELSE list[j]
    BY <1>1, <1>2, ExceptSeq
  <1>4. DOMAIN other = 1..m
    BY <1>3, LenProperties, Zenon
  <1>5. k \in 1..m
    OBVIOUS
  <1> HIDE DEF other, m
  <1>6. \A j \in 1..m : other[j].from = list[j].from /\ SegmentOK(other[j])
    BY <1>1, <1>3
  <1>7. ListOK(other)
    BY <1>1, <1>3, <1>4, <1>6 DEF ListOK
  <1>8. Range(other) \subseteq Range(list) \cup {x}
    BY <1>1, <1>3, <1>4, <1>5 DEF Range
  <1>9. Range(list) \subseteq Range(other) \cup {list[k]}
    BY <1>1, <1>3, <1>4, <1>5 DEF Range
  <1>10. x \in Range(other)
    BY <1>3, <1>4, <1>5 DEF Range
  <1> QED
    BY <1>7, <1>8, <1>9, <1>10, Zenon DEF other

\* The first segment leaves the list.
LEMMA TailKeepsOrder ==
  ASSUME NEW list, ListOK(list), list # <<>>
  PROVE  /\ ListOK(Tail(list)) /\ SegmentOK(list[1])
         /\ Range(list) = Range(Tail(list)) \cup {list[1]}
  <1> DEFINE tail == Tail(list)
             m == Len(list)
  <1>1. /\ list \in Seq(Segment) /\ m \in Nat /\ DOMAIN list = 1..m
        /\ \A i \in 1..m : SegmentOK(list[i])
        /\ \A i, j \in 1..m : i < j => list[i].from < list[j].from
    BY ListFacts, Zenon
  <1>2. m # 0
    BY <1>1, EmptySeq
  <1>3. /\ tail \in Seq(Segment) /\ Len(tail) = m - 1
        /\ \A i \in 1..(m - 1) : tail[i] = list[i + 1]
    BY <1>1, HeadTailProperties
  <1>4. DOMAIN tail = 1..(m - 1)
    BY <1>3, LenProperties, Zenon
  <1> HIDE DEF tail, m
  <1>5. \A i \in 1..(m - 1) : i + 1 \in 1..m
    BY <1>1
  <1>6. \A i \in 1..(m - 1) : SegmentOK(tail[i])
    BY <1>1, <1>3, <1>5
  <1>7. ASSUME NEW i \in 1..(m - 1), NEW j \in 1..(m - 1), i < j
        PROVE  tail[i].from < tail[j].from
    <2>1. i + 1 \in 1..m /\ j + 1 \in 1..m /\ i + 1 < j + 1
      BY <1>1, <1>7
    <2>2. list[i + 1].from < list[j + 1].from
      BY <1>1, <2>1, Zenon
    <2> QED
      BY <1>3, <2>2, Zenon
  <1>8. ListOK(tail)
    BY <1>3, <1>4, <1>6, <1>7 DEF ListOK
  <1>9. 1 \in 1..m /\ SegmentOK(list[1])
    BY <1>1, <1>2
  <1>10. Range(list) = Range(tail) \cup {list[1]}
    <2>1. ASSUME NEW i \in 1..m, i # 1
          PROVE  \E k \in 1..(m - 1) : tail[k] = list[i]
      <3>1. i - 1 \in 1..(m - 1) /\ (i - 1) + 1 = i
        BY <1>1, <2>1
      <3>2. tail[i - 1] = list[(i - 1) + 1]
        BY <1>3, <3>1, Zenon
      <3> QED
        BY <3>1, <3>2, Zenon
    <2>2. \A k \in 1..(m - 1) : \E i \in 1..m : tail[k] = list[i]
      BY <1>3, <1>5
    <2>3. Range(list) = {list[i] : i \in 1..m} /\ Range(tail) = {tail[i] : i \in 1..(m - 1)}
      BY <1>1, <1>4, Zenon DEF Range
    <2>4. Range(list) \subseteq Range(tail) \cup {list[1]}
      BY <2>1, <2>3
    <2>5. Range(tail) \subseteq Range(list)
      BY <2>2, <2>3
    <2>6. list[1] \in Range(list)
      BY <1>9, <2>3
    <2> QED
      BY <2>4, <2>5, <2>6, Zenon
  <1> QED
    BY <1>8, <1>9, <1>10, Zenon DEF tail

-----------------------------------------------------------------------------
(* Stretches of the stream                                                   *)

LEMMA BytesAre ==
  ASSUME NEW a \in Byte, NEW n \in Nat, a + n <= StreamLen + 1
  PROVE  /\ Bytes(a, a + n - 1) \in Seq(Byte)
         /\ Len(Bytes(a, a + n - 1)) = n
         /\ \A i \in 1..n : Bytes(a, a + n - 1)[i] = a + i - 1
  <1> DEFINE s == Bytes(a, a + n - 1)
  <1>1. (a + n - 1) - a + 1 = n
    BY Constants DEF Byte
  <1>2. s = [i \in 1..n |-> a + i - 1]
    BY <1>1, Zenon DEF Bytes
  <1> HIDE DEF s
  <1>3. \A i \in 1..n : s[i] = a + i - 1 /\ a + i - 1 \in Byte
    BY <1>2, Constants DEF Byte
  <1>4. s \in Seq(Byte) /\ Len(s) = n
    BY <1>2, <1>3
  <1> QED
    BY <1>3, <1>4, Zenon DEF s

\* Two adjacent stretches make one.
LEMMA BytesJoin ==
  ASSUME NEW a \in Byte, NEW m \in Nat, NEW n \in Nat, n >= 1,
         a + m + n <= StreamLen + 1
  PROVE  Bytes(a, a + m - 1) \o Bytes(a + m, (a + m) + n - 1)
           = Bytes(a, a + (m + n) - 1)
  <1> DEFINE b == a + m
             k == m + n
             s == Bytes(a, a + m - 1)
             t == Bytes(b, b + n - 1)
             u == Bytes(a, a + k - 1)
  <1>1. b \in Byte /\ b + n <= StreamLen + 1 /\ a + m <= StreamLen + 1
        /\ k \in Nat /\ a + k <= StreamLen + 1
    BY Constants DEF Byte
  <1>2. s \in Seq(Byte) /\ Len(s) = m /\ \A i \in 1..m : s[i] = a + i - 1
    BY <1>1, BytesAre, Zenon
  <1> HIDE DEF b, k
  <1>3. t \in Seq(Byte) /\ Len(t) = n /\ \A i \in 1..n : t[i] = b + i - 1
    BY <1>1, BytesAre, Zenon
  <1>4. u \in Seq(Byte) /\ Len(u) = k /\ \A i \in 1..k : u[i] = a + i - 1
    BY <1>1, BytesAre, Zenon
  <1> HIDE DEF s, t, u
  <1>5. /\ s \o t \in Seq(Byte) /\ Len(s \o t) = Len(s) + Len(t)
        /\ \A i \in 1..(Len(s) + Len(t)) :
              (s \o t)[i] = IF i <= Len(s) THEN s[i] ELSE t[i - Len(s)]
    BY <1>2, <1>3, ConcatProperties, Zenon
  <1> DEFINE v == s \o t
  <1>6. v \in Seq(Byte) /\ Len(v) = k
        /\ \A i \in 1..k : v[i] = IF i <= m THEN s[i] ELSE t[i - m]
    BY <1>2, <1>3, <1>5 DEF k
  <1> HIDE DEF v
  <1>7. ASSUME NEW i \in 1..k
        PROVE  v[i] = u[i]
    <2>1. CASE i <= m
      BY <1>2, <1>4, <1>6, <2>1
    <2>2. CASE ~(i <= m)
      <3>1. i - m \in 1..n /\ b + (i - m) - 1 = a + i - 1
        BY <2>2, Constants DEF b, k, Byte
      <3>2. t[i - m] = b + (i - m) - 1
        BY <1>3, <3>1, Zenon
      <3>3. v[i] = t[i - m] /\ u[i] = a + i - 1
        BY <1>4, <1>6, <2>2, Zenon
      <3> QED
        BY <3>1, <3>2, <3>3, Zenon
    <2> QED
      BY <2>1, <2>2
  <1>8. v = u
    <2>1. \A i \in 1..Len(v) : v[i] = u[i]
      BY <1>6, <1>7, Zenon
    <2>2. Len(v) = Len(u)
      BY <1>4, <1>6, Zenon
    <2> QED
      BY <1>4, <1>6, <2>1, <2>2, SeqEqual, Zenon
  <1> QED
    BY <1>8, Zenon DEF v, s, t, u, b, k
-----------------------------------------------------------------------------
(* The inductive invariant: a direction is new, live or ended                *)

\* The byte expected next.
Ahead == base + Len(buffer_)

Empty == buffer_ = <<>> /\ out_of_order_ = <<>> /\ memory = 0

\* No call had an effect yet.
NewState == /\ Empty /\ expected_seq_ = -1 /\ pc = "idle"
            /\ base = 0 /\ delivered = {}
            /\ failed_ = FALSE /\ sni = FALSE

\* Given up, or the name was found.
EndedState == /\ Empty /\ expected_seq_ \in SeqNo
              /\ base \in Byte
              /\ failed_ \in BOOLEAN /\ sni \in BOOLEAN
              /\ pc \in {"idle", "extract"}
              /\ failed_ \/ (sni /\ pc = "idle")
              /\ sni => base = 1

\* The buffer is the stretch of the stream from base up to the byte expected.
StreamOK == /\ Len(buffer_) \in Nat /\ Len(buffer_) >= 1
            /\ Ahead <= StreamLen + 1
            /\ buffer_ = Bytes(base, Ahead - 1)
            /\ expected_seq_ = (ISN + Ahead) % Modulus

\* Outside mergeOutOfOrder the segments in the list lie after a gap.
GapOK == pc # "merge" => \A s \in Range(out_of_order_) : s.from > Ahead

\* No byte that was handed in is lost.
CoverOK == \A d \in delivered :
              \/ d < Ahead
              \/ \E s \in Range(out_of_order_) :
                    s.from <= d /\ d < s.from + s.length

HelloOK == pc = "idle" => ~HelloComplete

\* The first byte accepted in order is never taken off the books; a second one
\* is on them when a merge begins.
BooksOK == /\ memory \in Nat /\ memory <= MaxBytes
           /\ Buffered + 1 <= memory
           /\ pc = "merge" /\ out_of_order_ # <<>> => Buffered + 2 <= memory
           /\ Len(buffer_) + Buffered <= memory + MaxBytes - 2

LiveState == /\ base \in Byte
             /\ failed_ = FALSE /\ sni = FALSE
             /\ pc \in {"idle", "merge", "extract"}
             /\ StreamOK
             /\ ListOK(out_of_order_)
             /\ GapOK
             /\ CoverOK
             /\ HelloOK
             /\ BooksOK

IInv == delivered \in SUBSET Byte /\ (NewState \/ EndedState \/ LiveState)

\* What the steps of a live direction start from.
LEMMA LiveFacts ==
  ASSUME LiveState
  PROVE  /\ base \in 1..StreamLen /\ Len(buffer_) \in Nat /\ Len(buffer_) >= 1
         /\ Ahead = base + Len(buffer_)
         /\ Ahead \in 2..(StreamLen + 1)
         /\ expected_seq_ = (ISN + Ahead) % Modulus
         /\ expected_seq_ \in SeqNo /\ expected_seq_ # -1
         /\ buffer_ \in Seq(Byte)
         /\ out_of_order_ \in Seq(Segment)
         /\ Buffered \in Nat
  <1>1. /\ base \in 1..StreamLen /\ Len(buffer_) \in Nat /\ Len(buffer_) >= 1
        /\ Ahead = base + Len(buffer_) /\ Ahead <= StreamLen + 1
        /\ buffer_ = Bytes(base, Ahead - 1)
        /\ expected_seq_ = (ISN + Ahead) % Modulus
    BY DEF LiveState, StreamOK, Byte, Ahead
  <1>2. Ahead \in 2..(StreamLen + 1) /\ ISN + Ahead \in Int
    BY <1>1, Constants
  <1>3. expected_seq_ \in SeqNo
    BY <1>1, <1>2, RemainderType, Zenon
  <1>4. expected_seq_ # -1
    BY <1>3, Constants DEF SeqNo
  <1>5. buffer_ \in Seq(Byte)
    <2>1. base \in Byte /\ base + Len(buffer_) <= StreamLen + 1
      BY <1>1 DEF Byte
    <2>2. Bytes(base, base + Len(buffer_) - 1) \in Seq(Byte)
      BY <1>1, <2>1, BytesAre, Zenon
    <2> QED
      BY <1>1, <2>2
  <1>6. out_of_order_ \in Seq(Segment)
    BY DEF LiveState, ListOK
  <1>7. Buffered \in Nat
    BY <1>6, CellsFinite, Zenon DEF Buffered
  <1> QED
    BY <1>1, <1>2, <1>3, <1>4, <1>5, <1>6, <1>7, Zenon

\* What a call with a segment of the stream comes down to in a live direction.
LEMMA ReceiveCases ==
  ASSUME LiveState, NEW from \in Byte, NEW length \in 1..(StreamLen - from + 1),
         Receive(from, length)
  PROVE  \/ /\ from + length <= Ahead
            /\ UNCHANGED <<buffer_, expected_seq_, out_of_order_, memory,
                           failed_, pc>>
         \/ GiveUp /\ expected_seq_' = expected_seq_ /\ UNCHANGED pc
         \/ \E seg : /\ SegmentOK(seg)
                     /\ seg.from = Ahead
                     /\ Ahead + seg.length = from + length
                     /\ memory + seg.length <= MaxBytes
                     /\ AcceptInOrder(seg)
         \/ \E seg : /\ SegmentOK(seg)
                     /\ seg.from = from /\ seg.length = length
                     /\ from > Ahead
                     /\ memory + seg.length <= MaxBytes
                     /\ BufferOutOfOrder(seg)
                     /\ UNCHANGED <<buffer_, expected_seq_, failed_>>
  <1> DEFINE seq == (ISN + from) % Modulus
             expected == IF expected_seq_ = -1 THEN seq ELSE expected_seq_
             diff == SeqDiff(seq, expected)
             overlap == IF diff < 0 THEN -diff ELSE 0
             seg == Trimmed([seq |-> seq, from |-> from, length |-> length], overlap)
  <1>1. /\ Ahead \in 2..(StreamLen + 1) /\ expected_seq_ # -1
        /\ expected_seq_ = (ISN + Ahead) % Modulus
    BY LiveFacts, Zenon
  <1>2. /\ from \in 1..(StreamLen + 1) /\ Ahead \in 1..(StreamLen + 1)
        /\ from \in Nat /\ length \in Nat /\ length >= 1
        /\ from + length <= StreamLen + 1
    BY <1>1, Constants DEF Byte
  <1>3. expected = expected_seq_
    BY <1>1, Zenon
  <1>4. diff = from - Ahead
    <2>1. SeqDiff((ISN + from) % Modulus, (ISN + Ahead) % Modulus) = from - Ahead
      BY <1>2, SeqDiffExact, Zenon
    <2> QED
      BY <1>1, <1>3, <2>1, Zenon
  <1>5. \/ /\ overlap >= length
           /\ UNCHANGED <<buffer_, expected_seq_, out_of_order_, memory, failed_, pc>>
        \/ /\ overlap < length
           /\ ExceedsLimit(seg.length)
           /\ GiveUp
           /\ expected_seq_' = expected
           /\ UNCHANGED pc
        \/ /\ overlap < length
           /\ ~ExceedsLimit(seg.length)
           /\ diff <= 0
           /\ AcceptInOrder(seg)
        \/ /\ overlap < length
           /\ ~ExceedsLimit(seg.length)
           /\ diff > 0
           /\ BufferOutOfOrder(seg)
           /\ UNCHANGED <<buffer_, expected_seq_, failed_>>
    BY DEF Receive
  <1>6. overlap = IF diff < 0 THEN -diff ELSE 0
    OBVIOUS
  <1>7. seg = [seq |-> (seq + overlap) % Modulus, from |-> from + overlap,
               length |-> length - overlap]
    BY DEF Trimmed
  <1> HIDE DEF expected, diff
  <1>8. overlap \in Nat
    BY <1>2, <1>4, <1>6
  <1> HIDE DEF overlap
  <1>9. /\ seg.seq = (seq + overlap) % Modulus
        /\ seg.from = from + overlap /\ seg.length = length - overlap
    BY <1>7
  <1> HIDE DEF seg
  <1>10. overlap < length => SegmentOK(seg)
    <2> HAVE overlap < length
    <2>1. (seq + overlap) % Modulus = (ISN + (from + overlap)) % Modulus
      <3>1. from + overlap <= StreamLen + 1
        BY <1>2, <1>8, Constants
      <3> QED
        BY <1>2, <1>8, <3>1, NextNumber, Zenon
    <2>2. (ISN + (from + overlap)) % Modulus \in SeqNo
      <3>1. ISN + (from + overlap) \in Int
        BY <1>2, <1>8, Constants
      <3> QED
        BY <3>1, RemainderType, Zenon
    <2>3. /\ from + overlap \in Byte /\ length - overlap \in Byte
          /\ (from + overlap) + (length - overlap) <= StreamLen + 1
      BY <1>2, <1>8, Constants DEF Byte
    <2>4. seg \in Segment
      BY <1>7, <2>1, <2>2, <2>3 DEF Segment
    <2> QED
      BY <1>9, <2>1, <2>3, <2>4, Zenon DEF SegmentOK
  <1> HIDE DEF seq
  <1>m. memory \in Nat /\ MaxBytes \in Nat
    BY Constants DEF LiveState, BooksOK
  <1>11. CASE /\ overlap >= length
              /\ UNCHANGED <<buffer_, expected_seq_, out_of_order_, memory, failed_, pc>>
    <2>1. from + length <= Ahead
      BY <1>2, <1>4, <1>6, <1>11
    <2> QED
      BY <1>11, <2>1, Zenon
  <1>12. CASE /\ overlap < length
              /\ ExceedsLimit(seg.length)
              /\ GiveUp
              /\ expected_seq_' = expected
              /\ UNCHANGED pc
    BY <1>3, <1>12, Zenon
  <1>13. CASE /\ overlap < length
              /\ ~ExceedsLimit(seg.length)
              /\ diff <= 0
              /\ AcceptInOrder(seg)
    <2>1. /\ seg.from = Ahead /\ Ahead + seg.length = from + length
          /\ memory + seg.length <= MaxBytes
      BY <1>2, <1>4, <1>6, <1>9, <1>13, <1>m DEF ExceedsLimit
    <2> QED
      BY <1>10, <1>13, <2>1, Zenon
  <1>14. CASE /\ overlap < length
              /\ ~ExceedsLimit(seg.length)
              /\ diff > 0
              /\ BufferOutOfOrder(seg)
              /\ UNCHANGED <<buffer_, expected_seq_, failed_>>
    <2>1. /\ seg.from = from /\ seg.length = length /\ from > Ahead
          /\ memory + seg.length <= MaxBytes
      BY <1>2, <1>4, <1>6, <1>9, <1>14, <1>m DEF ExceedsLimit
    <2> QED
      BY <1>10, <1>14, <2>1, Zenon
  <1> QED
    BY <1>5, <1>11, <1>12, <1>13, <1>14, Zenon
-----------------------------------------------------------------------------
(* The steps keep the invariant                                              *)

\* Bytes that follow the buffer are added to it.
LEMMA BufferGrows ==
  ASSUME LiveState, NEW n \in Nat, n >= 1, Ahead + n <= StreamLen + 1,
         buffer_' = buffer_ \o Bytes(Ahead, Ahead + n - 1), base' = base,
         expected_seq_' = (expected_seq_ + n) % Modulus
  PROVE  /\ StreamOK'
         /\ Len(buffer_)' = Len(buffer_) + n /\ Ahead' = Ahead + n
  <1> DEFINE m == Len(buffer_)
             k == m + n
             new == Bytes(base, base + k - 1)
  <1>1. /\ base \in Byte /\ m \in Nat /\ m >= 1
        /\ Ahead = base + m /\ expected_seq_ = (ISN + Ahead) % Modulus
        /\ buffer_ = Bytes(base, Ahead - 1)
    BY LiveFacts DEF LiveState, StreamOK
  <1>2. /\ k \in Nat /\ k >= 1 /\ base + m + n <= StreamLen + 1
        /\ base + k <= StreamLen + 1 /\ base + k = Ahead + n /\ Ahead \in Nat
    BY <1>1, Constants DEF Byte
  <1> HIDE DEF m
  <1>3. Bytes(base, base + m - 1) \o Bytes(base + m, (base + m) + n - 1)
           = Bytes(base, base + (m + n) - 1)
    BY <1>1, <1>2, BytesJoin, Zenon
  <1>4. buffer_' = new
    <2>1. Bytes(base, Ahead - 1) = Bytes(base, base + m - 1)
      <3>1. Ahead - 1 = base + m - 1
        BY <1>1 DEF Byte
      <3> QED
        BY <3>1, Zenon
    <2>2. Bytes(Ahead, Ahead + n - 1) = Bytes(base + m, (base + m) + n - 1)
      BY <1>1
    <2> QED
      BY <1>1, <1>3, <2>1, <2>2
  <1> HIDE DEF k
  <1>5. new \in Seq(Byte) /\ Len(new) = k
    BY <1>1, <1>2, BytesAre, Zenon
  <1>6. Len(buffer_)' = k /\ Ahead' = base + k
    BY <1>4, <1>5, Zenon DEF Ahead
  <1>7. expected_seq_' = (ISN + (Ahead + n)) % Modulus
    <2>1. (((ISN + Ahead) % Modulus) + n) % Modulus = (ISN + (Ahead + n)) % Modulus
      BY <1>2, NextNumber, Zenon
    <2> QED
      BY <1>1, <2>1, Zenon
  <1>8. Ahead' = Ahead + n
    BY <1>2, <1>6, Zenon
  <1>9. buffer_' = Bytes(base', Ahead' - 1)
    <2>1. base + k - 1 = (base + k) - 1
      BY <1>1, <1>2 DEF Byte
    <2> QED
      BY <1>4, <1>6, <2>1, Zenon
  <1>10. StreamOK'
    <2>1. Len(buffer_)' \in Nat /\ Len(buffer_)' >= 1 /\ Ahead' <= StreamLen + 1
      BY <1>2, <1>6, <1>8, Zenon
    <2>2. expected_seq_' = (ISN + Ahead') % Modulus
      BY <1>7, <1>8, Zenon
    <2> QED
      BY <1>9, <2>1, <2>2, Zenon DEF StreamOK
  <1> QED
    BY <1>6, <1>8, <1>10, Zenon DEF k, m

\* The segment at the expected byte joins the buffer.
LEMMA AcceptKeepsInvariant ==
  ASSUME LiveState, pc = "idle", delivered \in SUBSET Byte,
         NEW seg, SegmentOK(seg), seg.from = Ahead,
         NEW end \in Int, Ahead + seg.length = end,
         memory + seg.length <= MaxBytes,
         AcceptInOrder(seg), base' = base, sni' = sni,
         \A d \in delivered' : d \in delivered \/ d < end
  PROVE  LiveState'
  <1> DEFINE n == seg.length
  <1>1. /\ Ahead \in 2..(StreamLen + 1) /\ Len(buffer_) \in Nat /\ Buffered \in Nat
        /\ expected_seq_ = (ISN + Ahead) % Modulus
    BY LiveFacts, Zenon
  <1>2. /\ n \in 1..StreamLen /\ seg.from + n <= StreamLen + 1
        /\ seg.seq = expected_seq_
    <2>1. n \in Byte /\ seg.from + n <= StreamLen + 1 /\ seg.seq = (ISN + seg.from) % Modulus
      BY DEF SegmentOK, Segment
    <2> QED
      BY <1>1, <2>1, Zenon DEF Byte
  <1>3. n \in Nat /\ n >= 1 /\ Ahead + n <= StreamLen + 1
    BY <1>2, Constants
  <1>4. /\ buffer_' = buffer_ \o Bytes(Ahead, Ahead + n - 1)
        /\ expected_seq_' = (expected_seq_ + n) % Modulus
        /\ memory' = memory + n /\ pc' = "merge"
        /\ out_of_order_' = out_of_order_ /\ failed_' = failed_
    BY <1>2, Zenon DEF AcceptInOrder
  <1> HIDE DEF n
  <1>5. StreamOK' /\ Len(buffer_)' = Len(buffer_) + n /\ Ahead' = Ahead + n
    BY <1>3, <1>4, BufferGrows, Zenon
  <1>6. ListOK(out_of_order_)'
    BY <1>4 DEF LiveState, ListOK
  <1>7. CoverOK'
    <2>1. \A d \in delivered : d < Ahead => d < Ahead + n
      <3>1. \A d \in delivered : d \in Int
        BY DEF Byte
      <3> QED
        BY <1>1, <1>3, <3>1
    <2>2. end = Ahead + n
      BY DEF n
    <2> QED
      BY <1>4, <1>5, <2>1, <2>2 DEF LiveState, CoverOK
  <1>8. BooksOK'
    <2>1. Buffered' = Buffered
      BY <1>4, Zenon DEF Buffered
    <2>2. /\ memory \in Nat /\ Buffered + 1 <= memory
          /\ Len(buffer_) + Buffered <= memory + MaxBytes - 2
      BY DEF LiveState, BooksOK
    <2>3. memory + n <= MaxBytes
      BY DEF n
    <2>4. /\ memory + n \in Nat /\ memory + n <= MaxBytes
          /\ Buffered + 1 <= memory + n /\ Buffered + 2 <= memory + n
          /\ (Len(buffer_) + n) + Buffered <= (memory + n) + MaxBytes - 2
      BY <1>1, <1>3, <2>2, <2>3, Constants
    <2> QED
      BY <1>4, <1>5, <2>1, <2>4, Zenon DEF BooksOK
  <1>9. GapOK' /\ HelloOK'
    BY <1>4 DEF GapOK, HelloOK
  <1> QED
    BY <1>4, <1>5, <1>6, <1>7, <1>8, <1>9 DEF LiveState
\* The list changes, the buffer does not; what is put on the books is buffered.
LEMMA ListChanges ==
  ASSUME LiveState, pc = "idle",
         UNCHANGED <<buffer_, expected_seq_, failed_, base, sni>>,
         pc' \in {"idle", "extract"},
         ListOK(out_of_order_)',
         \A s \in Range(out_of_order_') : s.from > Ahead,
         CoverOK',
         memory' \in Nat, memory' <= MaxBytes, Buffered' \in Nat,
         memory' - Buffered' = memory - Buffered
  PROVE  LiveState'
  <1>1. Ahead' = Ahead /\ (HelloComplete' <=> HelloComplete)
    BY Zenon DEF Ahead, HelloComplete
  <1>2. StreamOK'
    <2>1. StreamOK
      BY DEF LiveState
    <2> QED
      BY <1>1, <2>1, Zenon DEF StreamOK
  <1>3. GapOK'
    BY <1>1, Zenon DEF GapOK
  <1>4. HelloOK'
    BY <1>1 DEF LiveState, HelloOK
  <1>5. BooksOK'
    <2>1. /\ memory \in Nat /\ Buffered + 1 <= memory
          /\ Len(buffer_) + Buffered <= memory + MaxBytes - 2
      BY DEF LiveState, BooksOK
    <2>2. Buffered \in Nat /\ Len(buffer_) \in Nat
      BY LiveFacts, Zenon
    <2>3. /\ Buffered' + 1 <= memory'
          /\ Len(buffer_) + Buffered' <= memory' + MaxBytes - 2
      <3>1. ASSUME NEW m \in Nat, NEW b \in Nat, NEW l \in Nat,
                   NEW mm \in Nat, NEW bb \in Nat,
                   b + 1 <= m, l + b <= m + MaxBytes - 2, mm - bb = m - b
            PROVE  bb + 1 <= mm /\ l + bb <= mm + MaxBytes - 2
        BY <3>1, Constants
      <3> QED
        BY <2>1, <2>2, <3>1, Zenon
    <2>4. pc' # "merge" /\ Len(buffer_)' = Len(buffer_)
      OBVIOUS
    <2> QED
      BY <2>3, <2>4, Zenon DEF BooksOK
  <1>6. base' \in Byte /\ failed_' = FALSE /\ sni' = FALSE
    BY DEF LiveState
  <1> QED
    BY <1>2, <1>3, <1>4, <1>5, <1>6 DEF LiveState

\* A segment after the gap is ignored, replaces another or is inserted.
LEMMA BufferKeepsInvariant ==
  ASSUME LiveState, pc = "idle", delivered \in SUBSET Byte,
         NEW seg, SegmentOK(seg), seg.from > Ahead,
         memory + seg.length <= MaxBytes,
         BufferOutOfOrder(seg), base' = base, sni' = sni,
         UNCHANGED <<buffer_, expected_seq_, failed_>>,
         \A d \in delivered' : \/ d \in delivered
                               \/ /\ d \in Int /\ seg.from <= d
                                  /\ d < seg.from + seg.length
  PROVE  LiveState'
  <1> DEFINE list == out_of_order_
             f == seg.from
             n == LowerBound(seg.seq)
             same == n < Len(list) /\ list[n + 1].seq = seg.seq
  <1>1. /\ ListOK(list) /\ list \in Seq(Segment) /\ Len(list) \in Nat
        /\ DOMAIN list = 1..Len(list)
        /\ \A i \in 1..Len(list) :
              /\ SegmentOK(list[i])
              /\ list[i].from \in 1..StreamLen /\ list[i].length \in 1..StreamLen
    <2>1. ListOK(out_of_order_)
      BY DEF LiveState
    <2> QED
      BY <2>1, ListFacts, Zenon
  <1>2. /\ seg \in Segment /\ f \in 1..(StreamLen + 1)
        /\ seg.length \in 1..StreamLen
        /\ seg.seq = (ISN + f) % Modulus
    <2>1. seg \in Segment /\ f \in 1..StreamLen /\ seg.length \in 1..StreamLen
          /\ seg.seq = (ISN + f) % Modulus
      BY DEF SegmentOK, Segment, Byte
    <2> QED
      BY <2>1, Constants
  <1>3. /\ n \in 0..Len(list)
        /\ \A i \in DOMAIN list : i <= n <=> list[i].from < f
    BY <1>1, <1>2, LowerBoundFinds, Zenon
  <1>4. \/ /\ same
           /\ seg.length <= list[n + 1].length
           /\ pc' = "idle"
           /\ UNCHANGED <<out_of_order_, memory>>
        \/ /\ same
           /\ seg.length > list[n + 1].length
           /\ out_of_order_' = [list EXCEPT ![n + 1] = seg]
           /\ memory' = Recharged(list[n + 1], seg)
           /\ pc' = "extract"
        \/ /\ ~same
           /\ out_of_order_' = InsertAt(list, n, seg)
           /\ memory' = memory + seg.length
           /\ pc' = "extract"
    BY DEF BufferOutOfOrder
  <1> HIDE DEF n
  <1>5. n < Len(list) => n + 1 \in 1..Len(list)
    BY <1>1, <1>3
  <1>6. ASSUME n < Len(list)
        PROVE  list[n + 1].seq = seg.seq <=> list[n + 1].from = f
    <2>1. SegmentOK(list[n + 1]) /\ list[n + 1].from \in 1..StreamLen
      BY <1>1, <1>5, <1>6, Zenon
    <2>2. SeqDiff(list[n + 1].seq, (ISN + f) % Modulus) = list[n + 1].from - f
      BY <1>2, <2>1, SegmentDiff, Zenon
    <2>3. SeqDiff((ISN + f) % Modulus, (ISN + f) % Modulus) = f - f
      BY <1>2, SeqDiffExact, Zenon
    <2>4. ASSUME list[n + 1].seq = seg.seq
          PROVE  list[n + 1].from = f
      <3>1. list[n + 1].from - f = f - f
        BY <1>2, <2>2, <2>3, <2>4, Zenon
      <3> QED
        BY <1>2, <2>1, <3>1, Constants
    <2>5. ASSUME list[n + 1].from = f
          PROVE  list[n + 1].seq = seg.seq
      BY <1>2, <2>1, <2>5, Zenon DEF SegmentOK
    <2> QED
      BY <2>4, <2>5, Zenon
  <1>7. /\ memory \in Nat /\ Buffered \in Nat /\ Buffered + 1 <= memory
        /\ Buffered = Cardinality(Cells(list))
        /\ Ahead \in 2..(StreamLen + 1)
        /\ \A s \in Range(list) : s.from > Ahead
        /\ \A d \in delivered : \/ d < Ahead
                                \/ \E s \in Range(list) :
                                      s.from <= d /\ d < s.from + s.length
    <2>1. Ahead \in 2..(StreamLen + 1) /\ Buffered \in Nat
      BY LiveFacts, Zenon
    <2>2. memory \in Nat /\ Buffered + 1 <= memory
      BY DEF LiveState, BooksOK
    <2>3. \A s \in Range(list) : s.from > Ahead
      BY DEF LiveState, GapOK
    <2>4. CoverOK
      BY DEF LiveState
    <2> QED
      BY <2>1, <2>2, <2>3, <2>4, Zenon DEF CoverOK, Buffered
  <1>8. Ahead' = Ahead
    BY Zenon DEF Ahead
  <1>10. CASE /\ same
              /\ seg.length <= list[n + 1].length
              /\ pc' = "idle"
              /\ UNCHANGED <<out_of_order_, memory>>
    <2>1. n + 1 \in 1..Len(list) /\ list[n + 1].from = f
      BY <1>5, <1>6, <1>10, Zenon
    <2>2. list[n + 1] \in Range(list) /\ list[n + 1].length \in 1..StreamLen
      BY <1>1, <2>1 DEF Range
    <2>3. ASSUME NEW d \in Int, f <= d, d < f + seg.length
          PROVE  list[n + 1].from <= d /\ d < list[n + 1].from + list[n + 1].length
      BY <1>2, <1>10, <2>1, <2>2, <2>3
    <2>4. CoverOK'
      <3>1. \A d \in delivered' : \/ d < Ahead
                                  \/ \E s \in Range(list) :
                                        s.from <= d /\ d < s.from + s.length
        BY <1>7, <2>2, <2>3, Zenon
      <3> QED
        BY <1>8, <1>10, <3>1, Zenon DEF CoverOK
    <2>5. ListOK(out_of_order_)' /\ Buffered' = Buffered
      BY <1>1, <1>10 DEF ListOK, Buffered
    <2>6. /\ memory' = memory /\ pc' \in {"idle", "extract"}
          /\ \A s \in Range(out_of_order_') : s.from > Ahead
      BY <1>7, <1>10
    <2>7. memory <= MaxBytes
      BY DEF LiveState, BooksOK
    <2> QED
      BY <1>7, <2>4, <2>5, <2>6, <2>7, ListChanges
  <1>11. CASE /\ same
              /\ seg.length > list[n + 1].length
              /\ out_of_order_' = [list EXCEPT ![n + 1] = seg]
              /\ memory' = Recharged(list[n + 1], seg)
              /\ pc' = "extract"
    <2> DEFINE k == n + 1
    <2>1. k \in 1..Len(list) /\ list[k].from = f
      BY <1>5, <1>6, <1>11, Zenon
    <2>2. list[k].length \in 1..StreamLen
      BY <1>1, <2>1, Zenon
    <2>a. /\ out_of_order_' = [list EXCEPT ![k] = seg]
          /\ memory' = memory - list[k].length + seg.length
          /\ seg.length > list[k].length
      BY <1>11, Zenon DEF Recharged
    <2> HIDE DEF k
    <2>3. /\ ListOK(out_of_order_')
          /\ Range(out_of_order_') \subseteq Range(list) \cup {seg}
          /\ Range(list) \subseteq Range(out_of_order_') \cup {list[k]}
          /\ seg \in Range(out_of_order_')
      BY <1>1, <2>1, <2>a, ExceptKeepsOrder
    <2>4. /\ Buffered' = Cardinality(Cells(list)) - list[k].length + seg.length
          /\ list[k].length <= Cardinality(Cells(list))
      <3>1. Buffered' = Cardinality(Cells(out_of_order_'))
        BY Zenon DEF Buffered
      <3> QED
        BY <1>1, <1>2, <2>1, <2>a, <3>1, CellsOfExcept
    <2>5. /\ memory' \in Nat /\ memory' <= MaxBytes /\ Buffered' \in Nat
          /\ memory' - Buffered' = memory - Buffered
      BY <1>2, <1>7, <2>2, <2>4, <2>a, Constants
    <2>6. \A s \in Range(out_of_order_') : s.from > Ahead
      BY <1>7, <2>3
    <2>7. ASSUME NEW d, list[k].from <= d, d < list[k].from + list[k].length,
                 d \in Int
          PROVE  seg.from <= d /\ d < seg.from + seg.length
      BY <1>2, <2>1, <2>2, <2>7, <2>a
    <2>8. CoverOK'
      <3> SUFFICES ASSUME NEW d \in delivered'
                   PROVE  \/ d < Ahead
                          \/ \E s \in Range(out_of_order_') :
                                s.from <= d /\ d < s.from + s.length
        BY <1>8, Zenon DEF CoverOK
      <3>1. CASE d \in Int /\ seg.from <= d /\ d < seg.from + seg.length
        BY <2>3, <3>1, Zenon
      <3>2. CASE d \in delivered
        <4>1. d \in Int
          BY <3>2 DEF Byte
        <4>2. ASSUME NEW s \in Range(list), s.from <= d, d < s.from + s.length
              PROVE  \E t \in Range(out_of_order_') :
                        t.from <= d /\ d < t.from + t.length
          <5>1. CASE s = list[k]
            BY <2>3, <2>7, <4>1, <4>2, <5>1, Zenon
          <5>2. CASE s \in Range(out_of_order_')
            BY <4>2, <5>2, Zenon
          <5> QED
            BY <2>3, <5>1, <5>2
        <4> QED
          BY <1>7, <3>2, <4>2, Zenon
      <3> QED
        BY <3>1, <3>2, Zenon
    <2>9. ListOK(out_of_order_)'
      BY <2>3 DEF ListOK
    <2>10. pc' \in {"idle", "extract"}
      BY <1>11
    <2> QED
      BY <2>5, <2>6, <2>8, <2>9, <2>10, ListChanges
  <1>12. CASE /\ ~same
              /\ out_of_order_' = InsertAt(list, n, seg)
              /\ memory' = memory + seg.length
              /\ pc' = "extract"
    <2>1. n < Len(list) => list[n + 1].from # f
      BY <1>6, <1>12, Zenon
    <2>2. /\ ListOK(InsertAt(list, n, seg))
          /\ Range(InsertAt(list, n, seg)) = Range(list) \cup {seg}
      BY <1>1, <1>3, <2>1, InsertAtKeepsOrder, Zenon
    <2>3. /\ ListOK(out_of_order_')
          /\ Range(out_of_order_') = Range(list) \cup {seg}
      BY <1>12, <2>2, Zenon
    <2>4. Buffered' = Buffered + seg.length
      <3>1. Buffered' = Cardinality(Cells(out_of_order_'))
        BY Zenon DEF Buffered
      <3>2. Cardinality(Cells(InsertAt(list, n, seg))) =
               Cardinality(Cells(list)) + seg.length
        BY <1>1, <1>2, <1>3, CellsOfInsertAt, Zenon
      <3> QED
        BY <1>7, <1>12, <3>1, <3>2, Zenon
    <2>5. /\ memory' \in Nat /\ memory' <= MaxBytes /\ Buffered' \in Nat
          /\ memory' - Buffered' = memory - Buffered
      <3>1. memory' = memory + seg.length /\ memory \in Nat /\ Buffered \in Nat
        BY <1>7, <1>12, Zenon
      <3> QED
        BY <1>2, <2>4, <3>1, Constants
    <2>6. \A s \in Range(out_of_order_') : s.from > Ahead
      BY <1>7, <2>3
    <2>7. CoverOK'
      <3>1. \A d \in delivered' : \/ d < Ahead
                                  \/ \E s \in Range(out_of_order_') :
                                        s.from <= d /\ d < s.from + s.length
        BY <1>7, <2>3
      <3> QED
        BY <1>8, <3>1, Zenon DEF CoverOK
    <2>8. ListOK(out_of_order_)'
      BY <2>3 DEF ListOK
    <2>9. pc' \in {"idle", "extract"}
      BY <1>12
    <2> QED
      BY <2>5, <2>6, <2>7, <2>8, <2>9, ListChanges
  <1> QED
    BY <1>4, <1>10, <1>11, <1>12, Zenon
\* The first call takes its segment's number for the expected one.
LEMMA FirstCallKeepsInvariant ==
  ASSUME NewState, NEW from \in Byte, NEW length \in 1..(StreamLen - from + 1),
         Receive(from, length)
  PROVE  EndedState' \/ LiveState'
  <1> DEFINE seq == (ISN + from) % Modulus
             expected == IF expected_seq_ = -1 THEN seq ELSE expected_seq_
             diff == SeqDiff(seq, expected)
             overlap == IF diff < 0 THEN -diff ELSE 0
             seg == Trimmed([seq |-> seq, from |-> from, length |-> length], overlap)
  <1>1. /\ from \in 1..(StreamLen + 1) /\ from \in Nat /\ length \in Nat
        /\ length >= 1 /\ from + length <= StreamLen + 1
    BY Constants DEF Byte
  <1>2. /\ buffer_ = <<>> /\ out_of_order_ = <<>> /\ memory = 0
        /\ expected_seq_ = -1 /\ pc = "idle" /\ delivered = {}
        /\ failed_ = FALSE /\ sni = FALSE
    BY DEF NewState, Empty
  <1>3. expected = seq /\ seq \in SeqNo
    <2>1. ISN + from \in Int
      BY <1>1, Constants
    <2>2. seq \in SeqNo
      BY <2>1, RemainderType, Zenon
    <2> QED
      BY <1>2, <2>2, Zenon
  <1>d. diff = 0
    <2>1. SeqDiff((ISN + from) % Modulus, (ISN + from) % Modulus) = from - from
      BY <1>1, SeqDiffExact, Zenon
    <2>2. diff = from - from
      BY <1>3, <2>1, Zenon
    <2> HIDE DEF diff
    <2> QED
      BY <1>1, <2>2
  <1>4. overlap = 0
    <2> HIDE DEF diff
    <2> QED
      BY <1>d
  <1>5. /\ base' = from
        /\ delivered' = delivered \cup (from..(from + length - 1))
        /\ sni' = sni
        /\ \/ /\ overlap >= length
              /\ UNCHANGED <<buffer_, expected_seq_, out_of_order_, memory, failed_, pc>>
           \/ /\ GiveUp
              /\ expected_seq_' = expected
              /\ UNCHANGED pc
           \/ /\ ~ExceedsLimit(seg.length)
              /\ AcceptInOrder(seg)
           \/ /\ diff > 0
    BY <1>2 DEF Receive
  <1>6. ~(diff > 0)
    <2> HIDE DEF diff
    <2> QED
      BY <1>d
  <1>7. ~(overlap >= length)
    <2> HIDE DEF overlap
    <2> QED
      BY <1>1, <1>4
  <1>8. /\ seg.from = from + overlap /\ seg.length = length - overlap
        /\ seg.seq = (seq + overlap) % Modulus
    BY DEF Trimmed
  <1> HIDE DEF expected, diff, overlap, seg
  <1>9. /\ seg.from = from /\ seg.length = length
        /\ seg.seq = (ISN + (from + 0)) % Modulus
    <2>1. (((ISN + from) % Modulus) + 0) % Modulus = (ISN + (from + 0)) % Modulus
      <3>1. from + 0 <= StreamLen + 1 /\ 0 \in Nat
        BY <1>1, Constants
      <3> QED
        BY <1>1, <3>1, NextNumber, Zenon
    <2>2. seg.from = from /\ seg.length = length
      BY <1>1, <1>4, <1>8
    <2> QED
      BY <1>4, <1>8, <2>1, <2>2, Zenon
  <1> HIDE DEF seq
  <1>10. CASE GiveUp /\ expected_seq_' = expected /\ UNCHANGED pc
    BY <1>2, <1>3, <1>5, <1>10 DEF GiveUp, Clear, EndedState, Empty
  <1>11. CASE ~ExceedsLimit(seg.length) /\ AcceptInOrder(seg)
    <2>1. /\ buffer_' = buffer_ \o Bytes(from, from + length - 1)
          /\ memory' = memory + length
          /\ expected_seq_' = (((ISN + (from + 0)) % Modulus) + length) % Modulus
          /\ pc' = "merge" /\ out_of_order_' = out_of_order_ /\ failed_' = failed_
      BY <1>9, <1>11, Zenon DEF AcceptInOrder
    <2> DEFINE b == Bytes(from, from + length - 1)
    <2>2. b \in Seq(Byte) /\ Len(b) = length
      BY <1>1, BytesAre, Zenon
    <2>b. buffer_ \o b = b
      <3> HIDE DEF b
      <3> QED
        BY <1>2, <2>2, ConcatEmptySeq, Zenon
    <2>c. buffer_' = b
      BY <2>1, <2>b, Zenon
    <2>3. Len(buffer_)' = length /\ Ahead' = from + length
      BY <1>5, <2>2, <2>c, Zenon DEF Ahead
    <2>4. expected_seq_' = (ISN + (from + length)) % Modulus
      <3>1. from + 0 \in Nat /\ (from + 0) + length <= StreamLen + 1
            /\ (from + 0) + length = from + length
        BY <1>1, Constants
      <3>2. (((ISN + (from + 0)) % Modulus) + length) % Modulus
              = (ISN + ((from + 0) + length)) % Modulus
        BY <1>1, <3>1, NextNumber, Zenon
      <3> QED
        BY <2>1, <3>1, <3>2, Zenon
    <2>5. StreamOK'
      <3>1. (from + length) - 1 = from + length - 1
        BY <1>1
      <3>2. buffer_' = Bytes(base', Ahead' - 1)
        BY <1>5, <2>3, <2>c, <3>1, Zenon
      <3>3. expected_seq_' = (ISN + Ahead') % Modulus
        BY <2>3, <2>4, Zenon
      <3> QED
        BY <1>1, <2>3, <3>2, <3>3, Zenon DEF StreamOK
    <2>6. out_of_order_' = <<>> /\ Range(out_of_order_') = {}
      BY <1>2, <2>1 DEF Range
    <2>7. ListOK(out_of_order_)'
      BY <2>6 DEF ListOK
    <2>8. CoverOK'
      <3>1. \A d \in from..(from + length - 1) : d < from + length
        BY <1>1
      <3> QED
        BY <1>2, <1>5, <2>3, <3>1 DEF CoverOK
    <2>9. Buffered' = 0
      <3>1. Cells(out_of_order_') = {}
        BY <2>6 DEF Cells
      <3> QED
        BY <3>1, FS_EmptySet, Zenon DEF Buffered
    <2>10. BooksOK'
      <3>1. memory' = length /\ length <= MaxBytes
        BY <1>1, <1>2, <1>9, <1>11, <2>1, Constants DEF ExceedsLimit
      <3>2. /\ 0 + 1 <= length
            /\ length + 0 <= length + MaxBytes - 2
        BY <1>1, Constants
      <3> QED
        BY <1>1, <2>3, <2>6, <2>9, <3>1, <3>2, Zenon DEF BooksOK
    <2>11. GapOK' /\ HelloOK'
      BY <2>1 DEF GapOK, HelloOK
    <2> QED
      BY <1>2, <1>5, <2>1, <2>5, <2>7, <2>8, <2>10, <2>11 DEF LiveState
  <1> QED
    BY <1>5, <1>6, <1>7, <1>10, <1>11, Zenon

\* A call with any segment of the stream.
LEMMA ReceiveKeepsInvariant ==
  ASSUME IInv, NEW from \in Byte, NEW length \in 1..(StreamLen - from + 1),
         Receive(from, length)
  PROVE  IInv'
  <1>1. /\ pc = "idle" /\ ~failed_ /\ ~sni /\ sni' = sni
        /\ base' = IF expected_seq_ = -1 THEN from ELSE base
        /\ delivered' = delivered \cup (from..(from + length - 1))
    BY DEF Receive
  <1>2. /\ from \in Nat /\ length \in Nat /\ length >= 1
        /\ from + length <= StreamLen + 1
    BY Constants DEF Byte
  <1>3. delivered \in SUBSET Byte /\ delivered' \in SUBSET Byte
    <2>1. delivered \in SUBSET Byte
      BY DEF IInv
    <2>2. from..(from + length - 1) \subseteq Byte
      BY <1>2, Constants DEF Byte
    <2> QED
      BY <1>1, <2>1, <2>2
  <1>4. ~EndedState
    BY <1>1 DEF EndedState
  <1>5. CASE NewState
    BY <1>3, <1>5, FirstCallKeepsInvariant, Zenon DEF IInv
  <1>6. CASE LiveState
    <2>1. base' = base /\ Ahead \in 2..(StreamLen + 1)
      BY <1>1, <1>6, LiveFacts, Zenon
    <2>2. \A d \in from..(from + length - 1) :
             d \in Int /\ from <= d /\ d < from + length
      BY <1>2
    <2>3. CASE /\ from + length <= Ahead
               /\ UNCHANGED <<buffer_, expected_seq_, out_of_order_, memory,
                              failed_, pc>>
      <3>1. Ahead' = Ahead /\ Buffered' = Buffered
            /\ (HelloComplete' <=> HelloComplete)
        BY <2>1, <2>3 DEF Ahead, Buffered, HelloComplete
      <3>2. CoverOK'
        <4>1. \A d \in from..(from + length - 1) : d < Ahead
          BY <1>2, <2>1, <2>3
        <4> QED
          BY <1>1, <1>6, <2>3, <3>1, <4>1 DEF LiveState, CoverOK
      <3>3. StreamOK' /\ ListOK(out_of_order_)' /\ GapOK' /\ HelloOK' /\ BooksOK'
        <4>1. StreamOK'
          BY <1>6, <2>1, <2>3, <3>1, Zenon DEF LiveState, StreamOK
        <4>2. ListOK(out_of_order_)'
          BY <1>6, <2>3 DEF LiveState, ListOK
        <4>3. GapOK' /\ HelloOK'
          BY <1>6, <2>3, <3>1, Zenon DEF LiveState, GapOK, HelloOK
        <4>4. BooksOK'
          BY <1>6, <2>3, <3>1, Zenon DEF LiveState, BooksOK
        <4> QED
          BY <4>1, <4>2, <4>3, <4>4, Zenon
      <3>4. LiveState'
        BY <1>1, <1>6, <2>1, <2>3, <3>2, <3>3 DEF LiveState
      <3> QED
        BY <1>3, <3>4, Zenon DEF IInv
    <2>4. CASE GiveUp /\ expected_seq_' = expected_seq_ /\ UNCHANGED pc
      <3>1. expected_seq_ \in SeqNo /\ base \in Byte
        BY <1>6, LiveFacts, Zenon DEF LiveState
      <3>2. EndedState'
        BY <1>1, <2>1, <2>4, <3>1, <1>6
           DEF GiveUp, Clear, EndedState, Empty, LiveState
      <3> QED
        BY <1>3, <3>2, Zenon DEF IInv
    <2>5. CASE \E seg : /\ SegmentOK(seg)
                        /\ seg.from = Ahead
                        /\ Ahead + seg.length = from + length
                        /\ memory + seg.length <= MaxBytes
                        /\ AcceptInOrder(seg)
      <3>1. PICK seg : /\ SegmentOK(seg)
                       /\ seg.from = Ahead
                       /\ Ahead + seg.length = from + length
                       /\ memory + seg.length <= MaxBytes
                       /\ AcceptInOrder(seg)
        BY <2>5, Zenon
      <3>2. /\ from + length \in Int
            /\ \A d \in delivered' : d \in delivered \/ d < from + length
        BY <1>1, <1>2, <2>2
      <3>3. LiveState'
        BY <1>1, <1>3, <1>6, <2>1, <3>1, <3>2, AcceptKeepsInvariant, Zenon
      <3> QED
        BY <1>3, <3>3, Zenon DEF IInv
    <2>6. CASE \E seg : /\ SegmentOK(seg)
                        /\ seg.from = from /\ seg.length = length
                        /\ from > Ahead
                        /\ memory + seg.length <= MaxBytes
                        /\ BufferOutOfOrder(seg)
                        /\ UNCHANGED <<buffer_, expected_seq_, failed_>>
      <3>1. PICK seg : /\ SegmentOK(seg)
                       /\ seg.from = from /\ seg.length = length
                       /\ from > Ahead
                       /\ memory + seg.length <= MaxBytes
                       /\ BufferOutOfOrder(seg)
                       /\ UNCHANGED <<buffer_, expected_seq_, failed_>>
        BY <2>6, Zenon
      <3>2. \A d \in delivered' : \/ d \in delivered
                                  \/ /\ d \in Int /\ seg.from <= d
                                     /\ d < seg.from + seg.length
        BY <1>1, <2>2, <3>1
      <3>3. LiveState'
        BY <1>1, <1>3, <1>6, <2>1, <3>1, <3>2, BufferKeepsInvariant, Zenon
      <3> QED
        BY <1>3, <3>3, Zenon DEF IInv
    <2> QED
      BY <1>6, <2>3, <2>4, <2>5, <2>6, ReceiveCases, Zenon
  <1> QED
    BY <1>4, <1>5, <1>6 DEF IInv
\* How far the front segment reaches back, and where it ends.
LEMMA FrontFacts ==
  ASSUME LiveState, out_of_order_ # <<>>
  PROVE  /\ SegmentOK(Front) /\ Front \in Range(out_of_order_)
         /\ Front.from \in 1..StreamLen /\ Front.length \in 1..StreamLen
         /\ Front.from + Front.length <= StreamLen + 1
         /\ Behind = -(Front.from - Ahead)
         /\ \A s \in Range(out_of_order_) : s.from \in Int /\ Front.from <= s.from
  <1> DEFINE list == out_of_order_
  <1>1. /\ list \in Seq(Segment) /\ Len(list) \in Nat /\ DOMAIN list = 1..Len(list)
        /\ \A i \in 1..Len(list) :
              /\ SegmentOK(list[i])
              /\ list[i].from \in 1..StreamLen /\ list[i].length \in 1..StreamLen
        /\ \A i, j \in 1..Len(list) : i < j => list[i].from < list[j].from
    <2>1. ListOK(out_of_order_)
      BY DEF LiveState
    <2> QED
      BY <2>1, ListFacts, Zenon
  <1>2. 1 \in 1..Len(list)
    <2>1. Len(list) # 0
      BY <1>1, EmptySeq
    <2> QED
      BY <1>1, <2>1
  <1>3. /\ SegmentOK(Front) /\ Front \in Range(list)
        /\ Front.from \in 1..StreamLen /\ Front.length \in 1..StreamLen
    BY <1>1, <1>2 DEF Front, Range
  <1>4. Front.from + Front.length <= StreamLen + 1
    BY <1>3 DEF SegmentOK
  <1>5. Behind = -(Front.from - Ahead)
    <2>1. expected_seq_ = (ISN + Ahead) % Modulus /\ Ahead \in 2..(StreamLen + 1)
      BY LiveFacts, Zenon
    <2>2. Ahead \in 1..(StreamLen + 1)
      BY <2>1, Constants
    <2>3. SeqDiff(Front.seq, (ISN + Ahead) % Modulus) = Front.from - Ahead
      BY <1>3, <2>2, SegmentDiff, Zenon
    <2> QED
      BY <2>1, <2>3, Zenon DEF Behind
  <1>6. ASSUME NEW s \in Range(list)
        PROVE  s.from \in Int /\ Front.from <= s.from
    <2>1. PICK i \in 1..Len(list) : s = list[i]
      BY <1>1, Zenon DEF Range
    <2>2. i = 1 \/ 1 < i
      BY <1>1
    <2>3. i = 1 \/ list[1].from < list[i].from
      BY <1>1, <1>2, <2>2
    <2>4. list[i].from \in 1..StreamLen /\ list[1].from \in 1..StreamLen
      BY <1>1, <1>2, Zenon
    <2>5. list[i].from \in Int /\ list[1].from <= list[i].from
      BY <2>3, <2>4, Constants
    <2> QED
      BY <2>1, <2>5, Zenon DEF Front
  <1> QED
    BY <1>3, <1>4, <1>5, <1>6, Zenon

\* One iteration of mergeOutOfOrder.
LEMMA MergeFrontKeepsInvariant ==
  ASSUME LiveState, delivered \in SUBSET Byte, MergeFront
  PROVE  LiveState'
  <1> DEFINE n == Front.length - Behind
             l == Front.length
             end == Front.from + l
             tail == Tail(out_of_order_)
  <1>1. /\ pc = "merge" /\ pc' = "merge" /\ out_of_order_ # <<>> /\ Behind >= 0
        /\ \/ /\ Behind < Front.length
              /\ MergeFits
              /\ buffer_' = buffer_ \o Bytes(Front.from + Behind,
                                             Front.from + Front.length - 1)
              /\ expected_seq_' = (expected_seq_ + Front.length - Behind) % Modulus
           \/ /\ Behind >= Front.length
              /\ UNCHANGED <<buffer_, expected_seq_>>
        /\ out_of_order_' = tail
        /\ memory' = memory - l
        /\ failed_' = failed_ /\ sni' = sni /\ base' = base
        /\ delivered' = delivered
    BY DEF MergeFront, CanMerge
  <1>2. /\ Ahead \in 2..(StreamLen + 1) /\ Len(buffer_) \in Nat /\ Buffered \in Nat
        /\ out_of_order_ \in Seq(Segment) /\ ListOK(out_of_order_)
    BY LiveFacts, Zenon DEF LiveState
  <1>3. /\ Front.from \in 1..StreamLen /\ l \in 1..StreamLen
        /\ end <= StreamLen + 1 /\ Behind = -(Front.from - Ahead)
    BY <1>1, FrontFacts, Zenon
  <1>4. /\ Behind \in Nat /\ Front.from + Behind = Ahead /\ n \in Int
        /\ Ahead + n = end
    <2>1. Ahead \in Int /\ Behind >= 0
      BY <1>1, <1>2
    <2>2. Behind \in Int /\ Behind = Ahead - Front.from
      BY <1>3, <2>1, Constants
    <2>3. l \in Int /\ Front.from \in Int
      BY <1>3, Constants
    <2> DEFINE f == Front.from
               h == Behind
    <2> HIDE DEF l, f, h
    <2>4. ASSUME h \in Int, h >= 0, h = Ahead - f, f \in Int, l \in Int, Ahead \in Int
          PROVE  /\ h \in Nat /\ f + h = Ahead /\ l - h \in Int
                 /\ Ahead + (l - h) = f + l
      BY <2>4
    <2>5. /\ h \in Nat /\ f + h = Ahead /\ l - h \in Int
          /\ Ahead + (l - h) = f + l
      BY <2>1, <2>2, <2>3, <2>4, Zenon DEF f, h
    <2> QED
      BY <2>5, Zenon DEF l, f, h
  <1>5. /\ ListOK(out_of_order_')
        /\ Range(out_of_order_) = Range(out_of_order_') \cup {Front}
    <2>1. ListOK(tail) /\ Range(out_of_order_) = Range(tail) \cup {out_of_order_[1]}
      BY <1>1, <1>2, TailKeepsOrder, Zenon
    <2> QED
      BY <1>1, <2>1, Zenon DEF Front
  <1>6. Buffered = Buffered' + l /\ Buffered' \in Nat
    <2>1. Cardinality(Cells(out_of_order_)) =
             Cardinality(Cells(tail)) + out_of_order_[1].length
      BY <1>1, <1>2, CellsOfTail, Zenon
    <2>2. tail \in Seq(Segment)
      BY <1>1, <1>2, HeadTailProperties, Zenon
    <2>3. Cardinality(Cells(tail)) \in Nat
      BY <2>2, CellsFinite, Zenon
    <2>4. Buffered' = Cardinality(Cells(tail))
      BY <1>1, Zenon DEF Buffered
    <2> QED
      BY <2>1, <2>3, <2>4, Zenon DEF Buffered, Front
  <1>7. /\ memory \in Nat /\ memory <= MaxBytes /\ Buffered + 2 <= memory
        /\ Len(buffer_) + Buffered <= memory + MaxBytes - 2
    BY <1>1 DEF LiveState, BooksOK
  <1> HIDE DEF tail
  <1>8. /\ StreamOK' /\ Ahead' \in Int /\ Ahead <= Ahead' /\ end <= Ahead'
        /\ Len(buffer_)' \in Nat
        /\ Len(buffer_)' <= MaxBytes \/ Len(buffer_)' = Len(buffer_)
    <2>1. CASE /\ Behind < Front.length
               /\ MergeFits
               /\ buffer_' = buffer_ \o Bytes(Front.from + Behind,
                                              Front.from + Front.length - 1)
               /\ expected_seq_' = (expected_seq_ + Front.length - Behind) % Modulus
      <3>1. n \in Nat /\ n >= 1 /\ Ahead + n <= StreamLen + 1
        <4>1. Front.length \in Int /\ Behind \in Int /\ Behind < Front.length
          BY <1>3, <1>4, <2>1
        <4>2. n \in Nat /\ n >= 1
          BY <4>1
        <4>3. Ahead + n <= StreamLen + 1
          BY <1>3, <1>4, Zenon
        <4> QED
          BY <4>2, <4>3
      <3>2. buffer_' = buffer_ \o Bytes(Ahead, Ahead + n - 1)
        <4>1. Ahead \in Int /\ Front.from \in Int /\ l \in Int
          BY <1>2, <1>3
        <4>2. n \in Int /\ Ahead + n = Front.from + l
          BY <1>4
        <4> HIDE DEF n, l
        <4>3. Front.from + l - 1 = Ahead + n - 1
          BY <4>1, <4>2
        <4>4. Front.from + Front.length - 1 = Ahead + n - 1
          BY <4>3 DEF l
        <4> QED
          BY <1>4, <2>1, <4>4, Zenon
      <3>3. expected_seq_' = (expected_seq_ + n) % Modulus
        <4>1. expected_seq_ \in Int
          <5>1. expected_seq_ \in 0..(Modulus - 1)
            BY LiveFacts, Zenon DEF SeqNo
          <5> QED
            BY <5>1, Constants
        <4>2. expected_seq_ + Front.length - Behind = expected_seq_ + n
          BY <1>3, <1>4, <4>1
        <4> QED
          BY <2>1, <4>2, Zenon
      <3>f. Len(buffer_) + n <= MaxBytes
        <4>1. Len(buffer_) + Front.length - Behind <= MaxBytes
          BY <2>1 DEF MergeFits
        <4> QED
          BY <1>2, <1>3, <1>4, <4>1, Constants
      <3> HIDE DEF n
      <3>4. StreamOK' /\ Len(buffer_)' = Len(buffer_) + n /\ Ahead' = Ahead + n
        BY <1>1, <3>1, <3>2, <3>3, BufferGrows, Zenon
      <3>5. /\ Ahead' \in Int /\ Ahead <= Ahead' /\ end <= Ahead'
            /\ Len(buffer_)' \in Nat /\ Len(buffer_)' <= MaxBytes
        <4> HIDE DEF end
        <4>1. /\ Ahead + n \in Int /\ Ahead <= Ahead + n /\ end <= Ahead + n
              /\ Len(buffer_) + n \in Nat
          <5>1. Ahead + n \in Int /\ Ahead <= Ahead + n /\ Len(buffer_) + n \in Nat
            BY <1>2, <3>1
          <5>2. end <= Ahead + n
            BY <1>2, <1>4, <3>1
          <5> QED
            BY <5>1, <5>2
        <4> QED
          BY <3>4, <3>f, <4>1, Zenon
      <3> QED
        BY <3>4, <3>5, Zenon
    <2>2. CASE Behind >= Front.length /\ UNCHANGED <<buffer_, expected_seq_>>
      <3>1. Ahead' = Ahead /\ Len(buffer_)' = Len(buffer_)
        BY <1>1, <2>2 DEF Ahead
      <3>2. StreamOK'
        BY <1>1, <2>2, <3>1, Zenon DEF LiveState, StreamOK
      <3>3. end <= Ahead /\ Ahead \in Int /\ Ahead <= Ahead
        BY <1>2, <1>3, <1>4, <2>2
      <3> QED
        BY <1>2, <3>1, <3>2, <3>3, Zenon
    <2> QED
      BY <1>1, <2>1, <2>2, Zenon
  <1>9. CoverOK'
    <2> SUFFICES ASSUME NEW d \in delivered
                 PROVE  \/ d < Ahead'
                        \/ \E s \in Range(out_of_order_') :
                              s.from <= d /\ d < s.from + s.length
      BY <1>1, Zenon DEF CoverOK
    <2>1. d \in Int
      BY DEF Byte
    <2>2. CASE d < Ahead
      <3>1. d < Ahead'
        BY <1>2, <1>8, <2>1, <2>2
      <3> QED
        BY <3>1
    <2>3. CASE \E s \in Range(out_of_order_) : s.from <= d /\ d < s.from + s.length
      <3>1. PICK s \in Range(out_of_order_) : s.from <= d /\ d < s.from + s.length
        BY <2>3, Zenon
      <3>2. CASE s = Front
        <4>1. d < end
          BY <3>1, <3>2, Zenon
        <4>2. end \in Int
          BY <1>3
        <4> HIDE DEF end
        <4>3. d < Ahead'
          BY <1>8, <2>1, <4>1, <4>2
        <4> QED
          BY <4>3
      <3>3. CASE s \in Range(out_of_order_')
        BY <3>1, <3>3, Zenon
      <3> QED
        BY <1>5, <3>2, <3>3
    <2> QED
      BY <2>2, <2>3, Zenon DEF LiveState, CoverOK
  <1>10. BooksOK'
    <2> HIDE DEF l
    <2>1. /\ memory - l \in Nat /\ memory - l <= MaxBytes
          /\ Buffered' + 1 <= memory - l /\ Buffered' + 2 <= memory - l
          /\ Len(buffer_)' + Buffered' <= (memory - l) + MaxBytes - 2
      <3>1. ASSUME NEW m \in Nat, NEW b \in Nat, NEW k \in 1..StreamLen,
                   NEW o \in Nat, NEW p \in Nat,
                   m <= MaxBytes, (b + k) + 2 <= m,
                   o + (b + k) <= m + MaxBytes - 2,
                   p <= MaxBytes \/ p = o
            PROVE  /\ m - k \in Nat /\ m - k <= MaxBytes
                   /\ b + 1 <= m - k /\ b + 2 <= m - k
                   /\ p + b <= (m - k) + MaxBytes - 2
        BY <3>1, Constants
      <3> QED
        BY <1>2, <1>3, <1>6, <1>7, <1>8, <3>1, Zenon
    <2> QED
      BY <1>1, <2>1, Zenon DEF BooksOK
  <1>11. ListOK(out_of_order_)' /\ GapOK' /\ HelloOK'
    BY <1>1, <1>5 DEF ListOK, GapOK, HelloOK
  <1>12. base' \in Byte /\ failed_' = FALSE /\ sni' = FALSE
    BY <1>1 DEF LiveState
  <1> QED
    BY <1>1, <1>8, <1>9, <1>10, <1>11, <1>12 DEF LiveState

\* The loop ends before a gap.
LEMMA MergeEndKeepsInvariant ==
  ASSUME LiveState, MergeEnd
  PROVE  LiveState'
  <1>1. /\ pc' = "extract" /\ ~CanMerge
        /\ UNCHANGED <<buffer_, expected_seq_, out_of_order_, memory, failed_, sni,
                       base, delivered>>
    BY DEF MergeEnd
  <1>2. Ahead' = Ahead /\ Buffered' = Buffered
    BY <1>1 DEF Ahead, Buffered
  <1>3. Ahead \in 2..(StreamLen + 1)
    BY LiveFacts, Zenon
  <1>4. GapOK'
    <2>1. CASE out_of_order_ = <<>>
      <3>1. Range(out_of_order_') = {}
        BY <1>1, <2>1 DEF Range
      <3> QED
        BY <3>1, Zenon DEF GapOK
    <2>2. CASE out_of_order_ # <<>>
      <3>1. /\ Front.from \in 1..StreamLen /\ Behind = -(Front.from - Ahead)
            /\ \A s \in Range(out_of_order_) : s.from \in Int /\ Front.from <= s.from
        BY <2>2, FrontFacts, Zenon
      <3>2. ~(Behind >= 0)
        BY <1>1, <2>2 DEF CanMerge
      <3>3. Front.from > Ahead
        BY <1>3, <3>1, <3>2
      <3>4. \A s \in Range(out_of_order_) : s.from > Ahead
        BY <1>3, <3>1, <3>3
      <3> QED
        BY <1>1, <1>2, <3>4, Zenon DEF GapOK
    <2> QED
      BY <2>1, <2>2
  <1>5. StreamOK' /\ CoverOK'
    BY <1>1, <1>2, Zenon DEF LiveState, StreamOK, CoverOK
  <1>6. ListOK(out_of_order_)' /\ HelloOK'
    BY <1>1 DEF LiveState, ListOK, HelloOK
  <1>7. BooksOK'
    BY <1>1, <1>2 DEF LiveState, BooksOK
  <1> QED
    BY <1>1, <1>4, <1>5, <1>6, <1>7 DEF LiveState

\* The buffer begins with the first byte that came.
LEMMA FirstByteAtFront ==
  ASSUME LiveState
  PROVE  buffer_ # <<>> /\ buffer_[1] = base
  <1>1. /\ Len(buffer_) \in Nat /\ Len(buffer_) >= 1
        /\ Ahead = base + Len(buffer_) /\ Ahead \in 2..(StreamLen + 1)
    BY LiveFacts, Zenon
  <1> DEFINE m == Len(buffer_)
             b == Bytes(base, base + m - 1)
  <1>2. m \in Nat /\ m >= 1 /\ base \in Byte /\ base + m <= StreamLen + 1
    BY <1>1, Constants DEF LiveState, Byte
  <1>3. buffer_ = Bytes(base, Ahead - 1) /\ Ahead = base + m
    BY <1>1 DEF LiveState, StreamOK
  <1> HIDE DEF m
  <1>4. Len(b) = m /\ \A i \in 1..m : b[i] = base + i - 1
    BY <1>2, BytesAre, Zenon
  <1>5. Ahead - 1 = base + m - 1
    BY <1>2, <1>3 DEF Byte
  <1>6. buffer_ = b
    BY <1>3, <1>5, Zenon
  <1> HIDE DEF b
  <1>7. b[1] = base
    BY <1>2, <1>4 DEF Byte
  <1>8. b # <<>>
    BY <1>2, <1>4
  <1> QED
    BY <1>6, <1>7, <1>8, Zenon

\* The end of the call: the name is found, or the direction stays live.
LEMMA ExtractKeepsInvariant ==
  ASSUME LiveState, Extract
  PROVE  EndedState' \/ LiveState'
  <1>1. /\ pc = "extract" /\ pc' = "idle"
        /\ UNCHANGED <<expected_seq_, failed_, base, delivered>>
    BY DEF Extract
  <1>2. CASE HelloComplete /\ sni' = TRUE /\ Clear
    <2>1. expected_seq_ \in SeqNo /\ base \in Byte /\ failed_ = FALSE
      BY LiveFacts, Zenon DEF LiveState
    <2>2. base = 1
      BY <1>2, FirstByteAtFront, Zenon DEF HelloComplete
    <2> QED
      BY <1>1, <1>2, <2>1, <2>2 DEF Clear, EndedState, Empty
  <1>3. CASE ~HelloComplete /\ UNCHANGED <<sni, buffer_, out_of_order_, memory>>
    <2>1. /\ Ahead' = Ahead /\ Buffered' = Buffered
          /\ (HelloComplete' <=> HelloComplete)
      BY <1>1, <1>3 DEF Ahead, Buffered, HelloComplete
    <2>2. StreamOK' /\ CoverOK'
      BY <1>1, <1>3, <2>1, Zenon DEF LiveState, StreamOK, CoverOK
    <2>3. ListOK(out_of_order_)'
      BY <1>3 DEF LiveState, ListOK
    <2>4. GapOK' /\ HelloOK'
      BY <1>1, <1>3, <2>1 DEF LiveState, GapOK, HelloOK
    <2>5. BooksOK'
      BY <1>1, <1>3, <2>1 DEF LiveState, BooksOK
    <2> QED
      BY <1>1, <1>3, <2>2, <2>3, <2>4, <2>5 DEF LiveState
  <1> QED
    BY <1>2, <1>3 DEF Extract
LEMMA InitEstablishesInvariant == Init => IInv
  BY DEF Init, IInv, NewState, Empty

\* Every step of the specification keeps the invariant.
LEMMA NextKeepsInvariant ==
  ASSUME IInv, [Next]_vars
  PROVE  IInv'
  <1>0. delivered \in SUBSET Byte
    BY DEF IInv
  <1>1. ASSUME NEW from \in Byte, NEW length \in 1..(StreamLen - from + 1),
               Receive(from, length)
        PROVE  IInv'
    BY <1>1, ReceiveKeepsInvariant, Zenon
  <1>2. CASE MergeFront
    <2>1. pc = "merge" /\ delivered' = delivered
      BY <1>2 DEF MergeFront
    <2>2. LiveState
      BY <2>1 DEF IInv, NewState, EndedState
    <2>3. LiveState'
      BY <1>0, <1>2, <2>2, MergeFrontKeepsInvariant, Zenon
    <2> QED
      BY <1>0, <2>1, <2>3 DEF IInv
  <1>3. CASE MergeExceedsLimit
    <2>1. /\ pc = "merge" /\ delivered' = delivered /\ pc' = "extract" /\ GiveUp
          /\ UNCHANGED <<expected_seq_, sni, base>>
      BY <1>3 DEF MergeExceedsLimit
    <2>2. LiveState
      BY <2>1 DEF IInv, NewState, EndedState
    <2>3. expected_seq_ \in SeqNo /\ base \in Byte /\ sni = FALSE
      BY <2>2, LiveFacts, Zenon DEF LiveState
    <2>4. EndedState'
      BY <2>1, <2>3 DEF GiveUp, Clear, EndedState, Empty
    <2> QED
      BY <1>0, <2>1, <2>4 DEF IInv
  <1>4. CASE MergeEnd
    <2>1. pc = "merge" /\ delivered' = delivered
      BY <1>4 DEF MergeEnd
    <2>2. LiveState
      BY <2>1 DEF IInv, NewState, EndedState
    <2>3. LiveState'
      BY <1>4, <2>2, MergeEndKeepsInvariant, Zenon
    <2> QED
      BY <1>0, <2>1, <2>3 DEF IInv
  <1>5. CASE Extract
    <2>1. pc = "extract" /\ delivered' = delivered
      BY <1>5 DEF Extract
    <2>2. CASE LiveState
      <3>1. EndedState' \/ LiveState'
        BY <1>5, <2>2, ExtractKeepsInvariant, Zenon
      <3> QED
        BY <1>0, <2>1, <3>1 DEF IInv
    <2>3. CASE EndedState
      <3>1. EndedState'
        BY <1>5, <2>3 DEF Extract, HelloComplete, EndedState, Empty
      <3> QED
        BY <1>0, <2>1, <3>1 DEF IInv
    <2> QED
      BY <2>1, <2>2, <2>3 DEF IInv, NewState
  <1>6. CASE UNCHANGED vars
    <2>1. Ahead' = Ahead /\ Buffered' = Buffered /\ (HelloComplete' <=> HelloComplete)
      BY <1>6 DEF vars, Ahead, Buffered, HelloComplete
    <2>2. CASE NewState
      BY <1>0, <1>6, <2>2 DEF vars, IInv, NewState, Empty
    <2>3. CASE EndedState
      BY <1>0, <1>6, <2>3 DEF vars, IInv, EndedState, Empty
    <2>4. CASE LiveState
      <3>1. StreamOK' /\ CoverOK'
        BY <1>6, <2>1, <2>4, Zenon DEF vars, LiveState, StreamOK, CoverOK
      <3>2. ListOK(out_of_order_)'
        BY <1>6, <2>4 DEF vars, LiveState, ListOK
      <3>3. GapOK' /\ HelloOK'
        BY <1>6, <2>1, <2>4 DEF vars, LiveState, GapOK, HelloOK
      <3>4. BooksOK'
        BY <1>6, <2>1, <2>4 DEF vars, LiveState, BooksOK
      <3>5. LiveState'
        BY <1>6, <2>4, <3>1, <3>2, <3>3, <3>4 DEF vars, LiveState
      <3> QED
        BY <1>0, <1>6, <3>5 DEF vars, IInv
    <2> QED
      BY <2>2, <2>3, <2>4 DEF IInv
  <1>7. CASE Finished
    BY <1>6, <1>7 DEF Finished
  <1> QED
    BY <1>1, <1>2, <1>3, <1>4, <1>5, <1>6, <1>7 DEF Next

LEMMA InvariantHolds == Spec => []IInv
  BY InitEstablishesInvariant, NextKeepsInvariant, PTL DEF Spec

\* What the invariant says of a direction that is not live.
LEMMA NothingHeld ==
  ASSUME NewState \/ EndedState
  PROVE  /\ buffer_ = <<>> /\ out_of_order_ = <<>> /\ memory = 0
         /\ Buffered = 0
  <1>1. buffer_ = <<>> /\ out_of_order_ = <<>> /\ memory = 0
    BY DEF NewState, EndedState, Empty
  <1>2. Cells(out_of_order_) = {}
    BY <1>1 DEF Cells
  <1> QED
    BY <1>1, <1>2, FS_EmptySet, Zenon DEF Buffered

-----------------------------------------------------------------------------
(* The theorems                                                              *)

\* The members of TCPReassembler keep their types; current_memory_usage_ stays
\* within the limit.
THEOREM ReassemblerTypeCorrect == Spec => []TypeOK
  <1>1. IInv => TypeOK
    <2> SUFFICES ASSUME IInv PROVE TypeOK
      OBVIOUS
    <2>1. CASE NewState \/ EndedState
      <3>1. buffer_ = <<>> /\ out_of_order_ = <<>> /\ memory = 0
        BY <2>1, NothingHeld, Zenon
      <3>2. /\ buffer_ \in Seq(Byte) /\ out_of_order_ \in Seq(Segment)
            /\ memory \in 0..MaxBytes
        BY <3>1, Constants
      <3> QED
        BY <2>1, <3>2 DEF IInv, NewState, EndedState, TypeOK
    <2>2. CASE LiveState
      <3>1. /\ buffer_ \in Seq(Byte) /\ out_of_order_ \in Seq(Segment)
            /\ expected_seq_ \in SeqNo
        BY <2>2, LiveFacts, Zenon
      <3>2. memory \in 0..MaxBytes
        BY <2>2, Constants DEF LiveState, BooksOK
      <3> QED
        BY <2>2, <3>1, <3>2 DEF IInv, LiveState, TypeOK
    <2> QED
      BY <2>1, <2>2 DEF IInv
  <1> QED
    BY <1>1, InvariantHolds, PTL

\* In whatever order, with whatever overlaps and however often the segments of
\* the stream arrive, and wherever the sequence numbers wrap around, the buffer
\* is a gapless stretch of the stream and expected_seq_ the number after it.
THEOREM BufferStaysContiguous == Spec => []BufferIsContiguous
  <1>1. IInv => BufferIsContiguous
    <2> SUFFICES ASSUME IInv, ~failed_ /\ ~sni /\ base # 0
                 PROVE  /\ buffer_ = Bytes(base, base + Len(buffer_) - 1)
                        /\ expected_seq_ = (ISN + base + Len(buffer_)) % Modulus
      BY DEF BufferIsContiguous
    <2>1. LiveState
      BY DEF IInv, NewState, EndedState
    <2>2. /\ base \in 1..StreamLen /\ Len(buffer_) \in Nat
          /\ Ahead = base + Len(buffer_)
          /\ buffer_ = Bytes(base, Ahead - 1)
          /\ expected_seq_ = (ISN + Ahead) % Modulus
      BY <2>1, LiveFacts, Zenon DEF LiveState, StreamOK
    <2> DEFINE m == Len(buffer_)
    <2>3. m \in Nat /\ Ahead = base + m
      BY <2>2, Zenon
    <2> HIDE DEF m
    <2>4. Ahead - 1 = base + m - 1 /\ ISN + Ahead = ISN + base + m
      BY <2>2, <2>3, Constants
    <2>5. buffer_ = Bytes(base, base + m - 1)
      BY <2>2, <2>4
    <2>6. expected_seq_ = (ISN + base + m) % Modulus
      BY <2>2, <2>4, Zenon
    <2> QED
      BY <2>5, <2>6 DEF m
  <1> QED
    BY <1>1, InvariantHolds, PTL

\* Between calls out_of_order_ is sorted without repetition and starts after a
\* gap: mergeOutOfOrder leaves nothing behind that it could have merged.
THEOREM MergeIsComplete == Spec => []NothingMergeableWaits
  <1>1. IInv => NothingMergeableWaits
    <2> SUFFICES ASSUME IInv, pc = "idle"
                 PROVE  /\ \A i, j \in DOMAIN out_of_order_ :
                              i < j => SeqDiff(out_of_order_[i].seq,
                                               out_of_order_[j].seq) < 0
                        /\ \A i \in DOMAIN out_of_order_ :
                              SeqDiff(out_of_order_[i].seq, expected_seq_) > 0
      BY DEF NothingMergeableWaits
    <2>1. CASE NewState \/ EndedState
      <3>1. DOMAIN out_of_order_ = {}
        BY <2>1, NothingHeld
      <3> QED
        BY <3>1
    <2>2. CASE LiveState
      <3> DEFINE list == out_of_order_
      <3>1. /\ DOMAIN list = 1..Len(list)
            /\ \A i \in 1..Len(list) : SegmentOK(list[i]) /\ list[i].from \in 1..StreamLen
            /\ \A i, j \in 1..Len(list) : i < j => list[i].from < list[j].from
        <4>1. ListOK(out_of_order_)
          BY <2>2 DEF LiveState
        <4> QED
          BY <4>1, ListFacts, Zenon
      <3>2. /\ Ahead \in 1..(StreamLen + 1)
            /\ expected_seq_ = (ISN + Ahead) % Modulus
        <4>1. Ahead \in 2..(StreamLen + 1) /\ expected_seq_ = (ISN + Ahead) % Modulus
          BY <2>2, LiveFacts, Zenon
        <4> QED
          BY <4>1
      <3>3. \A s \in Range(list) : s.from > Ahead
        BY <2>2 DEF LiveState, GapOK
      <3>4. ASSUME NEW i \in 1..Len(list), NEW j \in 1..Len(list), i < j
            PROVE  SeqDiff(list[i].seq, list[j].seq) < 0
        <4>1. /\ SegmentOK(list[i]) /\ SegmentOK(list[j])
              /\ list[i].from \in 1..StreamLen /\ list[j].from \in 1..StreamLen
              /\ list[i].from < list[j].from
          BY <3>1, <3>4, Zenon
        <4>2. list[j].from \in 1..(StreamLen + 1)
          BY <4>1, Constants
        <4>3. SeqDiff(list[i].seq, (ISN + list[j].from) % Modulus)
                = list[i].from - list[j].from
          BY <4>1, <4>2, SegmentDiff, Zenon
        <4>4. list[j].seq = (ISN + list[j].from) % Modulus
          BY <4>1, Zenon DEF SegmentOK
        <4>5. list[i].from - list[j].from < 0
          BY <4>1
        <4> QED
          BY <4>3, <4>4, <4>5, Zenon
      <3>5. ASSUME NEW i \in 1..Len(list)
            PROVE  SeqDiff(list[i].seq, expected_seq_) > 0
        <4>1. SegmentOK(list[i]) /\ list[i].from \in 1..StreamLen
          BY <3>1, Zenon
        <4>2. SeqDiff(list[i].seq, (ISN + Ahead) % Modulus) = list[i].from - Ahead
          BY <3>2, <4>1, SegmentDiff, Zenon
        <4>3. list[i].from > Ahead
          BY <3>1, <3>3 DEF Range
        <4>4. list[i].from - Ahead > 0
          BY <3>2, <4>1, <4>3
        <4> QED
          BY <3>2, <4>2, <4>4, Zenon
      <3> QED
        BY <3>1, <3>4, <3>5, Zenon
    <2> QED
      BY <2>1, <2>2 DEF IInv
  <1> QED
    BY <1>1, InvariantHolds, PTL

\* current_memory_usage_ never falls below the bytes in out_of_order_: its
\* subtractions do not wrap around.
THEOREM AccountingStaysSound == Spec => []AccountingHolds
  <1>1. IInv => AccountingHolds
    <2> SUFFICES ASSUME IInv PROVE Buffered <= memory
      BY DEF AccountingHolds
    <2>1. CASE NewState \/ EndedState
      <3>1. Buffered = 0 /\ memory = 0
        BY <2>1, NothingHeld, Zenon
      <3> QED
        BY <3>1
    <2>2. CASE LiveState
      <3>1. Buffered \in Nat
        BY <2>2, LiveFacts, Zenon
      <3>2. memory \in Nat /\ Buffered + 1 <= memory
        BY <2>2 DEF LiveState, BooksOK
      <3> QED
        BY <3>1, <3>2
    <2> QED
      BY <2>1, <2>2 DEF IInv
  <1> QED
    BY <1>1, InvariantHolds, PTL

\* What the reassembler holds can exceed max_buffer_bytes, but it stays at
\* least two bytes below twice of it.
THEOREM HeldStaysBelowTwiceLimit == Spec => []HeldBelowTwiceLimit
  <1>1. IInv => HeldBelowTwiceLimit
    <2> SUFFICES ASSUME IInv PROVE Len(buffer_) + Buffered <= 2 * MaxBytes - 2
      BY DEF HeldBelowTwiceLimit
    <2>1. CASE NewState \/ EndedState
      <3>1. Buffered = 0 /\ buffer_ = <<>>
        BY <2>1, NothingHeld, Zenon
      <3>2. Len(buffer_) = 0
        BY <3>1
      <3> QED
        BY <3>1, <3>2, Constants
    <2>2. CASE LiveState
      <3>1. Buffered \in Nat /\ Len(buffer_) \in Nat
        BY <2>2, LiveFacts, Zenon
      <3>2. /\ memory \in Nat /\ memory <= MaxBytes
            /\ Len(buffer_) + Buffered <= memory + MaxBytes - 2
        BY <2>2 DEF LiveState, BooksOK
      <3> QED
        BY <3>1, <3>2, Constants
    <2> QED
      BY <2>1, <2>2 DEF IInv
  <1> QED
    BY <1>1, InvariantHolds, PTL

\* A ClientHello whose bytes all arrived, in whatever order, overlapping, repeated
\* or not, is found exactly if the stream's first segment was the first to come,
\* unless the direction was given up.
THEOREM HelloIsFound == Spec => []HelloFoundWhenDelivered
  <1>1. IInv /\ sni => base = 1
    BY DEF IInv, NewState, EndedState, LiveState
  <1>2. ASSUME IInv, pc = "idle", ~failed_, base = 1,
               1..HelloLen \subseteq delivered, ~sni
        PROVE  FALSE
    <2>1. LiveState
      BY <1>2 DEF IInv, NewState, EndedState
    <2>2. /\ Len(buffer_) \in Nat /\ Len(buffer_) >= 1
          /\ Ahead = base + Len(buffer_) /\ Ahead \in 2..(StreamLen + 1)
      BY <2>1, LiveFacts, Zenon
    <2>3. buffer_[1] = 1 /\ buffer_ # <<>>
      BY <1>2, <2>1, FirstByteAtFront, Zenon
    <2>4. Len(buffer_) < HelloLen
      <3>1. ~HelloComplete
        BY <1>2, <2>1 DEF LiveState, HelloOK
      <3> QED
        BY <2>2, <2>3, <3>1, Constants DEF HelloComplete
    <2>5. Ahead \in 1..HelloLen
      BY <1>2, <2>2, <2>4, Constants
    <2>6. CoverOK /\ \A s \in Range(out_of_order_) : s.from > Ahead
      BY <1>2, <2>1 DEF LiveState, GapOK
    <2>7. Ahead < Ahead \/ \E s \in Range(out_of_order_) : s.from <= Ahead
      BY <1>2, <2>5, <2>6, Zenon DEF CoverOK
    <2>8. \A s \in Range(out_of_order_) : s.from \in Int
      <3>1. CASE out_of_order_ = <<>>
        BY <3>1 DEF Range
      <3>2. CASE out_of_order_ # <<>>
        BY <2>1, <3>2, FrontFacts, Zenon
      <3> QED
        BY <3>1, <3>2
    <2> QED
      BY <2>2, <2>6, <2>7, <2>8
  <1>3. IInv => HelloFoundWhenDelivered
    <2> SUFFICES ASSUME IInv, pc = "idle", ~failed_, 1..HelloLen \subseteq delivered
                 PROVE  sni <=> base = 1
      BY DEF HelloFoundWhenDelivered
    <2>1. sni \in BOOLEAN
      BY DEF IInv, NewState, EndedState, LiveState
    <2> QED
      BY <1>1, <1>2, <2>1
  <1> QED
    BY <1>3, InvariantHolds, PTL
=============================================================================
