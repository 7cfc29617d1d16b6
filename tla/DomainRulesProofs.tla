-------------------------- MODULE DomainRulesProofs --------------------------
(***************************************************************************)
(* Comparing the ends of names is comparing labels, for any names and rules *)
(* and any characters.                                                      *)
(***************************************************************************)
EXTENDS DomainRules, FiniteSetTheorems, SequenceTheorems, TLAPS

\* A set of naturals has a least element.
LEMMA LeastNumber ==
  ASSUME NEW I, I \subseteq Nat, I # {}
  PROVE  Min(I) \in I
  <1>1. PICK m \in I : \A k \in I : ~(<<k, m>> \in OpToRel(<, Nat))
    BY WFMin, NatLessThanWellFounded
  <1>2. \A k \in I : ~(k < m)
    BY <1>1 DEF OpToRel
  <1>3. \A k \in I : m =< k
    BY <1>2
  <1> QED
    BY <1>3 DEF Min

-----------------------------------------------------------------------------
(* The elements of a finite set of numbers, counted                          *)

Before(S, e) == {d \in S : d < e}

Rank(S, e) == Cardinality(Before(S, e))

\* The element with n others before it.
Nth(S, n) == CHOOSE e \in S : Rank(S, e) = n

\* An element has more before it than what is below it.
LEMMA RankMonotone ==
  ASSUME NEW S \in SUBSET Nat, IsFiniteSet(S), NEW x \in Nat, NEW y \in Nat, x <= y
  PROVE  /\ Rank(S, x) \in Nat /\ Rank(S, y) \in Nat
         /\ Rank(S, x) <= Rank(S, y)
         /\ x \in S /\ x < y => Rank(S, x) < Rank(S, y)
  <1>1. /\ Before(S, x) \in SUBSET S /\ Before(S, y) \in SUBSET S
        /\ Before(S, x) \in SUBSET Before(S, y)
    <2>1. Before(S, x) \in SUBSET S /\ Before(S, y) \in SUBSET S
      BY DEF Before
    <2>2. ASSUME NEW d \in Before(S, x) PROVE d \in Before(S, y)
      <3>1. d \in S /\ d \in Nat /\ d < x
        BY DEF Before
      <3>2. d < y
        BY <3>1
      <3> QED
        BY <3>1, <3>2 DEF Before
    <2> QED
      BY <2>1, <2>2
  <1>2. /\ IsFiniteSet(Before(S, x)) /\ IsFiniteSet(Before(S, y))
    BY <1>1, FS_Subset
  <1>3. Rank(S, x) \in Nat /\ Rank(S, y) \in Nat
    BY <1>2, FS_CardinalityType DEF Rank
  <1>4. Rank(S, x) <= Rank(S, y)
    BY <1>1, <1>2, FS_Subset DEF Rank
  <1>5. ASSUME x \in S, x < y PROVE Rank(S, x) # Rank(S, y)
    <2>1. x \in Before(S, y) /\ x \notin Before(S, x)
      BY <1>5 DEF Before
    <2>2. Before(S, x) # Before(S, y)
      BY <2>1
    <2> QED
      BY <1>1, <1>2, <2>2, FS_Subset DEF Rank
  <1> QED
    BY <1>3, <1>4, <1>5

\* An element has fewer before it than the set has.
LEMMA RankBelow ==
  ASSUME NEW S \in SUBSET Nat, IsFiniteSet(S), NEW e \in S
  PROVE  Rank(S, e) \in 0..(Cardinality(S) - 1)
  <1>1. Before(S, e) \in SUBSET S /\ Before(S, e) # S
    BY DEF Before
  <1>2. IsFiniteSet(Before(S, e))
    BY <1>1, FS_Subset
  <1>3. Rank(S, e) \in Nat /\ Cardinality(S) \in Nat
    BY <1>2, FS_CardinalityType DEF Rank
  <1>4. Rank(S, e) <= Cardinality(S) /\ Rank(S, e) # Cardinality(S)
    BY <1>1, FS_Subset DEF Rank
  <1> QED
    BY <1>3, <1>4

\* Each position is taken by one element.
LEMMA NthExists ==
  ASSUME NEW S \in SUBSET Nat, IsFiniteSet(S), NEW n \in 0..(Cardinality(S) - 1)
  PROVE  Nth(S, n) \in S /\ Rank(S, Nth(S, n)) = n
  <1> DEFINE T == 0..(Cardinality(S) - 1)
             f == [e \in S |-> Rank(S, e)]
  <1>1. Cardinality(S) \in Nat
    BY FS_CardinalityType
  <1>2. IsFiniteSet(T) /\ Cardinality(T) = Cardinality(S)
    BY <1>1, FS_Interval
  <1>3. f \in [S -> T]
    BY RankBelow
  <1>4. ASSUME NEW x \in S, NEW y \in S, f[x] = f[y] PROVE x = y
    <2>1. ~(x < y)
      BY <1>4, RankMonotone
    <2>2. ~(y < x)
      BY <1>4, RankMonotone
    <2> QED
      BY <2>1, <2>2
  <1>5. f \in Injection(S, T)
    BY <1>3, <1>4 DEF Injection, IsInjective
  <1>6. f \in Surjection(S, T)
    BY <1>2, <1>5, FS_Injection
  <1>7. PICK e \in S : f[e] = n
    BY <1>6 DEF Surjection
  <1>8. \E e0 \in S : Rank(S, e0) = n
    BY <1>7
  <1> QED
    BY <1>8 DEF Nth

LEMMA NthOfRank ==
  ASSUME NEW S \in SUBSET Nat, IsFiniteSet(S), NEW e \in S
  PROVE  Nth(S, Rank(S, e)) = e
  <1> DEFINE n == Rank(S, e)
             d == Nth(S, n)
  <1>1. n \in 0..(Cardinality(S) - 1)
    BY RankBelow
  <1> HIDE DEF n
  <1>2. d \in S /\ Rank(S, d) = n
    BY <1>1, NthExists
  <1> HIDE DEF d
  <1>3. ~(d < e) /\ ~(e < d)
    BY <1>2, RankMonotone DEF n
  <1>4. d = e
    BY <1>2, <1>3
  <1> QED
    BY <1>4 DEF d, n

LEMMA NthMonotone ==
  ASSUME NEW S \in SUBSET Nat, IsFiniteSet(S), NEW n \in 0..(Cardinality(S) - 1),
         NEW m \in 0..(Cardinality(S) - 1), m < n
  PROVE  Nth(S, m) < Nth(S, n)
  <1> DEFINE a == Nth(S, m)
             b == Nth(S, n)
  <1>1. a \in S /\ Rank(S, a) = m /\ b \in S /\ Rank(S, b) = n
    BY NthExists
  <1>2. m \in Int /\ n \in Int
    OBVIOUS
  <1> HIDE DEF a, b
  <1>3. a \in Nat /\ b \in Nat
    BY <1>1
  <1>4. b <= a => Rank(S, b) <= Rank(S, a)
    BY <1>3, RankMonotone
  <1>5. a < b
    BY <1>1, <1>2, <1>3, <1>4
  <1> QED
    BY <1>5 DEF a, b

\* The elements before a number come first.
LEMMA NthBefore ==
  ASSUME NEW S \in SUBSET Nat, IsFiniteSet(S), NEW x \in Nat, NEW n \in Nat
  PROVE  /\ n < Rank(S, x) => n \in 0..(Cardinality(S) - 1) /\ Nth(S, n) < x
         /\ n >= Rank(S, x) /\ n < Cardinality(S) => Nth(S, n) >= x
  <1> DEFINE a == Nth(S, n)
             r == Rank(S, x)
             c == Cardinality(S)
  <1>1. Before(S, x) \in SUBSET S
    BY DEF Before
  <1>2. IsFiniteSet(Before(S, x))
    BY <1>1, FS_Subset
  <1>3. r <= c /\ c \in Nat /\ r \in Nat
    BY <1>1, <1>2, FS_Subset, FS_CardinalityType DEF Rank
  <1>4. n \in 0..(c - 1) => a \in S /\ Rank(S, a) = n
    BY NthExists
  <1>5. \A y \in S : (x <= y => r <= Rank(S, y)) /\ (y < x => Rank(S, y) < r)
    BY RankMonotone
  <1> HIDE DEF a, r, c
  <1>6. \A y \in S : y \in Nat
    OBVIOUS
  <1>7. ASSUME n < r PROVE n \in 0..(c - 1) /\ a < x
    <2>1. n \in 0..(c - 1)
      BY <1>3, <1>7
    <2>2. a \in S /\ Rank(S, a) = n
      BY <1>4, <2>1
    <2>3. a \in Nat /\ ~(x <= a)
      BY <1>3, <1>5, <1>6, <1>7, <2>2
    <2> QED
      BY <2>1, <2>3
  <1>8. ASSUME n >= r, n < c PROVE a >= x
    <2>1. n \in 0..(c - 1)
      BY <1>3, <1>8
    <2>2. a \in S /\ Rank(S, a) = n
      BY <1>4, <2>1
    <2>3. a \in Nat /\ ~(a < x)
      BY <1>3, <1>5, <1>6, <1>8, <2>2
    <2> QED
      BY <2>3
  <1> QED
    BY <1>7, <1>8 DEF a, r, c

-----------------------------------------------------------------------------
(* The labels of a text                                                      *)

\* The places where a label ends and the next one begins.
Ends(text) == {i \in DOMAIN text : text[i] = Dot} \cup {0, Len(text) + 1}

EndOf(text, k) == Nth(Ends(text), k)

LEMMA EndsOfText ==
  ASSUME NEW C, NEW text \in Seq(C)
  PROVE  /\ Ends(text) \in SUBSET Nat /\ Ends(text) \subseteq 0..(Len(text) + 1)
         /\ IsFiniteSet(Ends(text))
         /\ Rank(Ends(text), 0) = 0
         /\ Rank(Ends(text), Len(text) + 1) = Cardinality(Ends(text)) - 1
         /\ Cardinality(Ends(text)) - 1 \in Nat \ {0}
         /\ EndOf(text, 0) = 0
         /\ EndOf(text, Cardinality(Ends(text)) - 1) = Len(text) + 1
  <1> DEFINE S == Ends(text)
             n == Len(text)
  <1>1. n \in Nat /\ DOMAIN text = 1..n
    OBVIOUS
  <1>2. S \subseteq 0..(n + 1) /\ 0 \in S /\ n + 1 \in S
    BY <1>1 DEF Ends
  <1>3. IsFiniteSet(0..(n + 1))
    BY <1>1, FS_Interval
  <1>4. S \in SUBSET Nat /\ IsFiniteSet(S)
    <2>1. S \in SUBSET (0..(n + 1))
      BY <1>2
    <2> QED
      BY <2>1, <1>3, FS_Subset
  <1> HIDE DEF S, n
  <1>5. Rank(S, 0) = 0
    <2>1. Before(S, 0) = {}
      <3>1. \A d \in S : ~(d < 0)
        BY <1>4
      <3> QED
        BY <3>1, Zenon DEF Before
    <2> QED
      BY <2>1, FS_EmptySet DEF Rank
  <1>6. Rank(S, n + 1) = Cardinality(S) - 1
    <2>1. Before(S, n + 1) = S \ {n + 1}
      <3>1. \A d \in S : d < n + 1 <=> d # n + 1
        BY <1>1, <1>2
      <3> QED
        BY <3>1, Zenon DEF Before
    <2> QED
      BY <2>1, <1>2, <1>4, FS_RemoveElement DEF Rank
  <1>7. Rank(S, 0) < Rank(S, n + 1) /\ Rank(S, n + 1) \in Nat
    BY <1>1, <1>2, <1>4, RankMonotone
  <1>8. Nth(S, 0) = 0
    BY <1>2, <1>4, <1>5, NthOfRank
  <1>9. Nth(S, Cardinality(S) - 1) = n + 1
    BY <1>2, <1>4, <1>6, NthOfRank
  <1> QED
    BY <1>2, <1>4, <1>5, <1>6, <1>7, <1>8, <1>9 DEF S, n, EndOf

\* What stands in a text between two of its places.
Between(l, text, a, b) == /\ Len(l) = b - a - 1
                          /\ \A i \in 1..Len(l) : l[i] = text[a + i]

\* A label is the stretch between two ends.
LEMMA LabelsOfText ==
  ASSUME NEW C, NEW text \in Seq(C)
  PROVE  /\ Labels(text) \in Seq(Seq(C))
         /\ Len(Labels(text)) = Cardinality(Ends(text)) - 1
         /\ \A k \in 1..Len(Labels(text)) :
               /\ Labels(text)[k] = SubSeq(text, EndOf(text, k - 1) + 1, EndOf(text, k) - 1)
               /\ Labels(text)[k] \in Seq(C)
               /\ EndOf(text, k - 1) \in Ends(text) /\ EndOf(text, k) \in Ends(text)
               /\ EndOf(text, k - 1) \in 0..Len(text) /\ EndOf(text, k) \in 1..(Len(text) + 1)
               /\ EndOf(text, k - 1) < EndOf(text, k)
               /\ Len(Labels(text)[k]) = EndOf(text, k) - EndOf(text, k - 1) - 1
               /\ \A i \in 1..Len(Labels(text)[k]) :
                     Labels(text)[k][i] = text[EndOf(text, k - 1) + i]
  <1> DEFINE S == Ends(text)
             m == Cardinality(S) - 1
             E(k) == EndOf(text, k)
             L(k) == SubSeq(text, E(k - 1) + 1, E(k) - 1)
             labels == Labels(text)
  <1>1. /\ S \in SUBSET Nat /\ S \subseteq 0..(Len(text) + 1)
        /\ IsFiniteSet(S) /\ m \in Nat \ {0}
    BY EndsOfText
  <1>2. labels = [k \in 1..m |-> L(k)]
    BY DEF Labels, Ends, EndOf, Nth, Rank, Before
  <1> HIDE DEF labels, S
  <1>3. ASSUME NEW k \in 1..m
        PROVE  /\ E(k - 1) \in S /\ E(k) \in S
               /\ E(k - 1) \in 0..Len(text) /\ E(k) \in 1..(Len(text) + 1)
               /\ E(k - 1) < E(k)
               /\ L(k) \in Seq(C)
               /\ Len(L(k)) = E(k) - E(k - 1) - 1
               /\ \A i \in 1..Len(L(k)) : L(k)[i] = text[E(k - 1) + i]
    <2>1. k \in 0..(Cardinality(S) - 1) /\ k - 1 \in 0..(Cardinality(S) - 1) /\ k - 1 < k
      BY <1>1
    <2>2. E(k - 1) \in S /\ E(k) \in S
      BY <1>1, <2>1, NthExists DEF EndOf, S
    <2>3. E(k - 1) < E(k)
      BY <1>1, <2>1, NthMonotone DEF EndOf, S
    <2> DEFINE a == E(k - 1)
               b == E(k)
    <2> HIDE DEF E, S
    <2>4. a \in 0..Len(text) /\ b \in 1..(Len(text) + 1)
      <3>1. a \in 0..(Len(text) + 1) /\ b \in 0..(Len(text) + 1) /\ a < b
        BY <1>1, <2>2, <2>3
      <3> QED
        BY <3>1
    <2> HIDE DEF a, b
    <2>5. /\ SubSeq(text, a + 1, b - 1) \in Seq(C)
          /\ Len(SubSeq(text, a + 1, b - 1)) = b - a - 1
          /\ \A i \in 1..(b - a - 1) : SubSeq(text, a + 1, b - 1)[i] = text[a + i]
      <3>1. a < b
        BY <2>3 DEF a, b
      <3>2. \A i \in (a + 1)..(b - 1) : i \in 1..Len(text)
        BY <2>4
      <3>3. SubSeq(text, a + 1, b - 1) \in Seq(C)
        BY <2>4, <3>1, <3>2, SubSeqProperties
      <3>4. Len(SubSeq(text, a + 1, b - 1)) = b - a - 1
        BY <2>4, <3>1, SubSeqProperties
      <3>5. ASSUME NEW i \in 1..(b - a - 1)
            PROVE  SubSeq(text, a + 1, b - 1)[i] = text[a + i]
        BY <2>4, <3>1
      <3> QED
        BY <3>3, <3>4, <3>5
    <2> QED
      BY <2>2, <2>3, <2>4, <2>5 DEF a, b
  <1> HIDE DEF L, E, m
  <1>4. labels \in Seq(Seq(C)) /\ Len(labels) = m
    BY <1>1, <1>2, <1>3
  <1>5. \A k \in 1..m : labels[k] = L(k)
    BY <1>2
  <1> QED
    BY <1>3, <1>4, <1>5 DEF labels, S, m, E, L

LEMMA LabelOfText ==
  ASSUME NEW C, NEW text \in Seq(C), NEW k \in 1..Len(Labels(text))
  PROVE  /\ Labels(text)[k] \in Seq(C)
         /\ EndOf(text, k - 1) \in Ends(text) /\ EndOf(text, k) \in Ends(text)
         /\ EndOf(text, k - 1) \in 0..Len(text) /\ EndOf(text, k) \in 1..(Len(text) + 1)
         /\ EndOf(text, k - 1) < EndOf(text, k)
         /\ Between(Labels(text)[k], text, EndOf(text, k - 1), EndOf(text, k))
  BY LabelsOfText DEF Between

\* Each place that is no end is in a label.
LEMMA LabelAt ==
  ASSUME NEW C, NEW text \in Seq(C), NEW i \in 1..Len(text), i \notin Ends(text)
  PROVE  \E k \in 1..Len(Labels(text)) : /\ EndOf(text, k - 1) < i /\ i < EndOf(text, k)
                                         /\ i - EndOf(text, k - 1) \in 1..Len(Labels(text)[k])
                                         /\ Labels(text)[k][i - EndOf(text, k - 1)] = text[i]
  <1> DEFINE S == Ends(text)
             c == Cardinality(S)
             k == Rank(S, i)
             a == EndOf(text, k - 1)
             b == EndOf(text, k)
             l == Labels(text)[k]
  <1>1. S \in SUBSET Nat /\ IsFiniteSet(S) /\ 0 \in S /\ Rank(S, 0) = 0 /\ c - 1 \in Nat
    <2>1. 0 \in S
      BY DEF Ends
    <2> QED
      BY <2>1, EndsOfText
  <1>2. Rank(S, Len(text) + 1) = c - 1
    BY EndsOfText
  <1> HIDE DEF S, c
  <1>3. /\ k \in Nat /\ 0 < k
        /\ k <= Rank(S, Len(text) + 1)
    <2>1. Rank(S, 0) < k /\ k \in Nat
      BY <1>1, RankMonotone
    <2>2. k <= Rank(S, Len(text) + 1)
      BY <1>1, RankMonotone
    <2> QED
      BY <2>1, <2>2, <1>1
  <1>4. c \in Nat
    BY <1>1, FS_CardinalityType DEF c
  <1>5. k \in 1..(c - 1)
    BY <1>2, <1>3, <1>4
  <1>6. Nth(S, k - 1) < i
    <2>1. k - 1 \in Nat /\ k - 1 < k
      BY <1>3
    <2> QED
      BY <2>1, <1>1, NthBefore
  <1>7. Nth(S, k) >= i
    <2>1. k \in Nat /\ k >= k /\ k < Cardinality(S)
      BY <1>4, <1>5 DEF c
    <2> QED
      BY <2>1, <1>1, NthBefore
  <1>8. /\ Len(Labels(text)) = c - 1
        /\ b \in S /\ a \in 0..Len(text) /\ b \in 1..(Len(text) + 1)
        /\ Len(l) = b - a - 1
        /\ \A j \in 1..Len(l) : l[j] = text[a + j]
    <2>1. /\ Len(Labels(text)) = c - 1
          /\ \A j \in 1..Len(Labels(text)) :
                /\ EndOf(text, j) \in S /\ EndOf(text, j - 1) \in 0..Len(text)
                /\ EndOf(text, j) \in 1..(Len(text) + 1)
                /\ Len(Labels(text)[j]) = EndOf(text, j) - EndOf(text, j - 1) - 1
                /\ \A h \in 1..Len(Labels(text)[j]) :
                      Labels(text)[j][h] = text[EndOf(text, j - 1) + h]
      BY LabelsOfText DEF S, c
    <2> QED
      BY <2>1, <1>5, Zenon
  <1>9. a < i /\ i <= b
    BY <1>6, <1>7 DEF EndOf, S
  <1> HIDE DEF a, b, l, k
  <1>10. i < b
    BY <1>8, <1>9 DEF S
  <1>11. i - a \in 1..Len(l) /\ a + (i - a) = i
    BY <1>8, <1>9, <1>10
  <1>12. l[i - a] = text[i]
    BY <1>8, <1>11
  <1> QED
    BY <1>5, <1>8, <1>9, <1>10, <1>11, <1>12 DEF a, b, l, k

\* A sequence ends with another one, which stands behind its first n elements.
Behind(s, n, end) == /\ Len(s) = n + Len(end)
                     /\ \A i \in 1..Len(end) : s[n + i] = end[i]

\* Counting may begin anew at any number.
LEMMA RankShift ==
  ASSUME NEW S \in SUBSET Nat, IsFiniteSet(S), NEW T \in SUBSET Nat, IsFiniteSet(T),
         NEW d \in Nat, NEW e \in Nat,
         \A x \in Nat : x < e => (x \in S <=> d + x \in T)
  PROVE  Rank(T, d + e) = Rank(T, d) + Rank(S, e)
  <1> DEFINE A == Before(T, d)
             B == {y \in T : d <= y /\ y < d + e}
             D == Before(S, e)
             f == [x \in D |-> d + x]
  <1>1. A \in SUBSET T /\ B \in SUBSET T /\ D \in SUBSET S
    BY DEF Before
  <1>2. IsFiniteSet(A) /\ IsFiniteSet(B) /\ IsFiniteSet(D)
    BY <1>1, FS_Subset
  <1>3. Before(T, d + e) = A \cup B
    <2>1. \A y \in T : y < d + e <=> y < d \/ (d <= y /\ y < d + e)
      OBVIOUS
    <2> QED
      BY <2>1, Zenon DEF Before
  <1>4. A \cap B = {}
    <2>1. \A y \in T : ~(y < d /\ d <= y)
      OBVIOUS
    <2> QED
      BY <2>1, Zenon DEF Before
  <1>5. f \in Bijection(D, B)
    <2>1. ASSUME NEW x \in D PROVE f[x] \in B
      <3>1. x \in S /\ x \in Nat /\ x < e
        BY DEF Before
      <3> QED
        BY <3>1
    <2>2. ASSUME NEW x \in D, NEW z \in D, f[x] = f[z] PROVE x = z
      <3>1. x \in Nat /\ z \in Nat
        BY DEF Before
      <3> QED
        BY <3>1, <2>2
    <2>3. ASSUME NEW y \in B PROVE \E x \in D : f[x] = y
      <3>1. y \in Nat /\ d <= y /\ y < d + e /\ y \in T
        OBVIOUS
      <3>2. y - d \in Nat /\ y - d < e /\ d + (y - d) = y
        BY <3>1
      <3>3. y - d \in D
        BY <3>1, <3>2 DEF Before
      <3> QED
        BY <3>2, <3>3
    <2> QED
      BY <2>1, <2>2, <2>3 DEF Bijection, Injection, IsInjective, Surjection
  <1>6. Cardinality(B) = Cardinality(D)
    BY <1>2, <1>5, FS_Bijection DEF ExistsBijection
  <1> HIDE DEF A, B, D, f
  <1>7. Cardinality(A \cup B) = Cardinality(A) + Cardinality(B)
    <2>1. Cardinality(A \cup B) = Cardinality(A) + Cardinality(B) - Cardinality(A \cap B)
      BY <1>2, FS_Union
    <2>2. Cardinality(A) \in Nat /\ Cardinality(B) \in Nat
      BY <1>2, FS_CardinalityType
    <2> QED
      BY <2>1, <2>2, <1>4, FS_EmptySet
  <1> QED
    BY <1>3, <1>6, <1>7 DEF Rank, A, D

\* The ends of the rest of a text, behind one of its ends.
LEMMA EndsOfRest ==
  ASSUME NEW C, NEW text \in Seq(C), NEW rest \in Seq(C),
         NEW d \in Ends(text), Behind(text, d, rest)
  PROVE  /\ Rank(Ends(text), d) \in Nat
         /\ Cardinality(Ends(text)) = Rank(Ends(text), d) + Cardinality(Ends(rest))
         /\ \A k \in 0..(Cardinality(Ends(rest)) - 1) :
               EndOf(text, Rank(Ends(text), d) + k) = d + EndOf(rest, k)
  <1> DEFINE T == Ends(text)
             S == Ends(rest)
             l == Len(rest)
             n == Rank(T, d)
  <1>1. /\ T \in SUBSET Nat /\ IsFiniteSet(T) /\ S \in SUBSET Nat /\ IsFiniteSet(S)
        /\ S \subseteq 0..(l + 1)
        /\ Rank(T, Len(text) + 1) = Cardinality(T) - 1
        /\ Rank(S, l + 1) = Cardinality(S) - 1
        /\ Cardinality(T) - 1 \in Nat /\ Cardinality(S) - 1 \in Nat
    BY EndsOfText
  <1>2. l \in Nat /\ d \in Nat /\ Len(text) = d + l
    BY <1>1 DEF Behind
  <1>3. ASSUME NEW x \in 0..(l + 1) PROVE x \in S <=> d + x \in T
    <2>1. CASE x = 0
      BY <2>1, <1>2 DEF Ends
    <2>2. CASE x = l + 1
      BY <2>2, <1>2 DEF Ends
    <2>3. CASE x \in 1..l
      <3>1. x # 0 /\ x # l + 1 /\ d + x # 0 /\ d + x # Len(text) + 1
        BY <2>3, <1>2
      <3>2. x \in DOMAIN rest /\ d + x \in DOMAIN text /\ rest[x] = text[d + x]
        BY <2>3, <1>2 DEF Behind
      <3> QED
        BY <3>1, <3>2 DEF Ends
    <2>4. x = 0 \/ x = l + 1 \/ x \in 1..l
      BY <1>2
    <2> HIDE DEF T, S, l
    <2> QED
      BY <2>1, <2>2, <2>3, <2>4
  <1>4. n \in Nat
    <2>1. d \in Nat /\ d <= d
      BY <1>2
    <2> QED
      BY <2>1, <1>1, RankMonotone
  <1> HIDE DEF T, S, l, n
  <1>5. ASSUME NEW e \in 0..(l + 1) PROVE Rank(T, d + e) = n + Rank(S, e)
    <2>1. \A x \in Nat : x < e => (x \in S <=> d + x \in T)
      BY <1>2, <1>3
    <2>2. e \in Nat
      BY <1>2
    <2> QED
      BY <1>1, <1>2, <2>1, <2>2, RankShift DEF n
  <1>6. Cardinality(T) - 1 = n + (Cardinality(S) - 1)
    <2>1. d + (l + 1) = Len(text) + 1 /\ l + 1 \in 0..(l + 1)
      BY <1>2
    <2> QED
      BY <1>1, <1>5, <2>1
  <1>7. Cardinality(T) \in Nat /\ Cardinality(S) \in Nat
    BY <1>1, FS_CardinalityType
  <1>8. Cardinality(T) = n + Cardinality(S)
    BY <1>4, <1>6, <1>7
  <1>9. ASSUME NEW k \in 0..(Cardinality(S) - 1) PROVE Nth(T, n + k) = d + Nth(S, k)
    <2> DEFINE e == Nth(S, k)
    <2>1. e \in S /\ Rank(S, e) = k
      BY <1>1, NthExists
    <2> HIDE DEF e
    <2>2. d + e \in T /\ Rank(T, d + e) = n + k
      BY <1>1, <1>3, <1>5, <2>1
    <2>3. Nth(T, n + k) = d + e
      BY <1>1, <2>2, NthOfRank
    <2> QED
      BY <2>3 DEF e
  <1> QED
    BY <1>4, <1>8, <1>9 DEF T, S, n, EndOf

\* The labels of the rest are the last labels of the text.
LEMMA LabelsOfRest ==
  ASSUME NEW C, NEW text \in Seq(C), NEW rest \in Seq(C),
         NEW d \in Ends(text), Behind(text, d, rest)
  PROVE  /\ Rank(Ends(text), d) \in Nat
         /\ Behind(Labels(text), Rank(Ends(text), d), Labels(rest))
  <1> DEFINE n == Rank(Ends(text), d)
             m == Len(Labels(rest))
  <1>1. /\ n \in Nat
        /\ Cardinality(Ends(text)) = n + Cardinality(Ends(rest))
        /\ \A k \in 0..(Cardinality(Ends(rest)) - 1) :
               EndOf(text, n + k) = d + EndOf(rest, k)
    BY EndsOfRest
  <1>2. Len(Labels(text)) = Cardinality(Ends(text)) - 1 /\ m = Cardinality(Ends(rest)) - 1
    BY LabelsOfText
  <1>3. Cardinality(Ends(rest)) - 1 \in Nat /\ Cardinality(Ends(rest)) \in Nat
    BY EndsOfText, FS_CardinalityType
  <1>4. m \in Nat /\ Len(Labels(text)) = n + m
    BY <1>1, <1>2, <1>3
  <1>5. d \in Nat /\ Len(text) = d + Len(rest)
    BY EndsOfText DEF Behind
  <1> HIDE DEF n, m
  <1>6. ASSUME NEW k \in 1..m PROVE Labels(text)[n + k] = Labels(rest)[k]
    <2> DEFINE L == Labels(text)[n + k]
               K == Labels(rest)[k]
               a == EndOf(rest, k - 1)
               b == EndOf(rest, k)
    <2>1. n + k \in 1..Len(Labels(text)) /\ n + (k - 1) = (n + k) - 1
      BY <1>1, <1>4
    <2>2. k \in 0..(Cardinality(Ends(rest)) - 1) /\ k - 1 \in 0..(Cardinality(Ends(rest)) - 1)
      BY <1>2, <1>4
    <2>3. EndOf(text, n + k) = d + b /\ EndOf(text, (n + k) - 1) = d + a
      BY <1>1, <2>1, <2>2
    <2>4. L \in Seq(C) /\ Between(L, text, d + a, d + b)
      BY <2>1, <2>3, LabelOfText
    <2>5. /\ K \in Seq(C) /\ Between(K, rest, a, b)
          /\ a \in 0..Len(rest) /\ b \in 1..(Len(rest) + 1)
      BY LabelOfText DEF m
    <2> HIDE DEF L, K, a, b
    <2>6. Len(L) = Len(K)
      BY <1>5, <2>4, <2>5 DEF Between
    <2>7. ASSUME NEW i \in 1..Len(K) PROVE L[i] = K[i]
      <3>1. a + i \in 1..Len(rest) /\ d + (a + i) = (d + a) + i
        BY <1>5, <2>5 DEF Between
      <3>2. L[i] = text[(d + a) + i] /\ K[i] = rest[a + i]
        BY <2>4, <2>5, <2>6 DEF Between
      <3> QED
        BY <3>1, <3>2 DEF Behind
    <2>8. L = K
      BY <2>4, <2>5, <2>6, <2>7, SeqEqual
    <2> QED
      BY <2>8 DEF L, K
  <1> QED
    BY <1>1, <1>4, <1>6 DEF n, m, Behind

\* A suffix, without turning sequences round.
LEMMA SuffixFromEnd ==
  ASSUME NEW S, NEW s \in Seq(S), NEW t \in Seq(S)
  PROVE  IsSuffix(s, t) <=> /\ Len(t) - Len(s) \in Nat
                            /\ Behind(t, Len(t) - Len(s), s)
  <1> DEFINE u == Reverse(s)
             v == Reverse(t)
             l == Len(s)
             m == Len(t)
  <1>1. l \in Nat /\ m \in Nat
    OBVIOUS
  <1>2. u = [i \in 1..l |-> s[(l - i) + 1]] /\ v = [i \in 1..m |-> t[(m - i) + 1]]
    BY DEF Reverse
  <1>3. (\A i \in 1..l : s[(l - i) + 1] \in S) /\ (\A i \in 1..m : t[(m - i) + 1] \in S)
    <2>1. (\A i \in 1..l : (l - i) + 1 \in 1..l) /\ (\A i \in 1..m : (m - i) + 1 \in 1..m)
      BY <1>1
    <2> QED
      BY <2>1, ElementOfSeq
  <1> HIDE DEF u, v, l, m
  <1>4. /\ u \in Seq(S) /\ Len(u) = l /\ \A i \in 1..l : u[i] = s[(l - i) + 1]
        /\ v \in Seq(S) /\ Len(v) = m /\ \A i \in 1..m : v[i] = t[(m - i) + 1]
    BY <1>1, <1>2, <1>3
  <1>5. IsSuffix(s, t) <=> l <= m /\ SubSeq(u, 1, l) = SubSeq(v, 1, l)
    BY <1>4 DEF IsSuffix, IsPrefix, u, v
  <1>6. SUFFICES ASSUME l <= m
                 PROVE  SubSeq(u, 1, l) = SubSeq(v, 1, l)
                           <=> \A k \in 1..l : t[(m - l) + k] = s[k]
    <2>1. l <= m <=> m - l \in Nat
      BY <1>1
    <2>2. m = (m - l) + l
      BY <1>1
    <2> QED
      BY <1>5, <2>1, <2>2 DEF l, m, Behind
  <1> DEFINE p == SubSeq(u, 1, l)
             q == SubSeq(v, 1, l)
  <1>7. /\ p \in Seq(S) /\ Len(p) = l /\ \A i \in 1..l : p[i] = u[i]
        /\ q \in Seq(S) /\ Len(q) = l /\ \A i \in 1..l : q[i] = v[i]
    BY <1>1, <1>4, <1>6
  <1> HIDE DEF p, q
  <1>8. ASSUME p = q, NEW k \in 1..l PROVE t[(m - l) + k] = s[k]
    <2> DEFINE i == (l - k) + 1
    <2>1. i \in 1..l /\ i \in 1..m /\ (l - i) + 1 = k /\ (m - i) + 1 = (m - l) + k
      BY <1>1, <1>6
    <2> HIDE DEF i
    <2> QED
      BY <2>1, <1>4, <1>7, <1>8
  <1>9. ASSUME \A k \in 1..l : t[(m - l) + k] = s[k] PROVE p = q
    <2>1. ASSUME NEW i \in 1..l PROVE p[i] = q[i]
      <3> DEFINE k == (l - i) + 1
      <3>1. k \in 1..l /\ i \in 1..m /\ (m - i) + 1 = (m - l) + k
        BY <1>1, <1>6
      <3>2. t[(m - l) + k] = s[k]
        BY <3>1, <1>9
      <3>3. p[i] = s[k] /\ q[i] = t[(m - i) + 1]
        BY <3>1, <1>4, <1>7
      <3> HIDE DEF k
      <3> QED
        BY <3>1, <3>2, <3>3
    <2> QED
      BY <2>1, <1>7, SeqEqual
  <1> QED
    BY <1>8, <1>9 DEF p, q

\* Labels that are the last labels of a text are those of its rest behind an
\* end.
LEMMA RestOfLabels ==
  ASSUME NEW C, NEW text \in Seq(C), NEW rest \in Seq(C), NEW r \in Nat,
         Behind(Labels(text), r, Labels(rest))
  PROVE  \E d \in Ends(text) : Behind(text, d, rest)
  <1> DEFINE d == Len(text) - Len(rest)
             m == Len(Labels(rest))
             E == [k \in 0..m |-> EndOf(text, r + k)]
             F == [k \in 0..m |-> EndOf(rest, k)]
  <1>1. /\ Len(text) \in Nat /\ Len(rest) \in Nat /\ d \in Int
        /\ m \in Nat \ {0} /\ Len(Labels(text)) = r + m
        /\ E[m] = Len(text) + 1 /\ F[m] = Len(rest) + 1 /\ F[0] = 0
    <2>1. /\ Len(Labels(text)) = Cardinality(Ends(text)) - 1
          /\ EndOf(text, Cardinality(Ends(text)) - 1) = Len(text) + 1
      BY LabelsOfText, EndsOfText
    <2>3. Len(Labels(text)) = r + m
      BY DEF Behind
    <2>2. /\ m = Cardinality(Ends(rest)) - 1 /\ m \in Nat \ {0}
          /\ EndOf(rest, Cardinality(Ends(rest)) - 1) = Len(rest) + 1
          /\ EndOf(rest, 0) = 0
      BY LabelsOfText, EndsOfText
    <2> QED
      BY <2>1, <2>2, <2>3
  <1> HIDE DEF d
  <1>2. ASSUME NEW k \in 1..m
        PROVE  /\ E[k - 1] \in Int /\ E[k] \in Int /\ F[k - 1] \in Int /\ F[k] \in Int
               /\ E[k - 1] \in Ends(text) /\ E[k] \in Ends(text)
               /\ E[k] - E[k - 1] = F[k] - F[k - 1]
               /\ Between(Labels(rest)[k], text, E[k - 1], E[k])
               /\ Between(Labels(rest)[k], rest, F[k - 1], F[k])
    <2> DEFINE j == r + k
               e == EndOf(text, j - 1)
               f == EndOf(text, j)
               g == EndOf(rest, k - 1)
               h == EndOf(rest, k)
               l == Labels(rest)[k]
    <2>1. j \in 1..Len(Labels(text)) /\ j - 1 = r + (k - 1) /\ k \in 0..m /\ k - 1 \in 0..m
      BY <1>1
    <2>2. Labels(text)[j] = l
      BY DEF Behind
    <2>3. E[k] = f /\ E[k - 1] = e /\ F[k] = h /\ F[k - 1] = g
      BY <2>1
    <2> HIDE DEF j, E, F
    <2>4. /\ e \in Ends(text) /\ f \in Ends(text)
          /\ e \in 0..Len(text) /\ f \in 1..(Len(text) + 1)
          /\ Between(l, text, e, f)
      BY <2>1, <2>2, LabelOfText
    <2>5. /\ g \in 0..Len(rest) /\ h \in 1..(Len(rest) + 1)
          /\ Between(l, rest, g, h)
      BY LabelOfText
    <2> HIDE DEF e, f, g, h, l, m
    <2>6. e \in Int /\ f \in Int /\ g \in Int /\ h \in Int
      BY <2>4, <2>5
    <2>7. f - e = h - g
      BY <2>4, <2>5, <2>6 DEF Between
    <2> QED
      BY <2>3, <2>4, <2>5, <2>6, <2>7 DEF l
  <1> HIDE DEF d, m, E, F
  <1>3. \A k \in 0..m : E[k] - F[k] = d
    <2> DEFINE I == {j \in Nat : j <= m /\ E[m - j] - F[m - j] # d}
    <2>1. SUFFICES I = {}
      <3>1. ASSUME NEW k \in 0..m PROVE E[k] - F[k] = d
        <4>1. m - k \in Nat /\ m - k <= m /\ m - (m - k) = k
          BY <1>1
        <4>2. m - k \notin I
          BY <2>1
        <4> QED
          BY <4>1, <4>2
      <3> QED
        BY <3>1
    <2>2. SUFFICES ASSUME I # {} PROVE FALSE
      OBVIOUS
    <2>3. PICK j \in I : \A i \in I : ~(<<i, j>> \in OpToRel(<, Nat))
      <3>1. I \subseteq Nat
        OBVIOUS
      <3> HIDE DEF I
      <3> QED
        BY <3>1, <2>2, WFMin, NatLessThanWellFounded
    <2>4. j \in Nat /\ j <= m /\ E[m - j] - F[m - j] # d
      OBVIOUS
    <2>5. j # 0
      <3>1. E[m] - F[m] = d
        BY <1>1 DEF d
      <3> QED
        BY <3>1, <2>4, <1>1
    <2>6. j - 1 \in Nat /\ j - 1 <= m /\ j - 1 < j
      BY <2>4, <2>5, <1>1
    <2>7. j - 1 \notin I
      BY <2>3, <2>4, <2>6 DEF OpToRel
    <2>8. E[m - (j - 1)] - F[m - (j - 1)] = d
      BY <2>6, <2>7
    <2> DEFINE k == m - (j - 1)
    <2>9. k \in 1..m /\ k - 1 = m - j
      BY <2>4, <2>5, <1>1
    <2>10. E[k] - F[k] = d
      BY <2>8
    <2> HIDE DEF k, I
    <2>11. /\ E[k - 1] \in Int /\ E[k] \in Int /\ F[k - 1] \in Int /\ F[k] \in Int
           /\ E[k] - E[k - 1] = F[k] - F[k - 1]
      BY <2>9, <1>2
    <2>12. E[k - 1] - F[k - 1] = d
      BY <2>10, <2>11
    <2> QED
      BY <2>4, <2>9, <2>12
  <1>4. d \in Ends(text)
    <2>1. 1 \in 1..m /\ 0 \in 0..m /\ 1 - 1 = 0
      BY <1>1
    <2>2. E[0] \in Ends(text) /\ E[0] \in Int
      BY <2>1, <1>2
    <2> QED
      BY <2>1, <2>2, <1>1, <1>3
  <1>5. ASSUME NEW i \in 1..Len(rest) PROVE rest[i] = text[d + i]
    <2>1. CASE i \in Ends(rest)
      <3> DEFINE k == Rank(Ends(rest), i)
      <3>1. k \in 0..m
        <4>1. /\ Ends(rest) \in SUBSET Nat /\ IsFiniteSet(Ends(rest))
              /\ m = Cardinality(Ends(rest)) - 1
          BY EndsOfText, LabelsOfText DEF m
        <4> QED
          BY <4>1, <2>1, RankBelow
      <3>2. F[k] = i
        <4>1. Nth(Ends(rest), k) = i
          BY <2>1, EndsOfText, NthOfRank
        <4> HIDE DEF k
        <4> QED
          BY <4>1, <3>1 DEF F, EndOf
      <3> HIDE DEF k
      <3>3. k # 0
        BY <1>1, <3>2
      <3>4. E[k] = d + i /\ E[k] \in Ends(text)
        <4>1. k \in 1..m
          BY <3>1, <3>3
        <4>2. E[k] \in Ends(text) /\ E[k] \in Int
          BY <4>1, <1>2
        <4>3. E[k] - F[k] = d
          BY <3>1, <1>3
        <4> QED
          BY <4>2, <4>3, <3>2, <1>1
      <3>5. d + i \in 1..Len(text) /\ d + i # 0 /\ d + i # Len(text) + 1
        <4>1. d \in Nat /\ d + Len(rest) = Len(text)
          BY <1>1, <1>4, EndsOfText DEF d
        <4> QED
          BY <4>1, <1>1
      <3>6. text[d + i] = Dot
        BY <3>4, <3>5 DEF Ends
      <3>7. rest[i] = Dot
        BY <2>1, <1>1 DEF Ends
      <3> QED
        BY <3>6, <3>7
    <2>2. CASE i \notin Ends(rest)
      <3>1. PICK k \in 1..m : /\ i - EndOf(rest, k - 1) \in 1..Len(Labels(rest)[k])
                              /\ Labels(rest)[k][i - EndOf(rest, k - 1)] = rest[i]
        BY <2>2, LabelAt DEF m
      <3> DEFINE l == Labels(rest)[k]
                 p == i - F[k - 1]
      <3>2. p \in 1..Len(l) /\ l[p] = rest[i]
        <4>1. k - 1 \in 0..m
          BY <1>1
        <4> QED
          BY <4>1, <3>1 DEF F
      <3>4. l[p] = text[E[k - 1] + p]
        <4>1. Between(l, text, E[k - 1], E[k])
          BY <1>2
        <4> HIDE DEF l, p
        <4> QED
          BY <4>1, <3>2 DEF Between
      <3>3. E[k - 1] + (i - F[k - 1]) = d + i
        <4>1. k - 1 \in 0..m
          BY <1>1
        <4>2. E[k - 1] - F[k - 1] = d
          BY <4>1, <1>3
        <4>3. E[k - 1] \in Int /\ F[k - 1] \in Int
          BY <1>2
        <4>4. d \in Int /\ i \in Int
          BY <1>1
        <4> QED
          BY <4>2, <4>3, <4>4
      <3> QED
        BY <3>2, <3>3, <3>4
    <2> QED
      BY <2>1, <2>2
  <1>6. Len(text) = d + Len(rest)
    BY <1>1 DEF d
  <1> QED
    BY <1>4, <1>5, <1>6 DEF Behind

\* The labels of a text end with those of another one exactly when the text
\* ends with the other one, behind an end.
LEMMA SuffixOfLabels ==
  ASSUME NEW C, NEW text \in Seq(C), NEW rest \in Seq(C)
  PROVE  IsSuffix(Labels(rest), Labels(text)) <=>
            \E d \in Ends(text) : Behind(text, d, rest)
  <1> DEFINE L == Labels(text)
             K == Labels(rest)
  <1>1. L \in Seq(Seq(C)) /\ K \in Seq(Seq(C))
    BY LabelsOfText
  <1>2. IsSuffix(K, L) <=> Len(L) - Len(K) \in Nat /\ Behind(L, Len(L) - Len(K), K)
    BY <1>1, SuffixFromEnd
  <1>3. Len(L) \in Nat /\ Len(K) \in Nat
    BY <1>1
  <1>4. IsSuffix(K, L) <=> \E r \in Nat : Behind(L, r, K)
    <2> HIDE DEF L, K
    <2>1. \A r \in Nat : Behind(L, r, K) => r = Len(L) - Len(K)
      BY <1>3 DEF Behind
    <2> QED
      BY <1>2, <2>1
  <1>5. ASSUME NEW r \in Nat, Behind(L, r, K)
        PROVE  \E d \in Ends(text) : Behind(text, d, rest)
    BY <1>5, RestOfLabels
  <1>6. ASSUME NEW d \in Ends(text), Behind(text, d, rest)
        PROVE  \E r \in Nat : Behind(L, r, K)
    BY <1>6, LabelsOfRest
  <1> QED
    BY <1>4, <1>5, <1>6

\* A final dot makes an empty last label and changes no other.
LEMMA LabelsWithoutDot ==
  ASSUME NEW C, NEW text \in Seq(C), text # <<>>, Last(text) = Dot
  PROVE  /\ Labels(text) \in Seq(Seq(C)) /\ Len(Labels(text)) > 1
         /\ Last(Labels(text)) = <<>>
         /\ Front(Labels(text)) = Labels(Front(text))
  <1> DEFINE n == Len(text)
             f == Front(text)
             T == Ends(text)
             S == Ends(f)
             L == Labels(text)
             K == Labels(f)
             m == Len(K)
  <1>1. n \in Nat \ {0} /\ text[n] = Dot
    BY DEF Last
  <1>2. f \in Seq(C) /\ Len(f) = n - 1 /\ \A i \in 1..(n - 1) : f[i] = text[i]
    <2>1. f = SubSeq(text, 1, n - 1)
      BY DEF Front
    <2> HIDE DEF f, T, S, L, K, m
    <2>2. \A i \in 1..(n - 1) : i \in 1..Len(text)
      BY <1>1
    <2>3. \A i \in 1..(n - 1) : text[i] \in C
      BY <2>2, ElementOfSeq
    <2>4. /\ f \in Seq(C) /\ Len(f) = (IF 1 <= n - 1 THEN (n - 1) - 1 + 1 ELSE 0)
          /\ \A i \in 1..((n - 1) - 1 + 1) : f[i] = text[1 + i - 1]
      BY <2>1, <2>3, <1>1, SubSeqProperties
    <2>5. ASSUME NEW i \in 1..(n - 1) PROVE f[i] = text[i]
      <3>1. i \in 1..((n - 1) - 1 + 1) /\ 1 + i - 1 = i
        BY <1>1
      <3> QED
        BY <2>4, <3>1
    <2>6. Len(f) = n - 1
      <3> HIDE DEF n
      <3>1. (IF 1 <= n - 1 THEN (n - 1) - 1 + 1 ELSE 0) = n - 1
        <4>1. n \in Nat /\ n # 0
          BY <1>1
        <4>2. CASE n = 1
          BY <4>2
        <4>3. CASE n >= 2
          BY <4>1, <4>3
        <4> QED
          BY <4>1, <4>2, <4>3
      <3> QED
        BY <2>4, <3>1
    <2> QED
      BY <2>4, <2>5, <2>6
  <1> HIDE DEF f, n
  <1>3. /\ T \in SUBSET Nat /\ IsFiniteSet(T) /\ T \subseteq 0..(n + 1)
        /\ S \in SUBSET Nat /\ IsFiniteSet(S) /\ S \subseteq 0..n
        /\ EndOf(text, Cardinality(T) - 1) = n + 1
        /\ EndOf(f, Cardinality(S) - 1) = n
        /\ Cardinality(S) - 1 \in Nat \ {0} /\ Cardinality(T) - 1 \in Nat \ {0}
    <2>1. Len(f) + 1 = n
      BY <1>1, <1>2
    <2>2. /\ S \in SUBSET Nat /\ IsFiniteSet(S) /\ S \subseteq 0..(Len(f) + 1)
          /\ EndOf(f, Cardinality(S) - 1) = Len(f) + 1
          /\ Cardinality(S) - 1 \in Nat \ {0}
      BY <1>2, EndsOfText
    <2>3. /\ T \in SUBSET Nat /\ IsFiniteSet(T) /\ T \subseteq 0..(n + 1)
          /\ EndOf(text, Cardinality(T) - 1) = n + 1
          /\ Cardinality(T) - 1 \in Nat \ {0}
      BY EndsOfText DEF n
    <2> HIDE DEF S, T
    <2> QED
      BY <2>1, <2>2, <2>3
  <1>4. ASSUME NEW x \in 0..n PROVE x \in S <=> x \in T
    <2>1. CASE x = 0
      BY <2>1 DEF Ends
    <2>2. CASE x = n
      <3>1. n \in S
        BY <1>1, <1>2 DEF Ends
      <3>2. n \in T
        BY <1>1 DEF Ends, n
      <3> QED
        BY <2>2, <3>1, <3>2
    <2>3. CASE x # 0 /\ x # n
      <3>1. x \in 1..(n - 1) /\ x # n + 1
        BY <2>3, <1>1
      <3>2. x \in S <=> f[x] = Dot
        BY <3>1, <1>1, <1>2, <2>3 DEF Ends
      <3>3. x \in T <=> text[x] = Dot
        BY <3>1, <1>1, <2>3 DEF Ends, n
      <3> QED
        BY <3>1, <3>2, <3>3, <1>2
    <2> QED
      BY <2>1, <2>2, <2>3
  <1>5. n + 1 \in T
    BY DEF Ends, n
  <1> HIDE DEF S, T
  <1>6. Cardinality(T) - 1 = Cardinality(S)
    <2>1. T \ {n + 1} = S
      <3>1. ASSUME NEW x \in T, x # n + 1 PROVE x \in S
        <4>1. x \in 0..n
          BY <1>1, <1>3, <3>1
        <4> QED
          BY <4>1, <1>4
      <3>2. ASSUME NEW x \in S PROVE x \in T /\ x # n + 1
        <4>1. x \in 0..n /\ x # n + 1
          BY <1>1, <1>3
        <4> QED
          BY <4>1, <1>4
      <3> QED
        BY <3>1, <3>2, Zenon
    <2> QED
      BY <2>1, <1>3, <1>5, FS_RemoveElement
  <1>7. ASSUME NEW k \in 0..(Cardinality(S) - 1) PROVE EndOf(text, k) = EndOf(f, k)
    <2> DEFINE e == Nth(S, k)
    <2>1. e \in S /\ Rank(S, e) = k
      BY <1>3, NthExists
    <2> HIDE DEF e
    <2>2. e \in Nat /\ e \in 0..n
      BY <1>3, <2>1
    <2>3. \A x \in Nat : x < e => (x \in S <=> 0 + x \in T)
      <3>1. ASSUME NEW x \in Nat, x < e PROVE x \in S <=> 0 + x \in T
        <4>1. x \in 0..n /\ 0 + x = x
          BY <3>1, <2>2, <1>1
        <4> QED
          BY <4>1, <1>4
      <3> QED
        BY <3>1
    <2>4. Rank(T, 0 + e) = Rank(T, 0) + Rank(S, e)
      BY <1>3, <2>2, <2>3, RankShift
    <2>5. Rank(T, 0) = 0
      BY EndsOfText DEF T
    <2>6. Rank(T, e) = k
      BY <2>1, <2>2, <2>4, <2>5
    <2>7. e \in T
      BY <2>1, <2>2, <1>4
    <2>8. Nth(T, k) = e
      BY <2>6, <2>7, <1>3, NthOfRank
    <2> QED
      BY <2>8 DEF EndOf, e, S, T
  <1>8. /\ L \in Seq(Seq(C)) /\ Len(L) = Cardinality(T) - 1
        /\ K \in Seq(Seq(C)) /\ m = Cardinality(S) - 1
    BY <1>2, LabelsOfText DEF S, T
  <1>9. m \in Nat \ {0} /\ Len(L) = m + 1
    BY <1>3, <1>6, <1>8
  <1> HIDE DEF m
  <1>10. ASSUME NEW k \in 1..m PROVE L[k] = K[k]
    <2> DEFINE a == EndOf(f, k - 1)
               b == EndOf(f, k)
    <2>1. k \in 1..Len(L) /\ k \in 1..Len(K)
      BY <1>9 DEF m
    <2>2. EndOf(text, k - 1) = a /\ EndOf(text, k) = b
      BY <1>7, <1>8, <1>9
    <2>3. L[k] \in Seq(C) /\ Between(L[k], text, a, b)
      BY <2>1, <2>2, LabelOfText
    <2>4. /\ K[k] \in Seq(C) /\ Between(K[k], f, a, b)
          /\ a \in 0..Len(f) /\ b \in 1..(Len(f) + 1)
      BY <2>1, <1>2, LabelOfText
    <2> DEFINE p == L[k]
               q == K[k]
    <2> HIDE DEF a, b, p, q, L, K
    <2>5. p \in Seq(C) /\ q \in Seq(C) /\ Len(p) = Len(q)
      BY <2>3, <2>4 DEF Between, p, q
    <2>6. ASSUME NEW i \in 1..Len(p) PROVE p[i] = q[i]
      <3>1. p[i] = text[a + i] /\ q[i] = f[a + i]
        BY <2>3, <2>4, <2>5 DEF Between, p, q
      <3>2. a + i \in 1..(n - 1)
        BY <2>3, <2>4, <1>1, <1>2 DEF Between, p, q
      <3> QED
        BY <3>1, <3>2, <1>2
    <2>7. p = q
      BY <2>5, <2>6, SeqEqual
    <2> QED
      BY <2>7 DEF p, q
  <1>11. L[m + 1] = <<>>
    <2> DEFINE j == m + 1
    <2>1. j \in 1..Len(L) /\ j - 1 = m
      BY <1>9
    <2> HIDE DEF j
    <2>2. EndOf(text, j) = n + 1 /\ EndOf(text, j - 1) = n
      <3>1. EndOf(text, j) = n + 1
        BY <1>3, <1>8, <1>9 DEF j
      <3>2. m \in 0..(Cardinality(S) - 1)
        BY <1>8, <1>9
      <3>3. EndOf(text, m) = n
        BY <3>2, <1>3, <1>7, <1>8
      <3> QED
        BY <2>1, <3>1, <3>3
    <2>3. L[j] \in Seq(C) /\ Between(L[j], text, n, n + 1)
      BY <2>1, <2>2, LabelOfText
    <2>4. Len(L[j]) = 0
      BY <2>3, <1>1 DEF Between
    <2>5. L[j] = <<>>
      BY <2>3, <2>4, EmptySeq
    <2> QED
      BY <2>5 DEF j
  <1> HIDE DEF L, K
  <1>12. Last(L) = <<>>
    BY <1>9, <1>11 DEF Last
  <1>13. Front(L) = K
    <2>1. /\ Front(L) \in Seq(Seq(C)) /\ Len(Front(L)) = m
          /\ \A i \in 1..m : Front(L)[i] = L[i]
      BY <1>8, <1>9 DEF Front
    <2>2. Len(K) = m
      BY DEF m
    <2> QED
      BY <2>1, <2>2, <1>8, <1>10, SeqEqual
  <1>14. Len(L) > 1
    BY <1>9
  <1> QED
    BY <1>8, <1>12, <1>13, <1>14 DEF L, K, f

\* A text that does not end with a dot ends with a label that is not empty.
LEMMA LastLabel ==
  ASSUME NEW C, NEW text \in Seq(C), text # <<>>, Last(text) # Dot
  PROVE  Last(Labels(text)) # <<>>
  <1> DEFINE n == Len(text)
             j == Len(Labels(text))
  <1>1. n \in Nat \ {0} /\ text[n] # Dot
    BY DEF Last
  <1>2. j \in 1..Len(Labels(text)) /\ EndOf(text, j) = n + 1
    BY LabelsOfText, EndsOfText
  <1> DEFINE a == EndOf(text, j - 1)
             l == Labels(text)[j]
  <1>3. /\ a \in Ends(text) /\ a \in 0..n
        /\ Between(l, text, a, n + 1)
    BY <1>2, LabelOfText
  <1>4. a # n
    BY <1>1, <1>3 DEF Ends
  <1> HIDE DEF a, n, l
  <1>5. Len(l) # 0
    BY <1>1, <1>3, <1>4 DEF Between
  <1>6. l # <<>>
    BY <1>5, EmptySeq
  <1> QED
    BY <1>6 DEF Last, l

\* Normalisation yields a name.
LEMMA NormalType ==
  ASSUME NEW t \in Seq(Char)
  PROVE  normalize(t) \in Seq(Char)
  <1> DEFINE low == lowered(t)
  <1>1. low \in Seq(Char)
    BY CharAssumption DEF lowered
  <1> HIDE DEF low
  <1>2. Len(low) > 0 => Front(low) \in Seq(Char)
    BY <1>1 DEF Front
  <1>3. low # <<>> => Len(low) > 0
    BY <1>1
  <1>4. normalize(t) = IF low # <<>> /\ Last(low) = Dot THEN Front(low) ELSE low
    BY DEF normalize, low
  <1> QED
    BY <1>1, <1>2, <1>3, <1>4

\* Normalisation keeps the labels of a name; the empty name has an empty label.
LEMMA LabelsOfNormal ==
  ASSUME NEW name \in Seq(Char)
  PROVE  /\ LabelsOfName(name) = Labels(normalize(name))
         /\ WellFormed(LabelsOfName(name)) => name # <<>>
  <1> DEFINE low == lowered(name)
             L == Labels(low)
  <1>1. low \in Seq(Char) /\ Len(low) = Len(name)
    BY CharAssumption DEF lowered
  <1>2. LabelsOfName(name) = IF Len(L) > 1 /\ Last(L) = <<>> THEN Front(L) ELSE L
    BY DEF LabelsOfName
  <1>3. normalize(name) = IF low # <<>> /\ Last(low) = Dot THEN Front(low) ELSE low
    BY DEF normalize
  <1> HIDE DEF low
  <1>4. CASE low # <<>> /\ Last(low) = Dot
    <2>1. Len(L) > 1 /\ Last(L) = <<>> /\ Front(L) = Labels(Front(low))
      BY <1>1, <1>4, LabelsWithoutDot
    <2>2. name # <<>>
      BY <1>1, <1>4, EmptySeq
    <2> QED
      BY <1>2, <1>3, <1>4, <2>1, <2>2
  <1>5. CASE low # <<>> /\ Last(low) # Dot
    <2>1. Last(L) # <<>>
      BY <1>1, <1>5, LastLabel
    <2>2. name # <<>>
      BY <1>1, <1>5, EmptySeq
    <2> QED
      BY <1>2, <1>3, <1>5, <2>1, <2>2
  <1>6. CASE low = <<>>
    <2>1. Len(low) = 0
      BY <1>6
    <2>2. /\ Len(L) = Cardinality(Ends(low)) - 1 /\ L \in Seq(Seq(Char))
          /\ EndOf(low, Cardinality(Ends(low)) - 1) = 1 /\ EndOf(low, 0) = 0
          /\ Cardinality(Ends(low)) - 1 \in Nat \ {0}
      <3>1. /\ EndOf(low, Cardinality(Ends(low)) - 1) = Len(low) + 1
            /\ EndOf(low, 0) = 0 /\ Cardinality(Ends(low)) - 1 \in Nat \ {0}
        BY <1>1, EndsOfText
      <3>2. Len(L) = Cardinality(Ends(low)) - 1 /\ L \in Seq(Seq(Char))
        BY <1>1, LabelsOfText
      <3>3. Len(low) + 1 = 1
        BY <2>1
      <3> QED
        BY <3>1, <3>2, <3>3
    <2> DEFINE j == Len(L)
    <2>3. j \in 1..Len(L) /\ j \in Nat \ {0} /\ EndOf(low, j) = 1
      BY <2>2
    <2> HIDE DEF j
    <2>4. /\ EndOf(low, j - 1) \in 0..0
          /\ L[j] \in Seq(Char) /\ Between(L[j], low, EndOf(low, j - 1), EndOf(low, j))
      BY <1>1, <2>1, <2>3, LabelOfText
    <2>5. EndOf(low, j - 1) = 0
      BY <2>4
    <2>6. L[j] = <<>>
      <3>1. Between(L[j], low, 0, 1)
        BY <2>3, <2>4, <2>5
      <3>2. Len(L[j]) = 0
        BY <3>1 DEF Between
      <3> QED
        BY <3>2, <2>4, EmptySeq
    <2>7. j = 1
      <3>1. SUFFICES ASSUME j # 1 PROVE FALSE
        OBVIOUS
      <3>2. j - 1 \in 1..Len(L)
        BY <2>3, <3>1
      <3>3. EndOf(low, j - 1) \in 1..(Len(low) + 1)
        BY <1>1, <3>2, LabelOfText
      <3> QED
        BY <2>1, <2>5, <3>3
    <2>8. Len(L) = 1 /\ L[1] = <<>>
      BY <2>6, <2>7 DEF j
    <2>9. LabelsOfName(name) = L
      BY <1>2, <2>8
    <2>10. 1 \in DOMAIN L
      BY <2>2, <2>8
    <2>11. ~WellFormed(L)
      BY <2>8, <2>10 DEF WellFormed
    <2>12. normalize(name) = low
      BY <1>3, <1>6
    <2> HIDE DEF L
    <2>13. LabelsOfName(name) = Labels(normalize(name))
      BY <2>9, <2>12 DEF L
    <2> QED
      BY <2>9, <2>11, <2>13
  <1> QED
    BY <1>4, <1>5, <1>6

-----------------------------------------------------------------------------
(* Texts that end with a text                                                *)

\* std::string::compare at the end of a name.
LEMMA EndsWithBehind ==
  ASSUME NEW C, NEW text \in Seq(C), NEW rest \in Seq(C)
  PROVE  EndsWith(text, rest) <=> \E d \in Nat : Behind(text, d, rest)
  <1> DEFINE n == Len(text)
             l == Len(rest)
             d == n - l
             s == SubSeq(text, d + 1, n)
  <1>1. n \in Nat /\ l \in Nat /\ d \in Int /\ n = d + l
    OBVIOUS
  <1>2. EndsWith(text, rest) <=> n >= l /\ s = rest
    BY DEF EndsWith
  <1>3. \A e \in Nat : Behind(text, e, rest) => e = d
    BY <1>1 DEF Behind
  <1>4. Behind(text, d, rest) <=> \A i \in 1..l : text[d + i] = rest[i]
    BY <1>1 DEF Behind
  <1>5. n >= l => /\ s \in Seq(C) /\ Len(s) = l
                  /\ \A i \in 1..l : s[i] = text[d + i]
    <2> SUFFICES ASSUME n >= l
                 PROVE  /\ s \in Seq(C) /\ Len(s) = l
                        /\ \A i \in 1..l : s[i] = text[d + i]
      OBVIOUS
    <2>1. d \in Nat
      BY <1>1
    <2>2. \A i \in (d + 1)..n : text[i] \in C
      <3>1. \A i \in (d + 1)..n : i \in 1..Len(text)
        BY <1>1, <2>1
      <3> QED
        BY <3>1, ElementOfSeq
    <2> HIDE DEF d
    <2> DEFINE q == SubSeq(text, d + 1, n)
    <2>3. /\ q \in Seq(C) /\ Len(q) = (IF d + 1 <= n THEN n - (d + 1) + 1 ELSE 0)
          /\ \A i \in 1..(n - (d + 1) + 1) : q[i] = text[(d + 1) + i - 1]
      BY <2>1, <2>2, <1>1, SubSeqProperties
    <2> HIDE DEF n, l, q
    <2>4. n - (d + 1) + 1 = l
      BY <1>1, <2>1
    <2>5. Len(q) = l
      <3>1. CASE d + 1 <= n
        BY <2>3, <2>4, <3>1
      <3>2. CASE ~(d + 1 <= n)
        BY <2>3, <3>2, <1>1, <2>1
      <3> QED
        BY <3>1, <3>2
    <2>6. ASSUME NEW i \in 1..l PROVE q[i] = text[d + i]
      <3>1. i \in 1..(n - (d + 1) + 1) /\ (d + 1) + i - 1 = d + i
        BY <1>1, <2>1, <2>4
      <3> QED
        BY <2>3, <3>1
    <2> QED
      BY <2>3, <2>5, <2>6 DEF q, d
  <1> HIDE DEF s, d, l, n
  <1>6. n >= l => (s = rest <=> \A i \in 1..l : text[d + i] = rest[i])
    <2> SUFFICES ASSUME n >= l
                 PROVE  s = rest <=> \A i \in 1..l : text[d + i] = rest[i]
      OBVIOUS
    <2>1. ASSUME s = rest, NEW i \in 1..l PROVE text[d + i] = rest[i]
      BY <2>1, <1>5
    <2>2. ASSUME \A i \in 1..l : text[d + i] = rest[i] PROVE s = rest
      <3>1. Len(s) = Len(rest)
        BY <1>5 DEF l
      <3>2. ASSUME NEW i \in 1..Len(s) PROVE s[i] = rest[i]
        BY <1>5, <2>2
      <3> QED
        BY <3>1, <3>2, <1>5, SeqEqual
    <2> QED
      BY <2>1, <2>2
  <1>7. n >= l <=> d \in Nat
    BY <1>1
  <1> QED
    BY <1>2, <1>3, <1>4, <1>6, <1>7

LEMMA WholeText ==
  ASSUME NEW C, NEW text \in Seq(C), NEW rest \in Seq(C)
  PROVE  text = rest <=> Behind(text, 0, rest)
  <1>1. ASSUME text = rest PROVE Behind(text, 0, rest)
    BY <1>1 DEF Behind
  <1>2. ASSUME Behind(text, 0, rest) PROVE text = rest
    <2>1. Len(text) = Len(rest)
      BY <1>2 DEF Behind
    <2>2. ASSUME NEW i \in 1..Len(text) PROVE text[i] = rest[i]
      <3>1. i \in 1..Len(rest) /\ 0 + i = i
        BY <2>1
      <3> QED
        BY <3>1, <1>2 DEF Behind
    <2> QED
      BY <2>1, <2>2, SeqEqual
  <1> QED
    BY <1>1, <1>2

\* The ends in front of a rest are the beginning and the dots.
LEMMA BehindAnEnd ==
  ASSUME NEW C, NEW text \in Seq(C), NEW rest \in Seq(C)
  PROVE  (\E d \in Ends(text) : Behind(text, d, rest)) <=>
            \/ Behind(text, 0, rest)
            \/ \E d \in Nat \ {0} : Behind(text, d, rest) /\ text[d] = Dot
  <1>1. Len(text) \in Nat /\ Len(rest) \in Nat /\ DOMAIN text = 1..Len(text)
    OBVIOUS
  <1>2. ASSUME NEW d \in Nat \ {0}, Behind(text, d, rest)
        PROVE  d \in Ends(text) <=> text[d] = Dot
    <2>1. d \in 1..Len(text) /\ d # 0 /\ d # Len(text) + 1
      BY <1>1, <1>2 DEF Behind
    <2> QED
      BY <2>1, <1>1 DEF Ends
  <1>3. 0 \in Ends(text)
    BY DEF Ends
  <1>4. Ends(text) \in SUBSET Nat
    BY EndsOfText
  <1> QED
    BY <1>2, <1>3, <1>4

\* The labels in front of the first dot.
LEMMA FirstLabel ==
  ASSUME NEW C, NEW text \in Seq(C), NEW d \in Ends(text), d # 0,
         \A i \in 1..(d - 1) : i \notin Ends(text)
  PROVE  /\ Rank(Ends(text), d) = 1 /\ EndOf(text, 1) = d
         /\ 1 \in 1..Len(Labels(text))
         /\ Labels(text)[1] \in Seq(C)
         /\ Between(Labels(text)[1], text, 0, d)
  <1> DEFINE S == Ends(text)
  <1>1. S \in SUBSET Nat /\ IsFiniteSet(S) /\ EndOf(text, 0) = 0 /\ 0 \in S
    <2>1. 0 \in S
      BY DEF Ends
    <2> QED
      BY <2>1, EndsOfText
  <1>2. Before(S, d) = {0}
    <2>1. ASSUME NEW x \in S, x < d PROVE x = 0
      <3>1. x \in Nat /\ d \in Nat
        BY <1>1
      <3>2. x # 0 => x \in 1..(d - 1)
        BY <3>1, <2>1
      <3> QED
        BY <3>2
    <2>2. 0 < d
      BY <1>1
    <2> HIDE DEF S
    <2> QED
      BY <2>1, <2>2, <1>1 DEF Before
  <1>3. Rank(S, d) = 1
    BY <1>2, FS_Singleton DEF Rank
  <1>4. EndOf(text, 1) = d
    BY <1>1, <1>3, NthOfRank DEF EndOf
  <1>5. 1 \in 1..Len(Labels(text))
    <2>1. Len(Labels(text)) \in Nat \ {0}
      BY LabelsOfText, EndsOfText
    <2> QED
      BY <2>1
  <1>6. Labels(text)[1] \in Seq(C) /\ Between(Labels(text)[1], text, EndOf(text, 1 - 1), EndOf(text, 1))
    BY <1>5, LabelOfText
  <1> QED
    BY <1>1, <1>3, <1>4, <1>5, <1>6

-----------------------------------------------------------------------------
(* The tests of isDomainBlocked in terms of labels                           *)

\* A * in a text is a * in one of its labels.
LEMMA StarInLabel ==
  ASSUME NEW C, NEW text \in Seq(C)
  PROVE  Star \in Range(text) <=>
            \E k \in DOMAIN Labels(text) : Star \in Range(Labels(text)[k])
  <1>1. Labels(text) \in Seq(Seq(C)) /\ DOMAIN Labels(text) = 1..Len(Labels(text))
    BY LabelsOfText
  <1>2. ASSUME NEW i \in DOMAIN text, text[i] = Star
        PROVE  \E k \in DOMAIN Labels(text) : Star \in Range(Labels(text)[k])
    <2>1. i \in 1..Len(text)
      OBVIOUS
    <2>2. i \notin Ends(text)
      <3>1. i # 0 /\ i # Len(text) + 1
        BY <2>1
      <3>2. text[i] # Dot
        BY <1>2 DEF Star, Dot
      <3> QED
        BY <3>1, <3>2 DEF Ends
    <2>3. PICK k \in 1..Len(Labels(text)) :
             /\ i - EndOf(text, k - 1) \in 1..Len(Labels(text)[k])
             /\ Labels(text)[k][i - EndOf(text, k - 1)] = text[i]
      BY <2>1, <2>2, LabelAt
    <2> DEFINE l == Labels(text)[k]
               j == i - EndOf(text, k - 1)
    <2>4. l \in Seq(C)
      BY LabelOfText
    <2>5. j \in 1..Len(l) /\ l[j] = Star
      BY <2>3, <1>2
    <2> HIDE DEF l, j
    <2>6. Star \in Range(l)
      BY <2>4, <2>5 DEF Range
    <2> QED
      BY <2>6, <1>1 DEF l
  <1>3. ASSUME NEW k \in DOMAIN Labels(text), Star \in Range(Labels(text)[k])
        PROVE  \E i \in DOMAIN text : text[i] = Star
    <2> DEFINE l == Labels(text)[k]
               a == EndOf(text, k - 1)
               b == EndOf(text, k)
    <2>1. k \in 1..Len(Labels(text))
      BY <1>1
    <2>2. /\ l \in Seq(C) /\ a \in 0..Len(text) /\ b \in 1..(Len(text) + 1)
          /\ Between(l, text, a, b)
      BY <2>1, LabelOfText
    <2>3. Star \in Range(l)
      BY <1>3
    <2> HIDE DEF l, a, b
    <2>4. PICK j \in 1..Len(l) : l[j] = Star
      BY <2>2, <2>3 DEF Range
    <2>5. text[a + j] = Star /\ a + j \in 1..Len(text)
      BY <2>2, <2>4 DEF Between
    <2> QED
      BY <2>5
  <1> QED
    BY <1>2, <1>3 DEF Range

\* A well-formed name does not begin with a dot.
LEMMA NoLeadingDot ==
  ASSUME NEW C, NEW text \in Seq(C), WellFormed(Labels(text)), 1 \in DOMAIN text
  PROVE  text[1] # Dot
  <1> SUFFICES ASSUME text[1] = Dot PROVE FALSE
    OBVIOUS
  <1>1. 1 \in Ends(text)
    BY DEF Ends
  <1>2. \A i \in 1..(1 - 1) : i \notin Ends(text)
    OBVIOUS
  <1>3. /\ 1 \in 1..Len(Labels(text)) /\ Labels(text)[1] \in Seq(C)
        /\ Between(Labels(text)[1], text, 0, 1)
    BY <1>1, <1>2, FirstLabel
  <1>4. Len(Labels(text)[1]) = 0
    BY <1>3 DEF Between
  <1>5. Labels(text)[1] = <<>>
    BY <1>3, <1>4, EmptySeq
  <1>6. 1 \in DOMAIN Labels(text)
    BY <1>3, LabelsOfText
  <1> QED
    BY <1>5, <1>6 DEF WellFormed

\* The two tests of isDomainBlocked for an exact rule.
LEMMA ExactByLabels ==
  ASSUME NEW name \in Seq(Char), WellFormed(Labels(name)),
         NEW entry \in Seq(Char), Star \notin Range(entry)
  PROVE  name = entry \/ isSubdomainOf(name, entry)
            <=> Covers(Labels(entry), Labels(name))
  <1>1. Len(name) \in Nat /\ Len(entry) \in Nat /\ DOMAIN name = 1..Len(name)
    OBVIOUS
  <1>2. name = entry <=> Behind(name, 0, entry)
    BY WholeText
  <1>3. EndsWith(name, entry) <=> \E d \in Nat : Behind(name, d, entry)
    BY EndsWithBehind
  <1>4. isSubdomainOf(name, entry) <=>
           \E d \in Nat \ {0} : Behind(name, d, entry) /\ name[d] = Dot
    <2>1. \A d \in Nat : Behind(name, d, entry) => d = Len(name) - Len(entry)
      BY <1>1 DEF Behind
    <2>2. ASSUME NEW d \in Nat \ {0}, Behind(name, d, entry), name[d] = Dot PROVE d # 1
      <3>1. 1 <= Len(name)
        BY <1>1, <2>2 DEF Behind
      <3>2. 1 \in DOMAIN name
        BY <1>1, <3>1
      <3> QED
        BY <2>2, <3>2, NoLeadingDot
    <2>3. ASSUME isSubdomainOf(name, entry)
          PROVE  \E d \in Nat \ {0} : Behind(name, d, entry) /\ name[d] = Dot
      <3>1. PICK d \in Nat : Behind(name, d, entry)
        BY <2>3, <1>3 DEF isSubdomainOf
      <3>2. d = Len(name) - Len(entry)
        BY <2>1, <3>1
      <3>3. d # 0 /\ name[d] = Dot
        BY <1>1, <2>3, <3>2 DEF isSubdomainOf
      <3> QED
        BY <3>1, <3>3
    <2>4. ASSUME NEW d \in Nat \ {0}, Behind(name, d, entry), name[d] = Dot
          PROVE  isSubdomainOf(name, entry)
      <3>1. d = Len(name) - Len(entry) /\ d # 1
        BY <2>1, <2>2, <2>4
      <3>2. Len(name) > Len(entry) + 1
        <4>1. d \in Nat /\ d > 1
          BY <3>1
        <4> DEFINE n == Len(name)
                   l == Len(entry)
        <4>2. n \in Nat /\ l \in Nat /\ d = n - l
          BY <1>1, <3>1
        <4> HIDE DEF n, l
        <4>3. n > l + 1
          BY <4>1, <4>2
        <4> QED
          BY <4>3 DEF n, l
      <3> QED
        BY <1>3, <2>4, <3>1, <3>2 DEF isSubdomainOf
    <2> QED
      BY <2>3, <2>4
  <1>5. name = entry \/ isSubdomainOf(name, entry)
           <=> IsSuffix(Labels(entry), Labels(name))
    BY <1>2, <1>4, BehindAnEnd, SuffixOfLabels
  <1>6. \A k \in DOMAIN Labels(entry) : Star \notin Range(Labels(entry)[k])
    BY StarInLabel
  <1>7. ~(Len(Labels(entry)) > 1 /\ Labels(entry)[1] = <<Star>>)
    <2> SUFFICES ASSUME Len(Labels(entry)) > 1, Labels(entry)[1] = <<Star>> PROVE FALSE
      OBVIOUS
    <2>1. 1 \in DOMAIN Labels(entry)
      BY LabelsOfText
    <2>2. Star \in Range(<<Star>>)
      <3>1. 1 \in DOMAIN <<Star>> /\ <<Star>>[1] = Star
        OBVIOUS
      <3> QED
        BY <3>1 DEF Range
    <2> QED
      BY <2>1, <2>2, <1>6
  <1> QED
    BY <1>5, <1>6, <1>7 DEF Covers

\* A pattern that begins with "*." and has the rest of it behind.
LEMMA WildcardLabels ==
  ASSUME NEW p \in Seq(Char), Len(p) >= 2, p[1] = Star, p[2] = Dot
  PROVE  /\ Len(Labels(p)) > 1 /\ Labels(p)[1] = <<Star>>
         /\ Tail(Tail(p)) \in Seq(Char) /\ Behind(p, 2, Tail(Tail(p)))
         /\ Tail(p) \in Seq(Char) /\ Behind(p, 1, Tail(p))
         /\ Tail(Labels(p)) = Labels(Tail(Tail(p)))
  <1> DEFINE q == Tail(p)
             r == Tail(q)
             L == Labels(p)
             K == Labels(r)
  <1>1. /\ q \in Seq(Char) /\ Len(q) = Len(p) - 1
        /\ \A i \in 1..Len(q) : q[i] = p[i + 1]
    OBVIOUS
  <1> HIDE DEF q
  <1>2. /\ r \in Seq(Char) /\ Len(r) = Len(q) - 1
        /\ \A i \in 1..Len(r) : r[i] = q[i + 1]
    BY <1>1
  <1> HIDE DEF r
  <1>3. Behind(p, 1, q)
    BY <1>1 DEF Behind
  <1>4. Behind(p, 2, r)
    <2>1. ASSUME NEW i \in 1..Len(r) PROVE p[2 + i] = r[i]
      <3>1. i + 1 \in 1..Len(q) /\ (i + 1) + 1 = 2 + i
        BY <1>1, <1>2
      <3> QED
        BY <3>1, <1>1, <1>2
    <2> QED
      BY <2>1, <1>1, <1>2 DEF Behind
  <1>5. 2 \in Ends(p) /\ 1 \notin Ends(p)
    <2>1. p[1] # Dot
      BY DEF Star, Dot
    <2>2. 1 # Len(p) + 1
      OBVIOUS
    <2> QED
      BY <2>1, <2>2 DEF Ends
  <1>6. \A i \in 1..(2 - 1) : i \notin Ends(p)
    BY <1>5
  <1>7. /\ Rank(Ends(p), 2) = 1 /\ L[1] \in Seq(Char)
        /\ Between(L[1], p, 0, 2)
    BY <1>5, <1>6, FirstLabel
  <1>8. L[1] = <<Star>>
    <2>1. Len(L[1]) = 1
      BY <1>7 DEF Between
    <2>2. L[1][1] = Star
      BY <1>7, <2>1 DEF Between
    <2> HIDE DEF L
    <2> QED
      BY <1>7, <2>1, <2>2
  <1>9. Behind(L, 1, K)
    BY <1>2, <1>4, <1>5, <1>7, LabelsOfRest
  <1>10. /\ L \in Seq(Seq(Char)) /\ K \in Seq(Seq(Char)) /\ Len(K) \in Nat \ {0}
    BY <1>2, LabelsOfText, EndsOfText
  <1> HIDE DEF L, K
  <1>11. Len(L) = 1 + Len(K) /\ Len(L) > 1
    BY <1>9, <1>10 DEF Behind
  <1>12. Tail(L) = K
    <2>1. /\ Tail(L) \in Seq(Seq(Char)) /\ Len(Tail(L)) = Len(K)
          /\ \A i \in 1..Len(K) : Tail(L)[i] = L[1 + i]
      BY <1>10, <1>11
    <2>2. \A i \in 1..Len(K) : Tail(L)[i] = K[i]
      BY <2>1, <1>9 DEF Behind
    <2> QED
      BY <2>1, <2>2, <1>10, SeqEqual
  <1> QED
    BY <1>1, <1>2, <1>3, <1>4, <1>8, <1>11, <1>12 DEF q, r, L, K

\* domainMatchesPattern: a pattern "*.domain" stands for the domain and what is
\* below, and no other pattern stands for anything.
LEMMA PatternByLabels ==
  ASSUME NEW name \in Seq(Char), NEW p \in Seq(Char), Star \in Range(p)
  PROVE  domainMatchesPattern(name, p) <=> Covers(Labels(p), Labels(name))
  <1>1. CASE Len(p) >= 2 /\ p[1] = Star /\ p[2] = Dot
    <2> DEFINE q == Tail(p)
               r == Tail(q)
    <2>1. /\ Len(Labels(p)) > 1 /\ Labels(p)[1] = <<Star>>
          /\ r \in Seq(Char) /\ Behind(p, 2, r)
          /\ q \in Seq(Char) /\ Behind(p, 1, q)
          /\ Tail(Labels(p)) = Labels(r)
      BY <1>1, WildcardLabels
    <2>2. domainMatchesPattern(name, p) <=> EndsWith(name, q) \/ name = r
      BY <1>1 DEF domainMatchesPattern
    <2>3. Covers(Labels(p), Labels(name)) <=> IsSuffix(Labels(r), Labels(name))
      BY <2>1 DEF Covers
    <2> HIDE DEF q, r
    <2>4. Len(q) \in Nat \ {0} /\ Len(q) = 1 + Len(r) /\ q[1] = Dot
      <3>1. Len(p) = 1 + Len(q) /\ Len(p) = 2 + Len(r)
        BY <2>1 DEF Behind
      <3>2. Len(q) \in Nat /\ Len(r) \in Nat
        BY <2>1
      <3>3. Len(q) = 1 + Len(r) /\ 1 \in 1..Len(q) /\ 1 + 1 = 2
        BY <3>1, <3>2
      <3>4. q[1] = p[1 + 1]
        BY <2>1, <3>3 DEF Behind
      <3> QED
        BY <3>2, <3>3, <3>4, <1>1
    <2>5. \A i \in 1..Len(r) : q[1 + i] = r[i]
      <3>1. ASSUME NEW i \in 1..Len(r) PROVE q[1 + i] = r[i]
        <4>1. 1 + i \in 1..Len(q) /\ 1 + (1 + i) = 2 + i
          BY <2>1, <2>4
        <4>2. p[1 + (1 + i)] = q[1 + i] /\ p[2 + i] = r[i]
          BY <2>1, <4>1 DEF Behind
        <4> QED
          BY <4>1, <4>2
      <3> QED
        BY <3>1
    <2>6. (\E d \in Nat : Behind(name, d, q)) <=>
             \E d \in Nat \ {0} : Behind(name, d, r) /\ name[d] = Dot
      <3>1. ASSUME NEW d \in Nat, Behind(name, d, q)
            PROVE  Behind(name, d + 1, r) /\ name[d + 1] = Dot
        <4>1. Len(name) = (d + 1) + Len(r)
          <5>1. Len(name) = d + Len(q)
            BY <3>1 DEF Behind
          <5>2. Len(r) \in Nat
            BY <2>1
          <5> QED
            BY <5>1, <5>2, <2>4
        <4>2. name[d + 1] = Dot
          <5>1. 1 \in 1..Len(q)
            BY <2>4
          <5> QED
            BY <5>1, <3>1, <2>4 DEF Behind
        <4>3. ASSUME NEW i \in 1..Len(r) PROVE name[(d + 1) + i] = r[i]
          <5>1. 1 + i \in 1..Len(q) /\ d + (1 + i) = (d + 1) + i
            BY <2>1, <2>4
          <5>2. name[d + (1 + i)] = q[1 + i]
            BY <5>1, <3>1 DEF Behind
          <5> QED
            BY <5>1, <5>2, <2>5
        <4> QED
          BY <4>1, <4>2, <4>3 DEF Behind
      <3>2. ASSUME NEW d \in Nat \ {0}, Behind(name, d, r), name[d] = Dot
            PROVE  Behind(name, d - 1, q)
        <4>1. Len(name) = (d - 1) + Len(q)
          <5>1. Len(name) = d + Len(r)
            BY <3>2 DEF Behind
          <5>2. Len(r) \in Nat
            BY <2>1
          <5> QED
            BY <5>1, <5>2, <2>4
        <4>2. ASSUME NEW i \in 1..Len(q) PROVE name[(d - 1) + i] = q[i]
          <5>1. CASE i = 1
            <6>1. (d - 1) + i = d
              BY <5>1
            <6> QED
              BY <6>1, <5>1, <3>2, <2>4
          <5>2. CASE i # 1
            <6>1. i - 1 \in 1..Len(r) /\ d + (i - 1) = (d - 1) + i /\ 1 + (i - 1) = i
              BY <5>2, <2>1, <2>4
            <6>2. name[d + (i - 1)] = r[i - 1]
              BY <6>1, <3>2 DEF Behind
            <6>3. q[1 + (i - 1)] = r[i - 1]
              BY <6>1, <2>5
            <6> QED
              BY <6>1, <6>2, <6>3
          <5> QED
            BY <5>1, <5>2
        <4> QED
          BY <4>1, <4>2 DEF Behind
      <3>3. \A d \in Nat : d + 1 \in Nat \ {0}
        OBVIOUS
      <3>4. \A d \in Nat \ {0} : d - 1 \in Nat
        OBVIOUS
      <3> QED
        BY <3>1, <3>2, <3>3, <3>4
    <2>7. EndsWith(name, q) <=> \E d \in Nat : Behind(name, d, q)
      BY <2>1, EndsWithBehind
    <2>8. name = r <=> Behind(name, 0, r)
      BY <2>1, WholeText
    <2>9. IsSuffix(Labels(r), Labels(name)) <=>
             \/ Behind(name, 0, r)
             \/ \E d \in Nat \ {0} : Behind(name, d, r) /\ name[d] = Dot
      BY <2>1, BehindAnEnd, SuffixOfLabels
    <2> QED
      BY <2>2, <2>3, <2>6, <2>7, <2>8, <2>9
  <1>2. CASE ~(Len(p) >= 2 /\ p[1] = Star /\ p[2] = Dot)
    <2>1. ~domainMatchesPattern(name, p)
      BY <1>2 DEF domainMatchesPattern
    <2>2. ~(Len(Labels(p)) > 1 /\ Labels(p)[1] = <<Star>>)
      <3> SUFFICES ASSUME Len(Labels(p)) > 1, Labels(p)[1] = <<Star>> PROVE FALSE
        OBVIOUS
      <3> DEFINE l == Labels(p)[1]
                 b == EndOf(p, 1)
                 c == EndOf(p, 2)
      <3>1. 1 \in 1..Len(Labels(p)) /\ 2 \in 1..Len(Labels(p))
        BY LabelsOfText
      <3>2. b \in Ends(p) /\ Between(l, p, EndOf(p, 1 - 1), b)
        BY <3>1, LabelOfText
      <3>3. EndOf(p, 2 - 1) < c /\ c \in 1..(Len(p) + 1)
        BY <3>1, LabelOfText
      <3>4. EndOf(p, 1 - 1) = 0 /\ Ends(p) \in SUBSET Nat
        BY EndsOfText
      <3>5. Len(l) = 1 /\ l[1] = Star
        OBVIOUS
      <3> HIDE DEF l, c
      <3>6. b < c
        BY <3>3
      <3> HIDE DEF b
      <3>7. b = 2
        <4>1. 1 = b - 0 - 1 /\ b \in Nat
          BY <3>2, <3>4, <3>5 DEF Between
        <4> QED
          BY <4>1
      <3>8. p[1] = Star
        <4>1. 1 \in 1..Len(l)
          BY <3>5
        <4>2. l[1] = p[0 + 1]
          BY <3>2, <3>4, <4>1 DEF Between
        <4>3. 0 + 1 = 1
          OBVIOUS
        <4> QED
          BY <4>2, <4>3, <3>5
      <3>9. 2 <= Len(p)
        BY <3>3, <3>6, <3>7
      <3>10. p[2] = Dot
        BY <3>2, <3>7, <3>9 DEF Ends
      <3> QED
        BY <3>8, <3>9, <3>10, <1>2
    <2>3. \E k \in DOMAIN Labels(p) : Star \in Range(Labels(p)[k])
      BY StarInLabel
    <2> QED
      BY <2>1, <2>2, <2>3 DEF Covers
  <1> QED
    BY <1>1, <1>2

\* The names that saving and loading leaves as they are.
Normal == {d \in Seq(Char) : normalize(d) = d}

\* A rule as it is stored is in lower case.
LEMMA LoweredNormal ==
  ASSUME NEW d \in Normal
  PROVE  d \in Seq(Char) /\ lowered(d) = d
  <1> DEFINE low == lowered(d)
  <1>1. d \in Seq(Char) /\ normalize(d) = d
    BY DEF Normal
  <1>2. low \in Seq(Char) /\ Len(low) = Len(d)
    BY <1>1, CharAssumption DEF lowered
  <1>3. normalize(d) = IF low # <<>> /\ Last(low) = Dot THEN Front(low) ELSE low
    BY DEF normalize
  <1> HIDE DEF low
  <1>4. ASSUME low # <<>>, Front(low) = d PROVE FALSE
    <2>1. Len(low) \in Nat \ {0}
      BY <1>2, <1>4, EmptySeq
    <2>2. Len(Front(low)) = Len(low) - 1
      BY <1>2, <2>1 DEF Front
    <2>3. Len(d) = Len(low) - 1
      BY <1>4, <2>2
    <2> QED
      BY <1>2, <2>1, <2>3
  <1>5. low = d
    BY <1>1, <1>3, <1>4
  <1> QED
    BY <1>1, <1>5 DEF low

\* isDomainBlocked asks for the labels, for all names and all rules.
LEMMA MatchesLabels ==
  ASSUME NEW exact, exact \subseteq Normal, \A d \in exact : ~isWildcard(d),
         NEW patterns, patterns \subseteq Normal, \A p \in patterns : isWildcard(p),
         NEW name \in Seq(Char), WellFormed(LabelsOfName(name))
  PROVE  matches(name, exact, patterns) <=>
            \E rule \in {Labels(lowered(d)) : d \in exact \cup patterns} :
               Covers(rule, LabelsOfName(name))
  <1> DEFINE low == normalize(name)
             L == Labels(low)
  <1>1. LabelsOfName(name) = L /\ name # <<>> /\ low \in Seq(Char)
    BY LabelsOfNormal, NormalType
  <1> HIDE DEF low
  <1>2. WellFormed(L)
    BY <1>1
  <1>3. ASSUME NEW d \in exact
        PROVE  (low = d \/ isSubdomainOf(low, d)) <=> Covers(Labels(lowered(d)), L)
    <2>1. d \in Seq(Char) /\ lowered(d) = d
      BY LoweredNormal
    <2>2. Star \notin Range(d)
      BY DEF isWildcard
    <2>3. (low = d \/ isSubdomainOf(low, d)) <=> Covers(Labels(d), L)
      BY <1>1, <1>2, <2>1, <2>2, ExactByLabels
    <2> QED
      BY <2>1, <2>3
  <1>4. ASSUME NEW p \in patterns
        PROVE  domainMatchesPattern(low, lowered(p)) <=> Covers(Labels(lowered(p)), L)
    <2>1. p \in Seq(Char) /\ lowered(p) = p
      BY LoweredNormal
    <2>2. Star \in Range(p)
      BY DEF isWildcard
    <2>3. domainMatchesPattern(low, p) <=> Covers(Labels(p), L)
      BY <1>1, <2>1, <2>2, PatternByLabels
    <2> QED
      BY <2>1, <2>3
  <1>5. matches(name, exact, patterns) <=>
           \/ low \in exact
           \/ \E d \in exact : isSubdomainOf(low, d)
           \/ \E p \in patterns : domainMatchesPattern(low, lowered(p))
    BY <1>1 DEF matches, low
  <1> HIDE DEF L
  <1>6. matches(name, exact, patterns) <=>
           \/ \E d \in exact : Covers(Labels(lowered(d)), L)
           \/ \E p \in patterns : Covers(Labels(lowered(p)), L)
    BY <1>3, <1>4, <1>5
  <1>7. (\E rule \in {Labels(lowered(d)) : d \in exact \cup patterns} : Covers(rule, L))
           <=> \E d \in exact \cup patterns : Covers(Labels(lowered(d)), L)
    OBVIOUS
  <1> QED
    BY <1>1, <1>6, <1>7
=============================================================================
