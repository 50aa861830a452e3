--------------------------- MODULE KeySpaceProofs ---------------------------
(***************************************************************************)
(* Proofs about the key space and about daw.  First the order of keys,     *)
(* what a scan of a range returns, which keys the range of a prefix holds, *)
(* that the lists of different owners are apart, and which items a page    *)
(* reads; then the invariant of the deletions.                             *)
(***************************************************************************)
EXTENDS Daw, OrderLemmas

Key == Seq(Nat)

-----------------------------------------------------------------------------
(* The lexicographic order of keys is a strict total order.                *)

\* a goes below b at position i, after an equal beginning
BelowAt(a, b, i) ==
  /\ i > Len(a) \/ a[i] < b[i]
  /\ \A j \in 1..(i - 1) : j <= Len(a) /\ a[j] = b[j]

LEMMA KeyLessAt ==
  ASSUME NEW a, NEW b
  PROVE  KeyLess(a, b) <=> \E i \in 1..Len(b) : BelowAt(a, b, i)
BY Zenon DEF KeyLess, BelowAt

LEMMA SameKey ==
  ASSUME NEW a \in Key, NEW b \in Key, Len(a) = Len(b), \A i \in 1..Len(a) : a[i] = b[i]
  PROVE  a = b
BY SMTT(30) DEF Key

LEMMA KeyIrreflexive ==
  ASSUME NEW a \in Key
  PROVE  ~KeyLess(a, a)
BY SMTT(30) DEF Key, KeyLess

LEMMA KeyTransitive ==
  ASSUME NEW a \in Key, NEW b \in Key, NEW c \in Key, KeyLess(a, b), KeyLess(b, c)
  PROVE  KeyLess(a, c)
<1>1. PICK i \in 1..Len(b) : BelowAt(a, b, i)
  BY KeyLessAt, Zenon
<1>2. PICK j \in 1..Len(c) : BelowAt(b, c, j)
  BY KeyLessAt, Zenon
<1>3. CASE i < j
  <2>1. BelowAt(a, c, i) /\ i \in 1..Len(c)
    BY <1>1, <1>2, <1>3, SMTT(30) DEF BelowAt, Key
  <2> QED BY <2>1, KeyLessAt, Zenon
<1>4. CASE i >= j
  <2>1. BelowAt(a, c, j)
    BY <1>1, <1>2, <1>4, SMTT(60) DEF BelowAt, Key
  <2> QED BY <2>1, KeyLessAt, Zenon
<1>5. i < j \/ i >= j
  BY SMTT(30)
<1> QED BY <1>3, <1>4, <1>5, Zenon

LEMMA KeyTotal ==
  ASSUME NEW a \in Key, NEW b \in Key, a # b
  PROVE  KeyLess(a, b) \/ KeyLess(b, a)
<1> DEFINE D == {i \in Nat \ {0} : /\ i <= Len(a) \/ i <= Len(b)
                                   /\ i > Len(a) \/ i > Len(b) \/ a[i] # b[i]}
<1>1. D # {}
  <2>1. CASE Len(a) = Len(b)
    BY <2>1, SMTT(60) DEF Key
  <2>2. CASE Len(a) < Len(b)
    <3>1. Len(a) + 1 \in D
      BY <2>2, SMTT(30) DEF Key
    <3> QED BY <3>1, Zenon
  <2>3. CASE Len(b) < Len(a)
    <3>1. Len(b) + 1 \in D
      BY <2>3, SMTT(30) DEF Key
    <3> QED BY <3>1, Zenon
  <2>4. Len(a) \in Nat /\ Len(b) \in Nat
    BY SMTT(30) DEF Key
  <2> QED BY <2>1, <2>2, <2>3, <2>4, SMTT(30)
<1>2. PICK d \in D : \A i \in D : d <= i
  BY <1>1, Least, Zenon
<1> HIDE DEF D
<1>3. \A j \in 1..(d - 1) : j \notin D
  BY <1>2, SMTT(30) DEF D
<1>4. \A j \in 1..(d - 1) : j <= Len(a) /\ j <= Len(b) /\ a[j] = b[j]
  BY <1>2, <1>3, SMTT(30) DEF D, Key
<1>5. CASE d > Len(a) \/ (d <= Len(b) /\ a[d] < b[d])
  <2>1. BelowAt(a, b, d) /\ d \in 1..Len(b)
    BY <1>2, <1>4, <1>5, SMTT(30) DEF D, Key, BelowAt
  <2> QED BY <2>1, KeyLessAt, Zenon
<1>6. CASE d > Len(b) \/ (d <= Len(a) /\ b[d] < a[d])
  <2>1. BelowAt(b, a, d) /\ d \in 1..Len(a)
    BY <1>2, <1>4, <1>6, SMTT(30) DEF D, Key, BelowAt
  <2> QED BY <2>1, KeyLessAt, Zenon
<1>7. \/ d > Len(a) \/ (d <= Len(b) /\ a[d] < b[d])
      \/ d > Len(b) \/ (d <= Len(a) /\ b[d] < a[d])
  BY <1>2, SMTT(30) DEF D, Key
<1> QED BY <1>5, <1>6, <1>7, Zenon

\* so what is not below is equal or above
LEMMA KeyNotLess ==
  ASSUME NEW a \in Key, NEW b \in Key
  PROVE  /\ ~KeyLess(a, b) => a = b \/ KeyLess(b, a)
         /\ KeyLess(a, b) => ~KeyLess(b, a)
BY KeyTotal, KeyTransitive, KeyIrreflexive, Zenon

\* nothing lies between a key and the one that is a byte 0 longer
LEMMA NextKeyIsNext ==
  ASSUME NEW k \in Key, NEW a \in Key
  PROVE  /\ NextKey(a) \in Key
         /\ KeyLess(k, NextKey(a)) <=> k = a \/ KeyLess(k, a)
<1>1. NextKey(a) \in Key /\ Len(NextKey(a)) = Len(a) + 1
  BY SMTT(30) DEF Key, NextKey
<1>2. \A j \in 1..Len(a) : NextKey(a)[j] = a[j]
  BY SMTT(30) DEF Key, NextKey
<1>3. NextKey(a)[Len(a) + 1] = 0
  BY SMTT(30) DEF Key, NextKey
<1>4. ASSUME k = a PROVE KeyLess(k, NextKey(a))
  <2>1. BelowAt(k, NextKey(a), Len(a) + 1)
    BY <1>2, <1>4, SMTT(30) DEF Key, BelowAt
  <2>2. Len(a) + 1 \in 1..Len(NextKey(a))
    BY <1>1, SMTT(30) DEF Key
  <2> QED BY <2>1, <2>2, KeyLessAt, Zenon
<1>5. ASSUME KeyLess(k, a) PROVE KeyLess(k, NextKey(a))
  <2>1. KeyLess(a, NextKey(a))
    <3>1. BelowAt(a, NextKey(a), Len(a) + 1)
      BY <1>2, SMTT(30) DEF Key, BelowAt
    <3>2. Len(a) + 1 \in 1..Len(NextKey(a))
      BY <1>1, SMTT(30) DEF Key
    <3> QED BY <3>1, <3>2, KeyLessAt, Zenon
  <2> QED BY <1>1, <1>5, <2>1, KeyTransitive, Zenon
<1>6. ASSUME KeyLess(k, NextKey(a)) PROVE k = a \/ KeyLess(k, a)
  <2>1. PICK i \in 1..Len(NextKey(a)) : BelowAt(k, NextKey(a), i)
    BY <1>6, KeyLessAt, Zenon
  <2>2. CASE i <= Len(a)
    <3>1. BelowAt(k, a, i) /\ i \in 1..Len(a)
      BY <1>1, <1>2, <2>1, <2>2, SMTT(60) DEF Key, BelowAt
    <3> QED BY <3>1, KeyLessAt, Zenon
  <2>3. CASE i = Len(a) + 1
    <3>1. i > Len(k)
      BY <1>3, <2>1, <2>3, SMTT(30) DEF Key, BelowAt
    <3>2. \A j \in 1..Len(a) : j <= Len(k) /\ k[j] = a[j]
      BY <1>2, <2>1, <2>3, SMTT(30) DEF Key, BelowAt
    <3>3. Len(k) = Len(a)
      <4>1. Len(k) \in Nat /\ Len(a) \in Nat
        BY SMTT(30) DEF Key
      <4>2. Len(a) > 0 => Len(a) \in 1..Len(a)
        BY <4>1, SMTT(30)
      <4>3. Len(a) > 0 => Len(a) <= Len(k)
        BY <3>2, <4>2, Zenon
      <4> QED BY <2>3, <3>1, <4>1, <4>3, SMTT(30)
    <3>4. k = a
      BY <3>2, <3>3, SameKey, Zenon
    <3> QED BY <3>4, Zenon
  <2>4. i <= Len(a) \/ i = Len(a) + 1
    BY <1>1, <2>1, SMTT(30) DEF Key
  <2> QED BY <2>2, <2>3, <2>4, Zenon
<1> QED BY <1>1, <1>4, <1>5, <1>6, Zenon

-----------------------------------------------------------------------------
(* What a scan returns.                                                    *)

\* how many keys of S come before k
Before(S, k) == Cardinality({x \in S : KeyLess(x, k)})

LEMMA BeforeType ==
  ASSUME NEW S \in SUBSET Key, IsFiniteSet(S), NEW k \in S
  PROVE  Before(S, k) \in 0..(Cardinality(S) - 1)
<1> DEFINE T == {x \in S : KeyLess(x, k)}
<1>1. k \in Key /\ ~KeyLess(k, k)
  BY KeyIrreflexive, Zenon
<1>2. T \subseteq S \ {k}
  BY <1>1, Zenon
<1>3. Before(S, k) = Cardinality(T)
  BY Zenon DEF Before
<1> HIDE DEF T
<1> DEFINE R == S \ {k}
<1>4. IsFiniteSet(R) /\ Cardinality(R) = Cardinality(S) - 1
  BY FS_RemoveElement, Zenon
<1>5. T \subseteq R
  BY <1>2, Zenon
<1> HIDE DEF R
<1>6. IsFiniteSet(T) /\ Cardinality(T) <= Cardinality(R)
  BY <1>4, <1>5, FS_Subset, Zenon
<1>7. Cardinality(T) \in Nat /\ Cardinality(S) \in Nat
  BY <1>6, FS_CardinalityType, Zenon
<1> QED BY <1>3, <1>4, <1>6, <1>7, SMTT(30)

LEMMA BeforeMonotone ==
  ASSUME NEW S \in SUBSET Key, IsFiniteSet(S), NEW a \in S, NEW b \in S, KeyLess(a, b)
  PROVE  Before(S, a) < Before(S, b)
<1> DEFINE T == {x \in S : KeyLess(x, a)}
           U == {x \in S : KeyLess(x, b)}
<1>1. a \notin T /\ T \subseteq S /\ U \subseteq S
  BY KeyIrreflexive, Zenon
<1>2. \A x \in S : KeyLess(x, a) => KeyLess(x, b)
  BY KeyTransitive, Zenon
<1>3. T \cup {a} \subseteq U
  BY <1>2, Zenon
<1>4. Before(S, a) = Cardinality(T) /\ Before(S, b) = Cardinality(U)
  BY Zenon DEF Before
<1> HIDE DEF T, U
<1>5. IsFiniteSet(T) /\ IsFiniteSet(U)
  BY <1>1, FS_Subset, Zenon
<1>6. Cardinality(T \cup {a}) = Cardinality(T) + 1
  BY <1>1, <1>5, FS_AddElement, Zenon
<1>7. Cardinality(T \cup {a}) <= Cardinality(U)
  BY <1>3, <1>5, FS_Subset, Zenon
<1>8. Cardinality(T) \in Nat /\ Cardinality(U) \in Nat
  BY <1>5, FS_CardinalityType, Zenon
<1> QED BY <1>4, <1>6, <1>7, <1>8, SMTT(30)

LEMMA BeforeDiffers ==
  ASSUME NEW S \in SUBSET Key, IsFiniteSet(S), NEW a \in S, NEW b \in S
  PROVE  /\ Before(S, a) = Before(S, b) => a = b
         /\ Before(S, a) < Before(S, b) => KeyLess(a, b)
<1>1. a \in Key /\ b \in Key
  BY Zenon
<1>2. a = b \/ KeyLess(a, b) \/ KeyLess(b, a)
  BY <1>1, KeyTotal, Zenon
<1>3. Before(S, a) \in Int /\ Before(S, b) \in Int
  BY BeforeType, SMTT(30)
<1>4. KeyLess(a, b) => Before(S, a) < Before(S, b)
  BY BeforeMonotone, Zenon
<1>5. KeyLess(b, a) => Before(S, b) < Before(S, a)
  BY BeforeMonotone, Zenon
<1> QED BY <1>2, <1>3, <1>4, <1>5, SMTT(30)

\* every place in the order is taken
LEMMA BeforeTaken ==
  ASSUME NEW S \in SUBSET Key, IsFiniteSet(S), NEW n \in 0..(Cardinality(S) - 1)
  PROVE  \E k \in S : Before(S, k) = n
<1> DEFINE P == 0..(Cardinality(S) - 1)
           f == [k \in S |-> Before(S, k)]
<1>1. Cardinality(S) \in Nat
  BY FS_CardinalityType, Zenon
<1>2. IsFiniteSet(P) /\ Cardinality(P) = Cardinality(S)
  <2>1. Cardinality(S) - 1 \in Int /\ 0 \in Int
    BY <1>1, SMTT(30)
  <2>2. /\ IsFiniteSet(P)
        /\ Cardinality(P) = IF 0 > Cardinality(S) - 1 THEN 0 ELSE (Cardinality(S) - 1) - 0 + 1
    BY <2>1, FS_Interval, Zenon
  <2> QED BY <1>1, <2>2, SMTT(30)
<1>3. f \in [S -> P]
  BY BeforeType, Zenon
<1>4. \A a, b \in S : f[a] = f[b] => a = b
  BY BeforeDiffers, Zenon
<1>5. f \in Injection(S, P)
  BY <1>3, <1>4, Zenon DEF Injection, IsInjective
<1>6. f \in Surjection(S, P)
  BY <1>2, <1>5, FS_Injection, Zenon
<1>7. \E k \in S : f[k] = n
  BY <1>6, Zenon DEF Surjection
<1> QED BY <1>7, Zenon

LEMMA AscendingProperties ==
  ASSUME NEW S \in SUBSET Key, IsFiniteSet(S)
  PROVE  /\ Ascending(S) \in [1..Cardinality(S) -> S]
         /\ \A i, j \in 1..Cardinality(S) : i < j => KeyLess(Ascending(S)[i], Ascending(S)[j])
         /\ \A k \in S : \E i \in 1..Cardinality(S) : Ascending(S)[i] = k
<1> DEFINE n == Cardinality(S)
           A == Ascending(S)
<1>1. n \in Nat
  BY FS_CardinalityType, Zenon
<1>2. ASSUME NEW i \in 1..n
      PROVE  A[i] \in S /\ Before(S, A[i]) = i - 1
  <2>1. i - 1 \in 0..(n - 1)
    BY <1>1, SMTT(30)
  <2>2. \E k \in S : Before(S, k) = i - 1
    BY <2>1, BeforeTaken, Zenon
  <2>3. A[i] = CHOOSE k \in S : Before(S, k) = i - 1
    BY Zenon DEF Ascending, Before
  <2> HIDE DEF A
  <2> QED BY <2>2, <2>3, Zenon
<1>3. A = [i \in 1..n |-> CHOOSE k \in S : Before(S, k) = i - 1]
  BY Zenon DEF Ascending, Before
<1> HIDE DEF A
<1>4. A \in [1..n -> S]
  <2>1. \A i \in 1..n : (CHOOSE k \in S : Before(S, k) = i - 1) \in S
    BY <1>2, <1>3, Zenon
  <2> QED BY <1>3, <2>1, Zenon
<1>5. ASSUME NEW i \in 1..n, NEW j \in 1..n, i < j
      PROVE  KeyLess(A[i], A[j])
  <2>1. Before(S, A[i]) < Before(S, A[j])
    BY <1>1, <1>2, <1>5, SMTT(30)
  <2> QED BY <1>2, <2>1, BeforeDiffers, Zenon
<1>6. ASSUME NEW k \in S
      PROVE  \E i \in 1..n : A[i] = k
  <2>1. Before(S, k) \in 0..(n - 1)
    BY BeforeType, Zenon
  <2>2. Before(S, k) + 1 \in 1..n /\ (Before(S, k) + 1) - 1 = Before(S, k)
    BY <1>1, <2>1, SMTT(30)
  <2>3. A[Before(S, k) + 1] = k
    BY <1>2, <2>2, BeforeDiffers, Zenon
  <2> QED BY <2>2, <2>3, Zenon
<1> QED BY <1>4, <1>5, <1>6, Zenon DEF A

\* A scan returns the first keys of its range, in ascending order: it is
\* empty only if the range is, and when it leaves keys out it is full and
\* they come after its last key.
IsScan(ks, d, r, limit) ==
  /\ ks \in Seq(KeysIn(d, r)) /\ Len(ks) <= limit
  /\ ks = <<>> <=> KeysIn(d, r) = {}
  /\ \A i, j \in 1..Len(ks) : i < j => KeyLess(ks[i], ks[j])
  /\ ks # <<>> => \A k \in KeysIn(d, r) :
                    \/ \E i \in 1..Len(ks) : ks[i] = k
                    \/ Len(ks) = limit /\ KeyLess(ks[Len(ks)], k)

\* a scan returns at most as many keys as it is asked for, so none when asked for none
LEMMA ScanIsShort ==
  ASSUME NEW d, DOMAIN d \subseteq Key, IsFiniteSet(DOMAIN d), NEW r, NEW limit \in Nat,
         NEW ks, ks = Scan(d, r, limit)
  PROVE  ks \in Seq(KeysIn(d, r)) /\ Len(ks) <= limit
<1> DEFINE S == KeysIn(d, r)
           A == Ascending(S)
           n == Cardinality(S)
           m == IF limit < n THEN limit ELSE n
<1>1. S \in SUBSET Key /\ IsFiniteSet(S)
  <2>1. S \subseteq DOMAIN d
    BY Zenon DEF KeysIn
  <2> QED BY <2>1, FS_Subset, Zenon
<1>2. A \in [1..n -> S]
  BY <1>1, AscendingProperties, Zenon
<1>3. n \in Nat
  BY <1>1, FS_CardinalityType, Zenon
<1>4. ks = First(A, limit)
  BY Zenon DEF Scan
<1> HIDE DEF S, A, n
<1>5. A \in Seq(S) /\ Len(A) = n
  BY <1>2, <1>3, SMTT(30)
<1>6. m \in 0..n /\ m <= limit
  BY <1>3, SMTT(30)
<1>7. ks = SubSeq(A, 1, m)
  BY <1>4, <1>5, Zenon DEF First
<1> HIDE DEF m
<1>8. ks \in Seq(S) /\ Len(ks) = m
  BY <1>2, <1>3, <1>5, <1>6, <1>7, SMTT(30)
<1> QED BY <1>6, <1>8, Zenon DEF S

LEMMA ScanReturns ==
  ASSUME NEW d, DOMAIN d \subseteq Key, IsFiniteSet(DOMAIN d), NEW r, NEW limit \in Nat \ {0},
         NEW ks, ks = Scan(d, r, limit)
  PROVE  IsScan(ks, d, r, limit)
<1> DEFINE S == KeysIn(d, r)
           A == Ascending(S)
           n == Cardinality(S)
           m == IF limit < n THEN limit ELSE n
<1>1. S \in SUBSET Key /\ IsFiniteSet(S)
  <2>1. S \subseteq DOMAIN d
    BY Zenon DEF KeysIn
  <2> QED BY <2>1, FS_Subset, Zenon
<1>2. /\ A \in [1..n -> S]
      /\ \A i, j \in 1..n : i < j => KeyLess(A[i], A[j])
      /\ \A k \in S : \E i \in 1..n : A[i] = k
  BY <1>1, AscendingProperties, Zenon
<1>3. n \in Nat /\ (n = 0 <=> S = {})
  BY <1>1, FS_CardinalityType, FS_EmptySet, Zenon
<1>4. ks = First(A, limit)
  BY Zenon DEF Scan
<1> HIDE DEF S, A, n
<1>5. A \in Seq(S) /\ Len(A) = n
  BY <1>2, <1>3, SMTT(30)
<1>6. m \in 0..n /\ m <= limit /\ (m = 0 <=> n = 0) /\ (m # n => m = limit)
  BY <1>3, SMTT(30)
<1>7. ks = SubSeq(A, 1, m)
  BY <1>4, <1>5, Zenon DEF First
<1> HIDE DEF m
<1>8. ks \in Seq(S) /\ Len(ks) = m /\ \A i \in 1..m : ks[i] = A[i]
  BY <1>2, <1>3, <1>5, <1>6, <1>7, SMTT(30)
<1>9. ks = <<>> <=> S = {}
  BY <1>3, <1>6, <1>8, SMTT(30)
<1>10. \A i, j \in 1..Len(ks) : i < j => KeyLess(ks[i], ks[j])
  <2>1. \A i \in 1..m : i \in 1..n
    BY <1>3, <1>6, SMTT(30)
  <2> QED BY <1>2, <1>8, <2>1, Zenon
<1>11. ASSUME ks # <<>>, NEW k \in S
       PROVE  \/ \E i \in 1..Len(ks) : ks[i] = k
              \/ Len(ks) = limit /\ KeyLess(ks[Len(ks)], k)
  <2>1. PICK i \in 1..n : A[i] = k
    BY <1>2, Zenon
  <2>2. CASE i <= m
    <3>1. i \in 1..m
      BY <1>6, <2>2, SMTT(30)
    <3> QED BY <1>8, <2>1, <3>1, Zenon
  <2>3. CASE ~(i <= m)
    <3>1. m \in 1..n /\ m \in 1..m /\ m < i /\ m = limit
      BY <1>3, <1>6, <1>8, <1>11, <2>3, SMTT(30)
    <3> QED BY <1>2, <1>8, <2>1, <3>1, Zenon
  <2> QED BY <2>2, <2>3, Zenon
<1>12. Len(ks) <= limit
  BY <1>6, <1>8, Zenon
<1> QED BY <1>8, <1>9, <1>10, <1>11, <1>12, Zenon DEF S, IsScan

\* A scan in reverse returns the last keys of its range in descending order;
\* what it leaves out comes before the last one it returns.
LEMMA ScanReverseReturns ==
  ASSUME NEW d, DOMAIN d \subseteq Key, IsFiniteSet(DOMAIN d), NEW r, NEW limit \in Nat \ {0},
         NEW ks, ks = ScanReverse(d, r, limit)
  PROVE  /\ ks \in Seq(KeysIn(d, r)) /\ Len(ks) <= limit
         /\ ks = <<>> <=> KeysIn(d, r) = {}
         /\ \A i, j \in 1..Len(ks) : i < j => KeyLess(ks[j], ks[i])
         /\ ks # <<>> => \A k \in KeysIn(d, r) :
                           \/ \E i \in 1..Len(ks) : ks[i] = k
                           \/ Len(ks) = limit /\ KeyLess(k, ks[Len(ks)])
<1> DEFINE S == KeysIn(d, r)
           A == Ascending(S)
           R == Descending(S)
           n == Cardinality(S)
           m == IF limit < n THEN limit ELSE n
<1>1. S \in SUBSET Key /\ IsFiniteSet(S)
  <2>1. S \subseteq DOMAIN d
    BY Zenon DEF KeysIn
  <2> QED BY <2>1, FS_Subset, Zenon
<1>2. /\ A \in [1..n -> S]
      /\ \A i, j \in 1..n : i < j => KeyLess(A[i], A[j])
      /\ \A k \in S : \E i \in 1..n : A[i] = k
  BY <1>1, AscendingProperties, Zenon
<1>3. n \in Nat /\ (n = 0 <=> S = {})
  BY <1>1, FS_CardinalityType, FS_EmptySet, Zenon
<1>4. ks = First(R, limit) /\ R = [i \in 1..Len(A) |-> A[(Len(A) - i) + 1]]
  BY Zenon DEF ScanReverse, Descending, Backwards
<1> HIDE DEF S, A, n
<1>5. A \in Seq(S) /\ Len(A) = n
  BY <1>2, <1>3, SMTT(30)
<1>6. m \in 0..n /\ m <= limit /\ (m = 0 <=> n = 0) /\ (m # n => m = limit)
  BY <1>3, SMTT(30)
<1> HIDE DEF R
<1>a. \A i \in 1..n : (n - i) + 1 \in 1..n
  BY <1>3, SMTT(30)
<1>b. R \in [1..n -> S] /\ \A i \in 1..n : R[i] = A[(n - i) + 1]
  BY <1>2, <1>4, <1>5, <1>a, Zenon
<1>c. R \in Seq(S) /\ Len(R) = n
  BY <1>b, <1>3, SMTT(30)
<1>7. ks = SubSeq(R, 1, m)
  BY <1>4, <1>c, Zenon DEF First
<1> HIDE DEF m
<1>8. ks \in Seq(S) /\ Len(ks) = m /\ \A i \in 1..m : ks[i] = R[i]
  BY <1>b, <1>c, <1>3, <1>6, <1>7, SMTT(30)
<1>9. ks = <<>> <=> S = {}
  BY <1>3, <1>6, <1>8, SMTT(30)
<1>10. \A i, j \in 1..Len(ks) : i < j => KeyLess(ks[j], ks[i])
  <2> SUFFICES ASSUME NEW i \in 1..m, NEW j \in 1..m, i < j
               PROVE  KeyLess(ks[j], ks[i])
    BY <1>8, Zenon
  <2>1. i \in 1..n /\ j \in 1..n /\ (n - j) + 1 < (n - i) + 1
    BY <1>3, <1>6, SMTT(30)
  <2>2. ks[i] = A[(n - i) + 1] /\ ks[j] = A[(n - j) + 1]
    BY <1>8, <1>b, <2>1, Zenon
  <2> QED BY <1>2, <1>a, <2>1, <2>2, Zenon
<1>11. ASSUME ks # <<>>, NEW k \in S
       PROVE  \/ \E i \in 1..Len(ks) : ks[i] = k
              \/ Len(ks) = limit /\ KeyLess(k, ks[Len(ks)])
  <2>1. PICK h \in 1..n : A[h] = k
    BY <1>2, Zenon
  <2> DEFINE i == (n - h) + 1
  <2>2. i \in 1..n /\ (n - i) + 1 = h
    BY <1>3, SMTT(30)
  <2>3. R[i] = k
    BY <1>b, <2>1, <2>2, Zenon
  <2>4. CASE i <= m
    <3>1. i \in 1..m
      BY <1>6, <2>2, <2>4, SMTT(30)
    <3> QED BY <1>8, <2>3, <3>1, Zenon
  <2>5. CASE ~(i <= m)
    <3>1. m \in 1..n /\ m \in 1..m /\ h < (n - m) + 1 /\ (n - m) + 1 \in 1..n /\ m = limit
      BY <1>3, <1>6, <1>8, <1>11, <2>5, SMTT(30)
    <3>2. ks[m] = A[(n - m) + 1]
      BY <1>8, <1>b, <3>1, Zenon
    <3> QED BY <1>2, <1>8, <2>1, <3>1, <3>2, Zenon
  <2> QED BY <2>4, <2>5, Zenon
<1>12. Len(ks) <= limit
  BY <1>6, <1>8, Zenon
<1> QED BY <1>8, <1>9, <1>10, <1>11, <1>12, Zenon DEF S

-----------------------------------------------------------------------------
(* The keys of a range.                                                    *)

\* the first n numbers of k are bytes
Bytes(k, n) == \A i \in 1..n : i <= Len(k) => k[i] \in 0..255

StartsWith(k, p) == Len(p) <= Len(k) /\ \A i \in 1..Len(p) : k[i] = p[i]

\* a key that starts with p is p and what follows
LEMMA Continues ==
  ASSUME NEW p \in Key, NEW k \in Key, StartsWith(k, p)
  PROVE  \E s \in Key : k = p \o s
<1> DEFINE n == Len(p)
           s == SubSeq(k, n + 1, Len(k))
<1>1. n \in Nat /\ Len(k) \in Nat /\ n <= Len(k) /\ \A i \in 1..n : k[i] = p[i]
  BY SMTT(30) DEF StartsWith, Key
<1>2. s \in Key /\ Len(s) = Len(k) - n /\ \A j \in 1..(Len(k) - n) : s[j] = k[n + j]
  BY <1>1, SMTT(30) DEF Key
<1> HIDE DEF s
<1>3. /\ p \o s \in Key /\ Len(p \o s) = n + Len(s)
      /\ \A i \in 1..n : (p \o s)[i] = p[i]
      /\ \A j \in 1..Len(s) : (p \o s)[n + j] = s[j]
  BY <1>2, SMTT(30) DEF Key
<1> HIDE DEF n
<1>4. Len(p \o s) = Len(k)
  BY <1>1, <1>2, <1>3, SMTT(30)
<1>5. ASSUME NEW i \in 1..Len(k) PROVE (p \o s)[i] = k[i]
  <2>1. CASE i \in 1..n
    BY <1>1, <1>3, <2>1, Zenon
  <2>2. CASE i \notin 1..n
    <3>1. i - n \in 1..(Len(k) - n) /\ n + (i - n) = i
      BY <1>1, <2>2, SMTT(30)
    <3> QED BY <1>2, <1>3, <3>1, ZenonT(60)
  <2> QED BY <2>1, <2>2, Zenon
<1>6. k = p \o s
  BY <1>3, <1>4, <1>5, SameKey, Zenon
<1> QED BY <1>2, <1>6, Zenon

\* The range of a prefix of bytes holds exactly the keys that start with it,
\* also when bytes at its end cannot be incremented.
THEOREM PrefixRange ==
  ASSUME NEW p \in Key, p # <<>>, Bytes(p, Len(p)), NEW k \in Key, Bytes(k, Len(p))
  PROVE  /\ prefix_key_range(p).start \in Key /\ prefix_key_range(p).end \in Key
         /\ InRange(k, prefix_key_range(p)) <=> StartsWith(k, p)
<1> DEFINE is == {i \in DOMAIN p : p[i] # 255}
           l == CHOOSE i \in is : \A j \in is : j <= i
           start == prefix_key_range(p).start
           end == prefix_key_range(p).end
<1>1. /\ start = p
      /\ end = IF is = {} THEN <<>> ELSE Append(SubSeq(p, 1, l - 1), p[l] + 1)
  BY Zenon DEF prefix_key_range
<1>2. InRange(k, prefix_key_range(p)) <=> ~KeyLess(k, start) /\ (end = <<>> \/ KeyLess(k, end))
  BY Zenon DEF InRange
<1>3. p \in Key /\ Len(p) \in Nat \ {0} /\ \A i \in 1..Len(p) : p[i] \in 0..255
  <2>1. Len(p) \in Nat /\ \A i \in 1..Len(p) : p[i] \in 0..255
    BY SMTT(30) DEF Key, Bytes
  <2>2. Len(p) # 0
    BY SMTT(30) DEF Key
  <2> QED BY <2>1, <2>2, Zenon
<1>4. is \subseteq 1..Len(p) /\ \A i \in 1..Len(p) : i \notin is => p[i] = 255
  BY SMTT(30)
<1>5. is # {} => l \in is /\ \A j \in is : j <= l
  <2>1. is \in SUBSET (0..Len(p)) /\ Len(p) \in Nat
    BY <1>3, <1>4, SMTT(30)
  <2> HIDE DEF is
  <2>2. is # {} => \E i \in is : \A j \in is : j <= i
    BY <2>1, Greatest, Zenon
  <2> QED BY <2>2, Zenon
<1> HIDE DEF is, l, start, end
<1>6. is # {} => /\ end \in Key /\ Len(end) = l /\ end[l] = p[l] + 1 /\ l \in 1..Len(p)
                 /\ \A j \in 1..(l - 1) : end[j] = p[j]
  <2> SUFFICES ASSUME is # {}
               PROVE  /\ end \in Key /\ Len(end) = l /\ end[l] = p[l] + 1 /\ l \in 1..Len(p)
                      /\ \A j \in 1..(l - 1) : end[j] = p[j]
    BY Zenon
  <2> DEFINE h == SubSeq(p, 1, l - 1)
  <2>0. l \in 1..Len(p)
    BY <1>4, <1>5, Zenon
  <2>a. p[l] \in 0..255
    BY <1>3, <2>0, Zenon
  <2>b. \A x \in 0..255 : x + 1 \in Nat
    BY SMTT(30)
  <2>1. l \in 1..Len(p) /\ p[l] + 1 \in Nat
    BY <2>0, <2>a, <2>b, Zenon
  <2>2. h \in Seq(Nat) /\ Len(h) = l - 1 /\ \A j \in 1..(l - 1) : h[j] = p[j]
    BY <1>3, <2>1, SMTT(30) DEF Key
  <2>3. end = Append(h, p[l] + 1)
    BY <1>1, Zenon
  <2> HIDE DEF h
  <2> QED BY <2>1, <2>2, <2>3, SMTT(30) DEF Key
<1>7. start \in Key /\ end \in Key
  BY <1>1, <1>3, <1>6, SMTT(30) DEF Key
<1>8. ASSUME StartsWith(k, p)
      PROVE  ~KeyLess(k, start) /\ (end = <<>> \/ KeyLess(k, end))
  <2>1. ~KeyLess(k, start)
    BY <1>1, <1>3, <1>8, SMTT(30) DEF KeyLess, StartsWith, Key
  <2>2. CASE is # {}
    <3>0. Len(end) = l /\ end[l] = p[l] + 1 /\ l \in 1..Len(p) /\ \A j \in 1..(l - 1) : end[j] = p[j]
      BY <1>6, <2>2, Zenon
    <3>1. BelowAt(k, end, l) /\ l \in 1..Len(end)
      BY <1>3, <1>8, <3>0, SMTT(30) DEF BelowAt, StartsWith, Key
    <3> QED BY <2>1, <3>1, KeyLessAt, Zenon
  <2>3. CASE is = {}
    BY <1>1, <2>1, <2>3, Zenon
  <2> QED BY <2>2, <2>3, Zenon
<1>9. ASSUME ~StartsWith(k, p), ~KeyLess(k, start), end = <<>> \/ KeyLess(k, end)
      PROVE  FALSE
  <2> DEFINE D == {i \in 1..Len(p) : i > Len(k) \/ k[i] # p[i]}
  <2>1. D # {}
    <3>1. SUFFICES ASSUME \A i \in 1..Len(p) : ~(i > Len(k) \/ k[i] # p[i]) PROVE FALSE
      BY Zenon
    <3>2. Len(p) \in 1..Len(p) /\ Len(k) \in Nat
      BY <1>3, SMTT(30) DEF Key
    <3>3. Len(p) <= Len(k) /\ \A i \in 1..Len(p) : k[i] = p[i]
      BY <1>3, <3>1, <3>2, SMTT(30)
    <3> QED BY <1>9, <3>3, Zenon DEF StartsWith
  <2>2. PICK m \in D : \A i \in D : m <= i
    <3>1. D \in SUBSET Nat
      BY SMTT(30)
    <3> HIDE DEF D
    <3> QED BY <2>1, <3>1, Least, Zenon
  <2>3. \A j \in 1..(m - 1) : j <= Len(k) /\ k[j] = p[j]
    BY <2>2, <1>3, SMTT(30) DEF Key
  <2>4. m \in 1..Len(p) /\ (m > Len(k) \/ k[m] # p[m])
    BY <2>2, Zenon
  <2> HIDE DEF D
  <2>5. ~BelowAt(k, p, m)
    BY <1>1, <1>9, <2>4, KeyLessAt, Zenon
  <2>6. m <= Len(k) /\ p[m] < k[m]
    BY <1>3, <2>3, <2>4, <2>5, SMTT(30) DEF BelowAt, Key
  <2>a. p[m] \in 0..255 /\ k[m] \in 0..255
    BY <1>3, <2>4, <2>6, ZenonT(60) DEF Bytes
  <2>b. \A x, y \in 0..255 : x < y => x # 255
    BY SMTT(30)
  <2>7. p[m] # 255
    BY <2>6, <2>a, <2>b, ZenonT(60)
  <2>8. m \in is
    BY <1>4, <2>4, <2>7, SMTT(30)
  <2>9. end # <<>> /\ m <= l
    BY <1>5, <1>6, <2>8, SMTT(30) DEF Key
  <2>10. PICK i \in 1..Len(end) : BelowAt(k, end, i)
    BY <1>9, <2>9, KeyLessAt, Zenon
  <2>11. i \in 1..l /\ Len(end) = l /\ end[l] = p[l] + 1 /\ l \in 1..Len(p)
         /\ \A j \in 1..(l - 1) : end[j] = p[j]
    BY <1>6, <2>8, <2>10, SMTT(30)
  <2>12. CASE i < m
    BY <1>3, <2>3, <2>4, <2>6, <2>9, <2>10, <2>11, <2>12, SMTT(30) DEF BelowAt, Key
  <2>13. CASE i = m
    BY <1>3, <2>4, <2>6, <2>9, <2>10, <2>11, <2>13, SMTT(60) DEF BelowAt, Key
  <2>14. CASE i > m
    BY <1>3, <2>4, <2>6, <2>9, <2>10, <2>11, <2>14, SMTT(30) DEF BelowAt, Key
  <2> QED BY <2>4, <2>11, <2>12, <2>13, <2>14, SMTT(30)
<1> QED BY <1>2, <1>7, <1>8, <1>9, Zenon DEF start, end

\* the order of two keys with the same beginning is that of what follows it
LEMMA SameBeginning ==
  ASSUME NEW q \in Key, NEW a \in Key, NEW b \in Key
  PROVE  KeyLess(q \o a, q \o b) <=> KeyLess(a, b)
<1>1. /\ Len(q \o a) = Len(q) + Len(a) /\ Len(q \o b) = Len(q) + Len(b)
      /\ Len(q) \in Nat /\ Len(a) \in Nat /\ Len(b) \in Nat
      /\ \A i \in 1..Len(q) : (q \o a)[i] = q[i] /\ (q \o b)[i] = q[i] /\ q[i] \in Nat
  BY SMTT(30) DEF Key
<1>2. /\ \A i \in 1..Len(a) : (q \o a)[Len(q) + i] = a[i]
      /\ \A i \in 1..Len(b) : (q \o b)[Len(q) + i] = b[i]
  BY SMTT(30) DEF Key
<1>3. ASSUME KeyLess(a, b) PROVE KeyLess(q \o a, q \o b)
  <2>1. PICK i \in 1..Len(b) : BelowAt(a, b, i)
    BY <1>3, KeyLessAt, Zenon
  <2> DEFINE h == Len(q) + i
  <2>2. h \in 1..Len(q \o b) /\ h - 1 = Len(q) + (i - 1)
    BY <1>1, SMTT(30)
  <2>3. h > Len(q \o a) \/ (q \o a)[h] < (q \o b)[h]
    BY <1>1, <1>2, <2>1, SMTT(30) DEF BelowAt
  <2> HIDE DEF h
  <2>4. ASSUME NEW j \in 1..(h - 1)
        PROVE  j <= Len(q \o a) /\ (q \o a)[j] = (q \o b)[j]
    <3>1. CASE j <= Len(q)
      BY <1>1, <3>1, SMTT(30)
    <3>2. CASE j > Len(q)
      <4>1. j - Len(q) \in 1..(i - 1) /\ j = Len(q) + (j - Len(q))
        BY <1>1, <2>2, <3>2, SMTT(30)
      <4>2. j - Len(q) <= Len(a) /\ a[j - Len(q)] = b[j - Len(q)]
        BY <2>1, <4>1, Zenon DEF BelowAt
      <4>3. j - Len(q) \in 1..Len(a) /\ j - Len(q) \in 1..Len(b) /\ j <= Len(q) + Len(a)
        BY <1>1, <4>1, <4>2, SMTT(30)
      <4>4. (q \o a)[j] = a[j - Len(q)] /\ (q \o b)[j] = b[j - Len(q)]
        BY <1>2, <4>1, <4>3, Zenon
      <4> QED BY <1>1, <4>2, <4>3, <4>4, Zenon
    <3> QED BY <1>1, <2>2, <3>1, <3>2, SMTT(30)
  <2>5. BelowAt(q \o a, q \o b, h)
    BY <2>3, <2>4, Zenon DEF BelowAt
  <2> QED BY <2>2, <2>5, KeyLessAt, Zenon
<1>4. ASSUME KeyLess(q \o a, q \o b) PROVE KeyLess(a, b)
  <2>1. PICK i \in 1..Len(q \o b) : BelowAt(q \o a, q \o b, i)
    BY <1>4, KeyLessAt, Zenon
  <2>2. i > Len(q)
    BY <1>1, <2>1, SMTT(30) DEF BelowAt
  <2> DEFINE h == i - Len(q)
  <2>3. h \in 1..Len(b) /\ i = Len(q) + h
    BY <1>1, <2>1, <2>2, SMTT(30)
  <2>4. h > Len(a) \/ a[h] < b[h]
    <3>1. i > Len(q \o a) \/ (q \o a)[i] < (q \o b)[i]
      BY <2>1, Zenon DEF BelowAt
    <3> QED BY <1>1, <1>2, <2>3, <3>1, SMTT(30)
  <2>5. ASSUME NEW j \in 1..(h - 1)
        PROVE  j <= Len(a) /\ a[j] = b[j]
    <3>1. Len(q) + j \in 1..(i - 1) /\ j \in 1..Len(b)
      BY <1>1, <2>3, SMTT(30)
    <3>2. Len(q) + j <= Len(q \o a) /\ (q \o a)[Len(q) + j] = (q \o b)[Len(q) + j]
      BY <2>1, <3>1, Zenon DEF BelowAt
    <3>3. j \in 1..Len(a)
      BY <1>1, <3>1, <3>2, SMTT(30)
    <3> QED BY <1>2, <3>1, <3>2, <3>3, SMTT(30)
  <2>6. BelowAt(a, b, h)
    BY <2>4, <2>5, Zenon DEF BelowAt
  <2> QED BY <2>3, <2>6, KeyLessAt, Zenon
<1> QED BY <1>3, <1>4, Zenon

-----------------------------------------------------------------------------
(* Lists and their pages: the items of a list have the keys Item(p, s).    *)

Item(p, s) == p \o <<BREAK>> \o s

IsBound(x) ==
  \/ x = None
  \/ \E n \in Nat : x = AtSlot(n)
  \/ \E c \in Key : x = AtCursor(c)

\* what a lower and an upper bound leave of a list; the slot of an upper
\* bound is incremented as a u64
After(lower, s) ==
  \/ lower = None
  \/ \E n \in Nat : lower = AtSlot(n) /\ s # <<>> /\ n <= s[1]
  \/ \E c \in Key : lower = AtCursor(c) /\ KeyLess(c, s)
UpTo(upper, s) ==
  \/ upper = None
  \/ \E n \in Nat : upper = AtSlot(n) /\ (s = <<>> \/ s[1] < Succ(n))
  \/ \E c \in Key : upper = AtCursor(c) /\ KeyLess(s, c)

LEMMA FirstField ==
  ASSUME NEW s \in Key, NEW n \in Nat
  PROVE  KeyLess(s, <<n>>) <=> s = <<>> \/ s[1] < n
<1>1. Len(s) \in Nat /\ (s = <<>> <=> Len(s) = 0) /\ (s # <<>> => s[1] \in Nat)
  BY SMTT(30) DEF Key
<1>2. Len(<<n>>) = 1 /\ <<n>>[1] = n
  BY Zenon
<1>3. BelowAt(s, <<n>>, 1) <=> s = <<>> \/ s[1] < n
  BY <1>1, <1>2, SMTT(30) DEF BelowAt
<1>4. \A i : i \in 1..Len(<<n>>) <=> i = 1
  BY <1>2, SMTT(30)
<1> QED BY <1>3, <1>4, KeyLessAt, Zenon

LEMMA NothingBelowEmpty ==
  ASSUME NEW s
  PROVE  ~KeyLess(s, <<>>)
<1>1. 1..Len(<<>>) = {}
  BY SMTT(30)
<1> QED BY <1>1, KeyLessAt, Zenon

\* the bounds as keys, with the part q that all items share in front
Bounds(p, q) ==
  /\ q \in Key
  /\ \A s \in Key : Item(p, s) = q \o s /\ q \o s = p \o (<<BREAK>> \o s) /\ <<BREAK>> \o s \in Key
  /\ LowerKey(p, None) = q \o <<>> /\ UpperKey(p, None) = p \o <<BREAK + 1>>
  /\ \A n \in Nat : /\ Succ(n) \in Nat /\ LowerKey(p, AtSlot(n)) = q \o <<n>>
                    /\ UpperKey(p, AtSlot(n)) = q \o <<Succ(n)>>
  /\ \A c \in Key : /\ NextKey(c) \in Key /\ LowerKey(p, AtCursor(c)) = q \o NextKey(c)
                    /\ UpperKey(p, AtCursor(c)) = q \o c

LEMMA ConcatAssociates ==
  ASSUME NEW a \in Key, NEW b \in Key, NEW c \in Key
  PROVE  (a \o b) \o c = a \o (b \o c)
<1> DEFINE l == (a \o b) \o c
           r == a \o (b \o c)
           n == Len(a) + Len(b) + Len(c)
<1>1. l \in Key /\ r \in Key /\ Len(l) = n /\ Len(r) = n
  BY SMTT(30) DEF Key
<1>2. \A i \in 1..n : l[i] = r[i]
  BY SMTT(30) DEF Key
<1> HIDE DEF l, r
<1>3. l = r
  BY <1>1, <1>2, SameKey, Zenon
<1> QED BY <1>3, Zenon DEF l, r

LEMMA BoundKeys ==
  ASSUME NEW p \in Key
  PROVE  Bounds(p, p \o <<BREAK>>)
<1> DEFINE q == p \o <<BREAK>>
<1>1. BREAK \in Nat /\ BREAK + 1 \in Nat
  BY SMTT(30) DEF BREAK
<1>2. q \in Key /\ q = q \o <<>>
  BY <1>1, SMTT(30) DEF Key
<1>3. ASSUME NEW s \in Key
      PROVE  Item(p, s) = q \o s /\ q \o s = p \o (<<BREAK>> \o s) /\ <<BREAK>> \o s \in Key
  BY <1>1, SMTT(30) DEF Key, Item
<1>4. LowerKey(p, None) = q /\ UpperKey(p, None) = p \o <<BREAK + 1>>
  BY Zenon DEF LowerKey, UpperKey, None
<1>5. ASSUME NEW n \in Nat
      PROVE  /\ Succ(n) \in Nat /\ LowerKey(p, AtSlot(n)) = q \o <<n>>
             /\ UpperKey(p, AtSlot(n)) = q \o <<Succ(n)>>
  <2>1. Succ(n) \in Nat
    BY SMTT(30) DEF Succ
  <2>2. LowerKey(p, AtSlot(n)) = p \o <<BREAK, n>> /\ UpperKey(p, AtSlot(n)) = p \o <<BREAK, Succ(n)>>
    BY Zenon DEF LowerKey, UpperKey, AtSlot
  <2>3. ASSUME NEW x \in Nat, NEW y \in Nat PROVE p \o <<x, y>> = (p \o <<x>>) \o <<y>>
    <3> DEFINE l == p \o <<x, y>>
               r == (p \o <<x>>) \o <<y>>
    <3>1. l \in Seq(Nat) /\ r \in Seq(Nat) /\ Len(l) = Len(p) + 2 /\ Len(r) = Len(p) + 2
      BY SMTT(30) DEF Key
    <3>2. \A i \in 1..(Len(p) + 2) : l[i] = r[i]
      BY SMTT(30) DEF Key
    <3> HIDE DEF l, r
    <3>3. l = r
      BY <3>1, <3>2, SMTT(30)
    <3> QED BY <3>3, Zenon DEF l, r
  <2> QED BY <1>1, <2>1, <2>2, <2>3, Zenon
<1>6. ASSUME NEW c \in Key
      PROVE  /\ NextKey(c) \in Key /\ LowerKey(p, AtCursor(c)) = q \o NextKey(c)
             /\ UpperKey(p, AtCursor(c)) = q \o c
  <2>1. NextKey(c) \in Key /\ NextKey(c) = c \o <<0>>
    BY SMTT(30) DEF Key, NextKey
  <2>2. /\ LowerKey(p, AtCursor(c)) = p \o ((<<BREAK>> \o c) \o <<0>>)
        /\ UpperKey(p, AtCursor(c)) = p \o (<<BREAK>> \o c)
    BY Zenon DEF LowerKey, UpperKey, AtCursor
  <2>3. ASSUME NEW x \in Key, NEW z \in Key PROVE (x \o c) \o z = x \o (c \o z)
    BY ConcatAssociates, ZenonT(60)
  <2>4. (<<BREAK>> \o c) \o <<0>> = <<BREAK>> \o NextKey(c)
    <3> DEFINE x == <<BREAK>>
               z == <<0>>
    <3>1. x \in Key /\ z \in Key /\ NextKey(c) = c \o z
      BY <1>1, <2>1, SMTT(30) DEF Key
    <3> HIDE DEF x, z
    <3>2. (x \o c) \o z = x \o NextKey(c)
      BY <2>3, <3>1, ZenonT(60)
    <3> QED BY <3>2, Zenon DEF x, z
  <2> QED BY <1>3, <2>1, <2>2, <2>4, Zenon
<1> HIDE DEF q
<1>7. Bounds(p, q)
  BY <1>2, <1>3, <1>4, <1>5, <1>6, Zenon DEF Bounds
<1> QED BY <1>7, Zenon DEF q

\* An item is in the range of its list exactly if it is within the bounds.
THEOREM ItemInRange ==
  ASSUME NEW p \in Key, NEW lower, IsBound(lower), NEW upper, IsBound(upper), NEW s \in Key
  PROVE  InRange(Item(p, s), ListRange(p, lower, upper)) <=> After(lower, s) /\ UpTo(upper, s)
<1> DEFINE q == p \o <<BREAK>>
<1>0. Bounds(p, q)
  BY BoundKeys, Zenon
<1>1. /\ q \in Key /\ Item(p, s) = q \o s /\ q \o s = p \o (<<BREAK>> \o s)
      /\ <<BREAK>> \o s \in Key /\ <<BREAK + 1>> \in Key
  <2>1. <<BREAK + 1>> \in Key
    BY SMTT(30) DEF BREAK, Key
  <2> QED BY <1>0, <2>1, Zenon DEF Bounds
<1>a. q # <<>>
  BY SMTT(30) DEF Key
<1> HIDE DEF q
<1>2. ~KeyLess(Item(p, s), LowerKey(p, lower)) <=> After(lower, s)
  <2>1. CASE lower = None
    <3>1. <<>> \in Key
      BY SMTT(30) DEF Key
    <3>2. ~KeyLess(q \o s, q \o <<>>)
      BY <1>1, <3>1, SameBeginning, NothingBelowEmpty, Zenon
    <3> QED BY <1>0, <1>1, <2>1, <3>2, Zenon DEF After, Bounds
  <2>2. ASSUME NEW n \in Nat, lower = AtSlot(n)
        PROVE  ~KeyLess(Item(p, s), LowerKey(p, lower)) <=> After(lower, s)
    <3>1. LowerKey(p, lower) = q \o <<n>>
      BY <1>0, <2>2, Zenon DEF Bounds
    <3>2. <<n>> \in Key
      BY SMTT(30) DEF Key
    <3>3. KeyLess(q \o s, q \o <<n>>) <=> s = <<>> \/ s[1] < n
      BY <1>1, <3>2, SameBeginning, FirstField, Zenon
    <3>4. s # <<>> => s[1] \in Nat
      BY SMTT(30) DEF Key
    <3>5. After(lower, s) <=> s # <<>> /\ n <= s[1]
      BY <2>2, Zenon DEF After, None, AtSlot, AtCursor
    <3>6. s # <<>> => (s[1] < n <=> ~(n <= s[1]))
      BY <3>4, SMTT(30)
    <3> QED BY <1>1, <3>1, <3>3, <3>5, <3>6, Zenon
  <2>3. ASSUME NEW c \in Key, lower = AtCursor(c)
        PROVE  ~KeyLess(Item(p, s), LowerKey(p, lower)) <=> After(lower, s)
    <3>1. LowerKey(p, lower) = q \o NextKey(c) /\ NextKey(c) \in Key
      BY <1>0, <2>3, Zenon DEF Bounds
    <3>2. KeyLess(q \o s, q \o NextKey(c)) <=> s = c \/ KeyLess(s, c)
      BY <1>1, <3>1, SameBeginning, NextKeyIsNext, Zenon
    <3>3. ~(s = c \/ KeyLess(s, c)) <=> KeyLess(c, s)
      BY KeyNotLess, KeyIrreflexive, Zenon
    <3>4. After(lower, s) <=> KeyLess(c, s)
      BY <2>3, Zenon DEF After, None, AtSlot, AtCursor
    <3> QED BY <1>1, <3>1, <3>2, <3>3, <3>4, Zenon
  <2> QED BY <2>1, <2>2, <2>3, Zenon DEF IsBound
<1>3. KeyLess(Item(p, s), UpperKey(p, upper)) <=> UpTo(upper, s)
  <2>1. CASE upper = None
    <3>1. KeyLess(<<BREAK>> \o s, <<BREAK + 1>>)
      <4>1. (<<BREAK>> \o s)[1] = BREAK /\ <<BREAK>> \o s # <<>>
        BY SMTT(30) DEF Key
      <4>2. BREAK + 1 \in Nat /\ BREAK < BREAK + 1
        BY SMTT(30) DEF BREAK
      <4> QED BY <1>1, <4>1, <4>2, FirstField, Zenon
    <3>2. KeyLess(p \o (<<BREAK>> \o s), p \o <<BREAK + 1>>)
      BY <1>1, <3>1, SameBeginning, Zenon
    <3> QED BY <1>0, <1>1, <2>1, <3>2, Zenon DEF UpTo, Bounds
  <2>2. ASSUME NEW n \in Nat, upper = AtSlot(n)
        PROVE  KeyLess(Item(p, s), UpperKey(p, upper)) <=> UpTo(upper, s)
    <3>1. UpperKey(p, upper) = q \o <<Succ(n)>> /\ Succ(n) \in Nat
      BY <1>0, <2>2, Zenon DEF Bounds
    <3>2. <<Succ(n)>> \in Key
      BY <3>1, SMTT(30) DEF Key
    <3>3. KeyLess(q \o s, q \o <<Succ(n)>>) <=> s = <<>> \/ s[1] < Succ(n)
      BY <1>1, <3>1, <3>2, SameBeginning, FirstField, Zenon
    <3>4. UpTo(upper, s) <=> s = <<>> \/ s[1] < Succ(n)
      BY <2>2, Zenon DEF UpTo, None, AtSlot, AtCursor
    <3> QED BY <1>1, <3>1, <3>3, <3>4, Zenon
  <2>3. ASSUME NEW c \in Key, upper = AtCursor(c)
        PROVE  KeyLess(Item(p, s), UpperKey(p, upper)) <=> UpTo(upper, s)
    <3>1. UpperKey(p, upper) = q \o c
      BY <1>0, <2>3, Zenon DEF Bounds
    <3>2. UpTo(upper, s) <=> KeyLess(s, c)
      BY <2>3, Zenon DEF UpTo, None, AtSlot, AtCursor
    <3>3. KeyLess(q \o s, q \o c) <=> KeyLess(s, c)
      BY <1>1, SameBeginning, Zenon
    <3> QED BY <1>1, <3>1, <3>2, <3>3, Zenon
  <2> QED BY <2>1, <2>2, <2>3, Zenon DEF IsBound
<1>4. UpperKey(p, upper) # <<>>
  <2>1. CASE upper = None
    <3>1. UpperKey(p, upper) = p \o <<BREAK + 1>>
      BY <1>0, <2>1, Zenon DEF Bounds
    <3> QED BY <1>1, <3>1, SMTT(30) DEF Key, BREAK
  <2>2. ASSUME NEW n \in Nat, upper = AtSlot(n) PROVE UpperKey(p, upper) # <<>>
    <3>1. UpperKey(p, upper) = q \o <<Succ(n)>>
      BY <1>0, <2>2, Zenon DEF Bounds
    <3> QED BY <1>1, <3>1, SMTT(30) DEF Key
  <2>3. ASSUME NEW c \in Key, upper = AtCursor(c) PROVE UpperKey(p, upper) # <<>>
    <3>1. UpperKey(p, upper) = q \o c
      BY <1>0, <2>3, Zenon DEF Bounds
    <3> QED BY <1>1, <1>a, <3>1, SMTT(30) DEF Key
  <2> QED BY <2>1, <2>2, <2>3, Zenon DEF IsBound
<1> QED BY <1>2, <1>3, <1>4, SMTT(30) DEF InRange, ListRange

\* what lies between the ends of a list starts as its items do
LEMMA BetweenEnds ==
  ASSUME NEW p \in Key, NEW k \in Key,
         ~KeyLess(k, p \o <<BREAK>>), KeyLess(k, p \o <<BREAK + 1>>)
  PROVE  \E s \in Key : k = Item(p, s)
<1> DEFINE q == p \o <<BREAK>>
           z == p \o <<BREAK + 1>>
           n == Len(p) + 1
<1>1. /\ BREAK \in Nat /\ n \in Nat \ {0} /\ Len(q) = n /\ Len(z) = n /\ q[n] = BREAK /\ z[n] = BREAK + 1
      /\ \A i \in 1..(n - 1) : q[i] = p[i] /\ z[i] = p[i]
  BY SMTT(30) DEF Key, BREAK
<1>2. PICK i \in 1..Len(z) : BelowAt(k, z, i)
  BY KeyLessAt, Zenon
<1>3. \A j \in 1..Len(q) : ~BelowAt(k, q, j)
  BY KeyLessAt, Zenon
<1> HIDE DEF q, z, n
<1>4. i = n
  <2>1. CASE i \in 1..(n - 1)
    <3>1. BelowAt(k, q, i) /\ i \in 1..Len(q)
      BY <1>1, <1>2, <2>1, SMTT(30) DEF BelowAt
    <3> QED BY <1>3, <3>1, Zenon
  <2> QED BY <1>1, <1>2, <2>1, SMTT(30)
<1>5. \A j \in 1..(n - 1) : j <= Len(k) /\ k[j] = p[j]
  BY <1>1, <1>2, <1>4, Zenon DEF BelowAt
<1>6. ~BelowAt(k, q, n)
  BY <1>1, <1>3, SMTT(30)
<1>7. n <= Len(k) /\ ~(k[n] < BREAK)
  BY <1>1, <1>5, <1>6, SMTT(30) DEF BelowAt, Key
<1>8. k[n] < BREAK + 1
  BY <1>1, <1>2, <1>4, <1>7, SMTT(30) DEF BelowAt, Key
<1>9. k[n] \in Nat /\ n \in 1..Len(k)
  BY <1>1, <1>7, SMTT(30) DEF Key
<1>10. k[n] = BREAK
  BY <1>1, <1>7, <1>8, <1>9, SMTT(30)
<1>11. q \in Key
  BY <1>1, SMTT(30) DEF Key, q
<1>12. \A j \in 1..Len(q) : q[j] = k[j]
  BY <1>1, <1>5, <1>10, SMTT(30)
<1>13. PICK s \in Key : k = q \o s
  BY <1>1, <1>7, <1>11, <1>12, Continues, Zenon DEF StartsWith
<1> QED BY <1>13, Zenon DEF q, Item

\* the bounds lie between the ends of the list
LEMMA BoundsBetweenEnds ==
  ASSUME NEW p \in Key, NEW x, IsBound(x)
  PROVE  /\ LowerKey(p, x) \in Key /\ UpperKey(p, x) \in Key /\ UpperKey(p, x) # <<>>
         /\ ~KeyLess(LowerKey(p, x), p \o <<BREAK>>)
         /\ ~KeyLess(p \o <<BREAK + 1>>, UpperKey(p, x))
<1> DEFINE q == p \o <<BREAK>>
           z == p \o <<BREAK + 1>>
<1>0. Bounds(p, q)
  BY BoundKeys, Zenon
<1>1. /\ q \in Key /\ q # <<>> /\ <<>> \in Key /\ q = q \o <<>> /\ \A n \in Nat : <<n>> \in Key
      /\ z \in Key /\ z # <<>> /\ <<BREAK + 1>> \in Key /\ BREAK + 1 \in Nat
  BY SMTT(30) DEF Key, BREAK
<1> HIDE DEF q
<1>2. ASSUME NEW y \in Key
      PROVE  q \o y \in Key /\ q \o y # <<>> /\ ~KeyLess(q \o y, q) /\ ~KeyLess(z, q \o y)
  <2>1. q \o y \in Key /\ q \o y # <<>>
    BY <1>1, SMTT(30) DEF Key
  <2>2. ~KeyLess(q \o y, q \o <<>>)
    BY <1>1, SameBeginning, NothingBelowEmpty, Zenon
  <2>3. q \o y = p \o (<<BREAK>> \o y) /\ <<BREAK>> \o y \in Key
    BY <1>0, Zenon DEF Bounds
  <2>4. (<<BREAK>> \o y)[1] = BREAK /\ BREAK < BREAK + 1
    BY SMTT(30) DEF Key, BREAK
  <2>5. KeyLess(<<BREAK>> \o y, <<BREAK + 1>>)
    BY <1>1, <2>3, <2>4, FirstField, Zenon
  <2>6. KeyLess(q \o y, z)
    BY <1>1, <2>3, <2>5, SameBeginning, Zenon
  <2> QED BY <1>1, <2>1, <2>2, <2>6, KeyNotLess, Zenon
<1>3. CASE x = None
  <2>1. LowerKey(p, x) = q \o <<>> /\ UpperKey(p, x) = z
    BY <1>0, <1>3, Zenon DEF Bounds
  <2> HIDE DEF z
  <2> QED BY <1>1, <1>2, <2>1, KeyIrreflexive, Zenon DEF q, z
<1>4. ASSUME NEW n \in Nat, x = AtSlot(n)
      PROVE  \E y, v \in Key : LowerKey(p, x) = q \o y /\ UpperKey(p, x) = q \o v
  BY <1>0, <1>1, <1>4, ZenonT(60) DEF Bounds
<1>5. ASSUME NEW c \in Key, x = AtCursor(c)
      PROVE  \E y, v \in Key : LowerKey(p, x) = q \o y /\ UpperKey(p, x) = q \o v
  BY <1>0, <1>1, <1>5, ZenonT(60) DEF Bounds
<1>6. CASE x # None
  <2>1. PICK y \in Key, v \in Key : LowerKey(p, x) = q \o y /\ UpperKey(p, x) = q \o v
    BY <1>4, <1>5, <1>6, Zenon DEF IsBound
  <2> QED BY <1>2, <2>1, Zenon DEF q, z
<1> QED BY <1>3, <1>6, Zenon

\* the range of a list holds nothing but its items
LEMMA InRangeIsItem ==
  ASSUME NEW p \in Key, NEW lower, IsBound(lower), NEW upper, IsBound(upper),
         NEW k \in Key, InRange(k, ListRange(p, lower, upper))
  PROVE  \E s \in Key : k = Item(p, s)
<1> DEFINE q == p \o <<BREAK>>
           z == p \o <<BREAK + 1>>
<1>1. q \in Key /\ z \in Key
  BY SMTT(30) DEF Key, BREAK
<1>2. /\ LowerKey(p, lower) \in Key /\ ~KeyLess(LowerKey(p, lower), q)
      /\ UpperKey(p, upper) \in Key /\ UpperKey(p, upper) # <<>> /\ ~KeyLess(z, UpperKey(p, upper))
  BY BoundsBetweenEnds, Zenon
<1>3. ~KeyLess(k, LowerKey(p, lower)) /\ KeyLess(k, UpperKey(p, upper))
  BY <1>2, Zenon DEF InRange, ListRange
<1>4. ~KeyLess(k, q)
  BY <1>1, <1>2, <1>3, KeyNotLess, KeyTransitive, Zenon
<1>5. KeyLess(k, z)
  BY <1>1, <1>2, <1>3, KeyNotLess, KeyTransitive, Zenon
<1> QED BY <1>4, <1>5, BetweenEnds, Zenon

\* what a page cursor leaves of the range of a list
LEMMA CursorRange ==
  ASSUME NEW p \in Key, NEW x, IsBound(x), NEW c \in Key, NEW k \in Key
  PROVE  /\ Item(p, c) \in Key
         /\ InRange(k, ListRange(p, AtCursor(c), x)) <=> KeyLess(Item(p, c), k) /\ KeyLess(k, UpperKey(p, x))
         /\ InRange(k, ListRange(p, x, AtCursor(c))) <=> ~KeyLess(k, LowerKey(p, x)) /\ KeyLess(k, Item(p, c))
<1> DEFINE q == p \o <<BREAK>>
<1>0. Bounds(p, q) /\ IsBound(AtCursor(c))
  BY BoundKeys, Zenon DEF IsBound
<1>1. /\ Item(p, c) = q \o c /\ LowerKey(p, AtCursor(c)) = q \o NextKey(c)
      /\ UpperKey(p, AtCursor(c)) = q \o c /\ q \in Key
  BY <1>0, Zenon DEF Bounds
<1> HIDE DEF q
<1>2. Item(p, c) \in Key /\ q \o NextKey(c) = NextKey(q \o c)
  BY <1>1, SMTT(30) DEF Key, NextKey
<1>3. KeyLess(k, NextKey(Item(p, c))) <=> k = Item(p, c) \/ KeyLess(k, Item(p, c))
  BY <1>2, NextKeyIsNext, Zenon
<1>4. ~KeyLess(k, LowerKey(p, AtCursor(c))) <=> KeyLess(Item(p, c), k)
  BY <1>1, <1>2, <1>3, KeyNotLess, KeyIrreflexive, Zenon
<1>5. UpperKey(p, x) # <<>> /\ UpperKey(p, AtCursor(c)) # <<>>
  BY <1>0, BoundsBetweenEnds, Zenon
<1> QED BY <1>1, <1>2, <1>4, <1>5, SMTT(30) DEF InRange, ListRange

-----------------------------------------------------------------------------
(* The lists of different owners.                                          *)

PaymentCreds == {c \in Key : Len(c) = 2}
Delegations == {d \in Key : d # <<>> /\ d[1] \in 0..3 /\ Len(d) = DelegationLen(d[1])}
ShelleyAddresses == [network : Nat, payment : PaymentCreds, delegation : Delegations]
ByronAddresses == [byron : Key]
Encoders == {e \in Key : Len(e) = 2}

\* how the keys of some list begin
ListPrefix(p) ==
  \E e \in Encoders :
    \/ \E policy \in Nat :
         p \in {UtxosOfPolicy(e, policy), TxsOfPolicy(e, policy), UpdatesOfPolicy(e, policy),
                SuppliesOfPolicy(e, policy)}
    \/ \E policy \in Nat, name \in Key :
         p \in {UtxosOfAsset(e, policy, name), MintsOfAsset(e, policy, name)}
    \/ \E a \in ShelleyAddresses : p \in {UtxosOfShelley(e, a), TxsOfAddress(e, a)}
    \/ \E a \in ByronAddresses : p \in {UtxosOfByron(e, a), TxsOfAddress(e, a)}
    \/ \E c \in PaymentCreds : p = TxsOfPayCred(e, c)

\* what follows the tag of a reducer in the keys of a list tells its own length
Owner(r, s) ==
  /\ s \in Key
  /\ \/ /\ r \in {REDUCER_UTXOS_BY_POLICY, REDUCER_TXS_BY_POLICY, REDUCER_UPDATES_BY_POLICY,
                  REDUCER_SUPPLY_BY_ASSET}
        /\ Len(s) = 1
     \/ r = REDUCER_TXS_BY_PAY_CRED /\ Len(s) = 2
     \/ r = REDUCER_UTXOS_BY_ASSET /\ Len(s) >= 3 /\ Len(s) = 3 + s[3]
     \/ r = REDUCER_MINT_METADATA_BY_ASSET /\ Len(s) >= 2 /\ Len(s) = 2 + s[2]
     \/ r = REDUCER_UTXOS_BY_SHELLEY_ADDRESS /\ Len(s) >= 5 /\ Len(s) = 4 + DelegationLen(s[5])
     \/ /\ r = REDUCER_UTXOS_BY_BYRON_ADDRESS
        /\ Len(s) >= 2 /\ Len(s) = 2 + (IF s[1] = 0 THEN s[2] ELSE 0)
     \/ /\ r = REDUCER_TXS_BY_ADDRESS
        /\ \/ s[1] = ADDRESS_SHELLEY /\ Len(s) >= 6 /\ Len(s) = 5 + DelegationLen(s[6])
           \/ s[1] = ADDRESS_BYRON /\ Len(s) >= 3 /\ Len(s) = 3 + (IF s[2] = 0 THEN s[3] ELSE 0)

\* so that none begins another
LEMMA OwnersDelimited ==
  ASSUME NEW r, NEW s, NEW t, Owner(r, s), Owner(r, t), StartsWith(t, s)
  PROVE  s = t
<1>1. /\ s \in Key /\ t \in Key /\ Len(s) \in Nat /\ Len(t) \in Nat
      /\ Len(s) <= Len(t) /\ \A i \in 1..Len(s) : s[i] = t[i]
  <2>1. s \in Key /\ t \in Key
    BY Zenon DEF Owner
  <2>2. Len(s) \in Nat /\ Len(t) \in Nat
    BY <2>1, SMTT(30) DEF Key
  <2>3. Len(s) <= Len(t) /\ \A i \in 1..Len(s) : s[i] = t[i]
    <3>1. \A i \in 1..Len(s) : t[i] = s[i]
      BY Zenon DEF StartsWith
    <3> QED BY <3>1, Zenon DEF StartsWith
  <2> QED BY <2>1, <2>2, <2>3, Zenon
<1>2. /\ Len(s) >= 1 => s[1] = t[1]
      /\ Len(s) >= 2 => s[2] = t[2]
      /\ Len(s) >= 3 => s[3] = t[3]
      /\ Len(s) >= 5 => s[5] = t[5]
      /\ Len(s) >= 6 => s[6] = t[6]
  BY <1>1, SMTT(30)
<1>3. Len(s) = Len(t)
  <2> USE DEF REDUCER_UTXOS_BY_POLICY, REDUCER_TXS_BY_POLICY, REDUCER_UPDATES_BY_POLICY,
      REDUCER_SUPPLY_BY_ASSET, REDUCER_TXS_BY_PAY_CRED, REDUCER_UTXOS_BY_ASSET,
      REDUCER_MINT_METADATA_BY_ASSET, REDUCER_UTXOS_BY_SHELLEY_ADDRESS,
      REDUCER_UTXOS_BY_BYRON_ADDRESS, REDUCER_TXS_BY_ADDRESS
  <2>1. CASE r = REDUCER_UTXOS_BY_ASSET
    BY <1>1, <1>2, <2>1, SMTT(30) DEF Owner
  <2>2. CASE r = REDUCER_MINT_METADATA_BY_ASSET
    BY <1>1, <1>2, <2>2, SMTT(30) DEF Owner
  <2>3. CASE r = REDUCER_UTXOS_BY_SHELLEY_ADDRESS
    BY <1>1, <1>2, <2>3, SMTT(30) DEF Owner
  <2>4. CASE r = REDUCER_UTXOS_BY_BYRON_ADDRESS
    BY <1>1, <1>2, <2>4, SMTT(30) DEF Owner
  <2>5. CASE r = REDUCER_TXS_BY_ADDRESS
    BY <1>1, <1>2, <2>5, SMTT(30) DEF Owner, ADDRESS_SHELLEY, ADDRESS_BYRON
  <2>6. CASE /\ r # REDUCER_UTXOS_BY_ASSET /\ r # REDUCER_MINT_METADATA_BY_ASSET
             /\ r # REDUCER_UTXOS_BY_SHELLEY_ADDRESS /\ r # REDUCER_UTXOS_BY_BYRON_ADDRESS
             /\ r # REDUCER_TXS_BY_ADDRESS
    BY <2>6, SMTT(30) DEF Owner
  <2> QED BY <2>1, <2>2, <2>3, <2>4, <2>5, <2>6, Zenon
<1> QED BY <1>1, <1>3, SameKey, Zenon

\* a key with the tag of a reducer
IsTagged(p, e, r, s) ==
  /\ p \in Key /\ Len(p) = 4 + Len(s)
  /\ p[1] = e[1] /\ p[2] = e[2] /\ p[4] = r
  /\ \A i \in 1..Len(s) : p[4 + i] = s[i]

\* p is a and b after it
IsConcat(p, a, b) ==
  /\ p \in Key /\ Len(a) \in Nat /\ Len(b) \in Nat /\ Len(p) = Len(a) + Len(b)
  /\ \A i \in 1..Len(a) : p[i] = a[i]
  /\ \A i \in 1..Len(b) : p[Len(a) + i] = b[i]

LEMMA ConcatFacts ==
  ASSUME NEW a \in Key, NEW b \in Key
  PROVE  IsConcat(a \o b, a, b)
<1>1. a \o b \in Seq(Nat) /\ Len(a) \in Nat /\ Len(b) \in Nat /\ Len(a \o b) = Len(a) + Len(b)
  BY SMTT(30) DEF Key
<1>2. \A i \in 1..Len(a) : (a \o b)[i] = a[i]
  BY <1>1, SMTT(30) DEF Key
<1>3. \A i \in 1..Len(b) : (a \o b)[Len(a) + i] = b[i]
  <2> SUFFICES ASSUME NEW i \in 1..Len(b) PROVE (a \o b)[Len(a) + i] = b[i]
    BY Zenon
  <2> DEFINE j == Len(a) + i
  <2>1. j \in 1..(Len(a) + Len(b)) /\ j > Len(a) /\ j - Len(a) = i
    BY <1>1, SMTT(30)
  <2> HIDE DEF j
  <2>2. (a \o b)[j] = b[j - Len(a)]
    BY <1>1, <2>1, SMTT(30) DEF Key
  <2> QED BY <2>1, <2>2, Zenon DEF j
<1> QED BY <1>1, <1>2, <1>3, Zenon DEF IsConcat, Key

LEMMA TaggedKey ==
  ASSUME NEW e \in Encoders, NEW r \in Nat, NEW s \in Key
  PROVE  Data(e, r) \in Key /\ IsTagged(Data(e, r) \o s, e, r, s)
<1> DEFINE g == <<PREFIX_DATA, r>>
           h == Data(e, r)
           p == h \o s
<1>1. g \in Key /\ Len(g) = 2 /\ g[2] = r /\ e \in Key /\ Len(e) = 2
  BY SMTT(30) DEF PREFIX_DATA, Encoders, Key
<1>2. h = e \o g
  BY Zenon DEF Data
<1> HIDE DEF g, h
<1>3. IsConcat(h, e, g)
  BY <1>1, <1>2, ConcatFacts, Zenon
<1>4. h \in Key /\ Len(h) = 4 /\ h[1] = e[1] /\ h[2] = e[2] /\ h[4] = r
  BY <1>1, <1>3, SMTT(30) DEF IsConcat
<1>5. IsConcat(p, h, s)
  BY <1>4, ConcatFacts, Zenon
<1> HIDE DEF p
<1>6. p \in Key /\ Len(p) = 4 + Len(s) /\ p[1] = h[1] /\ p[2] = h[2] /\ p[4] = h[4]
  BY <1>4, <1>5, SMTT(30) DEF IsConcat
<1>7. \A i \in 1..Len(s) : p[4 + i] = s[i]
  BY <1>4, <1>5, Zenon DEF IsConcat
<1>8. IsTagged(p, e, r, s)
  BY <1>4, <1>6, <1>7, Zenon DEF IsTagged
<1> QED BY <1>4, <1>8, Zenon DEF h, p

LEMMA TaggedStart ==
  ASSUME NEW e \in Encoders, NEW r \in Nat, NEW s \in Key,
         NEW f \in Encoders, NEW u \in Nat, NEW t \in Key,
         StartsWith(Data(f, u) \o t, Data(e, r) \o s)
  PROVE  e = f /\ r = u /\ StartsWith(t, s)
<1> DEFINE p == Data(e, r) \o s
           q == Data(f, u) \o t
<1>0. IsTagged(p, e, r, s) /\ IsTagged(q, f, u, t)
  BY TaggedKey, Zenon
<1>3. Len(p) <= Len(q) /\ \A i \in 1..Len(p) : q[i] = p[i]
  BY Zenon DEF StartsWith
<1> HIDE DEF p, q
<1>1. /\ p \in Key /\ Len(p) = 4 + Len(s) /\ p[1] = e[1] /\ p[2] = e[2] /\ p[4] = r
      /\ \A i \in 1..Len(s) : p[4 + i] = s[i]
  BY <1>0, Zenon DEF IsTagged
<1>2. /\ q \in Key /\ Len(q) = 4 + Len(t) /\ q[1] = f[1] /\ q[2] = f[2] /\ q[4] = u
      /\ \A i \in 1..Len(t) : q[4 + i] = t[i]
  BY <1>0, Zenon DEF IsTagged
<1>4. Len(s) \in Nat /\ Len(t) \in Nat /\ Len(e) = 2 /\ Len(f) = 2 /\ e \in Key /\ f \in Key
  BY SMTT(30) DEF Key, Encoders
<1>5. q[1] = p[1] /\ q[2] = p[2] /\ q[4] = p[4]
  BY <1>1, <1>3, <1>4, SMTT(30)
<1>6. e = f
  <2>0. e[1] = f[1] /\ e[2] = f[2]
    BY <1>1, <1>2, <1>5, Zenon
  <2>1. \A i \in 1..2 : e[i] = f[i]
    BY <2>0, SMTT(30)
  <2> QED BY <1>4, <2>1, SameKey, Zenon
<1>7. Len(s) <= Len(t)
  BY <1>1, <1>2, <1>3, <1>4, SMTT(30)
<1>8. \A i \in 1..Len(s) : t[i] = s[i]
  <2> SUFFICES ASSUME NEW i \in 1..Len(s) PROVE t[i] = s[i]
    BY Zenon
  <2>1. i \in 1..Len(t) /\ 4 + i \in 1..Len(p)
    BY <1>1, <1>4, <1>7, SMTT(30)
  <2> QED BY <1>1, <1>2, <1>3, <2>1, Zenon
<1> QED BY <1>1, <1>2, <1>5, <1>6, <1>7, <1>8, Zenon DEF StartsWith

LEMMA ShortBytes ==
  ASSUME NEW name \in Key
  PROVE  LET s == encode_short_bytestring(name)
         IN  s \in Key /\ Len(s) = 1 + Len(name) /\ s[1] = Len(name) /\ Len(name) \in Nat
<1> DEFINE g == <<Len(name)>>
           s == encode_short_bytestring(name)
<1>1. g \in Key /\ Len(g) = 1 /\ g[1] = Len(name) /\ Len(name) \in Nat
  BY SMTT(30) DEF Key
<1>2. s = g \o name
  BY Zenon DEF encode_short_bytestring
<1> HIDE DEF g, s
<1>3. IsConcat(s, g, name)
  BY <1>1, <1>2, ConcatFacts, Zenon
<1>4. s \in Key /\ Len(s) = 1 + Len(name) /\ s[1] = Len(name)
  BY <1>1, <1>3, SMTT(30) DEF IsConcat
<1> QED BY <1>1, <1>4, Zenon DEF s

LEMMA ShelleyBytes ==
  ASSUME NEW a \in ShelleyAddresses
  PROVE  LET s == encode_shelley_address(a)
         IN  /\ s \in Key /\ Len(s) >= 5 /\ Len(s) = 4 + DelegationLen(s[5])
             /\ DelegationLen(s[5]) \in Nat
<1> DEFINE n == <<a.network>>
           b == <<BREAK>>
           np == n \o a.payment
           npb == np \o b
           s == encode_shelley_address(a)
           d == a.delegation
           pay == a.payment
<1>1. n \in Key /\ Len(n) = 1 /\ b \in Key /\ Len(b) = 1
  BY SMTT(30) DEF ShelleyAddresses, Key, BREAK
<1>2. /\ pay \in Key /\ Len(pay) = 2
      /\ d \in Key /\ d # <<>> /\ Len(d) = DelegationLen(d[1])
  BY SMTT(30) DEF ShelleyAddresses, PaymentCreds, Delegations
<1>3. s = npb \o d /\ np = n \o pay
  BY Zenon DEF encode_shelley_address
<1>4. Len(d) \in Nat /\ Len(d) >= 1
  BY <1>2, SMTT(30) DEF Key
<1> HIDE DEF n, b, np, s, d, pay
<1>5. IsConcat(np, n, pay)
  BY <1>1, <1>2, <1>3, ConcatFacts, Zenon
<1>6. np \in Key /\ Len(np) = 3
  BY <1>1, <1>2, <1>5, SMTT(30) DEF IsConcat
<1>7. IsConcat(npb, np, b)
  BY <1>1, <1>6, ConcatFacts, Zenon
<1> HIDE DEF npb
<1>8. npb \in Key /\ Len(npb) = 4
  BY <1>1, <1>6, <1>7, SMTT(30) DEF IsConcat
<1>9. IsConcat(s, npb, d)
  BY <1>2, <1>3, <1>8, ConcatFacts, Zenon
<1>10. s \in Key /\ Len(s) >= 5 /\ Len(s) = 4 + Len(d) /\ s[4 + 1] = d[1]
  BY <1>4, <1>8, <1>9, SMTT(30) DEF IsConcat
<1>11. s[5] = d[1]
  BY <1>10, SMTT(30)
<1> QED BY <1>2, <1>4, <1>10, <1>11, Zenon DEF s

LEMMA ByronBytes ==
  ASSUME NEW a \in ByronAddresses, Blake2b(a.byron) \in Nat
  PROVE  LET s == encode_byron_address(a)
         IN  s \in Key /\ Len(s) >= 2 /\ Len(s) = 2 + (IF s[1] = 0 THEN s[2] ELSE 0)
<1> DEFINE s == encode_byron_address(a)
           b == a.byron
<1>1. b \in Key /\ Len(b) \in Nat
  BY SMTT(30) DEF ByronAddresses, Key
<1>2. CASE Len(b) <= MAX_BYRON_ADDRESS_LEN
  <2> DEFINE g == <<0, Len(b)>>
  <2>1. s = g \o b
    BY <1>2, Zenon DEF encode_byron_address
  <2> HIDE DEF b
  <2>2. g \in Key /\ Len(g) = 2 /\ g[1] = 0 /\ g[2] = Len(b)
    BY <1>1, SMTT(30) DEF Key
  <2> HIDE DEF s, g
  <2>3. IsConcat(s, g, b)
    BY <1>1, <2>1, <2>2, ConcatFacts, Zenon
  <2>4. s \in Key /\ Len(s) = 2 + Len(b) /\ s[1] = 0 /\ s[2] = Len(b)
    BY <1>1, <2>2, <2>3, SMTT(30) DEF IsConcat
  <2>5. Len(s) >= 2 /\ Len(s) = 2 + (IF s[1] = 0 THEN s[2] ELSE 0)
    BY <1>1, <2>4, SMTT(30)
  <2> QED BY <2>4, <2>5, Zenon DEF s
<1>3. CASE ~(Len(b) <= MAX_BYRON_ADDRESS_LEN)
  <2> DEFINE h == Blake2b(b)
  <2>1. s = <<1, h>> /\ h \in Nat
    BY <1>3, Zenon DEF encode_byron_address
  <2> HIDE DEF h, s
  <2>2. s \in Key /\ Len(s) >= 2 /\ Len(s) = 2 + (IF s[1] = 0 THEN s[2] ELSE 0)
    BY <2>1, SMTT(30) DEF Key
  <2> QED BY <2>2, Zenon DEF s
<1> QED BY <1>2, <1>3, Zenon

LEMMA TypedBytes ==
  ASSUME NEW a, a \in ShelleyAddresses \/ (a \in ByronAddresses /\ Blake2b(a.byron) \in Nat)
  PROVE  Owner(REDUCER_TXS_BY_ADDRESS, encode_address_with_type(a))
<1> DEFINE s == encode_address_with_type(a)
<1>1. CASE a \in ShelleyAddresses
  <2> DEFINE g == <<ADDRESS_SHELLEY>>
             t == encode_shelley_address(a)
  <2>1. IsShelley(a)
    BY <1>1, SMTT(30) DEF IsShelley, ShelleyAddresses
  <2>2. s = g \o t
    BY <2>1, Zenon DEF encode_address_with_type
  <2>3. t \in Key /\ Len(t) >= 5 /\ Len(t) = 4 + DelegationLen(t[5]) /\ DelegationLen(t[5]) \in Nat
    BY <1>1, ShelleyBytes, Zenon
  <2>4. g \in Key /\ Len(g) = 1 /\ g[1] = ADDRESS_SHELLEY
    BY SMTT(30) DEF Key, ADDRESS_SHELLEY
  <2> HIDE DEF s, t, g
  <2>5. IsConcat(s, g, t)
    BY <2>2, <2>3, <2>4, ConcatFacts, Zenon
  <2>6. s \in Key /\ s[1] = ADDRESS_SHELLEY /\ Len(s) >= 6 /\ Len(s) = 1 + Len(t) /\ s[1 + 5] = t[5]
    BY <2>3, <2>4, <2>5, SMTT(30) DEF IsConcat
  <2>7. Len(s) = 1 + Len(t) /\ Len(t) \in Nat /\ s[6] = t[5]
    BY <2>5, <2>6, SMTT(30) DEF IsConcat
  <2>8. Len(s) = 5 + (Len(t) - 4)
    BY <2>7, SMTT(30)
  <2>9. DelegationLen(t[5]) = Len(t) - 4
    BY <2>3, <2>7, SMTT(30)
  <2> QED BY <2>6, <2>7, <2>8, <2>9, Zenon DEF Owner, s
<1>2. CASE a \in ByronAddresses /\ Blake2b(a.byron) \in Nat
  <2> DEFINE g == <<ADDRESS_BYRON>>
             t == encode_byron_address(a)
  <2>1. ~IsShelley(a)
    BY <1>2, SMTT(30) DEF IsShelley, ByronAddresses
  <2>2. s = g \o t
    BY <2>1, Zenon DEF encode_address_with_type
  <2>3. t \in Key /\ Len(t) >= 2 /\ Len(t) = 2 + (IF t[1] = 0 THEN t[2] ELSE 0)
    BY <1>2, ByronBytes, Zenon
  <2>4. g \in Key /\ Len(g) = 1 /\ g[1] = ADDRESS_BYRON
    BY SMTT(30) DEF Key, ADDRESS_BYRON
  <2> HIDE DEF s, t, g
  <2>5. IsConcat(s, g, t)
    BY <2>2, <2>3, <2>4, ConcatFacts, Zenon
  <2>6. s \in Key /\ s[1] = ADDRESS_BYRON /\ Len(s) >= 3 /\ Len(s) = 1 + Len(t)
        /\ s[1 + 1] = t[1] /\ s[1 + 2] = t[2]
    BY <2>3, <2>4, <2>5, SMTT(30) DEF IsConcat
  <2>7. t[1] \in Nat /\ t[2] \in Nat
    BY <2>3, SMTT(30) DEF Key
  <2>8. Len(s) = 3 + (IF s[2] = 0 THEN s[3] ELSE 0)
    BY <2>3, <2>6, <2>7, SMTT(30)
  <2> QED BY <2>6, <2>8, Zenon DEF Owner, s
<1> QED BY <1>1, <1>2, Zenon

Owned(p) == \E e \in Encoders, r \in Nat, s \in Key : Owner(r, s) /\ p = Data(e, r) \o s

LEMMA TagsAreNumbers ==
  /\ REDUCER_UTXOS_BY_POLICY \in Nat /\ REDUCER_TXS_BY_POLICY \in Nat /\ REDUCER_UPDATES_BY_POLICY \in Nat
  /\ REDUCER_SUPPLY_BY_ASSET \in Nat /\ REDUCER_TXS_BY_PAY_CRED \in Nat /\ REDUCER_UTXOS_BY_ASSET \in Nat
  /\ REDUCER_MINT_METADATA_BY_ASSET \in Nat /\ REDUCER_UTXOS_BY_SHELLEY_ADDRESS \in Nat
  /\ REDUCER_UTXOS_BY_BYRON_ADDRESS \in Nat /\ REDUCER_TXS_BY_ADDRESS \in Nat /\ BREAK \in Nat
BY SMTT(30) DEF REDUCER_UTXOS_BY_POLICY, REDUCER_TXS_BY_POLICY, REDUCER_UPDATES_BY_POLICY,
       REDUCER_SUPPLY_BY_ASSET, REDUCER_TXS_BY_PAY_CRED, REDUCER_UTXOS_BY_ASSET,
       REDUCER_MINT_METADATA_BY_ASSET, REDUCER_UTXOS_BY_SHELLEY_ADDRESS,
       REDUCER_UTXOS_BY_BYRON_ADDRESS, REDUCER_TXS_BY_ADDRESS, BREAK

LEMMA AssetBytes ==
  ASSUME NEW policy \in Nat, NEW name \in Key
  PROVE  /\ Owner(REDUCER_UTXOS_BY_ASSET, <<policy, BREAK>> \o encode_short_bytestring(name))
         /\ Owner(REDUCER_MINT_METADATA_BY_ASSET, <<policy>> \o encode_short_bytestring(name))
<1> DEFINE g == <<policy, BREAK>>
           h == <<policy>>
           t == encode_short_bytestring(name)
           u == g \o t
           v == h \o t
<1>1. g \in Key /\ Len(g) = 2 /\ h \in Key /\ Len(h) = 1
  BY TagsAreNumbers, SMTT(30) DEF Key
<1>2. t \in Key /\ Len(t) = 1 + Len(name) /\ t[1] = Len(name) /\ Len(name) \in Nat
  BY ShortBytes, Zenon
<1> HIDE DEF g, h, t
<1>3. IsConcat(u, g, t) /\ IsConcat(v, h, t)
  BY <1>1, <1>2, ConcatFacts, Zenon
<1> HIDE DEF u, v
<1>4. u \in Key /\ Len(u) >= 3 /\ Len(u) = 3 + Len(name) /\ u[2 + 1] = t[1]
  BY <1>1, <1>2, <1>3, SMTT(30) DEF IsConcat
<1>5. v \in Key /\ Len(v) >= 2 /\ Len(v) = 2 + Len(name) /\ v[1 + 1] = t[1]
  BY <1>1, <1>2, <1>3, SMTT(30) DEF IsConcat
<1>6. u[3] = Len(name) /\ v[2] = Len(name)
  BY <1>2, <1>4, <1>5, SMTT(30)
<1>7. Owner(REDUCER_UTXOS_BY_ASSET, u) /\ Owner(REDUCER_MINT_METADATA_BY_ASSET, v)
  BY <1>4, <1>5, <1>6, Zenon DEF Owner
<1> QED BY <1>7, Zenon DEF u, v, g, h, t

LEMMA ListsAreOwned ==
  ASSUME \A b \in Key : Blake2b(b) \in Nat, NEW p, ListPrefix(p)
  PROVE  Owned(p)
<1>1. ASSUME NEW e \in Encoders, NEW r \in Nat, NEW s, Owner(r, s), p = Data(e, r) \o s
      PROVE  Owned(p)
  BY <1>1, Zenon DEF Owned, Owner
<1>2. PICK e \in Encoders :
        \/ \E policy \in Nat :
             p \in {UtxosOfPolicy(e, policy), TxsOfPolicy(e, policy), UpdatesOfPolicy(e, policy),
                    SuppliesOfPolicy(e, policy)}
        \/ \E policy \in Nat, name \in Key :
             p \in {UtxosOfAsset(e, policy, name), MintsOfAsset(e, policy, name)}
        \/ \E a \in ShelleyAddresses : p \in {UtxosOfShelley(e, a), TxsOfAddress(e, a)}
        \/ \E a \in ByronAddresses : p \in {UtxosOfByron(e, a), TxsOfAddress(e, a)}
        \/ \E c \in PaymentCreds : p = TxsOfPayCred(e, c)
  BY Zenon DEF ListPrefix
<1>3. ASSUME NEW policy \in Nat,
             p \in {UtxosOfPolicy(e, policy), TxsOfPolicy(e, policy), UpdatesOfPolicy(e, policy),
                    SuppliesOfPolicy(e, policy)}
      PROVE  Owned(p)
  <2> DEFINE s == <<policy>>
  <2>1. PICK r \in {REDUCER_UTXOS_BY_POLICY, REDUCER_TXS_BY_POLICY, REDUCER_UPDATES_BY_POLICY,
                    REDUCER_SUPPLY_BY_ASSET} : p = Data(e, r) \o s
    BY <1>3, Zenon DEF UtxosOfPolicy, TxsOfPolicy, UpdatesOfPolicy, SuppliesOfPolicy
  <2>2. s \in Key /\ Len(s) = 1
    BY SMTT(30) DEF Key
  <2> HIDE DEF s
  <2> QED BY <1>1, <2>1, <2>2, TagsAreNumbers, Zenon DEF Owner
<1>4. ASSUME NEW policy \in Nat, NEW name \in Key,
             p \in {UtxosOfAsset(e, policy, name), MintsOfAsset(e, policy, name)}
      PROVE  Owned(p)
  <2> DEFINE t == encode_short_bytestring(name)
             g == <<policy, BREAK>>
             h == <<policy>>
  <2>1. Owner(REDUCER_UTXOS_BY_ASSET, g \o t) /\ Owner(REDUCER_MINT_METADATA_BY_ASSET, h \o t)
    BY AssetBytes, Zenon
  <2>2. /\ p = UtxosOfAsset(e, policy, name) => p = (Data(e, REDUCER_UTXOS_BY_ASSET) \o g) \o t
        /\ p = MintsOfAsset(e, policy, name) => p = (Data(e, REDUCER_MINT_METADATA_BY_ASSET) \o h) \o t
    BY Zenon DEF UtxosOfAsset, MintsOfAsset
  <2>3. g \in Key /\ h \in Key
    BY TagsAreNumbers, SMTT(30) DEF Key
  <2>4. t \in Key
    BY ShortBytes, Zenon
  <2> HIDE DEF g, h, t
  <2>5. ASSUME NEW r \in Nat, NEW x \in Key PROVE (Data(e, r) \o x) \o t = Data(e, r) \o (x \o t)
    <3> DEFINE d == Data(e, r)
    <3>1. d \in Key
      BY <2>4, TaggedKey, Zenon
    <3> HIDE DEF d
    <3>2. (d \o x) \o t = d \o (x \o t)
      BY <2>4, <3>1, ConcatAssociates, Zenon
    <3> QED BY <3>2, Zenon DEF d
  <2>6. CASE p = UtxosOfAsset(e, policy, name)
    <3>1. p = Data(e, REDUCER_UTXOS_BY_ASSET) \o (g \o t)
      BY <2>2, <2>3, <2>5, <2>6, TagsAreNumbers, Zenon
    <3> QED BY <1>1, <2>1, <3>1, TagsAreNumbers, Zenon
  <2>7. CASE p = MintsOfAsset(e, policy, name)
    <3>1. p = Data(e, REDUCER_MINT_METADATA_BY_ASSET) \o (h \o t)
      BY <2>2, <2>3, <2>5, <2>7, TagsAreNumbers, Zenon
    <3> QED BY <1>1, <2>1, <3>1, TagsAreNumbers, Zenon
  <2> QED BY <1>4, <2>6, <2>7, Zenon
<1>5. ASSUME NEW a \in ShelleyAddresses, p \in {UtxosOfShelley(e, a), TxsOfAddress(e, a)}
      PROVE  Owned(p)
  <2>1. Owner(REDUCER_UTXOS_BY_SHELLEY_ADDRESS, encode_shelley_address(a))
    BY ShelleyBytes, Zenon DEF Owner
  <2>2. Owner(REDUCER_TXS_BY_ADDRESS, encode_address_with_type(a))
    BY TypedBytes, Zenon
  <2>3. \/ p = Data(e, REDUCER_UTXOS_BY_SHELLEY_ADDRESS) \o encode_shelley_address(a)
        \/ p = Data(e, REDUCER_TXS_BY_ADDRESS) \o encode_address_with_type(a)
    BY <1>5, Zenon DEF UtxosOfShelley, TxsOfAddress
  <2> QED BY <1>1, <2>1, <2>2, <2>3, TagsAreNumbers, Zenon
<1>6. ASSUME NEW a \in ByronAddresses, p \in {UtxosOfByron(e, a), TxsOfAddress(e, a)}
      PROVE  Owned(p)
  <2>1. Blake2b(a.byron) \in Nat
    <3>1. a.byron \in Key
      BY SMTT(30) DEF ByronAddresses
    <3> QED BY <3>1, Zenon
  <2>2. Owner(REDUCER_UTXOS_BY_BYRON_ADDRESS, encode_byron_address(a))
    BY <2>1, ByronBytes, Zenon DEF Owner
  <2>3. Owner(REDUCER_TXS_BY_ADDRESS, encode_address_with_type(a))
    BY <2>1, TypedBytes, Zenon
  <2>4. \/ p = Data(e, REDUCER_UTXOS_BY_BYRON_ADDRESS) \o encode_byron_address(a)
        \/ p = Data(e, REDUCER_TXS_BY_ADDRESS) \o encode_address_with_type(a)
    BY <1>6, Zenon DEF UtxosOfByron, TxsOfAddress
  <2> QED BY <1>1, <2>2, <2>3, <2>4, TagsAreNumbers, Zenon
<1>7. ASSUME NEW c \in PaymentCreds, p = TxsOfPayCred(e, c) PROVE Owned(p)
  <2>1. Owner(REDUCER_TXS_BY_PAY_CRED, c)
    BY Zenon DEF Owner, PaymentCreds
  <2>2. p = Data(e, REDUCER_TXS_BY_PAY_CRED) \o c
    BY <1>7, Zenon DEF TxsOfPayCred, encode_shelley_payment_cred
  <2> QED BY <1>1, <2>1, <2>2, TagsAreNumbers, Zenon
<1> QED BY <1>2, <1>3, <1>4, <1>5, <1>6, <1>7, Zenon

\* a key in the range of a list begins as the list does
LEMMA InRangeStarts ==
  ASSUME NEW p \in Key, NEW lower, IsBound(lower), NEW upper, IsBound(upper),
         NEW k \in Key, InRange(k, ListRange(p, lower, upper))
  PROVE  StartsWith(k, p)
<1>1. PICK s \in Key : k = Item(p, s)
  BY InRangeIsItem, SMTT(30)
<1> DEFINE b == <<BREAK>>
           t == b \o s
<1>2. b \in Key
  BY TagsAreNumbers, SMTT(30) DEF Key
<1>3. k = (p \o b) \o s
  BY <1>1, Zenon DEF Item
<1> HIDE DEF b
<1>4. IsConcat(t, b, s) /\ k = p \o t
  BY <1>2, <1>3, ConcatFacts, ConcatAssociates, ZenonT(60)
<1> HIDE DEF t
<1>5. t \in Key
  BY <1>4, Zenon DEF IsConcat
<1>6. IsConcat(k, p, t)
  BY <1>4, <1>5, ConcatFacts, Zenon
<1> QED BY <1>6, SMTT(30) DEF IsConcat, StartsWith

\* of two beginnings of one key one begins the other
LEMMA BeginningsNest ==
  ASSUME NEW p \in Key, NEW q \in Key, NEW k \in Key, StartsWith(k, p), StartsWith(k, q)
  PROVE  StartsWith(q, p) \/ StartsWith(p, q)
<1>1. Len(p) \in Nat /\ Len(q) \in Nat
  BY SMTT(30) DEF Key
<1>2. \A i : (i \in 1..Len(p) => k[i] = p[i]) /\ (i \in 1..Len(q) => k[i] = q[i])
  BY Zenon DEF StartsWith
<1>3. CASE Len(p) <= Len(q)
  <2>1. \A i \in 1..Len(p) : i \in 1..Len(q)
    BY <1>1, <1>3, SMTT(30)
  <2> QED BY <1>2, <1>3, <2>1, Zenon DEF StartsWith
<1>4. CASE Len(q) <= Len(p)
  <2>1. \A i \in 1..Len(q) : i \in 1..Len(p)
    BY <1>1, <1>4, SMTT(30)
  <2> QED BY <1>2, <1>4, <2>1, Zenon DEF StartsWith
<1>5. Len(p) <= Len(q) \/ Len(q) <= Len(p)
  BY <1>1, SMTT(30)
<1> QED BY <1>3, <1>4, <1>5, Zenon

\* the beginning of one list does not begin another
LEMMA ListsDelimited ==
  ASSUME NEW p, Owned(p), NEW q, Owned(q), StartsWith(q, p)
  PROVE  p = q
<1>1. PICK e \in Encoders, r \in Nat, s \in Key : Owner(r, s) /\ p = Data(e, r) \o s
  BY Zenon DEF Owned
<1>2. PICK f \in Encoders, u \in Nat, t \in Key : Owner(u, t) /\ q = Data(f, u) \o t
  BY Zenon DEF Owned
<1>3. e = f /\ r = u /\ StartsWith(t, s)
  <2>1. StartsWith(Data(f, u) \o t, Data(e, r) \o s)
    BY <1>1, <1>2, Zenon
  <2> QED BY <2>1, TaggedStart, Zenon
<1>4. Owner(r, t)
  BY <1>2, <1>3, Zenon
<1>5. s = t
  BY <1>1, <1>3, <1>4, OwnersDelimited, Zenon
<1> QED BY <1>1, <1>2, <1>3, <1>5, Zenon

\* Whatever its bounds, the range of a list holds no key of another list:
\* not of another instance, reducer, policy, credential or address, nor of an
\* asset whose name begins with the other's.
THEOREM ListsAreApart ==
  ASSUME \A b \in Key : Blake2b(b) \in Nat,
         NEW p, ListPrefix(p), NEW q, ListPrefix(q),
         NEW lower, IsBound(lower), NEW upper, IsBound(upper),
         NEW from, IsBound(from), NEW to, IsBound(to),
         NEW k \in Key, InRange(k, ListRange(p, lower, upper)), InRange(k, ListRange(q, from, to))
  PROVE  p = q
<1>1. Owned(p) /\ Owned(q)
  BY ListsAreOwned, Zenon
<1>2. p \in Key /\ q \in Key
  <2>1. ASSUME NEW x, Owned(x) PROVE x \in Key
    <3>1. PICK e \in Encoders, r \in Nat, s \in Key : x = Data(e, r) \o s
      BY <2>1, Zenon DEF Owned
    <3> QED BY <3>1, TaggedKey, Zenon DEF IsTagged
  <2> QED BY <1>1, <2>1, Zenon
<1>3. StartsWith(k, p)
  BY <1>2, InRangeStarts, SMTT(30)
<1>4. StartsWith(k, q)
  BY <1>2, InRangeStarts, SMTT(30)
<1>5. StartsWith(q, p) \/ StartsWith(p, q)
  BY <1>2, <1>3, <1>4, BeginningsNest, Zenon
<1> QED BY <1>1, <1>5, ListsDelimited, Zenon

LEMMA ConcatSplits ==
  ASSUME NEW a \in Key, NEW b \in Key, NEW c \in Key, NEW d \in Key, Len(a) = Len(c), a \o b = c \o d
  PROVE  a = c /\ b = d
<1> DEFINE p == a \o b
<1>1. IsConcat(p, a, b) /\ IsConcat(p, c, d)
  <2>1. p = c \o d
    BY Zenon
  <2>2. IsConcat(c \o d, c, d)
    BY ConcatFacts, Zenon
  <2> QED BY <2>1, <2>2, ConcatFacts, Zenon
<1> HIDE DEF p
<1>2. \A i \in 1..Len(a) : a[i] = c[i]
  BY <1>1, Zenon DEF IsConcat
<1>3. Len(b) = Len(d)
  BY <1>1, SMTT(30) DEF IsConcat
<1>4. \A i \in 1..Len(b) : b[i] = d[i]
  BY <1>1, <1>3, Zenon DEF IsConcat
<1> QED BY <1>2, <1>3, <1>4, SameKey, Zenon

LEMMA ShelleyTold ==
  ASSUME NEW a \in ShelleyAddresses, NEW b \in ShelleyAddresses,
         encode_shelley_address(a) = encode_shelley_address(b)
  PROVE  a = b
<1> DEFINE br == <<BREAK>>
           N(x) == <<x.network>>
           H(x) == N(x) \o x.payment
           G(x) == H(x) \o br
<1>1. ASSUME NEW x \in ShelleyAddresses
      PROVE  /\ N(x) \in Key /\ Len(N(x)) = 1 /\ N(x)[1] = x.network
             /\ x.payment \in Key /\ Len(x.payment) = 2 /\ x.delegation \in Key
             /\ encode_shelley_address(x) = G(x) \o x.delegation
  <2>1. N(x) \in Key /\ Len(N(x)) = 1 /\ N(x)[1] = x.network
    BY SMTT(30) DEF ShelleyAddresses, Key
  <2>2. x.payment \in Key /\ Len(x.payment) = 2 /\ x.delegation \in Key
    BY SMTT(30) DEF ShelleyAddresses, PaymentCreds, Delegations
  <2>3. encode_shelley_address(x) = G(x) \o x.delegation
    BY Zenon DEF encode_shelley_address
  <2> QED BY <2>1, <2>2, <2>3, Zenon
<1>2. br \in Key /\ Len(br) = 1
  BY TagsAreNumbers, SMTT(30) DEF Key
<1> HIDE DEF br, N
<1>3. ASSUME NEW x \in ShelleyAddresses
      PROVE  H(x) \in Key /\ Len(H(x)) = 3 /\ G(x) \in Key /\ Len(G(x)) = 4
  <2>1. IsConcat(H(x), N(x), x.payment)
    BY <1>1, ConcatFacts, Zenon
  <2>2. H(x) \in Key /\ Len(H(x)) = 3
    <3> HIDE DEF H
    <3>1. Len(N(x)) = 1 /\ Len(x.payment) = 2
      BY <1>1, Zenon
    <3> QED BY <2>1, <3>1, SMTT(30) DEF IsConcat
  <2>3. IsConcat(G(x), H(x), br)
    BY <1>2, <2>2, ConcatFacts, Zenon
  <2>4. G(x) \in Key /\ Len(G(x)) = 4
    <3> HIDE DEF H, G
    <3> QED BY <1>2, <2>2, <2>3, SMTT(30) DEF IsConcat
  <2> QED BY <2>2, <2>4, Zenon
<1>4. G(a) = G(b) /\ a.delegation = b.delegation
  <2>1. G(a) \o a.delegation = G(b) \o b.delegation
    BY <1>1, Zenon
  <2>2. G(a) \in Key /\ G(b) \in Key /\ Len(G(a)) = 4 /\ Len(G(b)) = 4
    BY <1>3, Zenon
  <2>3. a.delegation \in Key /\ b.delegation \in Key /\ Len(G(a)) = Len(G(b))
    BY <1>1, <2>2, Zenon
  <2> HIDE DEF G
  <2> QED BY <2>1, <2>2, <2>3, ConcatSplits, Zenon
<1>5. H(a) = H(b)
  <2>1. H(a) \o br = H(b) \o br
    BY <1>4, Zenon
  <2>2. H(a) \in Key /\ H(b) \in Key /\ Len(H(a)) = 3 /\ Len(H(b)) = 3
    BY <1>3, Zenon
  <2>3. Len(H(a)) = Len(H(b))
    BY <2>2, Zenon
  <2> HIDE DEF H
  <2> QED BY <1>2, <2>1, <2>2, <2>3, ConcatSplits, Zenon
<1>6. N(a) = N(b) /\ a.payment = b.payment
  <2>1. N(a) \o a.payment = N(b) \o b.payment
    BY <1>5, Zenon
  <2>2. N(a) \in Key /\ N(b) \in Key /\ Len(N(a)) = 1 /\ Len(N(b)) = 1
    BY <1>1, Zenon
  <2>3. a.payment \in Key /\ b.payment \in Key /\ Len(N(a)) = Len(N(b))
    BY <1>1, <2>2, Zenon
  <2> QED BY <2>1, <2>2, <2>3, ConcatSplits, Zenon
<1>7. a.network = b.network
  BY <1>1, <1>6, Zenon
<1> QED BY <1>4, <1>6, <1>7, SMTT(30) DEF ShelleyAddresses

\* a Byron address is told from its bytes or, when it is long, from its hash
SameByron(a, b) ==
  \/ a = b
  \/ /\ Len(a.byron) > MAX_BYRON_ADDRESS_LEN /\ Len(b.byron) > MAX_BYRON_ADDRESS_LEN
     /\ Blake2b(a.byron) = Blake2b(b.byron)

LEMMA ByronTold ==
  ASSUME NEW a \in ByronAddresses, NEW b \in ByronAddresses, MAX_BYRON_ADDRESS_LEN \in Nat,
         Blake2b(a.byron) \in Nat, Blake2b(b.byron) \in Nat,
         encode_byron_address(a) = encode_byron_address(b)
  PROVE  SameByron(a, b)
<1> DEFINE Short(x) == Len(x.byron) <= MAX_BYRON_ADDRESS_LEN
           g(x) == <<0, Len(x.byron)>>
<1>1. ASSUME NEW x \in ByronAddresses
      PROVE  x.byron \in Key /\ Len(x.byron) \in Nat /\ x = [byron |-> x.byron]
  BY SMTT(30) DEF ByronAddresses, Key
<1>2. ASSUME NEW x \in ByronAddresses, Short(x)
      PROVE  /\ encode_byron_address(x) = g(x) \o x.byron
             /\ g(x) \in Key /\ Len(g(x)) = 2 /\ encode_byron_address(x)[1] = 0
  <2>1. encode_byron_address(x) = g(x) \o x.byron
    BY <1>2, Zenon DEF encode_byron_address
  <2>2. g(x) \in Key /\ Len(g(x)) = 2 /\ g(x)[1] = 0
    <3>1. Len(x.byron) \in Nat
      BY <1>1, Zenon
    <3> QED BY <3>1, SMTT(30) DEF Key
  <2> HIDE DEF g
  <2>3. IsConcat(g(x) \o x.byron, g(x), x.byron)
    BY <1>1, <2>2, ConcatFacts, Zenon
  <2>4. (g(x) \o x.byron)[1] = 0
    BY <2>2, <2>3, SMTT(30) DEF IsConcat
  <2> QED BY <2>1, <2>2, <2>4, Zenon
<1>3. ASSUME NEW x \in ByronAddresses, ~Short(x)
      PROVE  /\ encode_byron_address(x) = <<1, Blake2b(x.byron)>>
             /\ Len(x.byron) > MAX_BYRON_ADDRESS_LEN
  <2>1. encode_byron_address(x) = <<1, Blake2b(x.byron)>>
    BY <1>3, Zenon DEF encode_byron_address
  <2>2. Len(x.byron) \in Nat
    BY <1>1, Zenon
  <2> QED BY <1>3, <2>1, <2>2, SMTT(30)
<1>4. CASE Short(a) /\ Short(b)
  <2>1. g(a) \o a.byron = g(b) \o b.byron
    BY <1>2, <1>4, Zenon
  <2>2. g(a) \in Key /\ g(b) \in Key /\ Len(g(a)) = 2 /\ Len(g(b)) = 2 /\ a.byron \in Key /\ b.byron \in Key
    BY <1>1, <1>2, <1>4, Zenon
  <2>3. Len(g(a)) = Len(g(b))
    BY <2>2, Zenon
  <2> HIDE DEF g
  <2>4. a.byron = b.byron
    BY <2>1, <2>2, <2>3, ConcatSplits, Zenon
  <2>5. a = [byron |-> a.byron] /\ b = [byron |-> b.byron]
    BY <1>1, Zenon
  <2> QED BY <2>4, <2>5, SMTT(30) DEF SameByron
<1>5. CASE ~Short(a) /\ ~Short(b)
  <2>1. <<1, Blake2b(a.byron)>> = <<1, Blake2b(b.byron)>>
    BY <1>3, <1>5, Zenon
  <2>2. Blake2b(a.byron) = Blake2b(b.byron)
    BY <2>1, SMTT(30)
  <2> QED BY <1>3, <1>5, <2>2, Zenon DEF SameByron
<1>6. ASSUME NEW x \in ByronAddresses, NEW y \in ByronAddresses, Short(x), ~Short(y),
             encode_byron_address(x) = encode_byron_address(y)
      PROVE  FALSE
  <2>1. encode_byron_address(x)[1] = 0 /\ encode_byron_address(y) = <<1, Blake2b(y.byron)>>
    BY <1>2, <1>3, <1>6, Zenon
  <2>2. <<1, Blake2b(y.byron)>>[1] = 0
    BY <1>6, <2>1, Zenon
  <2> QED BY <2>2, SMTT(30)
<1> HIDE DEF Short
<1> QED BY <1>4, <1>5, <1>6, Zenon

SameTagged(e, f, r, s, t) == Data(e, r) \o s = Data(f, r) \o t

LEMMA TaggedSame ==
  ASSUME NEW e \in Encoders, NEW f \in Encoders, NEW r \in Nat, NEW s \in Key, NEW t \in Key,
         SameTagged(e, f, r, s, t)
  PROVE  e = f /\ s = t
<1>0. Data(e, r) \o s = Data(f, r) \o t
  BY Zenon DEF SameTagged
<1>1. StartsWith(Data(f, r) \o t, Data(e, r) \o s)
  <2> DEFINE p == Data(e, r) \o s
  <2>1. p \in Key
    BY TaggedKey, Zenon DEF IsTagged
  <2> HIDE DEF p
  <2>2. StartsWith(p, p)
    BY <2>1, SMTT(30) DEF StartsWith, Key
  <2> QED BY <1>0, <2>2, Zenon DEF p
<1>2. e = f
  BY <1>1, TaggedStart, Zenon
<1> DEFINE d == Data(e, r)
<1>3. d \in Key /\ d \o s = d \o t
  BY <1>0, <1>2, TaggedKey, Zenon
<1> HIDE DEF d
<1>4. s = t
  BY <1>3, ConcatSplits, Zenon
<1> QED BY <1>2, <1>4, Zenon

LEMMA ShortTold ==
  ASSUME NEW n \in Key, NEW m \in Key, encode_short_bytestring(n) = encode_short_bytestring(m)
  PROVE  n = m
<1> DEFINE g == <<Len(n)>>
           h == <<Len(m)>>
<1>1. g \in Key /\ h \in Key /\ Len(g) = Len(h)
  BY SMTT(30) DEF Key
<1>2. g \o n = h \o m
  BY Zenon DEF encode_short_bytestring
<1> HIDE DEF g, h
<1> QED BY <1>1, <1>2, ConcatSplits, Zenon

\* An asset is told by the keys of its list: no policy and name run together
\* into what another policy and name begin with.
THEOREM AssetsAreTold ==
  ASSUME NEW e \in Encoders, NEW f \in Encoders, NEW policy \in Nat, NEW policy2 \in Nat,
         NEW name \in Key, NEW name2 \in Key,
         \/ UtxosOfAsset(e, policy, name) = UtxosOfAsset(f, policy2, name2)
         \/ MintsOfAsset(e, policy, name) = MintsOfAsset(f, policy2, name2)
  PROVE  e = f /\ policy = policy2 /\ name = name2
<1> DEFINE t == encode_short_bytestring(name)
           u == encode_short_bytestring(name2)
<1>1. t \in Key /\ u \in Key
  BY ShortBytes, Zenon
<1>2. ASSUME NEW r \in Nat, NEW g \in Key, NEW h \in Key, Len(g) = Len(h),
             (Data(e, r) \o g) \o t = (Data(f, r) \o h) \o u
      PROVE  e = f /\ g = h /\ t = u
  <2> HIDE DEF t, u
  <2>1. ASSUME NEW x \in Encoders, NEW v \in Key, NEW w \in Key
        PROVE  (Data(x, r) \o v) \o w = Data(x, r) \o (v \o w) /\ v \o w \in Key
    <3> DEFINE d == Data(x, r)
    <3>1. d \in Key
      BY TaggedKey, Zenon
    <3> HIDE DEF d
    <3>2. (d \o v) \o w = d \o (v \o w)
      BY <3>1, ConcatAssociates, ZenonT(60)
    <3>3. v \o w \in Key
      BY SMTT(30) DEF Key
    <3> QED BY <3>2, <3>3, Zenon DEF d
  <2>2. Data(e, r) \o (g \o t) = Data(f, r) \o (h \o u) /\ g \o t \in Key /\ h \o u \in Key
    BY <1>1, <1>2, <2>1, ZenonT(60)
  <2>3. SameTagged(e, f, r, g \o t, h \o u)
    BY <2>2, Zenon DEF SameTagged
  <2>4. e = f /\ g \o t = h \o u
    BY <2>2, <2>3, TaggedSame, Zenon
  <2> QED BY <1>1, <1>2, <2>4, ConcatSplits, Zenon
<1>3. ASSUME t = u PROVE name = name2
  BY <1>3, ShortTold, Zenon
<1>4. CASE UtxosOfAsset(e, policy, name) = UtxosOfAsset(f, policy2, name2)
  <2> DEFINE g == <<policy, BREAK>>
             h == <<policy2, BREAK>>
  <2>1. g \in Key /\ h \in Key /\ Len(g) = Len(h) /\ (g = h => policy = policy2)
    BY TagsAreNumbers, SMTT(30) DEF Key
  <2>2. (Data(e, REDUCER_UTXOS_BY_ASSET) \o g) \o t = (Data(f, REDUCER_UTXOS_BY_ASSET) \o h) \o u
    BY <1>4, Zenon DEF UtxosOfAsset
  <2> HIDE DEF g, h, t, u
  <2>3. e = f /\ g = h /\ t = u
    BY <1>2, <2>1, <2>2, TagsAreNumbers, Zenon
  <2> QED BY <1>3, <2>1, <2>3, Zenon
<1>5. CASE MintsOfAsset(e, policy, name) = MintsOfAsset(f, policy2, name2)
  <2> DEFINE g == <<policy>>
             h == <<policy2>>
  <2>1. g \in Key /\ h \in Key /\ Len(g) = Len(h) /\ (g = h => policy = policy2)
    BY SMTT(30) DEF Key
  <2>2. /\ (Data(e, REDUCER_MINT_METADATA_BY_ASSET) \o g) \o t
           = (Data(f, REDUCER_MINT_METADATA_BY_ASSET) \o h) \o u
    BY <1>5, Zenon DEF MintsOfAsset
  <2> HIDE DEF g, h, t, u
  <2>3. e = f /\ g = h /\ t = u
    BY <1>2, <2>1, <2>2, TagsAreNumbers, Zenon
  <2> QED BY <1>3, <2>1, <2>3, Zenon
<1> QED BY <1>4, <1>5, Zenon

\* An address is told by the keys of its transactions, except that long Byron
\* addresses with the same hash share them.
THEOREM AddressesAreTold ==
  ASSUME \A b \in Key : Blake2b(b) \in Nat, MAX_BYRON_ADDRESS_LEN \in Nat,
         NEW e \in Encoders, NEW f \in Encoders,
         NEW a \in ShelleyAddresses \cup ByronAddresses,
         NEW b \in ShelleyAddresses \cup ByronAddresses,
         TxsOfAddress(e, a) = TxsOfAddress(f, b)
  PROVE  e = f /\ (a = b \/ (a \in ByronAddresses /\ b \in ByronAddresses /\ SameByron(a, b)))
<1>1. ASSUME NEW x \in ByronAddresses PROVE Blake2b(x.byron) \in Nat
  <2>1. x.byron \in Key
    BY SMTT(30) DEF ByronAddresses
  <2> QED BY <2>1, Zenon
<1> DEFINE s == encode_address_with_type(a)
           t == encode_address_with_type(b)
<1>2. s \in Key /\ t \in Key
  BY <1>1, TypedBytes, Zenon DEF Owner
<1>3. e = f /\ s = t
  <2>1. SameTagged(e, f, REDUCER_TXS_BY_ADDRESS, s, t)
    BY Zenon DEF TxsOfAddress, SameTagged
  <2> HIDE DEF s, t
  <2> QED BY <1>2, <2>1, TagsAreNumbers, TaggedSame, Zenon
<1> DEFINE g == <<ADDRESS_SHELLEY>>
           h == <<ADDRESS_BYRON>>
<1>4. g \in Key /\ h \in Key /\ Len(g) = 1 /\ Len(h) = 1 /\ Len(g) = Len(h) /\ g # h
  BY SMTT(30) DEF Key, ADDRESS_SHELLEY, ADDRESS_BYRON
<1>5. ASSUME NEW x \in ShelleyAddresses
      PROVE  /\ encode_address_with_type(x) = g \o encode_shelley_address(x)
             /\ encode_shelley_address(x) \in Key
  <2>1. IsShelley(x)
    BY SMTT(30) DEF IsShelley, ShelleyAddresses
  <2> QED BY <2>1, ShelleyBytes, Zenon DEF encode_address_with_type
<1>6. ASSUME NEW x \in ByronAddresses
      PROVE  /\ encode_address_with_type(x) = h \o encode_byron_address(x)
             /\ encode_byron_address(x) \in Key
  <2>1. ~IsShelley(x)
    BY SMTT(30) DEF IsShelley, ByronAddresses
  <2> QED BY <1>1, <2>1, ByronBytes, Zenon DEF encode_address_with_type
<1> HIDE DEF g, h
<1>7. CASE a \in ShelleyAddresses /\ b \in ShelleyAddresses
  <2>1. g \o encode_shelley_address(a) = g \o encode_shelley_address(b)
    BY <1>3, <1>5, <1>7, Zenon
  <2>2. encode_shelley_address(a) = encode_shelley_address(b)
    BY <1>4, <1>5, <1>7, <2>1, ConcatSplits, Zenon
  <2> QED BY <1>3, <1>7, <2>2, ShelleyTold, Zenon
<1>8. CASE a \in ByronAddresses /\ b \in ByronAddresses
  <2>1. h \o encode_byron_address(a) = h \o encode_byron_address(b)
    BY <1>3, <1>6, <1>8, Zenon
  <2>2. encode_byron_address(a) = encode_byron_address(b)
    BY <1>4, <1>6, <1>8, <2>1, ConcatSplits, Zenon
  <2> QED BY <1>1, <1>3, <1>8, <2>2, ByronTold, Zenon
<1>9. ASSUME NEW x \in ShelleyAddresses, NEW y \in ByronAddresses,
             encode_address_with_type(x) = encode_address_with_type(y)
      PROVE  FALSE
  <2>1. g \o encode_shelley_address(x) = h \o encode_byron_address(y)
    BY <1>5, <1>6, <1>9, Zenon
  <2>2. g = h
    BY <1>4, <1>5, <1>6, <2>1, ConcatSplits, Zenon
  <2> QED BY <1>4, <2>2, Zenon
<1> QED BY <1>3, <1>7, <1>8, <1>9, Zenon

\* the keys of a page
Served(ks) == {ks[i] : i \in 1..Len(ks)}

\* The pages of a list in ascending order.  A page ends in an item of the
\* list; what it served and what the range behind its cursor still holds are
\* together what the range held before, and nothing is served twice; a page
\* that is not full was the last.
THEOREM PagesFollow ==
  ASSUME NEW p \in Key, NEW lower, IsBound(lower), NEW upper, IsBound(upper),
         NEW d, DOMAIN d \subseteq Key, IsFiniteSet(DOMAIN d), NEW limit \in Nat \ {0},
         NEW ks, ks = Scan(d, ListRange(p, lower, upper), limit), ks # <<>>
  PROVE  \E c \in Key :
           LET rest == KeysIn(d, ListRange(p, AtCursor(c), upper))
           IN  /\ ks[Len(ks)] = Item(p, c)
               /\ KeysIn(d, ListRange(p, lower, upper)) = Served(ks) \cup rest
               /\ Served(ks) \cap rest = {}
               /\ Len(ks) < limit => rest = {}
<1> DEFINE R == ListRange(p, lower, upper)
<1>1. /\ ks \in Seq(KeysIn(d, R)) /\ Len(ks) <= limit
      /\ \A i, j \in 1..Len(ks) : i < j => KeyLess(ks[i], ks[j])
      /\ \A k \in KeysIn(d, R) : \/ \E i \in 1..Len(ks) : ks[i] = k
                                 \/ Len(ks) = limit /\ KeyLess(ks[Len(ks)], k)
  <2> HIDE DEF R
  <2>1. ks = Scan(d, R, limit)
    BY Zenon DEF R
  <2>2. IsScan(ks, d, R, limit)
    BY <2>1, ScanReturns, Zenon
  <2> QED BY <2>2, Zenon DEF IsScan
<1> DEFINE last == ks[Len(ks)]
<1>2. Len(ks) \in 1..Len(ks) /\ \A i \in 1..Len(ks) : ks[i] \in KeysIn(d, R) /\ (i = Len(ks) \/ i < Len(ks))
  <2> HIDE DEF R
  <2> QED BY <1>1, SMTT(30)
<1>3. \A k \in KeysIn(d, R) : k \in DOMAIN d /\ k \in Key /\ InRange(k, R)
  BY Zenon DEF KeysIn
<1>4. PICK c \in Key : last = Item(p, c)
  <2>1. last \in KeysIn(d, R)
    BY <1>2, Zenon
  <2>2. last \in Key /\ InRange(last, ListRange(p, lower, upper))
    BY <1>3, <2>1, Zenon
  <2> HIDE DEF last
  <2> QED BY <2>2, InRangeIsItem, ZenonT(60)
<1> DEFINE rest == KeysIn(d, ListRange(p, AtCursor(c), upper))
<1>5. \A k \in Key : InRange(k, R) <=> ~KeyLess(k, LowerKey(p, lower)) /\ KeyLess(k, UpperKey(p, upper))
  <2>1. UpperKey(p, upper) # <<>>
    BY BoundsBetweenEnds, Zenon
  <2> QED BY <2>1, Zenon DEF InRange, ListRange
<1>6. LowerKey(p, lower) \in Key /\ UpperKey(p, upper) \in Key /\ last \in Key /\ InRange(last, R)
  BY <1>2, <1>3, BoundsBetweenEnds, Zenon
<1>7. \A k \in Key : k \in rest <=> k \in DOMAIN d /\ KeyLess(last, k) /\ KeyLess(k, UpperKey(p, upper))
  <2>1. \A k \in Key : InRange(k, ListRange(p, AtCursor(c), upper))
                         <=> KeyLess(Item(p, c), k) /\ KeyLess(k, UpperKey(p, upper))
    BY CursorRange, Zenon
  <2> HIDE DEF last
  <2> QED BY <1>4, <2>1, Zenon DEF KeysIn
<1>8. rest \subseteq Key
  BY Zenon DEF KeysIn
<1>9. \A k \in KeysIn(d, R) : k \in Key /\ k \in DOMAIN d /\ KeyLess(k, UpperKey(p, upper))
  BY <1>3, <1>5, Zenon
<1> HIDE DEF rest
<1>10. \A k \in rest : k \in KeysIn(d, R)
  <2> SUFFICES ASSUME NEW k \in rest PROVE k \in KeysIn(d, R)
    BY Zenon
  <2>1. k \in Key /\ k \in DOMAIN d /\ KeyLess(last, k) /\ KeyLess(k, UpperKey(p, upper))
    BY <1>7, <1>8, Zenon
  <2>2. ~KeyLess(k, LowerKey(p, lower))
    BY <1>5, <1>6, <2>1, KeyTransitive, Zenon
  <2> QED BY <1>5, <2>1, <2>2, Zenon DEF KeysIn
<1> HIDE DEF R, last
<1>11. \A i \in 1..Len(ks) : ks[i] \notin rest
  <2> SUFFICES ASSUME NEW i \in 1..Len(ks), ks[i] \in rest PROVE FALSE
    BY Zenon
  <2>1. KeyLess(last, ks[i]) /\ ks[i] \in Key
    BY <1>7, <1>8, Zenon
  <2>2. ks[i] = last \/ KeyLess(ks[i], last)
    BY <1>1, <1>2, Zenon DEF last
  <2> QED BY <1>6, <2>1, <2>2, KeyNotLess, KeyIrreflexive, Zenon
<1>12. KeysIn(d, R) = Served(ks) \cup rest
  <2>1. \A k \in KeysIn(d, R) : k \in Served(ks) \/ k \in rest
    BY <1>1, <1>7, <1>9, Zenon DEF Served, last
  <2>2. Served(ks) \subseteq KeysIn(d, R)
    BY <1>2, Zenon DEF Served
  <2> QED BY <1>10, <2>1, <2>2, Zenon
<1>13. Served(ks) \cap rest = {}
  BY <1>11, Zenon DEF Served
<1>14. ASSUME Len(ks) < limit PROVE rest = {}
  <2>1. Len(ks) # limit
    BY <1>2, <1>14, SMTT(30)
  <2>2. \A k \in rest : k \in Served(ks)
    BY <1>1, <1>10, <2>1, ZenonT(60) DEF Served
  <2> QED BY <1>13, <2>2, Zenon
<1> QED BY <1>4, <1>12, <1>13, <1>14, Zenon DEF last, R, rest

\* The same in descending order, where the cursor is the upper bound.
THEOREM PagesFollowBack ==
  ASSUME NEW p \in Key, NEW lower, IsBound(lower), NEW upper, IsBound(upper),
         NEW d, DOMAIN d \subseteq Key, IsFiniteSet(DOMAIN d), NEW limit \in Nat \ {0},
         NEW ks, ks = ScanReverse(d, ListRange(p, lower, upper), limit), ks # <<>>
  PROVE  \E c \in Key :
           LET rest == KeysIn(d, ListRange(p, lower, AtCursor(c)))
           IN  /\ ks[Len(ks)] = Item(p, c)
               /\ KeysIn(d, ListRange(p, lower, upper)) = Served(ks) \cup rest
               /\ Served(ks) \cap rest = {}
               /\ Len(ks) < limit => rest = {}
<1> DEFINE R == ListRange(p, lower, upper)
<1>1. /\ ks \in Seq(KeysIn(d, R)) /\ Len(ks) <= limit
      /\ \A i, j \in 1..Len(ks) : i < j => KeyLess(ks[j], ks[i])
      /\ \A k \in KeysIn(d, R) : \/ \E i \in 1..Len(ks) : ks[i] = k
                                 \/ Len(ks) = limit /\ KeyLess(k, ks[Len(ks)])
  <2> HIDE DEF R
  <2>1. ks = ScanReverse(d, R, limit)
    BY Zenon DEF R
  <2> QED BY <2>1, ScanReverseReturns, Zenon
<1> DEFINE last == ks[Len(ks)]
<1>2. Len(ks) \in 1..Len(ks) /\ \A i \in 1..Len(ks) : ks[i] \in KeysIn(d, R) /\ (i = Len(ks) \/ i < Len(ks))
  <2> HIDE DEF R
  <2> QED BY <1>1, SMTT(30)
<1>3. \A k \in KeysIn(d, R) : k \in DOMAIN d /\ k \in Key /\ InRange(k, R)
  BY Zenon DEF KeysIn
<1>4. PICK c \in Key : last = Item(p, c)
  <2>1. last \in KeysIn(d, R)
    BY <1>2, Zenon
  <2>2. last \in Key /\ InRange(last, ListRange(p, lower, upper))
    BY <1>3, <2>1, Zenon
  <2> HIDE DEF last
  <2> QED BY <2>2, InRangeIsItem, ZenonT(60)
<1> DEFINE rest == KeysIn(d, ListRange(p, lower, AtCursor(c)))
<1>5. \A k \in Key : InRange(k, R) <=> ~KeyLess(k, LowerKey(p, lower)) /\ KeyLess(k, UpperKey(p, upper))
  <2>1. UpperKey(p, upper) # <<>>
    BY BoundsBetweenEnds, Zenon
  <2> QED BY <2>1, Zenon DEF InRange, ListRange
<1>6. LowerKey(p, lower) \in Key /\ UpperKey(p, upper) \in Key /\ last \in Key /\ InRange(last, R)
  BY <1>2, <1>3, BoundsBetweenEnds, Zenon
<1>7. \A k \in Key : k \in rest <=> k \in DOMAIN d /\ ~KeyLess(k, LowerKey(p, lower)) /\ KeyLess(k, last)
  <2>1. \A k \in Key : InRange(k, ListRange(p, lower, AtCursor(c)))
                         <=> ~KeyLess(k, LowerKey(p, lower)) /\ KeyLess(k, Item(p, c))
    BY CursorRange, Zenon
  <2> HIDE DEF last
  <2> QED BY <1>4, <2>1, Zenon DEF KeysIn
<1>8. rest \subseteq Key
  BY Zenon DEF KeysIn
<1>9. \A k \in KeysIn(d, R) : k \in Key /\ k \in DOMAIN d /\ ~KeyLess(k, LowerKey(p, lower))
  BY <1>3, <1>5, Zenon
<1> HIDE DEF rest
<1>10. \A k \in rest : k \in KeysIn(d, R)
  <2> SUFFICES ASSUME NEW k \in rest PROVE k \in KeysIn(d, R)
    BY Zenon
  <2>1. k \in Key /\ k \in DOMAIN d /\ ~KeyLess(k, LowerKey(p, lower)) /\ KeyLess(k, last)
    BY <1>7, <1>8, Zenon
  <2>2. KeyLess(k, UpperKey(p, upper))
    BY <1>5, <1>6, <2>1, KeyTransitive, Zenon
  <2> QED BY <1>5, <2>1, <2>2, Zenon DEF KeysIn
<1> HIDE DEF R, last
<1>11. \A i \in 1..Len(ks) : ks[i] \notin rest
  <2> SUFFICES ASSUME NEW i \in 1..Len(ks), ks[i] \in rest PROVE FALSE
    BY Zenon
  <2>1. KeyLess(ks[i], last) /\ ks[i] \in Key
    BY <1>7, <1>8, Zenon
  <2>2. ks[i] = last \/ KeyLess(last, ks[i])
    BY <1>1, <1>2, Zenon DEF last
  <2> QED BY <1>6, <2>1, <2>2, KeyNotLess, KeyIrreflexive, Zenon
<1>12. KeysIn(d, R) = Served(ks) \cup rest
  <2>1. \A k \in KeysIn(d, R) : k \in Served(ks) \/ k \in rest
    BY <1>1, <1>7, <1>9, Zenon DEF Served, last
  <2>2. Served(ks) \subseteq KeysIn(d, R)
    BY <1>2, Zenon DEF Served
  <2> QED BY <1>10, <2>1, <2>2, Zenon
<1>13. Served(ks) \cap rest = {}
  BY <1>11, Zenon DEF Served
<1>14. ASSUME Len(ks) < limit PROVE rest = {}
  <2>1. Len(ks) # limit
    BY <1>2, <1>14, SMTT(30)
  <2>2. \A k \in rest : k \in Served(ks)
    BY <1>1, <1>10, <2>1, ZenonT(60) DEF Served
  <2> QED BY <1>13, <2>2, Zenon
<1> QED BY <1>4, <1>12, <1>13, <1>14, Zenon DEF last, R, rest

-----------------------------------------------------------------------------
(* The keys of the namespaces.                                             *)

LEMMA NamespaceType ==
  ASSUME NEW e \in Namespaces
  PROVE  /\ e \in Key /\ Len(e) = 2 /\ e # <<>> /\ Bytes(e, 2) /\ e[1] \in 0..255 /\ e[2] \in 0..255
         /\ e = <<e[1], e[2]>> /\ e[1] # PREFIX_INFO
         /\ <<e[1]>> \in Key /\ <<e[1]>> # <<>> /\ Bytes(<<e[1]>>, 1)
<1>1. e \in (0..255) \X (0..255) /\ e[1] # PREFIX_INFO
  BY DawConstants, ZenonT(60)
<1>2. e \in Key /\ Len(e) = 2 /\ e[1] \in 0..255 /\ e[2] \in 0..255 /\ e = <<e[1], e[2]>>
  <2>0. \A S : \A x \in S \X S : \E a, b \in S : x = <<a, b>>
    BY SMT
  <2>1. PICK a \in 0..255, b \in 0..255 : e = <<a, b>>
    BY <1>1, <2>0, ZenonT(60)
  <2>2. <<a, b>>[1] = a /\ <<a, b>>[2] = b /\ Len(<<a, b>>) = 2 /\ <<a, b>> \in Key
    BY SMTT(30) DEF Key
  <2> QED BY <2>1, <2>2, Zenon
<1>3. Bytes(e, 2) /\ e # <<>>
  BY <1>2, SMTT(30) DEF Bytes, Key
<1>4. \A x \in 0..255 : <<x>> \in Key /\ <<x>> # <<>> /\ Bytes(<<x>>, 1)
  BY SMTT(30) DEF Bytes, Key
<1> QED BY <1>1, <1>2, <1>3, <1>4, Zenon

\* the keys of an instance start with its namespace, and the cursor is first
LEMMA InstanceKeys ==
  ASSUME NEW e \in Namespaces, NEW k \in KeysOf(e)
  PROVE  /\ k \in Key /\ Len(k) > 2 /\ k[1] = e[1] /\ k[2] = e[2]
         /\ CursorKey(e) \in KeysOf(e) /\ CursorKey(e) \notin DataKeys(e)
         /\ k = CursorKey(e) \/ KeyLess(CursorKey(e), k)
<1> DEFINE c == CursorKey(e)
<1>1. c \in Key /\ Len(c) = 3 /\ c[1] = e[1] /\ c[2] = e[2] /\ c[3] = PREFIX_CURSOR /\ PREFIX_CURSOR \in Nat
  <2>1. e[1] \in 0..255 /\ e[2] \in 0..255 /\ e = <<e[1], e[2]>>
    BY NamespaceType, ZenonT(60)
  <2>2. PREFIX_CURSOR \in Nat
    BY Zenon DEF PREFIX_CURSOR
  <2>3. c = <<e[1], e[2]>> \o <<PREFIX_CURSOR>>
    BY <2>1, Zenon DEF CursorKey, encode_cursor_key
  <2> DEFINE a == e[1]
             b == e[2]
  <2>4. a \in 0..255 /\ b \in 0..255 /\ c = <<a, b>> \o <<PREFIX_CURSOR>>
    BY <2>1, <2>3, Zenon
  <2> HIDE DEF a, b, c
  <2>5. c \in Key /\ Len(c) = 3 /\ c[1] = a /\ c[2] = b /\ c[3] = PREFIX_CURSOR
    BY <2>2, <2>4, SMTT(30) DEF Key
  <2> QED BY <2>2, <2>5, Zenon DEF a, b
<1> HIDE DEF c
<1>2. \A x \in DataKeys(e) : IsDataKey(e, x)
  BY DawConstants, Zenon
<1>3. c \in KeysOf(e)
  BY Zenon DEF KeysOf, c
<1>4. ~IsDataKey(e, c)
  BY <1>1, SMTT(30) DEF IsDataKey
<1>5. ASSUME IsDataKey(e, k)
      PROVE  k \in Key /\ Len(k) > 2 /\ k[1] = e[1] /\ k[2] = e[2] /\ KeyLess(c, k)
  <2>1. k \in Key /\ Len(k) > 2 /\ k[1] = e[1] /\ k[2] = e[2] /\ k[3] > PREFIX_CURSOR
    BY <1>5, Zenon DEF IsDataKey, Key
  <2>2. 3 \in 1..Len(k) /\ k[3] \in Nat
    BY <2>1, SMTT(30) DEF Key
  <2>3. c[3] < k[3] /\ \A j \in 1..(3 - 1) : j = 1 \/ j = 2
    BY <1>1, <2>1, <2>2, SMTT(30)
  <2>4. BelowAt(c, k, 3)
    BY <1>1, <2>1, <2>3, SMTT(30) DEF BelowAt
  <2> QED BY <2>1, <2>2, <2>4, KeyLessAt, Zenon
<1>6. k = c \/ k \in DataKeys(e)
  BY Zenon DEF KeysOf, c
<1>7. CASE k = c
  <2>1. Len(c) > 2
    BY <1>1, SMTT(30)
  <2> QED BY <1>1, <1>2, <1>3, <1>4, <1>7, <2>1, Zenon DEF c
<1>8. CASE k \in DataKeys(e)
  BY <1>2, <1>3, <1>4, <1>5, <1>8, Zenon DEF c
<1> QED BY <1>6, <1>7, <1>8, Zenon

LEMMA InfoKeys ==
  ASSUME NEW e \in Namespaces
  PROVE  /\ encode_info_key(e) \in Key /\ Len(encode_info_key(e)) = 4
         /\ encode_info_key(e)[1] = PREFIX_INFO /\ encode_info_key(e)[2] = BREAK
         /\ encode_info_key(e)[3] = e[1] /\ encode_info_key(e)[4] = e[2]
<1>1. e[1] \in 0..255 /\ e[2] \in 0..255 /\ e = <<e[1], e[2]>>
  BY NamespaceType, ZenonT(60)
<1>2. PREFIX_INFO \in Nat /\ BREAK \in Nat
  BY Zenon DEF PREFIX_INFO, BREAK
<1>3. encode_info_key(e) = <<PREFIX_INFO, BREAK>> \o <<e[1], e[2]>>
  BY <1>1, Zenon DEF encode_info_key
<1> DEFINE a == e[1]
           b == e[2]
           k == encode_info_key(e)
<1>4. a \in 0..255 /\ b \in 0..255 /\ k = <<PREFIX_INFO, BREAK>> \o <<a, b>>
  BY <1>1, <1>3, Zenon
<1> HIDE DEF a, b, k
<1>5. k \in Key /\ Len(k) = 4 /\ k[1] = PREFIX_INFO /\ k[2] = BREAK /\ k[3] = a /\ k[4] = b
  BY <1>2, <1>4, SMTT(30) DEF Key
<1> QED BY <1>5, Zenon DEF a, b, k

\* a key belongs to one instance, as data or as its info key
LEMMA OwnerIsUnique ==
  ASSUME NEW e \in Namespaces, NEW x \in Namespaces
  PROVE  /\ \A k \in KeysOf(e) : k \in KeysOf(x) => x = e
         /\ \A k \in KeysOf(e) : k # encode_info_key(x)
         /\ encode_info_key(e) = encode_info_key(x) => x = e
<1>1. e = <<e[1], e[2]>> /\ x = <<x[1], x[2]>> /\ e[1] # PREFIX_INFO
  BY NamespaceType, ZenonT(60)
<1>2. \A k \in KeysOf(e) : k[1] = e[1] /\ k[2] = e[2]
  BY InstanceKeys, Zenon
<1>3. \A k \in KeysOf(x) : k[1] = x[1] /\ k[2] = x[2]
  BY InstanceKeys, Zenon
<1>4. encode_info_key(e)[3] = e[1] /\ encode_info_key(e)[4] = e[2]
  BY InfoKeys, Zenon
<1>5. encode_info_key(x)[3] = x[1] /\ encode_info_key(x)[4] = x[2] /\ encode_info_key(x)[1] = PREFIX_INFO
  BY InfoKeys, Zenon
<1>6. ASSUME e[1] = x[1], e[2] = x[2] PROVE e = x
  BY <1>1, <1>6, Zenon
<1> QED BY <1>1, <1>2, <1>3, <1>4, <1>5, <1>6, Zenon

LEMMA AllKeysAre ==
  ASSUME NEW k
  PROVE  k \in AllKeys <=> \E e \in Namespaces : k \in KeysOf(e) \/ k = encode_info_key(e)
BY Zenon DEF AllKeys

LEMMA AllKeysType == AllKeys \subseteq Key /\ IsFiniteSet(AllKeys)
<1>1. AllKeys \subseteq Key
  BY AllKeysAre, InstanceKeys, InfoKeys, Zenon
<1> DEFINE F(e) == KeysOf(e) \cup {encode_info_key(e)}
           f == [e \in Namespaces |-> F(e)]
           I == {F(e) : e \in Namespaces}
<1>2. IsFiniteSet(Namespaces)
  <2>0. 0 \in Int /\ 255 \in Int
    BY SMTT(30)
  <2>1. IsFiniteSet(0..255)
    BY <2>0, FS_Interval, ZenonT(60)
  <2>2. IsFiniteSet((0..255) \X (0..255))
    BY <2>1, FS_Product, ZenonT(60)
  <2>3. Namespaces \in SUBSET ((0..255) \X (0..255))
    BY DawConstants, Zenon
  <2> QED BY <2>2, <2>3, FS_Subset, ZenonT(60)
<1>3. \A e \in Namespaces : IsFiniteSet(F(e))
  <2> SUFFICES ASSUME NEW e \in Namespaces PROVE IsFiniteSet(F(e))
    BY Zenon
  <2>1. IsFiniteSet(DataKeys(e)) /\ IsFiniteSet({CursorKey(e)}) /\ IsFiniteSet({encode_info_key(e)})
    BY DawConstants, FS_Singleton, ZenonT(60)
  <2>2. IsFiniteSet(KeysOf(e))
    BY <2>1, FS_Union, Zenon DEF KeysOf
  <2> QED BY <2>1, <2>2, FS_Union, Zenon
<1>4. f \in Surjection(Namespaces, I)
  BY Zenon DEF Surjection
<1>5. IsFiniteSet(I)
  BY <1>2, <1>4, FS_Surjection, Zenon
<1>6. \A T \in I : IsFiniteSet(T)
  BY <1>3, Zenon
<1>7. IsFiniteSet(UNION I)
  BY <1>5, <1>6, FS_UNION, Zenon
<1> QED BY <1>1, <1>7, Zenon DEF AllKeys

-----------------------------------------------------------------------------
(* The commands and the ranges they delete.                                *)

Commands == InstanceCommands \cup DataplaneCommands \cup OtherCommands
IsList(c) == c.op \in {"delete list", "write list"}
ByPrefix(c) == c.op \in {"instance", "dataplane"}

LEMMA CommandType ==
  ASSUME NEW c \in Commands
  PROVE  /\ c.op \in {"instance", "dataplane", "range", "delete list", "write list"}
         /\ c.op = "instance" <=> c \in InstanceCommands
         /\ c.op = "dataplane" <=> c \in DataplaneCommands
         /\ ByPrefix(c) => c.e \in Namespaces /\ c.tsOnly \in BOOLEAN
         /\ c.op = "dataplane" => ~c.tsOnly
         /\ c.op = "range" => c.range \in [start : Key, end : Key]
         /\ IsList(c) => c.keys \in SUBSET Key /\ IsFiniteSet(c.keys)
<1>1. CASE c \in InstanceCommands
  BY <1>1, Zenon DEF InstanceCommands, DataplaneCommands, IsList, ByPrefix
<1>2. CASE c \in DataplaneCommands
  BY <1>2, Zenon DEF InstanceCommands, DataplaneCommands, IsList, ByPrefix
<1>3. CASE c \in OtherCommands
  <2>1. \/ c \in [op : {"range"}, range : [start : Key, end : Key]]
        \/ c \in [op : {"delete list", "write list"}, keys : SUBSET Key] /\ IsFiniteSet(c.keys)
    BY <1>3, DawConstants, Zenon DEF Key
  <2>2. CASE c \in [op : {"range"}, range : [start : Key, end : Key]]
    BY <2>2, Zenon DEF InstanceCommands, DataplaneCommands, IsList, ByPrefix
  <2>3. CASE c \in [op : {"delete list", "write list"}, keys : SUBSET Key] /\ IsFiniteSet(c.keys)
    BY <2>3, Zenon DEF InstanceCommands, DataplaneCommands, IsList, ByPrefix
  <2> QED BY <2>1, <2>2, <2>3, Zenon
<1> QED BY <1>1, <1>2, <1>3, Zenon DEF Commands

\* The range of an instance or of a dataplane holds the keys of the
\* namespaces that the command is about, and of no other; the info keys lie
\* outside of it.
LEMMA PrefixCommandRange ==
  ASSUME NEW c \in Commands, ByPrefix(c)
  PROVE  /\ RangeOf(c) \in [start : Key, end : Key]
         /\ \A e \in Namespaces : \A k \in KeysOf(e) : InRange(k, RangeOf(c)) <=> Matches(c, e)
         /\ \A e \in Namespaces : ~InRange(encode_info_key(e), RangeOf(c))
<1>1. c.e \in Namespaces
  BY CommandType, Zenon
<1> DEFINE p == IF c.op = "instance" THEN c.e ELSE <<c.e[1]>>
<1>2. RangeOf(c) = prefix_key_range(p)
  BY Zenon DEF RangeOf, ByPrefix, instance_key_range, dataplane_key_range
<1>3. p \in Key /\ p # <<>> /\ Bytes(p, Len(p)) /\ (Len(p) = 2 \/ Len(p) = 1) /\ Len(p) \in 1..2
  <2>1. \A x : Len(<<x>>) = 1
    BY Zenon
  <2>2. 1 \in 1..2 /\ 2 \in 1..2
    BY SMTT(30)
  <2> QED BY <1>1, <2>1, <2>2, NamespaceType, ZenonT(60)
<1>4. ASSUME NEW k \in Key, Len(k) >= 2
      PROVE  StartsWith(k, p) <=> k[1] = c.e[1] /\ (c.op = "instance" => k[2] = c.e[2])
  <2>1. CASE c.op = "instance"
    <3>1. p = c.e /\ Len(c.e) = 2
      BY <1>1, <2>1, NamespaceType, Zenon
    <3>2. StartsWith(k, c.e) <=> k[1] = c.e[1] /\ k[2] = c.e[2]
      BY <1>4, <3>1, SMTT(30) DEF StartsWith
    <3> QED BY <2>1, <3>1, <3>2, Zenon
  <2>2. CASE c.op # "instance"
    <3>1. p = <<c.e[1]>>
      BY <2>2, Zenon
    <3>2. \A x : StartsWith(k, <<x>>) <=> k[1] = x
      BY <1>4, SMTT(30) DEF StartsWith, Key
    <3> QED BY <2>2, <3>1, <3>2, Zenon
  <2> QED BY <2>1, <2>2, Zenon
<1>5. ASSUME NEW k \in Key, Len(k) >= 2, k[1] \in 0..255, k[2] \in 0..255
      PROVE  InRange(k, RangeOf(c)) <=> k[1] = c.e[1] /\ (c.op = "instance" => k[2] = c.e[2])
  <2>1. Bytes(k, 2) /\ Bytes(k, 1)
    BY <1>5, SMTT(30) DEF Bytes
  <2> HIDE DEF p
  <2>2. Bytes(k, Len(p))
    BY <1>3, <2>1, Zenon
  <2> QED BY <1>2, <1>3, <1>4, <1>5, <2>2, PrefixRange, Zenon
<1>6. RangeOf(c) \in [start : Key, end : Key]
  <2>1. prefix_key_range(p).start \in Key /\ prefix_key_range(p).end \in Key
    <3>1. Bytes(p, Len(p)) /\ p \in Key /\ p # <<>>
      BY <1>3, Zenon
    <3> HIDE DEF p
    <3> QED BY <3>1, PrefixRange, Zenon
  <2> HIDE DEF p
  <2>2. \A x, y : [start |-> x, end |-> y].start = x /\ [start |-> x, end |-> y].end = y
    BY Zenon
  <2>3. \E x, y : RangeOf(c) = [start |-> x, end |-> y]
    BY <1>2, Zenon DEF prefix_key_range
  <2> QED BY <1>2, <2>1, <2>3, SMTT(30)
<1>7. ASSUME NEW e \in Namespaces, NEW k \in KeysOf(e)
      PROVE  InRange(k, RangeOf(c)) <=> Matches(c, e)
  <2>1. k \in Key /\ Len(k) > 2 /\ k[1] = e[1] /\ k[2] = e[2] /\ e[1] \in 0..255 /\ e[2] \in 0..255
    BY InstanceKeys, NamespaceType, ZenonT(60)
  <2>2. Len(k) >= 2
    BY <2>1, SMTT(30) DEF Key
  <2>3. InRange(k, RangeOf(c)) <=> e[1] = c.e[1] /\ (c.op = "instance" => e[2] = c.e[2])
    BY <1>5, <2>1, <2>2, ZenonT(60)
  <2>4. e[1] = c.e[1] /\ e[2] = c.e[2] <=> e = c.e
    <3>1. e = <<e[1], e[2]>> /\ c.e = <<c.e[1], c.e[2]>>
      BY <1>1, NamespaceType, Zenon
    <3> QED BY <3>1, Zenon
  <2> QED BY <2>3, <2>4, Zenon DEF Matches, ByPrefix
<1>8. ASSUME NEW e \in Namespaces
      PROVE  ~InRange(encode_info_key(e), RangeOf(c))
  <2> DEFINE k == encode_info_key(e)
  <2>1. k \in Key /\ Len(k) = 4 /\ k[1] = PREFIX_INFO /\ k[2] = BREAK /\ c.e[1] # PREFIX_INFO
    BY <1>1, InfoKeys, NamespaceType, ZenonT(60)
  <2>2. PREFIX_INFO \in 0..255 /\ BREAK \in 0..255
    BY SMTT(30) DEF PREFIX_INFO, BREAK
  <2> HIDE DEF k
  <2>3. Len(k) >= 2
    BY <2>1, SMTT(30)
  <2>4. InRange(k, RangeOf(c)) <=> k[1] = c.e[1] /\ (c.op = "instance" => k[2] = c.e[2])
    BY <1>5, <2>1, <2>2, <2>3, Zenon
  <2> QED BY <2>1, <2>4, Zenon DEF k
<1> QED BY <1>6, <1>7, <1>8, Zenon

\* what a range holds of the keys of the instances is covered by its command
LEMMA CommandRange ==
  ASSUME NEW c \in Commands, ~IsList(c)
  PROVE  /\ RangeOf(c) \in [start : Key, end : Key]
         /\ \A k \in AllKeys : InRange(k, RangeOf(c)) /\ (c.op = "instance" => ~c.tsOnly) => Covers(c, k)
<1>1. CASE ByPrefix(c)
  <2>1. ASSUME NEW k \in AllKeys, InRange(k, RangeOf(c)), c.op = "instance" => ~c.tsOnly
        PROVE  Covers(c, k)
    <3>1. PICK e \in Namespaces : k \in KeysOf(e) \/ k = encode_info_key(e)
      BY AllKeysAre, Zenon
    <3>2. k \in KeysOf(e) /\ Matches(c, e)
      BY <1>1, <2>1, <3>1, PrefixCommandRange, Zenon
    <3>3. CASE c.op = "instance"
      BY <2>1, <3>2, <3>3, Zenon DEF Covers, Matches
    <3>4. CASE c.op = "dataplane"
      BY <3>2, <3>4, Zenon DEF Covers, Matches
    <3> QED BY <1>1, <3>3, <3>4, Zenon DEF ByPrefix
  <2> QED BY <1>1, <2>1, PrefixCommandRange, Zenon
<1>2. CASE ~ByPrefix(c)
  <2>1. c.op = "range"
    BY <1>2, CommandType, Zenon DEF IsList, ByPrefix
  <2>2. RangeOf(c) = c.range /\ c.range \in [start : Key, end : Key]
    BY <2>1, CommandType, Zenon DEF RangeOf
  <2>3. \A k : Covers(c, k) <=> InRange(k, c.range)
    BY <2>1, Zenon DEF Covers
  <2> QED BY <2>2, <2>3, Zenon
<1> QED BY <1>1, <1>2, Zenon

-----------------------------------------------------------------------------
(* The inductive invariant of daw.                                         *)

Ranges == [start : Key, end : Key]
CmdRecords ==
  [pc : {"redis", "destroy", "scan", "commit", "info", "end", "list"}, c : Commands,
   force : BOOLEAN, destroy : BOOLEAN, size : Nat, blank : BOOLEAN, todo : SUBSET Namespaces,
   range : Ranges \cup {<<>>}, batch : SUBSET Key, conflict : BOOLEAN, retry : BOOLEAN]

\* where a command can be, and what it then has in hand
AtPc(m) ==
  /\ m.pc = "list" <=> IsList(m.c)
  /\ m.pc = "list" => m.batch \subseteq m.c.keys
  /\ m.pc = "info" => m.c.op = "instance"
  /\ m.pc = "end" => m.c.op # "instance"
  /\ m.pc = "destroy" => m.destroy
  /\ m.pc \in {"scan", "commit"} => ~m.destroy
  /\ m.size = 0 => m.blank
  /\ m.pc \notin {"redis", "list"} /\ m.c.op = "instance" => ~m.c.tsOnly
  /\ m.pc \notin {"commit", "list"} => m.batch = {}
  /\ \A e \in m.todo : Matches(m.c, e)

\* what is left of its range, and the keys it took from it
InItsRange(m) ==
  ~IsList(m.c) =>
    /\ m.range \in Ranges /\ m.range.end = RangeOf(m.c).end
    /\ ~KeyLess(m.range.start, RangeOf(m.c).start)
    /\ \A k \in m.batch : InRange(k, RangeOf(m.c))
    /\ m.pc \in {"redis", "destroy"} => m.range = RangeOf(m.c)

\* a forced command is among those given with --force, and a live instance
\* is not in its range
Lawful(m) ==
  /\ m.force => [c |-> m.c, destroy |-> m.destroy] \in forced /\ (~IsList(m.c) => Permitted(m.c))
  /\ m.destroy => m.force \/ UnforcedDestroy

\* what a forced deletion has left behind it: no timestamps, and below the
\* place where it goes on only the keys that the open transaction deletes;
\* at its end no key, unless its scans asked for none
Swept(m) ==
  m.force /\ ByPrefix(m.c) =>
    /\ \A e \in tsKeys : Matches(m.c, e) => e \in m.todo
    /\ m.pc # "redis" => m.todo = {}
    /\ m.pc \in {"scan", "commit"} =>
         \A k \in DOMAIN db \cap AllKeys :
           InRange(k, RangeOf(m.c)) /\ KeyLess(k, m.range.start) => k \in m.batch
    /\ m.pc = "commit" => \A k \in m.batch : KeyLess(k, m.range.start)
    /\ m.pc \in {"info", "end"} /\ (m.blank => m.destroy) =>
         \A k \in DOMAIN db \cap AllKeys : ~InRange(k, RangeOf(m.c))

StateInv ==
  /\ DOMAIN db \subseteq Key /\ IsFiniteSet(DOMAIN db) /\ DOMAIN indexed \subseteq AllKeys
  /\ tsEntries \subseteq tsKeys /\ tsKeys \subseteq Namespaces
  /\ \A d \in done : d.op \in {"instance", "dataplane"} /\ d.e \in Retired
  /\ \A f \in forced : f.c \in Commands /\ f.destroy \in BOOLEAN

CmdInv ==
  cmd # NoCommand =>
    /\ cmd \in CmdRecords /\ AtPc(cmd) /\ InItsRange(cmd)
    /\ Lawful(cmd) /\ Swept(cmd)

DawInv == StateInv /\ CmdInv

LEMMA Started ==
  ASSUME CmdInv, cmd.pc # "none"
  PROVE  /\ cmd \in CmdRecords /\ AtPc(cmd) /\ InItsRange(cmd) /\ Lawful(cmd) /\ Swept(cmd)
         /\ cmd # NoCommand /\ cmd.c \in Commands
<1>1. cmd # NoCommand
  BY SMTT(30) DEF NoCommand
<1>2. cmd \in CmdRecords => cmd.c \in Commands
  BY Zenon DEF CmdRecords
<1> QED BY <1>1, <1>2, Zenon DEF CmdInv

LEMMA DawInit == Init => DawInv
<1> SUFFICES ASSUME Init PROVE DawInv
  BY Zenon
<1>1. DOMAIN db = AllKeys /\ DOMAIN indexed = AllKeys
  BY Zenon DEF Init
<1> QED BY <1>1, AllKeysType, Zenon DEF Init, DawInv, StateInv, CmdInv

\* handle_delete_cmd: nothing is done yet
LEMMA GiveDelete ==
  ASSUME DawInv, NEW c \in Commands, ~IsList(c), NEW o \in Options, NEW size \in ScanSizes,
         Given(c, o), handle_delete_cmd(c, o, size)
  PROVE  DawInv'
<1> DEFINE todo == {e \in tsKeys : Matches(c, e)}
           new == [c |-> c, destroy |-> o.destroy]
<1>1. o.force \in BOOLEAN /\ o.destroy \in BOOLEAN /\ size \in Nat /\ todo \in SUBSET Namespaces
  <2>1. o.force \in BOOLEAN /\ o.destroy \in BOOLEAN
    BY Zenon DEF Options
  <2> QED BY <2>1, DawConstants, ZenonT(60) DEF DawInv, StateInv
<1>2. RangeOf(c) \in Ranges
  BY CommandRange, Zenon DEF Ranges
<1>3. cmd' = Running(c, o, size, "redis", todo, RangeOf(c))
  BY Zenon DEF handle_delete_cmd
<1> HIDE DEF todo
<1>4. /\ cmd'.pc = "redis" /\ cmd'.c = c /\ cmd'.force = o.force /\ cmd'.destroy = o.destroy
      /\ cmd'.todo = todo /\ cmd'.range = RangeOf(c) /\ cmd'.batch = {}
      /\ cmd'.size = size /\ cmd'.blank = (size = 0)
  BY <1>3, Zenon DEF Running
<1>5. cmd' \in CmdRecords
  BY <1>1, <1>2, <1>3, SMTT(30) DEF Running, CmdRecords
<1>6. AtPc(cmd')
  BY <1>4, Zenon DEF AtPc, todo
<1>7. InItsRange(cmd')
  <2>1. RangeOf(c).start \in Key
    BY <1>2, Zenon DEF Ranges
  <2> QED BY <1>2, <1>4, <2>1, KeyIrreflexive, Zenon DEF InItsRange
<1>8. forced' = IF o.force THEN forced \cup {new} ELSE forced
  BY Zenon DEF Given
<1>9. Lawful(cmd)'
  BY <1>1, <1>4, <1>8, Zenon DEF Lawful, handle_delete_cmd
<1>10. UNCHANGED <<db, indexed, tsKeys, tsEntries, done>>
  BY Zenon DEF handle_delete_cmd, Given
<1>11. Swept(cmd)'
  <2>1. \A e \in tsKeys' : Matches(c, e) => e \in todo
    BY <1>10, Zenon DEF todo
  <2> QED BY <1>4, <2>1, Zenon DEF Swept
<1>12. \A f \in forced' : f.c \in Commands /\ f.destroy \in BOOLEAN
  <2>1. new.c = c /\ new.destroy = o.destroy
    BY Zenon
  <2> HIDE DEF new
  <2> QED BY <1>1, <1>8, <2>1, Zenon DEF DawInv, StateInv
<1>13. StateInv'
  BY <1>10, <1>12, Zenon DEF DawInv, StateInv
<1> QED BY <1>5, <1>6, <1>7, <1>9, <1>11, <1>13, Zenon DEF DawInv, CmdInv

LEMMA GiveList ==
  ASSUME DawInv, NEW c \in Commands, IsList(c), NEW o \in Options,
         Given(c, o), handle_list_cmd(c, o)
  PROVE  DawInv'
<1> DEFINE new == [c |-> c, destroy |-> o.destroy]
           batch == IF c.op = "delete list" THEN c.keys \cap DOMAIN db ELSE c.keys
<1>1. o.force \in BOOLEAN /\ o.destroy \in BOOLEAN
  BY Zenon DEF Options
<1>2. batch \in SUBSET Key /\ batch \subseteq c.keys
  BY CommandType, Zenon
<1>3. cmd' = [Running(c, o, 1, "list", {}, <<>>) EXCEPT !.batch = batch]
  BY Zenon DEF handle_list_cmd
<1> HIDE DEF batch
<1>4. /\ cmd'.pc = "list" /\ cmd'.c = c /\ cmd'.force = o.force /\ cmd'.destroy = o.destroy
      /\ cmd'.todo = {} /\ cmd'.batch = batch /\ cmd'.size = 1
  BY <1>3, Zenon DEF Running
<1>5. cmd' \in CmdRecords
  <2> DEFINE nil == <<>>
             R == Ranges \cup {<<>>}
  <2>0. nil \in R
    BY Zenon
  <2>1. cmd' = [pc |-> "list", c |-> c, force |-> o.force, destroy |-> o.destroy, size |-> 1,
                blank |-> 1 = 0, todo |-> {}, range |-> nil, batch |-> batch, conflict |-> FALSE,
                retry |-> FALSE]
    BY <1>3, Zenon DEF Running
  <2>2. CmdRecords =
          [pc : {"redis", "destroy", "scan", "commit", "info", "end", "list"}, c : Commands,
           force : BOOLEAN, destroy : BOOLEAN, size : Nat, blank : BOOLEAN, todo : SUBSET Namespaces,
           range : R, batch : SUBSET Key, conflict : BOOLEAN, retry : BOOLEAN]
    BY Zenon DEF CmdRecords
  <2> HIDE DEF nil, R
  <2>3. 1 \in Nat /\ {} \in SUBSET Namespaces /\ (1 = 0) \in BOOLEAN
    BY SMTT(30)
  <2> QED BY <1>1, <1>2, <2>0, <2>1, <2>2, <2>3, Zenon
<1>6. AtPc(cmd') /\ InItsRange(cmd')
  <2>1. cmd'.size # 0
    BY <1>4, SMTT(30)
  <2> QED BY <1>2, <1>4, <2>1, Zenon DEF AtPc, InItsRange
<1>7. forced' = IF o.force THEN forced \cup {new} ELSE forced
  BY Zenon DEF Given
<1>8. Lawful(cmd)' /\ Swept(cmd)'
  <2>1. ~ByPrefix(c)
    BY Zenon DEF ByPrefix, IsList
  <2>2. ~o.destroy
    BY Zenon DEF handle_list_cmd
  <2>3. Lawful(cmd)'
    BY <1>4, <1>7, <2>2, Zenon DEF Lawful
  <2>4. ~ByPrefix(cmd.c)'
    BY <1>4, <2>1, Zenon
  <2> QED BY <2>3, <2>4, Zenon DEF Swept
<1>9. UNCHANGED <<db, indexed, tsKeys, tsEntries, done>>
  BY Zenon DEF handle_list_cmd, Given
<1>10. \A f \in forced' : f.c \in Commands /\ f.destroy \in BOOLEAN
  <2>1. new.c = c /\ new.destroy = o.destroy
    BY Zenon
  <2> HIDE DEF new
  <2> QED BY <1>1, <1>7, <2>1, Zenon DEF DawInv, StateInv
<1>11. StateInv'
  BY <1>9, <1>10, Zenon DEF DawInv, StateInv
<1> QED BY <1>5, <1>6, <1>8, <1>11, Zenon DEF DawInv, CmdInv

LEMMA GiveKeeps ==
  ASSUME DawInv, Give
  PROVE  DawInv'
<1>1. PICK o \in Options :
        \/ \E c \in InstanceCommands \cup DataplaneCommands, size \in ScanSizes :
             Given(c, o) /\ handle_delete_cmd(c, o, size)
        \/ \E c \in OtherCommands :
             /\ Given(c, o)
             /\ IF c.op = "range" THEN \E size \in ScanSizes : handle_delete_cmd(c, o, size)
                ELSE handle_list_cmd(c, o)
  BY Zenon DEF Give
<1>2. ASSUME NEW c \in InstanceCommands \cup DataplaneCommands, NEW size \in ScanSizes,
             Given(c, o), handle_delete_cmd(c, o, size)
      PROVE  DawInv'
  <2>1. c \in Commands
    BY Zenon DEF Commands
  <2>2. ~IsList(c)
    <3>1. c.op = "instance" \/ c.op = "dataplane"
      BY <2>1, CommandType, Zenon
    <3> QED BY <3>1, Zenon DEF IsList
  <2> QED BY <1>2, <2>1, <2>2, GiveDelete, Zenon
<1>3. ASSUME NEW c \in OtherCommands, Given(c, o),
             IF c.op = "range" THEN \E size \in ScanSizes : handle_delete_cmd(c, o, size)
             ELSE handle_list_cmd(c, o)
      PROVE  DawInv'
  <2>1. c \in Commands
    BY Zenon DEF Commands
  <2>2. c.op = "range" \/ IsList(c)
    <3>1. \/ c \in [op : {"range"}, range : [start : Seq(Nat), end : Seq(Nat)]]
          \/ c \in [op : {"delete list", "write list"}, keys : SUBSET Seq(Nat)]
      BY DawConstants, Zenon
    <3> QED BY <3>1, Zenon DEF IsList
  <2>3. CASE c.op = "range"
    BY <1>3, <2>1, <2>3, GiveDelete, Zenon DEF IsList
  <2>4. CASE c.op # "range"
    BY <1>3, <2>1, <2>2, <2>4, GiveList, Zenon
  <2> QED BY <2>3, <2>4, Zenon
<1> QED BY <1>1, <1>2, <1>3, Zenon

\* what the deletion of keys leaves
LEMMA WithoutFacts ==
  ASSUME NEW f, NEW ks
  PROVE  /\ DOMAIN Without(f, ks) = DOMAIN f \ ks
         /\ \A k \in DOMAIN f \ ks : Without(f, ks)[k] = f[k]
BY Zenon DEF Without

\* a command that has not finished a deletion leaves done alone; one that has
\* is about namespaces of no live instance
LEMMA FinishFacts ==
  ASSUME DawInv, cmd.pc # "none", Finish(cmd.c)
  PROVE  /\ cmd' = NoCommand /\ forced' = forced
         /\ done' # done => cmd.force /\ ByPrefix(cmd.c) /\ ~cmd.c.tsOnly
         /\ \A d \in done' : d \notin done => /\ d.op = cmd.c.op /\ d.e \in Namespaces
                                              /\ Matches(cmd.c, d.e) /\ d.e \in Retired
                                              /\ d.blank = (cmd.blank /\ ~cmd.destroy)
<1> DEFINE ended == cmd.force /\ cmd.c.op \in {"instance", "dataplane"} /\ ~cmd.c.tsOnly
           bl == cmd.blank /\ ~cmd.destroy
           new == {[op |-> cmd.c.op, e |-> e, blank |-> bl] : e \in {x \in Namespaces : Matches(cmd.c, x)}}
<1>1. cmd' = NoCommand /\ forced' = forced /\ done' = IF ended THEN done \cup new ELSE done
  BY Zenon DEF Finish
<1>2. ASSUME ended, NEW d \in new
      PROVE  /\ d.op = cmd.c.op /\ d.e \in Namespaces /\ Matches(cmd.c, d.e) /\ d.e \in Retired
             /\ d.blank = bl
  <2>1. PICK x \in Namespaces : Matches(cmd.c, x) /\ d = [op |-> cmd.c.op, e |-> x, blank |-> bl]
    BY <1>2, Zenon
  <2> HIDE DEF bl
  <2>2. d.op = cmd.c.op /\ d.e = x /\ d.blank = bl
    BY <2>1, Zenon
  <2>3. Permitted(cmd.c)
    BY <1>2, Started, Zenon DEF DawInv, Lawful, IsList
  <2>4. x \notin Live
    BY <2>1, <2>3, Zenon DEF Permitted
  <2> QED BY <2>1, <2>2, <2>4, Zenon DEF Namespaces
<1> HIDE DEF ended, new
<1> QED BY <1>1, <1>2, Zenon DEF ended, ByPrefix

\* a step after which nothing runs
LEMMA IdleKeeps ==
  ASSUME DawInv, cmd' = NoCommand, UNCHANGED <<indexed, tsKeys, tsEntries, forced>>,
         DOMAIN db' \subseteq Key, IsFiniteSet(DOMAIN db'),
         \A d \in done' : d \notin done => d.op \in {"instance", "dataplane"} /\ d.e \in Retired
  PROVE  DawInv'
<1>1. StateInv'
  BY Zenon DEF DawInv, StateInv
<1>2. CmdInv'
  BY Zenon DEF CmdInv
<1> QED BY <1>1, <1>2, Zenon DEF DawInv

LEMMA LawfulKept ==
  ASSUME Lawful(cmd), cmd'.c = cmd.c, cmd'.force = cmd.force, cmd'.destroy = cmd.destroy,
         forced' = forced
  PROVE  Lawful(cmd)'
BY Zenon DEF Lawful

LEMMA DelTimestampsKeeps ==
  ASSUME DawInv, DelTimestamps
  PROVE  DawInv'
<1>1. cmd.pc = "redis" /\ cmd.force /\ UNCHANGED <<db, indexed, forced, done, given>>
  BY Zenon DEF DelTimestamps
<1>2. /\ cmd \in CmdRecords /\ AtPc(cmd) /\ InItsRange(cmd) /\ Lawful(cmd) /\ Swept(cmd)
      /\ cmd # NoCommand
  BY <1>1, Started, Zenon DEF DawInv
<1>3. PICK e \in cmd.todo :
        \/ /\ e \in tsEntries /\ tsEntries' = tsEntries \ {e} /\ UNCHANGED <<tsKeys, cmd>>
        \/ /\ e \notin tsEntries /\ tsKeys' = tsKeys \ {e} /\ cmd' = [cmd EXCEPT !.todo = @ \ {e}]
           /\ UNCHANGED tsEntries
  BY Zenon DEF DelTimestamps
<1>4. CASE tsEntries' = tsEntries \ {e} /\ UNCHANGED <<tsKeys, cmd>>
  <2>1. tsKeys' = tsKeys /\ cmd' = cmd /\ db' = db /\ forced' = forced
    BY <1>1, <1>4, Zenon
  <2>2. StateInv'
    BY <1>1, <1>4, <2>1, Zenon DEF DawInv, StateInv
  <2>3. Lawful(cmd)' /\ Swept(cmd)'
    <3>1. Lawful(cmd)'
      BY <1>2, <2>1, LawfulKept, Zenon
    <3>2. Swept(cmd)'
      BY <1>2, <2>1, Zenon DEF Swept
    <3> QED BY <3>1, <3>2, Zenon
  <2> QED BY <1>2, <2>1, <2>2, <2>3, Zenon DEF DawInv, CmdInv
<1>5. CASE e \notin tsEntries /\ tsKeys' = tsKeys \ {e} /\ cmd' = [cmd EXCEPT !.todo = @ \ {e}]
           /\ UNCHANGED tsEntries
  <2>1. /\ cmd' \in CmdRecords /\ cmd'.pc = "redis" /\ cmd'.c = cmd.c /\ cmd'.force = cmd.force
        /\ cmd'.destroy = cmd.destroy /\ cmd'.todo = cmd.todo \ {e}
        /\ cmd'.blank = cmd.blank /\ cmd'.size = cmd.size
        /\ cmd'.range = cmd.range /\ cmd'.batch = cmd.batch
    BY <1>1, <1>2, <1>5, Zenon DEF CmdRecords
  <2>2. StateInv'
    BY <1>1, <1>5, Zenon DEF DawInv, StateInv
  <2>3. AtPc(cmd')
    BY <1>1, <1>2, <2>1, Zenon DEF AtPc
  <2>4. InItsRange(cmd')
    BY <1>1, <1>2, <2>1, Zenon DEF InItsRange
  <2>5. Lawful(cmd)'
    <3>1. forced' = forced
      BY <1>1, Zenon
    <3> QED BY <1>2, <2>1, <3>1, LawfulKept, Zenon
  <2>6. Swept(cmd)'
    <3>1. ASSUME ByPrefix(cmd'.c) PROVE \A x \in tsKeys' : Matches(cmd'.c, x) => x \in cmd'.todo
      BY <1>1, <1>2, <1>5, <2>1, <3>1, Zenon DEF Swept
    <3> QED BY <2>1, <3>1, Zenon DEF Swept
  <2> QED BY <2>1, <2>2, <2>3, <2>4, <2>5, <2>6, Zenon DEF DawInv, CmdInv
<1> QED BY <1>3, <1>4, <1>5, Zenon

LEMMA LeaveRedisKeeps ==
  ASSUME DawInv, LeaveRedis
  PROVE  DawInv'
<1>1. cmd.pc = "redis" /\ (cmd.force => cmd.todo = {}) /\ UNCHANGED <<db, indexed, tsKeys, tsEntries>>
  BY Zenon DEF LeaveRedis
<1>2. /\ cmd \in CmdRecords /\ AtPc(cmd) /\ InItsRange(cmd) /\ Lawful(cmd) /\ Swept(cmd)
      /\ cmd.c \in Commands
  BY <1>1, Started, Zenon DEF DawInv
<1>3. CASE cmd.c.op = "instance" /\ cmd.c.tsOnly
  <2>1. Finish(cmd.c)
    BY <1>3, Zenon DEF LeaveRedis
  <2>2. /\ cmd' = NoCommand /\ forced' = forced
        /\ done' = done
    BY <1>1, <1>3, <2>1, FinishFacts, Zenon
  <2>3. DOMAIN db' \subseteq Key /\ IsFiniteSet(DOMAIN db')
    BY <1>1, Zenon DEF DawInv, StateInv
  <2>4. UNCHANGED <<indexed, tsKeys, tsEntries, forced>>
    BY <1>1, <2>2, SMTT(30)
  <2> QED BY <2>2, <2>3, <2>4, IdleKeeps, Zenon
<1>4. CASE ~(cmd.c.op = "instance" /\ cmd.c.tsOnly)
  <2>1. /\ cmd' = [cmd EXCEPT !.pc = IF cmd.destroy THEN "destroy" ELSE "scan", !.todo = {}]
        /\ UNCHANGED <<forced, done, given>>
    BY <1>4, Zenon DEF LeaveRedis
  <2>2. /\ cmd' \in CmdRecords /\ cmd'.pc = (IF cmd.destroy THEN "destroy" ELSE "scan")
        /\ cmd'.c = cmd.c /\ cmd'.force = cmd.force /\ cmd'.destroy = cmd.destroy
        /\ cmd'.blank = cmd.blank /\ cmd'.size = cmd.size
        /\ cmd'.todo = {} /\ cmd'.range = cmd.range /\ cmd'.batch = cmd.batch
    BY <1>1, <1>2, <2>1, Zenon DEF CmdRecords
  <2>3. StateInv'
    BY <1>1, <2>1, Zenon DEF DawInv, StateInv
  <2>4. ~IsList(cmd.c) /\ cmd.batch = {} /\ cmd.range = RangeOf(cmd.c)
    BY <1>1, <1>2, Zenon DEF AtPc, InItsRange
  <2>5. AtPc(cmd')
    BY <1>2, <1>4, <2>2, <2>4, Zenon DEF AtPc
  <2>6. InItsRange(cmd')
    BY <1>1, <1>2, <2>2, <2>4, Zenon DEF InItsRange
  <2>7. Lawful(cmd)'
    <3>1. forced' = forced
      BY <2>1, Zenon
    <3> QED BY <1>2, <2>2, <3>1, LawfulKept, Zenon
  <2>8. Swept(cmd)'
    <3>1. SUFFICES ASSUME cmd'.force, ByPrefix(cmd'.c) PROVE
            /\ \A e \in tsKeys' : ~Matches(cmd'.c, e)
            /\ cmd'.pc = "scan" => \A k \in DOMAIN db' \cap AllKeys :
                 ~(InRange(k, RangeOf(cmd'.c)) /\ KeyLess(k, cmd'.range.start))
      BY <2>2, Zenon DEF Swept
    <3>2. \A e \in tsKeys' : ~Matches(cmd'.c, e)
      BY <1>1, <1>2, <2>2, <3>1, Zenon DEF Swept
    <3>3. \A k : InRange(k, RangeOf(cmd'.c)) => ~KeyLess(k, cmd'.range.start)
      BY <2>2, <2>4, Zenon DEF InRange
    <3> QED BY <3>2, <3>3, Zenon
  <2> QED BY <2>2, <2>3, <2>5, <2>6, <2>7, <2>8, Zenon DEF DawInv, CmdInv
<1> QED BY <1>3, <1>4, Zenon

LEMMA DestroyKeeps ==
  ASSUME DawInv, Destroy
  PROVE  DawInv'
<1>1. cmd.pc = "destroy" /\ UNCHANGED <<indexed, tsKeys, tsEntries, forced, done, given>>
  BY Zenon DEF Destroy
<1>2. /\ cmd \in CmdRecords /\ AtPc(cmd) /\ InItsRange(cmd) /\ Lawful(cmd) /\ Swept(cmd)
      /\ cmd # NoCommand /\ cmd.c \in Commands
  BY <1>1, Started, Zenon DEF DawInv
<1>3. forced' = forced /\ tsKeys' = tsKeys
  BY <1>1, Zenon
<1>4. ~IsList(cmd.c) /\ cmd.range = RangeOf(cmd.c) /\ cmd.batch = {}
  BY <1>1, <1>2, Zenon DEF AtPc, InItsRange
<1>5. ASSUME NEW some \in SUBSET KeysIn(db, cmd.range), db' = Without(db, some), cmd' = cmd
      PROVE  DawInv'
  <2>1. DOMAIN db' \subseteq DOMAIN db
    BY <1>5, WithoutFacts, Zenon
  <2>2. DOMAIN db' \subseteq Key /\ IsFiniteSet(DOMAIN db')
    BY <2>1, FS_Subset, Zenon DEF DawInv, StateInv
  <2>3. StateInv'
    BY <1>1, <2>2, Zenon DEF DawInv, StateInv
  <2>4. Lawful(cmd)'
    BY <1>2, <1>3, <1>5, LawfulKept, Zenon
  <2>5. Swept(cmd)'
    <3>1. cmd'.pc = "destroy"
      BY <1>1, <1>5, Zenon
    <3> QED BY <1>2, <1>3, <1>5, <3>1, Zenon DEF Swept
  <2> QED BY <1>2, <1>5, <2>3, <2>4, <2>5, Zenon DEF DawInv, CmdInv
<1>6. ASSUME KeysIn(db, cmd.range) = {}, cmd' = [cmd EXCEPT !.pc = AfterRange], db' = db
      PROVE  DawInv'
  <2>0. AfterRange = (IF cmd.c.op = "instance" THEN "info" ELSE "end")
    BY Zenon DEF AfterRange
  <2>1. /\ cmd' \in CmdRecords /\ cmd'.pc = (IF cmd.c.op = "instance" THEN "info" ELSE "end")
        /\ cmd'.c = cmd.c /\ cmd'.force = cmd.force /\ cmd'.destroy = cmd.destroy
        /\ cmd'.blank = cmd.blank /\ cmd'.size = cmd.size
        /\ cmd'.todo = cmd.todo /\ cmd'.range = cmd.range /\ cmd'.batch = cmd.batch
    BY <1>2, <1>6, <2>0, SMTT(30) DEF CmdRecords
  <2>2. StateInv'
    BY <1>1, <1>6, Zenon DEF DawInv, StateInv
  <2>3. AtPc(cmd')
    BY <1>1, <1>2, <1>4, <2>1, Zenon DEF AtPc
  <2>4. InItsRange(cmd')
    BY <1>1, <1>2, <2>1, Zenon DEF InItsRange
  <2>5. Lawful(cmd)'
    BY <1>2, <1>3, <2>1, LawfulKept, Zenon
  <2>6. Swept(cmd)'
    <3>1. \A k \in DOMAIN db' \cap AllKeys : ~InRange(k, RangeOf(cmd'.c))
      BY <1>4, <1>6, <2>1, Zenon DEF KeysIn
    <3>2. cmd'.pc \notin {"redis", "scan", "commit"}
      BY <2>1, Zenon
    <3>3. ASSUME cmd'.force, ByPrefix(cmd'.c)
          PROVE  (\A e \in tsKeys' : Matches(cmd'.c, e) => e \in cmd'.todo) /\ cmd'.todo = {}
      BY <1>1, <1>2, <1>3, <2>1, <3>3, Zenon DEF Swept
    <3> QED BY <3>1, <3>2, <3>3, Zenon DEF Swept
  <2> QED BY <2>1, <2>2, <2>3, <2>4, <2>5, <2>6, Zenon DEF DawInv, CmdInv
<1>7. \/ (\E some \in SUBSET KeysIn(db, cmd.range) : some # {} /\ db' = Without(db, some)) /\ cmd' = cmd
      \/ KeysIn(db, cmd.range) = {} /\ cmd' = [cmd EXCEPT !.pc = AfterRange] /\ db' = db
  BY Zenon DEF Destroy
<1> QED BY <1>5, <1>6, <1>7, Zenon

\* A halved size is still at least 1: an answer that is too large has more
\* than one key, so more than one was asked for.
LEMMA ScanTooLargeKeeps ==
  ASSUME DawInv, ScanTooLarge
  PROVE  DawInv'
<1>1. /\ cmd.pc = "scan" /\ Len(Scan(db, cmd.range, cmd.size)) > MaxMessage
      /\ cmd' = [cmd EXCEPT !.size = @ \div 2]
      /\ UNCHANGED <<db, indexed, tsKeys, tsEntries, forced, done, given>>
  BY Zenon DEF ScanTooLarge
<1>2. /\ cmd \in CmdRecords /\ AtPc(cmd) /\ InItsRange(cmd) /\ Lawful(cmd) /\ Swept(cmd)
      /\ cmd # NoCommand
  BY <1>1, Started, Zenon DEF DawInv
<1>3. UNCHANGED db /\ UNCHANGED tsKeys /\ UNCHANGED forced
  BY <1>1, Zenon
<1>4. cmd.size \in Nat /\ MaxMessage \in Nat \ {0}
  <2>1. cmd.size \in Nat
    BY <1>2, Zenon DEF CmdRecords
  <2> QED BY <2>1, DawConstants, Zenon
<1>5. cmd.size \div 2 \in Nat \ {0}
  <2> DEFINE ks == Scan(db, cmd.range, cmd.size)
             n == Len(ks)
  <2>1. n \in Nat /\ n <= cmd.size
    <3>1. ks = Scan(db, cmd.range, cmd.size) /\ DOMAIN db \subseteq Key /\ IsFiniteSet(DOMAIN db)
      BY Zenon DEF DawInv, StateInv
    <3> HIDE DEF ks
    <3>2. ks \in Seq(KeysIn(db, cmd.range)) /\ Len(ks) <= cmd.size
      BY <1>4, <3>1, ScanIsShort, Zenon
    <3> QED BY <3>2, SMTT(30)
  <2>2. n > MaxMessage
    BY <1>1, Zenon
  <2> HIDE DEF n
  <2>3. cmd.size >= 2
    BY <1>4, <2>1, <2>2, SMTT(30)
  <2>4. \A m \in Nat : m >= 2 => m \div 2 \in Nat \ {0}
    BY SMTT(30)
  <2> QED BY <1>4, <2>3, <2>4, Zenon
<1>6. /\ cmd' \in CmdRecords /\ cmd'.pc = cmd.pc
      /\ cmd'.c = cmd.c /\ cmd'.force = cmd.force /\ cmd'.destroy = cmd.destroy
      /\ cmd'.blank = cmd.blank /\ cmd'.size # 0
      /\ cmd'.todo = cmd.todo /\ cmd'.range = cmd.range /\ cmd'.batch = cmd.batch
  <2>1. cmd' = [cmd EXCEPT !.size = cmd.size \div 2]
    BY <1>1, Zenon
  <2> DEFINE n == cmd.size \div 2
  <2> HIDE DEF n
  <2>2. cmd' = [cmd EXCEPT !.size = n] /\ n \in Nat \ {0}
    BY <1>5, <2>1, Zenon DEF n
  <2> QED BY <1>2, <2>2, Zenon DEF CmdRecords
<1>7. StateInv'
  BY <1>1, Zenon DEF DawInv, StateInv
<1>8. AtPc(cmd') /\ InItsRange(cmd')
  BY <1>2, <1>6, Zenon DEF AtPc, InItsRange
<1>9. Lawful(cmd)'
  BY <1>2, <1>3, <1>6, LawfulKept, Zenon
<1>10. Swept(cmd)'
  BY <1>2, <1>3, <1>6, Zenon DEF Swept
<1> QED BY <1>6, <1>7, <1>8, <1>9, <1>10, Zenon DEF DawInv, CmdInv

LEMMA ScanFailsKeeps ==
  ASSUME DawInv, ScanFails
  PROVE  DawInv'
<1>1. /\ cmd.pc = "scan" /\ cmd' = [cmd EXCEPT !.retry = ~@]
      /\ UNCHANGED <<db, indexed, tsKeys, tsEntries, forced, done, given>>
  BY Zenon DEF ScanFails
<1>2. /\ cmd \in CmdRecords /\ AtPc(cmd) /\ InItsRange(cmd) /\ Lawful(cmd) /\ Swept(cmd)
      /\ cmd # NoCommand
  BY <1>1, Started, Zenon DEF DawInv
<1>3. UNCHANGED db /\ UNCHANGED tsKeys /\ UNCHANGED forced
  BY <1>1, Zenon
<1>4. /\ cmd' \in CmdRecords /\ cmd'.pc = cmd.pc
      /\ cmd'.c = cmd.c /\ cmd'.force = cmd.force /\ cmd'.destroy = cmd.destroy
      /\ cmd'.blank = cmd.blank /\ cmd'.size = cmd.size
      /\ cmd'.todo = cmd.todo /\ cmd'.range = cmd.range /\ cmd'.batch = cmd.batch
  BY <1>1, <1>2, Zenon DEF CmdRecords
<1>5. StateInv'
  BY <1>1, Zenon DEF DawInv, StateInv
<1>6. AtPc(cmd') /\ InItsRange(cmd')
  BY <1>2, <1>4, Zenon DEF AtPc, InItsRange
<1>7. Lawful(cmd)'
  BY <1>2, <1>3, <1>4, LawfulKept, Zenon
<1>8. Swept(cmd)'
  BY <1>2, <1>3, <1>4, Zenon DEF Swept
<1> QED BY <1>4, <1>5, <1>6, <1>7, <1>8, Zenon DEF DawInv, CmdInv

\* A transaction reads the next keys of the range, or finds that none are left.
LEMMA ScanKeysKeeps ==
  ASSUME DawInv, ScanKeys
  PROVE  DawInv'
<1>0. PICK ks \in {Scan(db, cmd.range, cmd.size)} :
        cmd' = IF ks = <<>> THEN [cmd EXCEPT !.pc = AfterRange]
               ELSE [cmd EXCEPT !.pc = "commit", !.batch = {ks[i] : i \in DOMAIN ks}, !.conflict = FALSE,
                                !.range.start = NextKey(ks[Len(ks)])]
  BY Zenon DEF ScanKeys
<1>1. cmd.pc = "scan" /\ UNCHANGED <<db, indexed, tsKeys, tsEntries, forced, done, given>>
  BY Zenon DEF ScanKeys
<1> DEFINE last == ks[Len(ks)]
           batch == {ks[i] : i \in DOMAIN ks}
<1>2. /\ cmd \in CmdRecords /\ AtPc(cmd) /\ InItsRange(cmd) /\ Lawful(cmd) /\ Swept(cmd)
      /\ cmd # NoCommand /\ cmd.c \in Commands
  BY <1>1, Started, Zenon DEF DawInv
<1>3. UNCHANGED db /\ UNCHANGED tsKeys /\ UNCHANGED forced
  BY <1>1, Zenon
<1>4. cmd.size \in Nat /\ DOMAIN db \subseteq Key /\ IsFiniteSet(DOMAIN db)
  <2>1. cmd.size \in Nat
    BY <1>2, Zenon DEF CmdRecords
  <2> QED BY <2>1, Zenon DEF DawInv, StateInv
<1>5. /\ ks \in Seq(KeysIn(db, cmd.range))
      /\ ~cmd.blank => (ks = <<>> <=> KeysIn(db, cmd.range) = {})
      /\ \A i, j \in 1..Len(ks) : i < j => KeyLess(ks[i], ks[j])
      /\ ks # <<>> => \A k \in KeysIn(db, cmd.range) :
                        (\E i \in 1..Len(ks) : ks[i] = k) \/ KeyLess(last, k)
  <2>1. ks = Scan(db, cmd.range, cmd.size)
    BY Zenon
  <2>2. CASE cmd.size = 0
    <3>1. ks \in Seq(KeysIn(db, cmd.range)) /\ ks = <<>>
      <4>1. ks \in Seq(KeysIn(db, cmd.range)) /\ Len(ks) <= 0
        BY <1>4, <2>1, <2>2, ScanIsShort, Zenon
      <4> QED BY <4>1, SMTT(30)
    <3>2. 1..Len(ks) = {}
      BY <3>1, SMTT(30)
    <3>3. cmd.blank
      BY <1>2, <2>2, Zenon DEF AtPc
    <3> QED BY <3>1, <3>2, <3>3, Zenon
  <2>3. CASE cmd.size # 0
    <3>1. cmd.size \in Nat \ {0}
      BY <1>4, <2>3, Zenon
    <3>2. IsScan(ks, db, cmd.range, cmd.size)
      BY <1>4, <2>1, <3>1, ScanReturns, Zenon
    <3> QED BY <3>2, Zenon DEF IsScan
  <2> QED BY <2>2, <2>3, Zenon
<1>6. ~IsList(cmd.c) /\ cmd.batch = {} /\ ~cmd.destroy
  BY <1>1, <1>2, Zenon DEF AtPc
<1> DEFINE R == RangeOf(cmd.c)
<1>7. /\ cmd.range \in Ranges /\ cmd.range.end = R.end /\ ~KeyLess(cmd.range.start, R.start)
      /\ R \in Ranges
  BY <1>2, <1>6, CommandRange, Zenon DEF InItsRange, Ranges
<1>8. cmd.range.start \in Key /\ R.start \in Key
  BY <1>7, Zenon DEF Ranges
<1> HIDE DEF R
<1>9. \A k \in KeysIn(db, cmd.range) :
        k \in Key /\ k \in DOMAIN db /\ InRange(k, R) /\ ~KeyLess(k, cmd.range.start)
  <2> SUFFICES ASSUME NEW k \in KeysIn(db, cmd.range)
               PROVE  k \in Key /\ k \in DOMAIN db /\ InRange(k, R) /\ ~KeyLess(k, cmd.range.start)
    BY Zenon
  <2>1. k \in DOMAIN db /\ k \in Key /\ InRange(k, cmd.range)
    BY <1>4, Zenon DEF KeysIn
  <2>2. ~KeyLess(k, cmd.range.start) /\ (R.end = <<>> \/ KeyLess(k, R.end))
    BY <1>7, <2>1, Zenon DEF InRange
  <2>3. ~KeyLess(k, R.start)
    BY <1>7, <1>8, <2>1, <2>2, KeyNotLess, KeyTransitive, Zenon
  <2> QED BY <2>1, <2>2, <2>3, Zenon DEF InRange
<1>10. \A k \in DOMAIN db : InRange(k, R) /\ ~KeyLess(k, cmd.range.start) => k \in KeysIn(db, cmd.range)
  BY <1>7, Zenon DEF InRange, KeysIn
<1>11. ASSUME cmd.force, ByPrefix(cmd.c), NEW k \in DOMAIN db \cap AllKeys, InRange(k, R)
       PROVE  k \in KeysIn(db, cmd.range)
  <2>1. ~KeyLess(k, cmd.range.start)
    BY <1>1, <1>2, <1>6, <1>11, Zenon DEF Swept, R
  <2> QED BY <1>10, <1>11, <2>1, Zenon
<1>12. ASSUME cmd.force, ByPrefix(cmd.c)
       PROVE  (\A e \in tsKeys' : Matches(cmd.c, e) => e \in cmd.todo) /\ cmd.todo = {}
  BY <1>1, <1>2, <1>3, <1>12, Zenon DEF Swept
<1>13. StateInv'
  BY <1>1, Zenon DEF DawInv, StateInv
<1>14. CASE ks = <<>>
  <2>0. cmd' = [cmd EXCEPT !.pc = IF cmd.c.op = "instance" THEN "info" ELSE "end"]
    BY <1>0, <1>14, Zenon DEF AfterRange
  <2>1. /\ cmd' \in CmdRecords /\ cmd'.pc = (IF cmd.c.op = "instance" THEN "info" ELSE "end")
        /\ cmd'.c = cmd.c /\ cmd'.force = cmd.force /\ cmd'.destroy = cmd.destroy
        /\ cmd'.blank = cmd.blank /\ cmd'.size = cmd.size
        /\ cmd'.todo = cmd.todo /\ cmd'.range = cmd.range /\ cmd'.batch = cmd.batch
    BY <1>2, <2>0, SMTT(30) DEF CmdRecords
  <2>2. AtPc(cmd')
    BY <1>1, <1>2, <1>6, <2>1, Zenon DEF AtPc
  <2>3. InItsRange(cmd')
    BY <1>1, <1>2, <2>1, Zenon DEF InItsRange
  <2>4. Lawful(cmd)'
    BY <1>2, <1>3, <2>1, LawfulKept, Zenon
  <2>5. Swept(cmd)'
    <3>1. cmd'.pc \notin {"redis", "scan", "commit"}
      BY <2>1, Zenon
    <3>2. ASSUME cmd'.force, ByPrefix(cmd'.c), cmd'.blank => cmd'.destroy
          PROVE  \A k \in DOMAIN db' \cap AllKeys : ~InRange(k, RangeOf(cmd'.c))
      BY <1>3, <1>5, <1>6, <1>11, <1>14, <2>1, <3>2, Zenon DEF R
    <3> QED BY <1>12, <2>1, <3>1, <3>2, Zenon DEF Swept
  <2> QED BY <1>13, <2>1, <2>2, <2>3, <2>4, <2>5, Zenon DEF DawInv, CmdInv
<1>15. CASE ks # <<>>
  <2>1. /\ Len(ks) \in 1..Len(ks) /\ DOMAIN ks = 1..Len(ks)
        /\ \A i \in 1..Len(ks) : ks[i] \in KeysIn(db, cmd.range) /\ (i = Len(ks) \/ i < Len(ks))
    BY <1>5, <1>15, SMTT(30)
  <2>2. last \in Key /\ ~KeyLess(last, cmd.range.start) /\ NextKey(last) \in Key
    BY <1>9, <2>1, NextKeyIsNext, Zenon
  <2>3. /\ batch \in SUBSET Key
        /\ \A k \in batch : k \in Key /\ InRange(k, R) /\ (k = last \/ KeyLess(k, last))
    BY <1>5, <1>9, <2>1, ZenonT(60)
  <2>4. \A k \in KeysIn(db, cmd.range) : k \in batch \/ KeyLess(last, k)
    BY <1>5, <1>15, <2>1, Zenon
  <2>5. cmd' = [cmd EXCEPT !.pc = "commit", !.batch = batch, !.conflict = FALSE,
                           !.range.start = NextKey(last)]
    BY <1>0, <1>15, Zenon
  <2> HIDE DEF last, batch
  <2> DEFINE start == NextKey(last)
  <2>6. /\ cmd' \in CmdRecords /\ cmd'.pc = "commit"
        /\ cmd'.c = cmd.c /\ cmd'.force = cmd.force /\ cmd'.destroy = cmd.destroy
        /\ cmd'.blank = cmd.blank /\ cmd'.size = cmd.size
        /\ cmd'.todo = cmd.todo /\ cmd'.batch = batch
        /\ cmd'.range \in Ranges /\ cmd'.range.start = start /\ cmd'.range.end = cmd.range.end
    <3>1. start \in Key /\ cmd.range \in [start : Key, end : Key]
      BY <1>7, <2>2, Zenon DEF Ranges
    <3> HIDE DEF start
    <3>2. cmd' = [cmd EXCEPT !.pc = "commit", !.batch = batch, !.conflict = FALSE,
                             !.range = [cmd.range EXCEPT !.start = start]]
      BY <1>2, <2>5, SMTT(30) DEF start, CmdRecords
    <3> DEFINE r == [cmd.range EXCEPT !.start = start]
    <3>3. r \in Ranges /\ r.start = start /\ r.end = cmd.range.end
      BY <3>1, Zenon DEF Ranges
    <3> HIDE DEF r
    <3>4. cmd' = [cmd EXCEPT !.pc = "commit", !.batch = batch, !.conflict = FALSE, !.range = r]
      BY <3>2, Zenon DEF r
    <3> QED BY <1>2, <2>3, <3>3, <3>4, Zenon DEF CmdRecords
  <2>7. \A k \in Key : KeyLess(k, start) <=> k = last \/ KeyLess(k, last)
    BY <2>2, NextKeyIsNext, Zenon
  <2>8. start \in Key
    BY <2>2, Zenon
  <2> HIDE DEF start
  <2>9. ~KeyLess(start, R.start)
    <3>1. ~KeyLess(last, R.start) /\ KeyLess(last, start)
      <4>1. last \in KeysIn(db, cmd.range)
        BY <2>1, Zenon DEF last
      <4> QED BY <1>9, <2>2, <2>7, <4>1, Zenon DEF InRange
    <3> QED BY <1>8, <2>2, <2>8, <3>1, KeyTransitive, Zenon
  <2>10. AtPc(cmd')
    BY <1>1, <1>2, <1>6, <2>6, Zenon DEF AtPc
  <2>11. InItsRange(cmd')
    BY <1>7, <2>3, <2>6, <2>9, Zenon DEF InItsRange, R
  <2>12. Lawful(cmd)'
    BY <1>2, <1>3, <2>6, LawfulKept, Zenon
  <2>13. Swept(cmd)'
    <3>1. \A k \in batch : KeyLess(k, start)
      BY <2>3, <2>7, Zenon
    <3>2. ASSUME cmd.force, ByPrefix(cmd.c), NEW k \in DOMAIN db \cap AllKeys,
                 InRange(k, R), KeyLess(k, start)
          PROVE  k \in batch
      <4>1. k \in KeysIn(db, cmd.range) /\ k \in Key
        BY <1>4, <1>11, <3>2, Zenon
      <4>2. ~KeyLess(last, k)
        BY <2>2, <2>7, <3>2, <4>1, KeyNotLess, KeyIrreflexive, ZenonT(60)
      <4> QED BY <2>4, <4>1, <4>2, Zenon
    <3>3. ASSUME cmd'.force, ByPrefix(cmd'.c)
          PROVE  \A k \in DOMAIN db' \cap AllKeys :
                   InRange(k, RangeOf(cmd'.c)) /\ KeyLess(k, cmd'.range.start) => k \in cmd'.batch
      BY <1>3, <2>6, <3>2, <3>3, Zenon DEF R
    <3>4. cmd'.pc \notin {"redis", "info", "end"}
      BY <2>6, Zenon
    <3> QED BY <1>12, <2>6, <3>1, <3>3, <3>4, Zenon DEF Swept
  <2> QED BY <1>13, <2>6, <2>10, <2>11, <2>12, <2>13, Zenon DEF DawInv, CmdInv
<1> QED BY <1>14, <1>15, Zenon

\* The transaction deletes what it read: below the place where the scan goes
\* on nothing is left.
LEMMA CommitKeeps ==
  ASSUME DawInv, Commit
  PROVE  DawInv'
<1>1. /\ cmd.pc = "commit" /\ cmd' = [cmd EXCEPT !.pc = "scan", !.batch = {}]
      /\ UNCHANGED <<indexed, tsKeys, tsEntries, forced, done, given>>
  BY Zenon DEF Commit
<1>2. /\ cmd \in CmdRecords /\ AtPc(cmd) /\ InItsRange(cmd) /\ Lawful(cmd) /\ Swept(cmd)
      /\ cmd # NoCommand
  BY <1>1, Started, Zenon DEF DawInv
<1>3. UNCHANGED tsKeys /\ UNCHANGED forced /\ cmd.pc = "commit"
  BY <1>1, Zenon
<1>4. /\ DOMAIN db' \subseteq DOMAIN db /\ (cmd.force => DOMAIN db' = DOMAIN db \ cmd.batch)
  <2>1. db' = IF cmd.force THEN Without(db, cmd.batch) ELSE db
    BY Zenon DEF Commit
  <2>2. DOMAIN Without(db, cmd.batch) = DOMAIN db \ cmd.batch
    BY WithoutFacts, Zenon
  <2>3. CASE cmd.force
    BY <2>1, <2>2, <2>3, Zenon
  <2>4. CASE ~cmd.force
    BY <2>1, <2>4, Zenon
  <2> QED BY <2>3, <2>4, Zenon
<1>5. /\ cmd' \in CmdRecords /\ cmd'.pc = "scan"
      /\ cmd'.c = cmd.c /\ cmd'.force = cmd.force /\ cmd'.destroy = cmd.destroy
      /\ cmd'.blank = cmd.blank /\ cmd'.size = cmd.size
      /\ cmd'.todo = cmd.todo /\ cmd'.range = cmd.range /\ cmd'.batch = {}
  BY <1>1, <1>2, Zenon DEF CmdRecords
<1>6. StateInv'
  <2>1. DOMAIN db' \subseteq Key /\ IsFiniteSet(DOMAIN db')
    BY <1>4, FS_Subset, Zenon DEF DawInv, StateInv
  <2> QED BY <1>1, <2>1, Zenon DEF DawInv, StateInv
<1>7. AtPc(cmd')
  BY <1>2, <1>3, <1>5, Zenon DEF AtPc
<1>8. InItsRange(cmd')
  BY <1>2, <1>5, Zenon DEF InItsRange
<1>9. Lawful(cmd)'
  BY <1>2, <1>3, <1>5, LawfulKept, Zenon
<1>10. Swept(cmd)'
  <2>1. ASSUME cmd'.force, ByPrefix(cmd'.c)
        PROVE  /\ \A e \in tsKeys' : Matches(cmd'.c, e) => e \in cmd'.todo
               /\ cmd'.todo = {}
               /\ \A k \in DOMAIN db' \cap AllKeys :
                    ~(InRange(k, RangeOf(cmd'.c)) /\ KeyLess(k, cmd'.range.start))
    <3>1. cmd.force /\ ByPrefix(cmd.c)
      BY <1>5, <2>1, Zenon
    <3>2. \A k \in DOMAIN db \cap AllKeys :
            InRange(k, RangeOf(cmd.c)) /\ KeyLess(k, cmd.range.start) => k \in cmd.batch
      BY <1>2, <1>3, <3>1, Zenon DEF Swept
    <3>3. (\A e \in tsKeys : Matches(cmd.c, e) => e \in cmd.todo) /\ cmd.todo = {}
      BY <1>2, <1>3, <3>1, Zenon DEF Swept
    <3> QED BY <1>3, <1>4, <1>5, <3>1, <3>2, <3>3, Zenon
  <2>2. cmd'.pc \notin {"redis", "commit", "info", "end"}
    BY <1>5, Zenon
  <2> QED BY <2>1, <2>2, Zenon DEF Swept
<1> QED BY <1>5, <1>6, <1>7, <1>8, <1>9, <1>10, Zenon DEF DawInv, CmdInv

LEMMA CommitListKeeps ==
  ASSUME DawInv, CommitList
  PROVE  DawInv'
<1>1. cmd.pc = "list" /\ Finish(cmd.c) /\ UNCHANGED <<indexed, tsKeys, tsEntries>>
  BY Zenon DEF CommitList
<1>2. cmd \in CmdRecords /\ AtPc(cmd) /\ cmd.c \in Commands
  BY <1>1, Started, Zenon DEF DawInv
<1>3. IsList(cmd.c) /\ ~ByPrefix(cmd.c) /\ cmd.batch \subseteq cmd.c.keys
  BY <1>1, <1>2, Zenon DEF AtPc, IsList, ByPrefix
<1>4. cmd.batch \in SUBSET Key /\ IsFiniteSet(cmd.batch)
  BY <1>2, <1>3, CommandType, FS_Subset, Zenon
<1>5. cmd' = NoCommand /\ forced' = forced /\ done' = done
  BY <1>1, <1>3, FinishFacts, Zenon
<1>6. DOMAIN db' \subseteq DOMAIN db \cup cmd.batch
  <2>1. CASE ~cmd.force
    <3>1. db' = db
      BY <2>1, Zenon DEF CommitList
    <3> QED BY <3>1, Zenon
  <2>2. CASE cmd.force /\ cmd.c.op = "delete list"
    <3>1. db' = Without(db, cmd.batch)
      BY <2>2, Zenon DEF CommitList
    <3> QED BY <3>1, WithoutFacts, ZenonT(60)
  <2>3. CASE cmd.force /\ cmd.c.op = "write list"
    <3>1. db' = [k \in DOMAIN db \cup cmd.batch |-> IF k \in cmd.batch THEN 2 ELSE db[k]]
      BY <2>3, Zenon DEF CommitList
    <3> QED BY <3>1, Zenon
  <2> QED BY <1>3, <2>1, <2>2, <2>3, Zenon DEF IsList
<1>7. DOMAIN db' \subseteq Key /\ IsFiniteSet(DOMAIN db')
  <2>1. IsFiniteSet(DOMAIN db \cup cmd.batch)
    BY <1>4, FS_Union, Zenon DEF DawInv, StateInv
  <2> QED BY <1>4, <1>6, <2>1, FS_Subset, Zenon DEF DawInv, StateInv
<1>8. UNCHANGED <<indexed, tsKeys, tsEntries, forced>>
  BY <1>1, <1>5, SMTT(30)
<1> QED BY <1>5, <1>7, <1>8, IdleKeeps, Zenon

\* an instance ends with its info key, a dataplane or a range without
LEMMA EndKeeps ==
  ASSUME DawInv, DeleteInfo \/ End
  PROVE  DawInv'
<1>1. /\ cmd.pc \in {"info", "end"} /\ Finish(cmd.c) /\ UNCHANGED <<indexed, tsKeys, tsEntries>>
  BY Zenon DEF DeleteInfo, End
<1>2. DOMAIN db' \subseteq DOMAIN db
  <2>1. db' = db \/ \E ks : db' = Without(db, ks)
    BY Zenon DEF DeleteInfo, End
  <2>2. \A ks : DOMAIN Without(db, ks) = DOMAIN db \ ks
    BY WithoutFacts, Zenon
  <2>3. CASE db' = db
    BY <2>3, Zenon
  <2>4. CASE \E ks : db' = Without(db, ks)
    BY <2>2, <2>4, Zenon
  <2> QED BY <2>1, <2>3, <2>4, Zenon
<1>3. DOMAIN db' \subseteq Key /\ IsFiniteSet(DOMAIN db')
  BY <1>2, FS_Subset, Zenon DEF DawInv, StateInv
<1>4. cmd.pc # "none"
  BY <1>1, Zenon
<1>5. /\ cmd' = NoCommand /\ forced' = forced
      /\ \A d \in done' : d \notin done => d.op \in {"instance", "dataplane"} /\ d.e \in Retired
  BY <1>1, <1>4, FinishFacts, Zenon DEF ByPrefix
<1>6. UNCHANGED <<indexed, tsKeys, tsEntries, forced>>
  BY <1>1, <1>5, SMTT(30)
<1> QED BY <1>3, <1>5, <1>6, IdleKeeps, Zenon

LEMMA AbortKeeps ==
  ASSUME DawInv, Conflict \/ Abort
  PROVE  DawInv'
<1>1. cmd' = NoCommand /\ UNCHANGED <<db, indexed, tsKeys, tsEntries, forced, done, given>>
  BY Zenon DEF Conflict, Abort
<1>2. UNCHANGED <<indexed, tsKeys, tsEntries, forced>> /\ db' = db /\ done' = done
  BY <1>1, Zenon
<1>3. DOMAIN db' \subseteq Key /\ IsFiniteSet(DOMAIN db')
  BY <1>2, Zenon DEF DawInv, StateInv
<1> QED BY <1>1, <1>2, <1>3, IdleKeeps, Zenon

\* what a live instance does to a key, here and in the absence of daw
Writes(k) ==
  /\ \A x : x # k => (x \in DOMAIN db' <=> x \in DOMAIN db) /\ (x \in DOMAIN db => db'[x] = db[x])
  /\ \A x : x # k => /\ x \in DOMAIN indexed' <=> x \in DOMAIN indexed
                     /\ x \in DOMAIN indexed => indexed'[x] = indexed[x]
  /\ DOMAIN db' \subseteq DOMAIN db \cup {k} /\ Same(k)'
  /\ cmd' = cmd \/ cmd' = [cmd EXCEPT !.conflict = TRUE]
  /\ UNCHANGED <<tsKeys, tsEntries, forced, done, given>>

LEMMA IndexFacts ==
  ASSUME Index
  PROVE  \E e \in Live : \E k \in DataKeys(e) : Writes(k)
<1> DEFINE Change(k, f) == IF k \in DOMAIN indexed THEN Without(f, {k}) ELSE With(f, k, 0)
<1>0. PICK e \in Live : \E k \in DataKeys(e) :
        /\ indexed' = Change(k, indexed) /\ db' = Change(k, db)
        /\ cmd' = cmd \/ cmd' = [cmd EXCEPT !.conflict = TRUE]
        /\ UNCHANGED <<tsKeys, tsEntries, forced, done, given>>
  BY Zenon DEF Index
<1>1. PICK k \in DataKeys(e) :
        /\ indexed' = Change(k, indexed) /\ db' = Change(k, db)
        /\ cmd' = cmd \/ cmd' = [cmd EXCEPT !.conflict = TRUE]
        /\ UNCHANGED <<tsKeys, tsEntries, forced, done, given>>
  BY <1>0, Zenon
<1>2. ASSUME NEW f, NEW g, g = Change(k, f)
      PROVE  /\ \A x : x # k => (x \in DOMAIN g <=> x \in DOMAIN f) /\ (x \in DOMAIN f => g[x] = f[x])
             /\ DOMAIN g \subseteq DOMAIN f \cup {k}
             /\ k \in DOMAIN g <=> k \notin DOMAIN indexed
             /\ k \in DOMAIN g => g[k] = 0
  <2>1. CASE k \in DOMAIN indexed
    <3>1. g = Without(f, {k})
      BY <1>2, <2>1, Zenon
    <3>2. DOMAIN g = DOMAIN f \ {k} /\ \A x \in DOMAIN f \ {k} : g[x] = f[x]
      BY <3>1, WithoutFacts, Zenon
    <3> QED BY <2>1, <3>2, Zenon
  <2>2. CASE k \notin DOMAIN indexed
    <3>1. g = With(f, k, 0)
      BY <1>2, <2>2, Zenon
    <3>2. /\ DOMAIN g = DOMAIN f \cup {k} /\ g[k] = 0
          /\ \A x \in DOMAIN f : x # k => g[x] = f[x]
      BY <3>1, Zenon DEF With
    <3> QED BY <2>2, <3>2, Zenon
  <2> QED BY <2>1, <2>2, Zenon
<1> HIDE DEF Change
<1>3. /\ \A x : x # k => (x \in DOMAIN db' <=> x \in DOMAIN db) /\ (x \in DOMAIN db => db'[x] = db[x])
      /\ DOMAIN db' \subseteq DOMAIN db \cup {k}
      /\ k \in DOMAIN db' <=> k \notin DOMAIN indexed
      /\ k \in DOMAIN db' => db'[k] = 0
  BY <1>1, <1>2, Zenon
<1>4. /\ \A x : x # k => /\ x \in DOMAIN indexed' <=> x \in DOMAIN indexed
                         /\ x \in DOMAIN indexed => indexed'[x] = indexed[x]
      /\ k \in DOMAIN indexed' <=> k \notin DOMAIN indexed
      /\ k \in DOMAIN indexed' => indexed'[k] = 0
  BY <1>1, <1>2, ZenonT(60)
<1>5. Same(k)'
  BY <1>3, <1>4, Zenon DEF Same
<1>6. Writes(k)
  BY <1>1, <1>3, <1>4, <1>5, Zenon DEF Writes
<1> QED BY <1>6, Zenon

\* A live instance writes only outside of the range of a forced deletion.
LEMMA IndexKeeps ==
  ASSUME DawInv, Index
  PROVE  DawInv'
<1>0. PICK e \in Live : \E k \in DataKeys(e) : Writes(k)
  BY IndexFacts, Zenon
<1>1. PICK k \in DataKeys(e) : Writes(k)
  BY <1>0, Zenon
<1>2. e \in Namespaces /\ k \in KeysOf(e) /\ k \in Key /\ k \in AllKeys
  <2>1. e \in Namespaces /\ k \in KeysOf(e)
    BY Zenon DEF Namespaces, KeysOf
  <2> QED BY <2>1, InstanceKeys, AllKeysAre, Zenon
<1>3. tsKeys' = tsKeys /\ tsEntries' = tsEntries /\ forced' = forced /\ done' = done
  BY <1>1, Zenon DEF Writes
<1>4. StateInv'
  <2>1. DOMAIN db' \subseteq Key /\ IsFiniteSet(DOMAIN db')
    <3>1. IsFiniteSet(DOMAIN db \cup {k})
      BY FS_AddElement, Zenon DEF DawInv, StateInv
    <3>2. DOMAIN db' \in SUBSET (DOMAIN db \cup {k})
      BY <1>1, Zenon DEF Writes
    <3> QED BY <1>2, <3>1, <3>2, FS_Subset, Zenon DEF DawInv, StateInv
  <2>2. DOMAIN indexed' \subseteq AllKeys
    BY <1>1, <1>2, Zenon DEF DawInv, StateInv, Writes
  <2> QED BY <1>3, <2>1, <2>2, Zenon DEF DawInv, StateInv
<1>5. CASE cmd = NoCommand
  <2>1. [NoCommand EXCEPT !.conflict = TRUE] = NoCommand
    BY Zenon DEF NoCommand
  <2>2. cmd' = NoCommand
    BY <1>1, <1>5, <2>1, Zenon DEF Writes
  <2> QED BY <1>4, <2>2, Zenon DEF DawInv, CmdInv
<1>6. CASE cmd # NoCommand
  <2>1. /\ cmd \in CmdRecords /\ AtPc(cmd) /\ InItsRange(cmd) /\ Lawful(cmd) /\ Swept(cmd)
        /\ cmd.c \in Commands
    <3>1. cmd \in CmdRecords => cmd.c \in Commands
      BY Zenon DEF CmdRecords
    <3> QED BY <1>6, <3>1, Zenon DEF DawInv, CmdInv
  <2>2. /\ cmd' \in CmdRecords /\ cmd'.pc = cmd.pc
        /\ cmd'.c = cmd.c /\ cmd'.force = cmd.force /\ cmd'.destroy = cmd.destroy
        /\ cmd'.blank = cmd.blank /\ cmd'.size = cmd.size
        /\ cmd'.todo = cmd.todo /\ cmd'.range = cmd.range /\ cmd'.batch = cmd.batch
    <3>1. CASE cmd' = cmd
      BY <2>1, <3>1, Zenon
    <3>2. CASE cmd' = [cmd EXCEPT !.conflict = TRUE]
      BY <2>1, <3>2, Zenon DEF CmdRecords
    <3> QED BY <1>1, <3>1, <3>2, Zenon DEF Writes
  <2>3. AtPc(cmd')
    BY <2>1, <2>2, Zenon DEF AtPc
  <2>4. InItsRange(cmd')
    BY <2>1, <2>2, Zenon DEF InItsRange
  <2>5. Lawful(cmd)'
    BY <1>3, <2>1, <2>2, LawfulKept, Zenon
  <2>6. Swept(cmd)'
    <3>1. ASSUME cmd.force, ByPrefix(cmd.c) PROVE ~InRange(k, RangeOf(cmd.c))
      <4>1. Permitted(cmd.c)
        BY <2>1, <3>1, Zenon DEF Lawful, IsList, ByPrefix
      <4>2. ~Matches(cmd.c, e)
        BY <4>1, Zenon DEF Permitted
      <4> QED BY <1>2, <2>1, <3>1, <4>2, PrefixCommandRange, Zenon
    <3>2. ASSUME cmd.force, ByPrefix(cmd.c), NEW x \in DOMAIN db' \cap AllKeys, InRange(x, RangeOf(cmd.c))
          PROVE  x \in DOMAIN db \cap AllKeys
      BY <1>1, <3>1, <3>2, Zenon DEF Writes
    <3>3. ASSUME cmd'.force, ByPrefix(cmd'.c), cmd'.pc \in {"scan", "commit"}
          PROVE  \A x \in DOMAIN db' \cap AllKeys :
                   InRange(x, RangeOf(cmd'.c)) /\ KeyLess(x, cmd'.range.start) => x \in cmd'.batch
      BY <2>1, <2>2, <3>2, <3>3, Zenon DEF Swept
    <3>4. ASSUME cmd'.force, ByPrefix(cmd'.c), cmd'.pc \in {"info", "end"}, cmd'.blank => cmd'.destroy
          PROVE  \A x \in DOMAIN db' \cap AllKeys : ~InRange(x, RangeOf(cmd'.c))
      BY <2>1, <2>2, <3>2, <3>4, Zenon DEF Swept
    <3>5. ASSUME cmd'.force, ByPrefix(cmd'.c)
          PROVE  /\ \A x \in tsKeys' : Matches(cmd'.c, x) => x \in cmd'.todo
                 /\ cmd'.pc # "redis" => cmd'.todo = {}
                 /\ cmd'.pc = "commit" => \A x \in cmd'.batch : KeyLess(x, cmd'.range.start)
      BY <1>3, <2>1, <2>2, <3>5, Zenon DEF Swept
    <3> QED BY <3>3, <3>4, <3>5, Zenon DEF Swept
  <2> QED BY <1>4, <2>2, <2>3, <2>4, <2>5, <2>6, Zenon DEF DawInv, CmdInv
<1> QED BY <1>5, <1>6, Zenon

LEMMA DawNext ==
  ASSUME DawInv, [Next]_vars
  PROVE  DawInv'
<1>1. ASSUME UNCHANGED vars PROVE DawInv'
  <2>1. /\ db' = db /\ indexed' = indexed /\ tsKeys' = tsKeys /\ tsEntries' = tsEntries
        /\ cmd' = cmd /\ forced' = forced /\ done' = done
    BY <1>1, Zenon DEF vars, daw
  <2>2. StateInv'
    BY <2>1, Zenon DEF DawInv, StateInv
  <2>3. CASE cmd = NoCommand
    BY <2>1, <2>2, <2>3, Zenon DEF DawInv, CmdInv
  <2>4. CASE cmd # NoCommand
    <3>1. cmd \in CmdRecords /\ AtPc(cmd) /\ InItsRange(cmd) /\ Lawful(cmd) /\ Swept(cmd)
      BY <2>4, Zenon DEF DawInv, CmdInv
    <3>2. Lawful(cmd)'
      BY <2>1, <3>1, LawfulKept, Zenon
    <3>3. Swept(cmd)'
      BY <2>1, <3>1, Zenon DEF Swept
    <3> QED BY <2>1, <2>2, <3>1, <3>2, <3>3, Zenon DEF DawInv, CmdInv
  <2> QED BY <2>3, <2>4, Zenon
<1>2. ASSUME Next PROVE DawInv'
  BY <1>2, GiveKeeps, DelTimestampsKeeps, LeaveRedisKeeps, DestroyKeeps, ScanTooLargeKeeps, ScanFailsKeeps,
     ScanKeysKeeps, CommitKeeps, CommitListKeeps, EndKeeps, AbortKeeps, IndexKeeps, Zenon DEF Next, Steps
<1> QED BY <1>1, <1>2, Zenon

-----------------------------------------------------------------------------
(* What a step does to one key: nothing, what a live instance does, or what *)
(* the running command is about.                                            *)

Untouched(k) ==
  /\ k \in DOMAIN db' <=> k \in DOMAIN db
  /\ k \in DOMAIN db => db'[k] = db[k]
  /\ k \in DOMAIN indexed' <=> k \in DOMAIN indexed
  /\ k \in DOMAIN indexed => indexed'[k] = indexed[k]

Indexed(k) == (\E e \in Live : k \in DataKeys(e)) /\ Same(k)'

\* a deletion in transactions takes the cursor not after the data
Commanded(k) ==
  /\ cmd.pc # "none" /\ Covers(cmd.c, k)
  /\ cmd.force \/ UnforcedDestroy
  /\ k \notin DOMAIN db' \/ (cmd.force /\ cmd.c.op = "write list")
  /\ ByPrefix(cmd.c) /\ ~cmd.destroy =>
       \A e \in Namespaces : k \in KeysOf(e) => CursorKey(e) \notin DOMAIN db'

LEMMA UntouchedIf ==
  ASSUME db' = db, indexed' = indexed, NEW k
  PROVE  Untouched(k)
BY Zenon DEF Untouched

LEMMA UntouchedBeside ==
  ASSUME NEW ks, db' = Without(db, ks), indexed' = indexed, NEW k, k \notin ks
  PROVE  Untouched(k)
<1>1. DOMAIN db' = DOMAIN db \ ks /\ \A x \in DOMAIN db \ ks : db'[x] = db[x]
  BY WithoutFacts, Zenon
<1> QED BY <1>1, Zenon DEF Untouched

LEMMA GoneFrom ==
  ASSUME NEW ks, db' = Without(db, ks), NEW k \in ks
  PROVE  k \notin DOMAIN db'
<1>1. DOMAIN db' = DOMAIN db \ ks
  BY WithoutFacts, Zenon
<1> QED BY <1>1, Zenon

LEMMA DestroyOnKey ==
  ASSUME DawInv, Destroy, NEW k \in AllKeys
  PROVE  Untouched(k) \/ Commanded(k)
<1>1. cmd.pc = "destroy" /\ indexed' = indexed
  BY Zenon DEF Destroy
<1>2. AtPc(cmd) /\ InItsRange(cmd) /\ Lawful(cmd) /\ cmd.c \in Commands
  BY <1>1, Started, Zenon DEF DawInv
<1>3. /\ ~IsList(cmd.c) /\ cmd.range = RangeOf(cmd.c) /\ cmd.destroy /\ (cmd.force \/ UnforcedDestroy)
      /\ cmd.c.op = "instance" => ~cmd.c.tsOnly
  BY <1>1, <1>2, Zenon DEF AtPc, InItsRange, Lawful
<1>4. CASE db' = db
  BY <1>1, <1>4, UntouchedIf, Zenon
<1>5. ASSUME NEW some \in SUBSET KeysIn(db, cmd.range), db' = Without(db, some)
      PROVE  Untouched(k) \/ Commanded(k)
  <2>1. CASE k \notin some
    BY <1>1, <1>5, <2>1, UntouchedBeside, Zenon
  <2>2. CASE k \in some
    <3>1. InRange(k, RangeOf(cmd.c))
      BY <1>3, <2>2, Zenon DEF KeysIn
    <3>2. Covers(cmd.c, k)
      BY <1>2, <1>3, <3>1, CommandRange, Zenon
    <3>3. k \notin DOMAIN db'
      BY <1>5, <2>2, GoneFrom, Zenon
    <3> QED BY <1>1, <1>3, <3>2, <3>3, Zenon DEF Commanded
  <2> QED BY <2>1, <2>2, Zenon
<1>6. db' = db \/ \E some \in SUBSET KeysIn(db, cmd.range) : db' = Without(db, some)
  BY Zenon DEF Destroy
<1> QED BY <1>4, <1>5, <1>6, Zenon

LEMMA CommitOnKey ==
  ASSUME DawInv, Commit, NEW k \in AllKeys
  PROVE  Untouched(k) \/ Commanded(k)
<1>1. /\ cmd.pc = "commit" /\ indexed' = indexed
      /\ db' = IF cmd.force THEN Without(db, cmd.batch) ELSE db
  BY Zenon DEF Commit
<1>2. AtPc(cmd) /\ InItsRange(cmd) /\ Swept(cmd) /\ cmd.c \in Commands /\ cmd \in CmdRecords
  BY <1>1, Started, Zenon DEF DawInv
<1>3. ~IsList(cmd.c) /\ (cmd.c.op = "instance" => ~cmd.c.tsOnly)
  BY <1>1, <1>2, Zenon DEF AtPc
<1>4. CASE ~cmd.force
  <2>1. db' = db
    BY <1>1, <1>4, Zenon
  <2> QED BY <1>1, <2>1, UntouchedIf, Zenon
<1>5. CASE cmd.force
  <2>0. db' = Without(db, cmd.batch)
    BY <1>1, <1>5, Zenon
  <2>1. CASE k \notin cmd.batch
    BY <1>1, <2>0, <2>1, UntouchedBeside, Zenon
  <2>2. CASE k \in cmd.batch
    <3>1. InRange(k, RangeOf(cmd.c))
      BY <1>2, <1>3, <2>2, Zenon DEF InItsRange
    <3>2. Covers(cmd.c, k)
      BY <1>2, <1>3, <3>1, CommandRange, Zenon
    <3>3. DOMAIN db' = DOMAIN db \ cmd.batch
      BY <2>0, WithoutFacts, Zenon
    <3>4. ASSUME ByPrefix(cmd.c), NEW e \in Namespaces, k \in KeysOf(e), CursorKey(e) \in DOMAIN db
          PROVE  CursorKey(e) \in cmd.batch
      <4> DEFINE c == CursorKey(e)
      <4>1. /\ k \in Key /\ c \in KeysOf(e) /\ c \in Key /\ (k = c \/ KeyLess(c, k))
        BY <3>4, InstanceKeys, Zenon
      <4>2. InRange(c, RangeOf(cmd.c))
        BY <1>2, <3>1, <3>4, <4>1, PrefixCommandRange, Zenon
      <4>3. cmd.range.start \in Key
        <5>1. cmd.range \in Ranges
          BY <1>2, <1>3, Zenon DEF InItsRange
        <5> QED BY <5>1, Zenon DEF Ranges
      <4>4. KeyLess(k, cmd.range.start)
        BY <1>1, <1>2, <1>5, <2>2, <3>4, Zenon DEF Swept
      <4>5. KeyLess(c, cmd.range.start)
        BY <4>1, <4>3, <4>4, KeyTransitive, Zenon
      <4>6. c \in DOMAIN db \cap AllKeys
        BY <3>4, <4>1, AllKeysAre, Zenon
      <4> HIDE DEF c
      <4>7. c \in cmd.batch
        BY <1>1, <1>2, <1>5, <3>4, <4>2, <4>5, <4>6, Zenon DEF Swept
      <4> QED BY <4>7, Zenon DEF c
    <3> QED BY <1>1, <1>5, <2>2, <3>2, <3>3, <3>4, Zenon DEF Commanded
  <2> QED BY <2>1, <2>2, Zenon
<1> QED BY <1>4, <1>5, Zenon

LEMMA CommitListOnKey ==
  ASSUME DawInv, CommitList, NEW k \in AllKeys
  PROVE  Untouched(k) \/ Commanded(k)
<1>1. cmd.pc = "list" /\ indexed' = indexed
  BY Zenon DEF CommitList
<1>2. AtPc(cmd) /\ cmd.c \in Commands
  BY <1>1, Started, Zenon DEF DawInv
<1>3. IsList(cmd.c) /\ ~ByPrefix(cmd.c) /\ cmd.batch \subseteq cmd.c.keys
  BY <1>1, <1>2, Zenon DEF AtPc, IsList, ByPrefix
<1>4. k \in cmd.batch => Covers(cmd.c, k)
  <2>1. cmd.c.op # "instance" /\ cmd.c.op # "dataplane" /\ cmd.c.op # "range"
    BY <1>3, Zenon DEF IsList
  <2> QED BY <1>3, <2>1, Zenon DEF Covers
<1>5. CASE ~cmd.force
  <2>1. db' = db
    BY <1>5, Zenon DEF CommitList
  <2> QED BY <1>1, <2>1, UntouchedIf, Zenon
<1>6. CASE cmd.force /\ cmd.c.op = "delete list"
  <2>1. db' = Without(db, cmd.batch)
    BY <1>6, Zenon DEF CommitList
  <2>2. CASE k \notin cmd.batch
    BY <1>1, <2>1, <2>2, UntouchedBeside, Zenon
  <2>3. CASE k \in cmd.batch
    <3>1. k \notin DOMAIN db'
      BY <2>1, <2>3, GoneFrom, Zenon
    <3> QED BY <1>1, <1>3, <1>4, <1>6, <2>3, <3>1, Zenon DEF Commanded
  <2> QED BY <2>2, <2>3, Zenon
<1>7. CASE cmd.force /\ cmd.c.op = "write list"
  <2>1. db' = [x \in DOMAIN db \cup cmd.batch |-> IF x \in cmd.batch THEN 2 ELSE db[x]]
    BY <1>7, Zenon DEF CommitList
  <2>2. CASE k \notin cmd.batch
    BY <1>1, <2>1, <2>2, Zenon DEF Untouched
  <2>3. CASE k \in cmd.batch
    BY <1>1, <1>3, <1>4, <1>7, <2>3, Zenon DEF Commanded
  <2> QED BY <2>2, <2>3, Zenon
<1> QED BY <1>3, <1>5, <1>6, <1>7, Zenon DEF IsList

LEMMA DeleteInfoOnKey ==
  ASSUME DawInv, DeleteInfo, NEW k \in AllKeys
  PROVE  Untouched(k) \/ Commanded(k)
<1>1. /\ cmd.pc = "info" /\ indexed' = indexed
      /\ db' = IF cmd.force THEN Without(db, {encode_info_key(cmd.c.e)}) ELSE db
  BY Zenon DEF DeleteInfo
<1>2. AtPc(cmd) /\ cmd.c \in Commands
  BY <1>1, Started, Zenon DEF DawInv
<1>3. cmd.c.op = "instance" /\ ~cmd.c.tsOnly /\ cmd.c.e \in Namespaces
  BY <1>1, <1>2, CommandType, Zenon DEF AtPc, ByPrefix
<1>4. CASE ~cmd.force
  <2>1. db' = db
    BY <1>1, <1>4, Zenon
  <2> QED BY <1>1, <2>1, UntouchedIf, Zenon
<1>5. CASE cmd.force
  <2> DEFINE i == encode_info_key(cmd.c.e)
             ks == {i}
  <2>1. db' = Without(db, ks) /\ (k \in ks <=> k = i)
    BY <1>1, <1>5, Zenon
  <2> HIDE DEF ks
  <2>2. CASE k # i
    BY <1>1, <2>1, <2>2, UntouchedBeside, Zenon
  <2>3. CASE k = i
    <3>1. k \notin DOMAIN db'
      BY <2>1, <2>3, GoneFrom, Zenon
    <3>2. Covers(cmd.c, k)
      BY <1>3, <2>3, Zenon DEF Covers
    <3>3. \A e \in Namespaces : k \notin KeysOf(e)
      BY <1>3, <2>3, OwnerIsUnique, Zenon
    <3> QED BY <1>1, <1>5, <3>1, <3>2, <3>3, Zenon DEF Commanded
  <2> QED BY <2>2, <2>3, Zenon
<1> QED BY <1>4, <1>5, Zenon

LEMMA StepOnKey ==
  ASSUME DawInv, [Next]_vars, NEW k \in AllKeys
  PROVE  Untouched(k) \/ Indexed(k) \/ Commanded(k)
<1>1. CASE Index
  <2>1. PICK e \in Live : \E x \in DataKeys(e) : Writes(x)
    BY <1>1, IndexFacts, Zenon
  <2>2. PICK x \in DataKeys(e) : Writes(x)
    BY <2>1, Zenon
  <2> QED BY <2>2, Zenon DEF Writes, Untouched, Indexed
<1>2. CASE Give \/ DelTimestamps \/ LeaveRedis \/ ScanTooLarge \/ ScanFails \/ ScanKeys \/ Conflict \/ End \/ Abort
  <2>1. db' = db /\ indexed' = indexed
    BY <1>2, ZenonT(60) DEF Give, handle_delete_cmd, handle_list_cmd, DelTimestamps, LeaveRedis,
                ScanTooLarge, ScanFails, ScanKeys, Conflict, End, Abort
  <2> QED BY <2>1, UntouchedIf, Zenon
<1>3. CASE UNCHANGED vars
  <2>1. db' = db /\ indexed' = indexed
    BY <1>3, Zenon DEF vars
  <2> QED BY <2>1, UntouchedIf, Zenon
<1> QED BY <1>1, <1>2, <1>3, DestroyOnKey, CommitOnKey, CommitListOnKey, DeleteInfoOnKey, Zenon
    DEF Next, Steps

\* commands given with --force are remembered
LEMMA ForcedGrows ==
  ASSUME [Next]_vars
  PROVE  forced \subseteq forced'
<1>1. CASE Give
  BY <1>1, Zenon DEF Give, Given
<1>2. CASE ~Give
  <2>1. forced' = forced
    BY <1>2, Zenon
    DEF Next, Steps, vars, daw, DelTimestamps, LeaveRedis, Finish, Destroy, ScanTooLarge, ScanFails, ScanKeys,
                Commit, CommitList, Conflict, DeleteInfo, End, Abort, Index
  <2> QED BY <2>1, Zenon
<1> QED BY <1>1, <1>2, Zenon

\* with --force a command is among the forced ones, and stays there
LEMMA CommandIsForced ==
  ASSUME DawInv, [Next]_vars, cmd.pc # "none", cmd.force
  PROVE  \E f \in forced : f \in forced' /\ f.c = cmd.c /\ f.destroy = cmd.destroy
<1>1. [c |-> cmd.c, destroy |-> cmd.destroy] \in forced
  BY Started, Zenon DEF DawInv, Lawful
<1>2. PICK f \in forced : f = [c |-> cmd.c, destroy |-> cmd.destroy]
  BY <1>1, Zenon
<1>3. f.c = cmd.c /\ f.destroy = cmd.destroy
  BY <1>2, Zenon
<1>4. f \in forced'
  BY ForcedGrows, Zenon
<1> QED BY <1>3, <1>4, Zenon

LEMMA UntouchedSame ==
  ASSUME NEW k, Untouched(k)
  PROVE  Same(k) <=> Same(k)'
BY Zenon DEF Untouched, Same

\* What differs from what was indexed was covered by a command with --force.
LEMMA OnlyWhatIsForcedNext ==
  ASSUME ~UnforcedDestroy, DawInv, OnlyWhatIsForced, [Next]_vars
  PROVE  OnlyWhatIsForced'
<1>1. ASSUME NEW k \in AllKeys, ~Same(k)'
      PROVE  \E f \in forced' : Covers(f.c, k)
  <2>1. CASE Untouched(k)
    <3>1. \E f \in forced : Covers(f.c, k)
      BY <1>1, <2>1, UntouchedSame, Zenon DEF OnlyWhatIsForced
    <3> QED BY <3>1, ForcedGrows, Zenon
  <2>2. CASE Commanded(k)
    BY <2>2, CommandIsForced, Zenon DEF Commanded
  <2> QED BY <1>1, <2>1, <2>2, StepOnKey, Zenon DEF Indexed
<1>2. ASSUME NEW e \in Namespaces \ (tsKeys' \cap tsEntries')
      PROVE  \E f \in forced' : Matches(f.c, e)
  <2>1. CASE e \notin tsKeys \cap tsEntries
    BY <2>1, ForcedGrows, Zenon DEF OnlyWhatIsForced
  <2>2. CASE e \in tsKeys \cap tsEntries
    <3>1. DelTimestamps
      <4>1. ~UNCHANGED <<tsKeys, tsEntries>>
        BY <1>2, <2>2, SMTT(30)
      <4> QED BY <4>1, ZenonT(60)
        DEF Next, Steps, vars, Give, handle_delete_cmd, handle_list_cmd, LeaveRedis, Destroy,
                          ScanTooLarge, ScanFails, ScanKeys, Commit, CommitList, Conflict, DeleteInfo, End, Abort, Index
    <3>2. cmd.pc = "redis" /\ cmd.force /\ e \in cmd.todo
      BY <1>2, <2>2, <3>1, Zenon DEF DelTimestamps
    <3>3. Matches(cmd.c, e)
      BY <3>2, Started, Zenon DEF DawInv, AtPc
    <3>4. cmd.pc # "none"
      BY <3>2, Zenon
    <3> QED BY <3>2, <3>3, <3>4, CommandIsForced, Zenon
  <2> QED BY <2>1, <2>2, Zenon
<1> QED BY <1>1, <1>2, Zenon DEF OnlyWhatIsForced

LEMMA TimestampsShrink ==
  ASSUME [Next]_vars
  PROVE  tsKeys' \subseteq tsKeys /\ tsEntries' \subseteq tsEntries
<1>1. CASE DelTimestamps
  BY <1>1, Zenon DEF DelTimestamps
<1>2. CASE ~DelTimestamps
  <2>1. tsKeys' = tsKeys /\ tsEntries' = tsEntries
    BY <1>2, ZenonT(60)
    DEF Next, Steps, vars, Give, handle_delete_cmd, handle_list_cmd, LeaveRedis, Destroy,
                ScanTooLarge, ScanFails, ScanKeys, Commit, CommitList, Conflict, DeleteInfo, End, Abort, Index
  <2> QED BY <2>1, Zenon
<1> QED BY <1>1, <1>2, Zenon

\* only the last step of a deletion adds to done
LEMMA DoneGrows ==
  ASSUME DawInv, [Next]_vars, done' # done
  PROVE  /\ DeleteInfo \/ End
         /\ cmd.force /\ ByPrefix(cmd.c)
         /\ \A d \in done' : d \notin done => /\ d.op = cmd.c.op /\ d.e \in Namespaces
                                              /\ Matches(cmd.c, d.e)
                                              /\ d.blank = (cmd.blank /\ ~cmd.destroy)
<1>1. ASSUME Finish(cmd.c), cmd.pc # "none"
      PROVE  /\ cmd.force /\ ByPrefix(cmd.c) /\ ~cmd.c.tsOnly
             /\ \A d \in done' : d \notin done => /\ d.op = cmd.c.op /\ d.e \in Namespaces
                                                  /\ Matches(cmd.c, d.e)
                                                  /\ d.blank = (cmd.blank /\ ~cmd.destroy)
  BY <1>1, FinishFacts, Zenon
<1>2. CASE DeleteInfo \/ End
  <2>1. Finish(cmd.c) /\ cmd.pc # "none"
    BY <1>2, Zenon DEF DeleteInfo, End
  <2> QED BY <1>1, <1>2, <2>1, Zenon
<1>3. CASE LeaveRedis
  <2>1. Finish(cmd.c) /\ cmd.pc # "none" /\ cmd.c.tsOnly
    BY <1>3, Zenon DEF LeaveRedis
  <2> QED BY <1>1, <2>1, Zenon
<1>4. CASE CommitList
  <2>1. Finish(cmd.c) /\ cmd.pc = "list"
    BY <1>4, Zenon DEF CommitList
  <2>2. cmd.pc # "none"
    BY <2>1, Zenon
  <2>3. AtPc(cmd)
    BY <2>2, Started, Zenon DEF DawInv
  <2> QED BY <1>1, <2>1, <2>2, <2>3, Zenon DEF AtPc, IsList, ByPrefix
<1>5. CASE ~(DeleteInfo \/ End \/ LeaveRedis \/ CommitList)
  <2>1. done' = done
    BY <1>5, ZenonT(60) DEF Next, Steps, vars, daw, Give, Given, DelTimestamps, Destroy,
                ScanTooLarge, ScanFails, ScanKeys, Commit, Conflict, Abort, Index
  <2> QED BY <2>1, Zenon
<1> QED BY <1>2, <1>3, <1>4, <1>5, Zenon

\* A deletion that reports success has left nothing behind.
LEMMA DoneMeansGoneNext ==
  ASSUME DawInv, DoneMeansGone, [Next]_vars
  PROVE  DoneMeansGone'
<1> DEFINE Of(d, k) == k \in KeysOf(d.e) \/ (d.op = "instance" /\ k = encode_info_key(d.e))
           Written(k) == \E f \in forced' : f.c.op = "write list" /\ k \in f.c.keys
<1>1. ASSUME NEW d \in done
      PROVE  /\ d.e \notin tsKeys' \cup tsEntries'
             /\ ~d.blank => \A k \in DOMAIN db' : Of(d, k) => Written(k)
  <2>1. d.e \notin tsKeys' \cup tsEntries'
    BY TimestampsShrink, Zenon DEF DoneMeansGone
  <2>2. d.e \in Retired /\ d.e \in Namespaces
    BY Zenon DEF DawInv, StateInv, Namespaces
  <2>3. ASSUME ~d.blank, NEW k \in DOMAIN db', Of(d, k) PROVE Written(k)
    <3>1. k \in AllKeys
      BY <2>2, <2>3, AllKeysAre, Zenon
    <3>2. CASE Untouched(k)
      <4>1. k \in DOMAIN db
        BY <3>2, Zenon DEF Untouched
      <4>2. \E f \in forced : f.c.op = "write list" /\ k \in f.c.keys
        BY <2>3, <4>1, Zenon DEF DoneMeansGone
      <4> QED BY <4>2, ForcedGrows, Zenon
    <3>3. CASE Indexed(k)
      <4>1. PICK e \in Live : k \in DataKeys(e)
        BY <3>3, Zenon DEF Indexed
      <4>2. e \in Namespaces /\ k \in KeysOf(e) /\ e \notin Retired
        BY <4>1, DawConstants, ZenonT(60) DEF Namespaces, KeysOf
      <4> QED BY <2>2, <2>3, <4>2, OwnerIsUnique, Zenon
    <3>4. CASE Commanded(k)
      <4>1. cmd.pc # "none" /\ cmd.force /\ cmd.c.op = "write list" /\ Covers(cmd.c, k)
        BY <3>4, Zenon DEF Commanded
      <4>2. k \in cmd.c.keys
        BY <4>1, Zenon DEF Covers
      <4> QED BY <4>1, <4>2, CommandIsForced, Zenon
    <3> QED BY <3>1, <3>2, <3>3, <3>4, StepOnKey, Zenon
  <2> QED BY <2>1, <2>3, Zenon
<1>2. ASSUME NEW d \in done', d \notin done
      PROVE  /\ d.e \notin tsKeys' \cup tsEntries'
             /\ ~d.blank => \A k \in DOMAIN db' : ~Of(d, k)
  <2>1. /\ DeleteInfo \/ End
        /\ cmd.force /\ ByPrefix(cmd.c) /\ d.op = cmd.c.op /\ d.e \in Namespaces /\ Matches(cmd.c, d.e)
        /\ d.blank = (cmd.blank /\ ~cmd.destroy)
    BY <1>2, DoneGrows, Zenon
  <2>2. cmd.pc \in {"info", "end"} /\ cmd.pc # "none" /\ cmd.pc # "redis"
    BY <2>1, Zenon DEF DeleteInfo, End
  <2>3. AtPc(cmd) /\ Swept(cmd) /\ cmd.c \in Commands
    BY <2>2, Started, Zenon DEF DawInv
  <2>4. d.e \notin tsKeys /\ tsEntries \subseteq tsKeys
    BY <2>1, <2>2, <2>3, Zenon DEF Swept, DawInv, StateInv
  <2>5. ~d.blank => \A k \in DOMAIN db \cap AllKeys : ~InRange(k, RangeOf(cmd.c))
    BY <2>1, <2>2, <2>3, Zenon DEF Swept
  <2>6. ~d.blank => \A k \in KeysOf(d.e) : k \notin DOMAIN db
    BY <2>1, <2>3, <2>5, PrefixCommandRange, AllKeysAre, Zenon
  <2>7. DOMAIN db' \subseteq DOMAIN db
    <3>1. CASE db' = db
      BY <3>1, Zenon
    <3>2. CASE db' = Without(db, {encode_info_key(cmd.c.e)})
      <4>1. DOMAIN Without(db, {encode_info_key(cmd.c.e)}) = DOMAIN db \ {encode_info_key(cmd.c.e)}
        BY WithoutFacts, Zenon
      <4> QED BY <3>2, <4>1, Zenon
    <3> QED BY <2>1, <3>1, <3>2, Zenon DEF DeleteInfo, End
  <2>8. ASSUME d.op = "instance" PROVE encode_info_key(d.e) \notin DOMAIN db'
    <3>1. cmd.c.op = "instance" /\ d.e = cmd.c.e
      BY <2>1, <2>8, Zenon DEF Matches
    <3>2. cmd.pc = "info"
      BY <2>2, <2>3, <3>1, Zenon DEF AtPc
    <3>3. DeleteInfo
      BY <2>1, <3>2, Zenon DEF End
    <3> DEFINE ks == {encode_info_key(cmd.c.e)}
    <3>4. db' = Without(db, ks) /\ encode_info_key(d.e) \in ks
      BY <2>1, <3>1, <3>3, Zenon DEF DeleteInfo
    <3> HIDE DEF ks
    <3> QED BY <3>4, GoneFrom, Zenon
  <2> QED BY <2>4, <2>6, <2>7, <2>8, TimestampsShrink, Zenon
<1> HIDE DEF Of, Written
<1>3. \A d \in done' : /\ d.e \notin tsKeys' \cup tsEntries'
                       /\ ~d.blank => \A k \in DOMAIN db' : Of(d, k) => Written(k)
  BY <1>1, <1>2, Zenon
<1> QED BY <1>3, Zenon DEF DoneMeansGone, Of, Written

\* As long as the cursor of an instance is there its data is complete.
LEMMA CursorGoesFirstNext ==
  ASSUME ~UnforcedDestroy, DawInv, CursorGoesFirst, [Next]_vars
  PROVE  CursorGoesFirst'
<1> SUFFICES ASSUME NEW e \in Namespaces,
                    \A f \in forced' : \A k \in KeysOf(e) :
                      Covers(f.c, k) => f.c.op \in {"instance", "dataplane"} /\ ~f.destroy,
                    CursorKey(e) \in DOMAIN db',
                    NEW k \in DataKeys(e)
             PROVE  Same(k)'
  BY Zenon DEF CursorGoesFirst
<1>1. k \in KeysOf(e) /\ CursorKey(e) \in KeysOf(e) /\ CursorKey(e) \notin DataKeys(e)
  <2>1. k \in KeysOf(e)
    BY Zenon DEF KeysOf
  <2> QED BY <2>1, InstanceKeys, Zenon
<1>2. k \in AllKeys /\ CursorKey(e) \in AllKeys
  BY <1>1, AllKeysAre, Zenon
<1>3. ASSUME NEW x \in KeysOf(e), Commanded(x) PROVE FALSE
  <2>1. cmd.pc # "none" /\ cmd.force /\ Covers(cmd.c, x)
    BY <1>3, Zenon DEF Commanded
  <2>2. PICK f \in forced : f \in forced' /\ f.c = cmd.c /\ f.destroy = cmd.destroy
    BY <2>1, CommandIsForced, Zenon
  <2>3. cmd.c.op \in {"instance", "dataplane"} /\ ~cmd.destroy
    BY <2>1, <2>2, Zenon
  <2> QED BY <1>3, <2>3, Zenon DEF Commanded, ByPrefix
<1>4. CursorKey(e) \in DOMAIN db
  <2>1. ~Indexed(CursorKey(e))
    <3>1. ASSUME NEW x \in Live, CursorKey(e) \in DataKeys(x) PROVE FALSE
      <4>1. x \in Namespaces /\ CursorKey(e) \in KeysOf(x)
        BY <3>1, Zenon DEF Namespaces, KeysOf
      <4> QED BY <1>1, <3>1, <4>1, OwnerIsUnique, Zenon
    <3> QED BY <3>1, Zenon DEF Indexed
  <2>2. Untouched(CursorKey(e))
    BY <1>1, <1>2, <1>3, <2>1, StepOnKey, Zenon
  <2> QED BY <2>2, Zenon DEF Untouched
<1>5. CASE Untouched(k)
  <2>1. Same(k)
    BY <1>4, ForcedGrows, Zenon DEF CursorGoesFirst
  <2> QED BY <1>5, <2>1, UntouchedSame, Zenon
<1>6. CASE Indexed(k)
  BY <1>6, Zenon DEF Indexed
<1> QED BY <1>1, <1>2, <1>3, <1>5, <1>6, StepOnKey, Zenon

-----------------------------------------------------------------------------
(* The theorems about daw.                                                 *)

\* The inductive invariant holds in every reachable state.
THEOREM DawSafe == Spec => []DawInv
BY DawInit, DawNext, PTL DEF Spec

\* The variables have their types, and a scan asks for at least one key
\* however often its size was halved, unless the command was given with
\* --scan-size 0: no other deletion ends for want of keys to ask for.
THEOREM DawTypes == Spec => []TypeOK
<1>1. DawInv => TypeOK
  <2> SUFFICES ASSUME DawInv PROVE TypeOK
    BY Zenon
  <2>1. ASSUME ~Idle
        PROVE  (cmd.size = 0 => cmd.blank) /\ cmd.batch \subseteq Seq(Nat) /\ cmd.todo \subseteq Namespaces
    <3>1. cmd \in CmdRecords /\ AtPc(cmd)
      BY <2>1, Zenon DEF Idle, DawInv, CmdInv
    <3>2. cmd.batch \in SUBSET Key /\ cmd.todo \in SUBSET Namespaces
      BY <3>1, Zenon DEF CmdRecords
    <3> QED BY <3>1, <3>2, Zenon DEF Key, AtPc
  <2> QED BY <2>1, Zenon DEF DawInv, StateInv, TypeOK, Namespaces
<1> QED BY <1>1, DawSafe, PTL

\* Without --force nothing is deleted, in TiKV or in redis, and with it
\* nothing beside what the command covers, provided that --destroy-mode is
\* only given together with --force.
THEOREM DeletesOnlyWhatIsForced ==
  ASSUME ~UnforcedDestroy
  PROVE  Spec => []OnlyWhatIsForced
<1>1. Init => OnlyWhatIsForced
  <2> SUFFICES ASSUME Init PROVE OnlyWhatIsForced
    BY Zenon
  <2>1. \A k \in AllKeys : Same(k)
    BY Zenon DEF Init, Same
  <2>2. Namespaces \ (tsKeys \cap tsEntries) = {}
    BY Zenon DEF Init
  <2> QED BY <2>1, <2>2, Zenon DEF OnlyWhatIsForced
<1>2. DawInv /\ OnlyWhatIsForced /\ [Next]_vars => OnlyWhatIsForced'
  BY OnlyWhatIsForcedNext, Zenon
<1> QED BY <1>1, <1>2, DawSafe, PTL DEF Spec

\* A forced deletion of an instance or of a dataplane that reports success
\* has left none of its keys and none of its timestamps, and that stays so,
\* whatever broke off before and whatever live instances write meanwhile; one
\* given with --scan-size 0 and without --destroy-mode has left no timestamps.
THEOREM DeletedIsGone == Spec => []DoneMeansGone
<1>1. Init => DoneMeansGone
  BY Zenon DEF Init, DoneMeansGone
<1>2. DawInv /\ DoneMeansGone /\ [Next]_vars => DoneMeansGone'
  BY DoneMeansGoneNext, Zenon
<1> QED BY <1>1, <1>2, DawSafe, PTL DEF Spec

\* While an instance or a dataplane is deleted in transactions, and after the
\* tool was killed in between, whoever finds the cursor finds all the data.
THEOREM CursorIsDeletedFirst ==
  ASSUME ~UnforcedDestroy
  PROVE  Spec => []CursorGoesFirst
<1>1. Init => CursorGoesFirst
  <2> SUFFICES ASSUME Init PROVE CursorGoesFirst
    BY Zenon
  <2>1. \A k : Same(k)
    BY Zenon DEF Init, Same
  <2> QED BY <2>1, Zenon DEF CursorGoesFirst
<1>2. DawInv /\ CursorGoesFirst /\ [Next]_vars => CursorGoesFirst'
  BY CursorGoesFirstNext, Zenon
<1> QED BY <1>1, <1>2, DawSafe, PTL DEF Spec
=============================================================================
