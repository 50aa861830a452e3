----------------------------- MODULE OrderLemmas -----------------------------
(***************************************************************************)
(* Least and greatest elements of sets of naturals, and the ranking of a   *)
(* finite one: what the proofs need to reason by a least counterexample,   *)
(* about Min and Max, and about a scan in the order of slots.  And trees   *)
(* of blocks, given by a parent and the set of ancestors of every block.   *)
(***************************************************************************)
EXTENDS Integers, FiniteSetsExt, FiniteSetTheorems, WellFoundedInduction, TLAPS

\* Every non-empty set of naturals has a least element.
LEMMA Least ==
  ASSUME NEW S \in SUBSET Nat, S # {}
  PROVE  \E m \in S : \A n \in S : m <= n
<1> DEFINE R == OpToRel(<, Nat)
<1>1. IsWellFoundedOn(R, Nat)
  BY NatLessThanWellFounded, Zenon
<1>2. \A i, j \in Nat : i < j => <<i, j>> \in R
  BY Zenon DEF OpToRel
<1> HIDE DEF R
<1>3. PICK m \in S : \A y \in S : ~(<<y, m>> \in R)
  BY <1>1, WFMin, Zenon
<1>4. \A n \in S : ~(n < m)
  BY <1>2, <1>3, Zenon
<1>5. \A n \in S : m <= n
  BY <1>4
<1> QED BY <1>5, Zenon

\* Every non-empty bounded set of naturals has a greatest element.
LEMMA Greatest ==
  ASSUME NEW u \in Nat, NEW S \in SUBSET (0..u), S # {}
  PROVE  \E m \in S : \A n \in S : n <= m
<1> DEFINE T == {u - n : n \in S}
<1>1. T \in SUBSET Nat /\ T # {}
  <2>1. \A n \in S : u - n \in Nat
    OBVIOUS
  <2> QED BY <2>1, Zenon
<1>2. PICK t \in T : \A n \in T : t <= n
  BY <1>1, Least, Zenon
<1>3. PICK m \in S : t = u - m
  BY Zenon
<1>4. \A n \in S : u - m <= u - n
  BY <1>2, <1>3, Zenon
<1>5. \A n \in S : n <= m
  BY <1>4
<1> QED BY <1>5, Zenon

\* Max is an element, and an upper bound.
LEMMA MaxProperties ==
  ASSUME NEW u \in Nat, NEW S \in SUBSET (0..u), S # {}
  PROVE  Max(S) \in S /\ \A n \in S : n <= Max(S)
<1>1. PICK m \in S : \A n \in S : n <= m
  BY Greatest, Zenon
<1>2. \A n \in S : m >= n
  BY <1>1, Zenon
<1>3. Max(S) \in S /\ \A n \in S : Max(S) >= n
  BY <1>2, Zenon DEF Max
<1> QED BY <1>3, Zenon

\* Min is an element, and a lower bound.
LEMMA MinProperties ==
  ASSUME NEW S \in SUBSET Nat, S # {}
  PROVE  Min(S) \in S /\ \A n \in S : Min(S) <= n
<1>1. \E m \in S : \A n \in S : m <= n
  BY Least, Zenon
<1> QED BY <1>1, Zenon DEF Min

\* In a finite set of naturals every rank is taken: for each i there is an
\* element with exactly i - 1 larger ones.
LEMMA Ranked ==
  ASSUME NEW S \in SUBSET Nat, IsFiniteSet(S), NEW i \in 1..Cardinality(S)
  PROVE  \E s \in S : Cardinality({t \in S : t > s}) = i - 1
<1> DEFINE Rank(T, s) == Cardinality({t \in T : t > s})
           Fails(T, n, j) == /\ T \in SUBSET Nat /\ IsFiniteSet(T) /\ Cardinality(T) = n
                             /\ j \in 1..n
                             /\ \A s \in T : Rank(T, s) # j - 1
           Bad == {n \in Nat : \E T \in SUBSET Nat, j \in Nat : Fails(T, n, j)}
<1> SUFFICES ASSUME Bad # {} PROVE FALSE
  <2>1. Cardinality(S) \in Nat
    BY FS_CardinalityType, Zenon
  <2>2. SUFFICES ASSUME \A s \in S : Rank(S, s) # i - 1 PROVE FALSE
    BY Zenon
  <2>3. Fails(S, Cardinality(S), i) /\ i \in Nat
    BY <2>1, <2>2
  <2>4. Cardinality(S) \in Bad
    BY <2>1, <2>3, Zenon
  <2> QED BY <2>4, Zenon
<1>1. PICK n \in Bad : \A m \in Bad : n <= m
  BY Least, Zenon
<1>2. PICK T \in SUBSET Nat, j \in Nat : Fails(T, n, j)
  BY <1>1, Zenon
<1>3. n \in Nat /\ j \in 1..n /\ IsFiniteSet(T) /\ Cardinality(T) = n
  BY <1>1, <1>2, Zenon
<1>4. T # {}
  BY <1>3, FS_EmptySet
<1>5. PICK lo \in T : \A t \in T : lo <= t
  BY <1>4, Least, Zenon
<1> DEFINE U == T \ {lo}
<1>6. IsFiniteSet(U) /\ Cardinality(U) = n - 1
  BY <1>3, <1>5, FS_RemoveElement, Zenon
<1>7. CASE j = n
  <2>0. \A t \in T : t > lo <=> t # lo
    BY <1>5
  <2>1. {t \in T : t > lo} = U
    BY <2>0, Zenon
  <2>2. Rank(T, lo) = j - 1
    BY <2>1, <1>6, <1>7, Zenon
  <2> QED BY <2>2, <1>2, Zenon
<1>8. CASE j < n
  <2>1. n - 1 \in Nat /\ j \in 1..(n - 1) /\ ~(n <= n - 1)
    BY <1>3, <1>8
  <2>2. n - 1 \notin Bad
    BY <2>1, <1>1, Zenon
  <2>3. ~Fails(U, n - 1, j)
    BY <2>1, <2>2, Zenon
  <2>4. PICK s \in U : Rank(U, s) = j - 1
    BY <2>1, <2>3, <1>6, Zenon
  <2>5. {t \in T : t > s} = {t \in U : t > s}
    BY <1>5, <2>4
  <2>6. Rank(T, s) = j - 1
    BY <2>4, <2>5, Zenon
  <2> QED BY <2>4, <2>6, <1>2, Zenon
<1> QED BY <1>3, <1>7, <1>8

\* how many elements of S are larger than s
RankIn(S, s) == Cardinality({t \in S : t > s})

\* what is larger than s in a finite set is finite, and s itself is not
LEMMA RankType ==
  ASSUME NEW S \in SUBSET Nat, IsFiniteSet(S), NEW s \in S
  PROVE  /\ IsFiniteSet({t \in S : t > s})
         /\ RankIn(S, s) \in Nat /\ RankIn(S, s) < Cardinality(S) /\ Cardinality(S) \in Nat
<1> DEFINE T == {t \in S : t > s}
<1>1. IsFiniteSet(T) /\ s \notin T
  BY FS_Subset
<1>2. IsFiniteSet(S \ {s}) /\ Cardinality(S \ {s}) = Cardinality(S) - 1
  BY FS_RemoveElement, Zenon
<1>3. T \subseteq S \ {s}
  OBVIOUS
<1>4. Cardinality(T) <= Cardinality(S) - 1
  BY <1>2, <1>3, FS_Subset
<1>5. Cardinality(T) \in Nat /\ Cardinality(S) \in Nat
  BY <1>1, FS_CardinalityType, Zenon
<1> QED BY <1>1, <1>4, <1>5 DEF RankIn

\* the next smaller element has the next rank
LEMMA RankBelow ==
  ASSUME NEW S \in SUBSET Nat, IsFiniteSet(S), NEW s \in S, NEW p \in S, p < s,
         \A x \in S : ~(p < x /\ x < s)
  PROVE  RankIn(S, p) = RankIn(S, s) + 1
<1> DEFINE T == {t \in S : t > s}
<1>1. IsFiniteSet(T) /\ s \notin T
  BY RankType, Zenon
<1>2. \A t \in S : t > p <=> t > s \/ t = s
  OBVIOUS
<1>3. {t \in S : t > p} = T \cup {s}
  BY <1>2, Zenon
<1>4. Cardinality(T \cup {s}) = Cardinality(T) + 1
  BY <1>1, FS_AddElement, Zenon
<1> QED BY <1>3, <1>4, Zenon DEF RankIn

\* and different elements have different ranks
LEMMA RanksDiffer ==
  ASSUME NEW S \in SUBSET Nat, IsFiniteSet(S), NEW s \in S, NEW p \in S,
         RankIn(S, s) = RankIn(S, p)
  PROVE  s = p
<1>1. ASSUME NEW x \in S, NEW y \in S, x < y
      PROVE  RankIn(S, y) < RankIn(S, x)
  <2> DEFINE T == {t \in S : t > y}
             U == {t \in S : t > x}
  <2>1. IsFiniteSet(T) /\ IsFiniteSet(U) /\ y \notin T
    BY RankType
  <2>2. \A t \in S : t > y => t > x
    BY <1>1
  <2>3. T \cup {y} \subseteq U
    BY <1>1, <2>2, Zenon
  <2>4. Cardinality(T \cup {y}) = Cardinality(T) + 1
    BY <2>1, FS_AddElement, Zenon
  <2>5. Cardinality(T \cup {y}) <= Cardinality(U)
    BY <2>1, <2>3, FS_Subset, Zenon
  <2>6. Cardinality(T) \in Nat /\ Cardinality(U) \in Nat
    BY <2>1, FS_CardinalityType, Zenon
  <2>7. Cardinality(T) < Cardinality(U)
    BY <2>4, <2>5, <2>6
  <2> QED BY <2>7, Zenon DEF RankIn
<1>2. RankIn(S, s) \in Nat
  BY RankType, Zenon
<1>3. ~(s < p) /\ ~(p < s)
  BY <1>1, <1>2
<1> QED BY <1>3

\* the largest element has rank zero, the smallest one the last rank
LEMMA RankOfEnds ==
  ASSUME NEW S \in SUBSET Nat, IsFiniteSet(S), NEW s \in S
  PROVE  /\ (\A t \in S : t <= s) => RankIn(S, s) = 0
         /\ (\A t \in S : s <= t) => RankIn(S, s) = Cardinality(S) - 1
<1>1. ASSUME \A t \in S : t <= s PROVE RankIn(S, s) = 0
  <2>1. \A t \in S : ~(t > s)
    BY <1>1
  <2>2. {t \in S : t > s} = {}
    BY <2>1, Zenon
  <2> QED BY <2>2, FS_EmptySet, Zenon DEF RankIn
<1>2. ASSUME \A t \in S : s <= t PROVE RankIn(S, s) = Cardinality(S) - 1
  <2>1. \A t \in S : t > s <=> t # s
    BY <1>2
  <2>2. {t \in S : t > s} = S \ {s}
    BY <2>1, Zenon
  <2> QED BY <2>2, FS_RemoveElement, Zenon DEF RankIn
<1> QED BY <1>1, <1>2, Zenon

-----------------------------------------------------------------------------
(* Trees of blocks B over an origin O: the parent P of a block, the        *)
(* ancestors A of a point (itself included) and its slot S.                *)

IsTree(B, O, P, A, S) ==
  /\ O \notin B
  /\ P \in [B -> B \cup {O}] /\ S \in [B \cup {O} -> Nat]
  /\ A \in [B \cup {O} -> SUBSET (B \cup {O})]
  /\ \A b \in B : S[P[b]] < S[b] /\ A[b] = A[P[b]] \cup {b}
  /\ A[O] = {O}

\* the chain to c is ordered by slot, and contains the chains of its points
ChainOrder(c, A, S) ==
  /\ c \in A[c]
  /\ \A p \in A[c] :
       /\ S[p] <= S[c]
       /\ A[p] \subseteq A[c]
       /\ \A q \in A[c] : S[q] <= S[p] => q \in A[p]

LEMMA TreeOrder ==
  ASSUME NEW B, NEW O, NEW P, NEW A, NEW S, IsTree(B, O, P, A, S), NEW c \in B \cup {O}
  PROVE  ChainOrder(c, A, S)
<1> DEFINE Pts == B \cup {O}
           Bad == {S[x] : x \in {x \in Pts : ~ChainOrder(x, A, S)}}
<1> SUFFICES ASSUME Bad # {} PROVE FALSE
  BY Zenon
<1>0. Bad \in SUBSET Nat
  BY DEF IsTree
<1>1. PICK s \in Bad : \A t \in Bad : s <= t
  BY <1>0, Least, Zenon
<1>2. PICK x \in Pts : ~ChainOrder(x, A, S) /\ S[x] = s
  BY <1>1, Zenon
<1>3. CASE x = O
  BY <1>2, <1>3 DEF ChainOrder, IsTree
<1>4. CASE x \in B
  <2>1. /\ P[x] \in Pts /\ S[P[x]] < S[x] /\ S[P[x]] \in Nat /\ S[x] \in Nat
        /\ A[x] = A[P[x]] \cup {x} /\ A[P[x]] \subseteq Pts
    BY <1>4, Zenon DEF IsTree
  <2>2. ChainOrder(P[x], A, S)
    <3>1. ~(S[x] <= S[P[x]])
      BY <2>1
    <3>2. S[P[x]] \notin Bad
      BY <1>1, <1>2, <3>1, Zenon
    <3> QED BY <2>1, <3>2, Zenon
  <2>3. ASSUME NEW p \in A[P[x]]
        PROVE  /\ S[p] <= S[x]
               /\ A[p] \subseteq A[x]
               /\ \A q \in A[x] : S[q] <= S[p] => q \in A[p]
    <3>1. S[p] <= S[P[x]] /\ S[p] \in Nat
      BY <2>1, <2>2, Zenon DEF ChainOrder, IsTree
    <3>2. S[p] <= S[x] /\ ~(S[x] <= S[p])
      BY <2>1, <3>1
    <3> QED BY <2>1, <2>2, <3>2, Zenon DEF ChainOrder
  <2>4. S[x] <= S[x]
    BY <2>1
  <2>5. ChainOrder(x, A, S)
    BY <2>1, <2>3, <2>4, Zenon DEF ChainOrder
  <2> QED BY <2>5, <1>2, Zenon
<1> QED BY <1>2, <1>3, <1>4, Zenon

\* the points of one chain have different slots
LEMMA TreeSlotsDiffer ==
  ASSUME NEW B, NEW O, NEW P, NEW A, NEW S, IsTree(B, O, P, A, S), NEW c \in B \cup {O},
         NEW p \in A[c], NEW q \in A[c], S[p] = S[q]
  PROVE  p = q
<1>1. p \in B \cup {O} /\ q \in B \cup {O} /\ S[p] \in Nat
  BY Zenon DEF IsTree
<1>2. q \in A[p]
  BY <1>1, TreeOrder DEF ChainOrder
<1>3. CASE p = O
  BY <1>2, <1>3, Zenon DEF IsTree
<1>4. CASE p \in B
  <2>1. P[p] \in B \cup {O} /\ S[P[p]] < S[p] /\ S[P[p]] \in Nat /\ A[p] = A[P[p]] \cup {p}
    BY <1>4, Zenon DEF IsTree
  <2>2. ~(S[q] <= S[P[p]])
    BY <2>1, <1>1
  <2>3. ChainOrder(P[p], A, S)
    BY <2>1, TreeOrder, Zenon
  <2> QED BY <1>2, <2>1, <2>2, <2>3, Zenon DEF ChainOrder
<1> QED BY <1>1, <1>3, <1>4, Zenon

\* below a block, a chain goes on with its parent
LEMMA TreeParent ==
  ASSUME NEW B, NEW O, NEW P, NEW A, NEW S, IsTree(B, O, P, A, S), NEW c \in B \cup {O},
         NEW p \in A[c], p \in B
  PROVE  /\ P[p] \in A[c] /\ S[P[p]] < S[p]
         /\ \A q \in A[c] : S[q] < S[p] => S[q] <= S[P[p]] /\ q \in A[P[p]]
<1>1. /\ P[p] \in B \cup {O} /\ S[P[p]] < S[p]
      /\ A[p] = A[P[p]] \cup {p} /\ S[p] \in Nat
  BY Zenon DEF IsTree
<1>2. ChainOrder(P[p], A, S) /\ ChainOrder(c, A, S) /\ ChainOrder(p, A, S)
  BY <1>1, TreeOrder, Zenon
<1>3. P[p] \in A[c]
  BY <1>1, <1>2, Zenon DEF ChainOrder
<1>4. ASSUME NEW q \in A[c], S[q] < S[p]
      PROVE  S[q] <= S[P[p]] /\ q \in A[P[p]]
  <2>1. S[q] \in Nat /\ S[q] <= S[p] /\ q # p
    BY <1>1, <1>4 DEF IsTree
  <2>2. q \in A[P[p]]
    BY <1>1, <1>2, <2>1, Zenon DEF ChainOrder
  <2> QED BY <1>2, <2>2, Zenon DEF ChainOrder
<1> QED BY <1>1, <1>3, <1>4, Zenon
=============================================================================
