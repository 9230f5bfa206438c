--------------------------- MODULE ServicesProofs ---------------------------
(***************************************************************************)
(* Theorems about Services, for every value of its constants: what comes   *)
(* in by the channels and goes out by them, what is stored in files and in *)
(* the memory database, the skills, and the snapshots of the audit trail.  *)
(* AgentServicesProofs has the theorems about the other components.        *)
(*                                                                         *)
(* Each component has its inductive invariant, named after its instance    *)
(* (WebhooksInv, TokensInv, ...), with two lemmas: it holds at the start   *)
(* and every step of the component keeps it (WebhooksInit, WebhooksNext).  *)
(* PartStarts and PartMoves say that a behaviour of Services is one of the *)
(* component that it picked; the theorems at the end combine the three.    *)
(***************************************************************************)
EXTENDS Services, Lists, FiniteSetTheorems, SequenceTheorems, TLAPS
-----------------------------------------------------------------------------
\* Lists: what their heads, tails, parts and joins hold.
\* A list with no element twice.
Distinct(s) == \A i, j \in DOMAIN s : s[i] = s[j] => i = j

\* Whether x is in the list s.
Has(s, x) == \E i \in DOMAIN s : s[i] = x

LEMMA TailOfList ==
  ASSUME NEW S, NEW s \in Seq(S), s # <<>>
  PROVE  /\ Head(s) \in S /\ Tail(s) \in Seq(S) /\ Has(s, Head(s))
         /\ Len(Tail(s)) = Len(s) - 1
         /\ \A x : Has(Tail(s), x) => Has(s, x)
         /\ \A x : Has(s, x) => x = Head(s) \/ Has(Tail(s), x)
         /\ Distinct(s) => Distinct(Tail(s)) /\ ~Has(Tail(s), Head(s))
<1>2. Has(s, Head(s))
  BY DEF Has
<1>3. \A x : Has(Tail(s), x) => Has(s, x)
  <2> SUFFICES ASSUME NEW i \in DOMAIN Tail(s) PROVE Has(s, Tail(s)[i])
    BY DEF Has
  <2> QED BY DEF Has
<1>4. \A x : Has(s, x) => x = Head(s) \/ Has(Tail(s), x)
  <2> SUFFICES ASSUME NEW i \in DOMAIN s PROVE s[i] = Head(s) \/ Has(Tail(s), s[i])
    BY DEF Has
  <2>1. CASE i = 1
    BY <2>1
  <2>2. CASE i # 1
    <3>1. i - 1 \in DOMAIN Tail(s) /\ Tail(s)[i - 1] = s[i]
      BY <2>2
    <3> QED BY <3>1 DEF Has
  <2> QED BY <2>2
<1>5. ASSUME Distinct(s) PROVE Distinct(Tail(s)) /\ ~Has(Tail(s), Head(s))
  <2>2. Distinct(Tail(s))
    BY <1>5 DEF Distinct
  <2>3. \A i \in DOMAIN Tail(s) : Tail(s)[i] # Head(s)
    BY <1>5 DEF Distinct
  <2> QED BY <2>2, <2>3 DEF Has
<1> QED BY <1>2, <1>3, <1>4, <1>5

LEMMA LongerList ==
  ASSUME NEW S, NEW s \in Seq(S), NEW y \in S
  PROVE  /\ Append(s, y) \in Seq(S) /\ Append(s, y) # <<>>
         /\ Len(Append(s, y)) = Len(s) + 1
         /\ \A x : Has(Append(s, y), x) <=> x = y \/ Has(s, x)
         /\ Distinct(s) /\ ~Has(s, y) => Distinct(Append(s, y))
<1>1. /\ Append(s, y) \in Seq(S) /\ Append(s, y) # <<>>
      /\ Len(s) \in Nat /\ DOMAIN s = 1..Len(s)
      /\ Len(Append(s, y)) = Len(s) + 1 /\ DOMAIN Append(s, y) = 1..(Len(s) + 1)
      /\ \A i \in 1..Len(s) : Append(s, y)[i] = s[i]
      /\ Append(s, y)[Len(s) + 1] = y
  OBVIOUS
<1>4. ASSUME NEW x PROVE Has(Append(s, y), x) <=> x = y \/ Has(s, x)
  BY <1>1 DEF Has
<1>5. ASSUME Distinct(s), ~Has(s, y) PROVE Distinct(Append(s, y))
  BY <1>5 DEF Has, Distinct
<1> QED BY <1>4, <1>5

LEMMA EmptyList == /\ Distinct(<<>>)
                   /\ \A x : ~Has(<<>>, x)
                   /\ \A S : <<>> \in Seq(S)
BY DEF Distinct, Has

LEMMA PartOfList ==
  ASSUME NEW S, NEW s \in Seq(S), NEW a \in 1..(Len(s) + 1), NEW b \in 0..Len(s)
  PROVE  /\ SubSeq(s, a, b) \in Seq(S)
         /\ Len(SubSeq(s, a, b)) = IF a <= b THEN b - a + 1 ELSE 0
         /\ \A x : Has(SubSeq(s, a, b), x) <=> \E i \in a..b : s[i] = x
         /\ \A x : Has(SubSeq(s, a, b), x) => Has(s, x)
         /\ Distinct(s) => Distinct(SubSeq(s, a, b))
<1> DEFINE t == SubSeq(s, a, b)
<1>1. /\ Len(s) \in Nat /\ DOMAIN s = 1..Len(s) /\ a \in Nat /\ b \in Nat
      /\ \A i \in a..b : i \in 1..Len(s) /\ s[i] \in S
  OBVIOUS
<1>2. /\ t \in Seq(S) /\ Len(t) = IF a <= b THEN b - a + 1 ELSE 0
      /\ \A i \in 1..(b - a + 1) : t[i] = s[a + i - 1]
  BY <1>1, SubSeqProperties
<1> HIDE DEF t
<1>3. DOMAIN t = 1..(b - a + 1)
  BY <1>1, <1>2
<1>4. \A i \in DOMAIN t : a + i - 1 \in a..b /\ t[i] = s[a + i - 1]
  BY <1>1, <1>2, <1>3
<1>5. \A i \in a..b : i - a + 1 \in DOMAIN t /\ t[i - a + 1] = s[i]
  BY <1>1, <1>2, <1>3
<1>6. \A x : Has(t, x) <=> \E i \in a..b : s[i] = x
  BY <1>4, <1>5 DEF Has
<1>7. \A x : Has(t, x) => Has(s, x)
  BY <1>1, <1>6 DEF Has
<1>8. ASSUME Distinct(s) PROVE Distinct(t)
  <2> SUFFICES ASSUME NEW i \in DOMAIN t, NEW j \in DOMAIN t, t[i] = t[j] PROVE i = j
    BY DEF Distinct
  <2>1. i \in Nat /\ j \in Nat
    BY <1>1, <1>3
  <2>2. a + i - 1 = a + j - 1
    BY <1>1, <1>4, <1>8 DEF Distinct
  <2> QED BY <1>1, <2>1, <2>2
<1> QED BY <1>2, <1>6, <1>7, <1>8 DEF t

\* A list cut in two.
LEMMA SplitList ==
  ASSUME NEW S, NEW s \in Seq(S), NEW k \in 0..Len(s)
  PROVE  LET p == SubSeq(s, 1, k)
             q == SubSeq(s, k + 1, Len(s))
         IN /\ p \in Seq(S) /\ q \in Seq(S) /\ Len(p) = k
            /\ \A x : Has(s, x) <=> Has(p, x) \/ Has(q, x)
            /\ Distinct(s) => /\ Distinct(p) /\ Distinct(q)
                              /\ \A x : ~(Has(p, x) /\ Has(q, x))
<1> DEFINE p == SubSeq(s, 1, k)
           q == SubSeq(s, k + 1, Len(s))
<1>1. Len(s) \in Nat /\ k \in Nat /\ k <= Len(s) /\ DOMAIN s = 1..Len(s)
  OBVIOUS
<1>2. /\ p \in Seq(S) /\ q \in Seq(S) /\ Len(p) = k
      /\ \A x : Has(p, x) <=> \E i \in 1..k : s[i] = x
      /\ \A x : Has(q, x) <=> \E i \in (k + 1)..Len(s) : s[i] = x
      /\ Distinct(s) => Distinct(p) /\ Distinct(q)
  <2>2. /\ p \in Seq(S) /\ Len(p) = IF 1 <= k THEN k - 1 + 1 ELSE 0
        /\ \A x : Has(p, x) <=> \E i \in 1..k : s[i] = x
        /\ Distinct(s) => Distinct(p)
    BY PartOfList
  <2>3. /\ q \in Seq(S)
        /\ \A x : Has(q, x) <=> \E i \in (k + 1)..Len(s) : s[i] = x
        /\ Distinct(s) => Distinct(q)
    BY PartOfList
  <2> QED BY <2>2, <2>3
<1> HIDE DEF p, q
<1>3. \A i : i \in 1..Len(s) <=> i \in 1..k \/ i \in (k + 1)..Len(s)
  OBVIOUS
<1>4. \A x : Has(s, x) <=> Has(p, x) \/ Has(q, x)
  BY <1>1, <1>2, <1>3 DEF Has
<1>5. ASSUME Distinct(s), NEW x, Has(p, x), Has(q, x) PROVE FALSE
  <2>1. PICK i \in 1..k, j \in (k + 1)..Len(s) : s[i] = x /\ s[j] = x
    BY <1>2, <1>5
  <2>2. i = j
    BY <1>5, <2>1 DEF Distinct
  <2> QED BY <2>2
<1> QED BY <1>2, <1>4, <1>5 DEF p, q

LEMMA JoinedLists ==
  ASSUME NEW S, NEW s \in Seq(S), NEW t \in Seq(S)
  PROVE  /\ s \o t \in Seq(S)
         /\ \A x : Has(s \o t, x) <=> Has(s, x) \/ Has(t, x)
<1>2. ASSUME NEW x, Has(s \o t, x) PROVE Has(s, x) \/ Has(t, x)
  <2>1. PICK i \in 1..(Len(s) + Len(t)) : (s \o t)[i] = x
    BY <1>2 DEF Has
  <2>2. CASE i <= Len(s)
    BY <2>1, <2>2 DEF Has
  <2>3. CASE ~(i <= Len(s))
    <3> QED BY <2>1, <2>3 DEF Has
  <2> QED BY <2>2, <2>3
<1>3. ASSUME NEW x, Has(s, x) PROVE Has(s \o t, x)
  <2>1. PICK i \in 1..Len(s) : s[i] = x
    BY <1>3 DEF Has
  <2> QED BY <2>1 DEF Has
<1>4. ASSUME NEW x, Has(t, x) PROVE Has(s \o t, x)
  <2>1. PICK i \in 1..Len(t) : t[i] = x
    BY <1>4 DEF Has
  <2>2. /\ i + Len(s) \in 1..(Len(s) + Len(t)) /\ ~(i + Len(s) <= Len(s))
        /\ i + Len(s) - Len(s) = i
    OBVIOUS
  <2> QED BY <2>1, <2>2 DEF Has
<1> QED BY <1>2, <1>3, <1>4
-----------------------------------------------------------------------------
\* Lists: the elements at certain places, and least and greatest places.
\* Places in a list are finitely many.
LEMMA PlacesFinite ==
  ASSUME NEW n \in Nat, NEW I \in SUBSET (1..n)
  PROVE  IsFiniteSet(I) /\ Cardinality(I) \in 0..n
<1>1. IsFiniteSet(1..n) /\ Cardinality(1..n) = n
  BY FS_Interval
<1>2. IsFiniteSet(I) /\ Cardinality(I) <= n
  BY <1>1, FS_Subset
<1> QED
  BY <1>2, FS_CardinalityType

\* The rank of one of the places is a number up to how many there are.
LEMMA RankInRange ==
  ASSUME NEW n \in Nat, NEW I \in SUBSET (1..n), NEW i \in I
  PROVE  Rank(I, i) \in 1..Cardinality(I)
<1> DEFINE J == {j \in I : j <= i}
<1>1. IsFiniteSet(I) /\ Cardinality(I) \in Nat
  BY PlacesFinite
<1>2. IsFiniteSet(J) /\ Cardinality(J) <= Cardinality(I) /\ Cardinality(J) \in Nat
  <2> HIDE DEF J
  <2>1. J \in SUBSET I
    BY DEF J
  <2> QED BY <1>1, <2>1, FS_Subset, FS_CardinalityType
<1>3. Cardinality(J) # 0
  <2>1. i \in J
    OBVIOUS
  <2> HIDE DEF J
  <2> QED BY <1>2, <2>1, FS_EmptySet
<1> QED
  BY <1>2, <1>3 DEF Rank

\* A later place has a greater rank.
LEMMA RankMonotone ==
  ASSUME NEW n \in Nat, NEW I \in SUBSET (1..n), NEW i \in I, NEW k \in I, i < k
  PROVE  Rank(I, i) < Rank(I, k)
<1> DEFINE J == {j \in I : j <= i}
           K == {j \in I : j <= k}
<1>1. IsFiniteSet(I)
  BY PlacesFinite
<1>2. J \in SUBSET K /\ J # K /\ K \in SUBSET I /\ J \in SUBSET I
  <2>2. \A j \in I : j <= i => j <= k
    <3> QED OBVIOUS
  <2>3. J \in SUBSET K /\ K \in SUBSET I /\ J \in SUBSET I
    BY <2>2
  <2> QED BY <2>3
<1> HIDE DEF J, K
<1>3. IsFiniteSet(K) /\ IsFiniteSet(J)
  BY <1>1, <1>2, FS_Subset
<1>4. Cardinality(J) \in Nat /\ Cardinality(K) \in Nat
  BY <1>3, FS_CardinalityType
<1>5. Cardinality(J) <= Cardinality(K) /\ Cardinality(J) # Cardinality(K)
  BY <1>2, <1>3, FS_Subset
<1> QED
  BY <1>4, <1>5 DEF J, K, Rank

\* Each rank up to the number of places belongs to one of them: were k missing, two
\* places would share a rank.
LEMMA RankOnto ==
  ASSUME NEW n \in Nat, NEW I \in SUBSET (1..n), NEW k \in 1..Cardinality(I)
  PROVE  \E i \in I : Rank(I, i) = k
<1> SUFFICES ASSUME \A i \in I : Rank(I, i) # k PROVE FALSE
  OBVIOUS
<1> DEFINE T == (1..Cardinality(I)) \ {k}
           f == [i \in I |-> Rank(I, i)]
<1>1. IsFiniteSet(I) /\ Cardinality(I) \in Nat
  BY PlacesFinite
<1>2. f \in [I -> T]
  BY RankInRange
<1>3. IsFiniteSet(1..Cardinality(I)) /\ Cardinality(1..Cardinality(I)) = Cardinality(I)
  BY <1>1, FS_Interval
<1>4. IsFiniteSet(T) /\ Cardinality(T) = Cardinality(I) - 1
  BY <1>3, FS_RemoveElement
<1>5. Cardinality(T) < Cardinality(I)
  BY <1>1, <1>4
<1>6. \A x, y \in I : x # y => f[x] # f[y]
  <2> SUFFICES ASSUME NEW x \in I, NEW y \in I, x < y PROVE Rank(I, x) # Rank(I, y)
    OBVIOUS
  <2>1. Rank(I, x) \in 1..Cardinality(I) /\ Rank(I, y) \in 1..Cardinality(I)
    BY RankInRange
  <2>2. Rank(I, x) < Rank(I, y)
    BY RankMonotone
  <2> QED BY <2>1, <2>2
<1> HIDE DEF T, f
<1>7. \E x, y \in I : x # y /\ f[x] = f[y]
  BY <1>1, <1>2, <1>4, <1>5, FS_PigeonHole
<1> QED
  BY <1>6, <1>7

\* Nth is the inverse of Rank, and grows.
LEMMA NthPlace ==
  ASSUME NEW n \in Nat, NEW I \in SUBSET (1..n), NEW k \in 1..Cardinality(I)
  PROVE  Nth(I, k) \in I /\ Rank(I, Nth(I, k)) = k
BY RankOnto DEF Nth

LEMMA NthOfRank ==
  ASSUME NEW n \in Nat, NEW I \in SUBSET (1..n), NEW i \in I
  PROVE  Nth(I, Rank(I, i)) = i
<1> DEFINE m == Nth(I, Rank(I, i))
<1>2. Rank(I, i) \in 1..Cardinality(I)
  BY RankInRange
<1>3. m \in I /\ Rank(I, m) = Rank(I, i)
  BY <1>2, NthPlace
<1> HIDE DEF m
<1>4. (m < i => Rank(I, m) < Rank(I, i)) /\ (i < m => Rank(I, i) < Rank(I, m))
  BY <1>3, RankMonotone
<1>5. m = i
  BY <1>2, <1>3, <1>4
<1> QED
  BY <1>5 DEF m

LEMMA NthMonotone ==
  ASSUME NEW n \in Nat, NEW I \in SUBSET (1..n),
         NEW j \in 1..Cardinality(I), NEW k \in 1..Cardinality(I), j < k
  PROVE  Nth(I, j) < Nth(I, k)
<1> DEFINE a == Nth(I, j)
           b == Nth(I, k)
<1>1. a \in I /\ Rank(I, a) = j /\ b \in I /\ Rank(I, b) = k
  BY NthPlace
<1> HIDE DEF a, b
<1>3. b < a => Rank(I, b) < Rank(I, a)
  BY <1>1, RankMonotone
<1>4. a < b
  BY <1>1, <1>3
<1> QED
  BY <1>4 DEF a, b

\* What is picked of a list is a list of its elements, as long as there are places.
LEMMA PickedList ==
  ASSUME NEW S, NEW s \in Seq(S), NEW I \in SUBSET (DOMAIN s)
  PROVE  /\ Picked(s, I) \in Seq(S)
         /\ Len(Picked(s, I)) = Cardinality(I)
         /\ DOMAIN Picked(s, I) = 1..Cardinality(I)
         /\ Cardinality(I) \in 0..Len(s)
         /\ \A k \in 1..Cardinality(I) : Nth(I, k) \in I
            /\ Picked(s, I)[k] = s[Nth(I, k)]
<1>1. Len(s) \in Nat /\ DOMAIN s = 1..Len(s)
  OBVIOUS
<1>2. Cardinality(I) \in 0..Len(s)
  BY PlacesFinite
<1>3. \A k \in 1..Cardinality(I) : Nth(I, k) \in I
  BY <1>1, NthPlace
<1> QED
  BY <1>2, <1>3 DEF Picked

\* What was at one of the places is picked.
LEMMA PickedHas ==
  ASSUME NEW S, NEW s \in Seq(S), NEW I \in SUBSET (DOMAIN s), NEW i \in I
  PROVE  Rank(I, i) \in 1..Cardinality(I) /\ Picked(s, I)[Rank(I, i)] = s[i]
<1>1. Len(s) \in Nat /\ DOMAIN s = 1..Len(s)
  OBVIOUS
<1>2. Rank(I, i) \in 1..Cardinality(I)
  BY <1>1, RankInRange
<1>3. Nth(I, Rank(I, i)) = i
  BY <1>1, NthOfRank
<1> QED
  BY <1>2, <1>3 DEF Picked

\* Without an element the list is shorter by one.
LEMMA WithoutIsShorter ==
  ASSUME NEW S, NEW s \in Seq(S), NEW i \in DOMAIN s
  PROVE  Without(s, i) \in Seq(S) /\ Len(Without(s, i)) = Len(s) - 1
<1>1. Len(s) \in Nat /\ DOMAIN s = 1..Len(s)
  OBVIOUS
<1> DEFINE n == Len(s)
<1> HIDE DEF n
<1>2. n \in Nat /\ i \in 1..n
  BY DEF n
<1>3. IsFiniteSet(1..n) /\ Cardinality(1..n) = n
  BY <1>2, FS_Interval
<1>4. Cardinality((1..n) \ {i}) = n - 1
  BY <1>2, <1>3, FS_RemoveElement
<1> QED
  BY <1>1, <1>4, PickedList, Zenon DEF Without, n

\* Numbers that have a bound have a greatest.
LEMMA Greatest ==
  ASSUME NEW n \in Nat, NEW H \in SUBSET (1..n), H # {}
  PROVE  \E k \in H : \A j \in H : j <= k
<1>1. Cardinality(H) \in Nat /\ Cardinality(H) # 0
  <2>1. IsFiniteSet(H) /\ Cardinality(H) \in 0..n
    BY PlacesFinite
  <2>2. Cardinality(H) # 0
    BY <2>1, FS_EmptySet
  <2> QED BY <2>1, <2>2
<1>2. Cardinality(H) \in 1..Cardinality(H)
  BY <1>1
<1>3. PICK k \in H : Rank(H, k) = Cardinality(H)
  BY <1>2, RankOnto
<1>4. ASSUME NEW j \in H, ~(j <= k) PROVE FALSE
  <2>1. k < j
    BY <1>4
  <2>2. Rank(H, k) < Rank(H, j)
    BY <2>1, RankMonotone
  <2>3. Rank(H, j) \in 1..Cardinality(H)
    BY RankInRange
  <2> QED BY <1>1, <1>3, <2>2, <2>3
<1> QED BY <1>4

\* Numbers that have a bound have a least.
LEMMA Least ==
  ASSUME NEW n \in Nat, NEW H \in SUBSET (1..n), H # {}
  PROVE  \E k \in H : \A j \in H : k <= j
<1>1. Cardinality(H) \in Nat /\ Cardinality(H) # 0
  <2>1. IsFiniteSet(H) /\ Cardinality(H) \in 0..n
    BY PlacesFinite
  <2>2. Cardinality(H) # 0
    BY <2>1, FS_EmptySet
  <2> QED BY <2>1, <2>2
<1>2. 1 \in 1..Cardinality(H)
  BY <1>1
<1>3. PICK k \in H : Rank(H, k) = 1
  BY <1>2, RankOnto
<1>4. ASSUME NEW j \in H, ~(k <= j) PROVE FALSE
  <2>1. j < k
    BY <1>4
  <2>2. Rank(H, j) < Rank(H, k)
    BY <2>1, RankMonotone
  <2>3. Rank(H, j) \in 1..Cardinality(H)
    BY RankInRange
  <2> QED BY <1>3, <2>2, <2>3
<1> QED BY <1>4

\* As many of what is picked have a property as of the places had it.
LEMMA RanksCount ==
  ASSUME NEW n \in Nat, NEW I \in SUBSET (1..n), NEW C \in SUBSET I,
         NEW D \in SUBSET (1..Cardinality(I)), \A i \in C : Rank(I, i) \in D
  PROVE  Cardinality(C) <= Cardinality(D) /\ Cardinality(C) \in Nat
         /\ Cardinality(D) \in Nat
<1> DEFINE f == [i \in C |-> Rank(I, i)]
<1>1. IsFiniteSet(I) /\ Cardinality(I) \in Nat
  BY PlacesFinite
<1>2. IsFiniteSet(C) /\ IsFiniteSet(D) /\ Cardinality(C) \in Nat
      /\ Cardinality(D) \in Nat
  <2>1. IsFiniteSet(1..Cardinality(I))
    BY <1>1, FS_Interval
  <2>2. IsFiniteSet(C) /\ IsFiniteSet(D)
    BY <1>1, <2>1, FS_Subset
  <2> QED BY <2>2, FS_CardinalityType
<1>3. f \in [C -> D]
  OBVIOUS
<1>4. \A x, y \in C : f[x] = f[y] => x = y
  <2> SUFFICES ASSUME NEW x \in C, NEW y \in C, Rank(I, x) = Rank(I, y) PROVE x = y
    OBVIOUS
  <2>1. Nth(I, Rank(I, x)) = x /\ Nth(I, Rank(I, y)) = y
    BY NthOfRank
  <2> QED BY <2>1
<1> HIDE DEF f
<1>5. f \in Injection(C, D)
  BY <1>3, <1>4 DEF Injection, IsInjective
<1> QED BY <1>2, <1>5, FS_Injection
-----------------------------------------------------------------------------
\* Lists: what joining, mapping and picking make of lists in a row.
\* The first elements of a list.
LEMMA Prefixes ==
  ASSUME NEW S, NEW s \in Seq(S)
  PROVE  /\ SubSeq(s, 1, 0) = <<>> /\ SubSeq(s, 1, Len(s)) = s
         /\ \A k \in 0..Len(s) : /\ SubSeq(s, 1, k) \in Seq(S)
                                 /\ Len(SubSeq(s, 1, k)) = k
                                 /\ \A i \in 1..k : SubSeq(s, 1, k)[i] = s[i]
         /\ \A k \in 1..Len(s) : /\ s[k] \in S
                                 /\ SubSeq(s, 1, k) = Append(SubSeq(s, 1, k - 1), s[k])
<1> QED OBVIOUS

\* What the recursion of Joined computes: the join of the first i of the lists, for
\* each i up to n.
IsJoin(f, ss, n) ==
    f = [i \in 0..n |-> IF i = 0 THEN <<>> ELSE f[i - 1] \o ss[i]]

LEMMA JoinExists ==
  ASSUME NEW ss, NEW n \in Nat
  PROVE  \E f : IsJoin(f, ss, n)
<1> DEFINE H == {k \in 1..n : ~\E f : IsJoin(f, ss, k)}
<1>1. \E f : IsJoin(f, ss, 0)
  <2> DEFINE g == [i \in 0..0 |-> <<>>]
  <2>1. g = [i \in 0..0 |-> IF i = 0 THEN <<>> ELSE g[i - 1] \o ss[i]]
    OBVIOUS
  <2> QED BY <2>1 DEF IsJoin
<1>2. ASSUME H # {} PROVE FALSE
  <2>0. H \in SUBSET (1..n)
    OBVIOUS
  <2> HIDE DEF H
  <2>1. PICK k \in H : \A j \in H : k <= j
    BY <1>2, <2>0, Least
  <2>2. k \in 1..n /\ k - 1 \in Nat /\ k - 1 \notin H /\ k \in Nat
    BY <2>0, <2>1
  <2>4. PICK g : IsJoin(g, ss, k - 1)
    BY <1>1, <2>2 DEF H
  <2>5. PICK f : f = [i \in 0..k |-> IF i = k THEN g[k - 1] \o ss[k] ELSE g[i]]
    OBVIOUS
  <2>6. \A i \in 0..(k - 1) : g[i] = IF i = 0 THEN <<>> ELSE g[i - 1] \o ss[i]
    BY <2>4 DEF IsJoin
  <2>7. ASSUME NEW i \in 0..k
        PROVE  f[i] = IF i = 0 THEN <<>> ELSE f[i - 1] \o ss[i]
    <3>1. CASE i = k
      <4>1. f[i] = g[k - 1] \o ss[k] /\ f[k - 1] = g[k - 1] /\ i # 0
        BY <2>5, <3>1
      <4> QED BY <3>1, <4>1
    <3>2. CASE i # k
      <4>1. i \in 0..(k - 1) /\ f[i] = g[i]
        BY <2>2, <2>5
      <4>2. i # 0 => f[i - 1] = g[i - 1]
        BY <2>2, <2>5
      <4> QED BY <2>6, <4>1, <4>2
    <3> QED BY <3>1, <3>2
  <2>8. f = [i \in 0..k |-> f[i]]
    BY <2>5
  <2>9. IsJoin(f, ss, k)
    BY <2>7, <2>8 DEF IsJoin
  <2> QED BY <2>9 DEF H
<1> QED BY <1>1, <1>2

\* It depends on the lists that are joined alone.
LEMMA JoinUnique ==
  ASSUME NEW f, NEW g, NEW ss, NEW tt, NEW n \in Nat, NEW m \in Nat, NEW k \in Nat,
         IsJoin(f, ss, n), IsJoin(g, tt, m), k <= n, k <= m,
         \A i \in 1..k : ss[i] = tt[i]
  PROVE  f[k] = g[k]
<1> DEFINE H == {j \in 1..k : f[j] # g[j]}
<1>1. /\ \A i \in 0..k : f[i] = IF i = 0 THEN <<>> ELSE f[i - 1] \o ss[i]
      /\ \A i \in 0..k : g[i] = IF i = 0 THEN <<>> ELSE g[i - 1] \o tt[i]
  BY DEF IsJoin
<1>2. ASSUME H # {} PROVE FALSE
  <2>0. H \in SUBSET (1..k)
    OBVIOUS
  <2> HIDE DEF H
  <2>1. PICK j \in H : \A i \in H : j <= i
    BY <1>2, <2>0, Least
  <2>2. j \in 1..k /\ j - 1 \notin H /\ j - 1 \in 0..k /\ j \in 0..k /\ j # 0
    BY <2>0, <2>1
  <2>3. f[j - 1] = g[j - 1]
    <3>1. CASE j - 1 = 0
      BY <1>1, <3>1
    <3>2. CASE j - 1 # 0
      BY <2>2, <3>2 DEF H
    <3> QED BY <3>1, <3>2
  <2>4. f[j] = f[j - 1] \o ss[j] /\ g[j] = g[j - 1] \o tt[j] /\ ss[j] = tt[j]
    BY <1>1, <2>2
  <2> QED BY <2>3, <2>4 DEF H
<1>3. CASE k = 0
  BY <1>1, <1>3
<1>4. CASE k # 0
  BY <1>2, <1>4
<1> QED BY <1>3, <1>4

LEMMA JoinedRuns ==
  ASSUME NEW ss, Len(ss) \in Nat
  PROVE  \E f : IsJoin(f, ss, Len(ss)) /\ Joined(ss) = f[Len(ss)]
<1> DEFINE f == CHOOSE f : f = [i \in 0..Len(ss) |-> IF i = 0 THEN <<>>
                                                     ELSE f[i - 1] \o ss[i]]
<1>1. IsJoin(f, ss, Len(ss))
  BY JoinExists, Zenon DEF IsJoin
<1>2. Joined(ss) = f[Len(ss)]
  BY DEF Joined
<1> QED BY <1>1, <1>2, Zenon

\* One list more is joined at the end.
LEMMA JoinedAppend ==
  ASSUME NEW S, NEW ss \in Seq(S), NEW s \in S
  PROVE  Joined(Append(ss, s)) = Joined(ss) \o s
<1> DEFINE tt == Append(ss, s)
           n == Len(ss)
<1>1. /\ n \in Nat /\ Len(tt) = n + 1 /\ tt[n + 1] = s
      /\ \A i \in 1..n : tt[i] = ss[i]
  OBVIOUS
<1> HIDE DEF tt, n
<1>2. PICK f : IsJoin(f, ss, n) /\ Joined(ss) = f[n]
  BY JoinedRuns DEF n
<1>3. PICK g : IsJoin(g, tt, n + 1) /\ Joined(tt) = g[n + 1]
  BY <1>1, JoinedRuns
<1>4. g[n + 1] = g[n] \o tt[n + 1]
  <2>1. PICK k : k = n + 1
    OBVIOUS
  <2>2. k \in 0..k /\ k # 0 /\ k - 1 = n
    BY <1>1, <2>1
  <2>3. \A i \in 0..k : g[i] = IF i = 0 THEN <<>> ELSE g[i - 1] \o tt[i]
    BY <1>3, <2>1 DEF IsJoin
  <2>4. g[k] = g[k - 1] \o tt[k]
    BY <2>2, <2>3
  <2> QED BY <2>1, <2>2, <2>4
<1>5. f[n] = g[n]
  <2> QED BY <1>1, <1>2, <1>3, JoinUnique
<1> QED BY <1>1, <1>2, <1>3, <1>4, <1>5 DEF tt

LEMMA JoinedEmpty == Joined(<<>>) = <<>>
<1>2. PICK f : IsJoin(f, <<>>, 0) /\ Joined(<<>>) = f[0]
  BY JoinedRuns
<1>3. f[0] = <<>>
  BY <1>2 DEF IsJoin
<1> QED BY <1>2, <1>3
\* A list and another one that follows it.
Concat(s, t, r) == r = s \o t

LEMMA Elements ==
  ASSUME NEW S, NEW s \in Seq(S)
  PROVE  Len(s) \in Nat /\ DOMAIN s = 1..Len(s) /\ \A i \in DOMAIN s : s[i] \in S
OBVIOUS

LEMMA MoreElements ==
  ASSUME NEW S, NEW T, S \subseteq T, NEW s \in Seq(S)
  PROVE  s \in Seq(T)
OBVIOUS

LEMMA ConcatList ==
  ASSUME NEW S, NEW s \in Seq(S), NEW t \in Seq(S)
  PROVE  s \o t \in Seq(S) /\ s \o <<>> = s /\ <<>> \o s = s /\ <<>> \in Seq(S)
OBVIOUS

LEMMA ConcatAppend ==
  ASSUME NEW S, NEW s \in Seq(S), NEW t \in Seq(S), NEW x \in S
  PROVE  s \o Append(t, x) = Append(s \o t, x) /\ s \o <<x>> = Append(s, x)
OBVIOUS

LEMMA JoinedList ==
  ASSUME NEW T, NEW ss \in Seq(Seq(T))
  PROVE  Joined(ss) \in Seq(T)
<1> DEFINE n == Len(ss)
           p(k) == SubSeq(ss, 1, k)
           H == {k \in 1..n : Joined(p(k)) \notin Seq(T)}
<1>1. /\ n \in Nat /\ p(0) = <<>> /\ p(n) = ss
      /\ \A k \in 0..n : p(k) \in Seq(Seq(T))
      /\ \A k \in 1..n : ss[k] \in Seq(T) /\ p(k) = Append(p(k - 1), ss[k])
  OBVIOUS
<1> HIDE DEF n, p
<1>2. ASSUME H # {} PROVE FALSE
  <2>0. H \in SUBSET (1..n)
    OBVIOUS
  <2> HIDE DEF H
  <2>1. PICK k \in H : \A j \in H : k <= j
    BY <1>1, <1>2, <2>0, Least
  <2>2. k \in 1..n /\ k - 1 \notin H /\ k - 1 \in 0..n /\ (k - 1 = 0 \/ k - 1 \in 1..n)
    BY <1>1, <2>0, <2>1
  <2>3. Joined(p(k - 1)) \in Seq(T)
    BY <1>1, <2>2, JoinedEmpty DEF H
  <2>4. p(k - 1) \in Seq(Seq(T)) /\ ss[k] \in Seq(T) /\ p(k) = Append(p(k - 1), ss[k])
    BY <1>1, <2>2
  <2>5. Joined(p(k)) = Joined(p(k - 1)) \o ss[k]
    BY <2>4, JoinedAppend
  <2>6. PICK u \in Seq(T), x \in Seq(T) : u = Joined(p(k - 1)) /\ x = ss[k]
    BY <2>3, <2>4
  <2>8. Joined(p(k)) \in Seq(T)
    BY <2>5, <2>6
  <2> QED BY <2>8 DEF H
<1>3. n = 0 \/ n \in 1..n
  BY <1>1
<1>4. <<>> \in Seq(T)
  OBVIOUS
<1> QED BY <1>1, <1>2, <1>3, <1>4, JoinedEmpty

LEMMA ConcatThrice ==
  ASSUME NEW T, NEW a \in Seq(T), NEW b \in Seq(T), NEW c \in Seq(T)
  PROVE  Concat(a, b \o c, (a \o b) \o c)
<1> QED BY DEF Concat

\* Joining is the same in two pieces.
LEMMA JoinedConcat ==
  ASSUME NEW T, NEW ss \in Seq(Seq(T)), NEW tt \in Seq(Seq(T))
  PROVE  Concat(Joined(ss), Joined(tt), Joined(ss \o tt))
<1> DEFINE n == Len(tt)
           p(k) == SubSeq(tt, 1, k)
           H == {k \in 1..n : Joined(ss \o p(k)) # Joined(ss) \o Joined(p(k))}
<1>1. /\ n \in Nat /\ p(0) = <<>> /\ p(n) = tt
      /\ \A k \in 0..n : p(k) \in Seq(Seq(T))
      /\ \A k \in 1..n : tt[k] \in Seq(T) /\ p(k) = Append(p(k - 1), tt[k])
  BY Prefixes
<1> HIDE DEF n, p
<1>0. Joined(ss) \in Seq(T) /\ ss \o <<>> = ss /\ Joined(ss) \o <<>> = Joined(ss)
  BY JoinedList
<1>2. ASSUME H # {} PROVE FALSE
  <2>0. H \in SUBSET (1..n)
    OBVIOUS
  <2> HIDE DEF H
  <2>1. PICK k \in H : \A j \in H : k <= j
    BY <1>1, <1>2, <2>0, Least
  <2>2. k \in 1..n /\ k - 1 \notin H /\ k - 1 \in 0..n /\ (k - 1 = 0 \/ k - 1 \in 1..n)
    BY <1>1, <2>0, <2>1
  <2>3. PICK u \in Seq(Seq(T)), x \in Seq(T) : u = p(k - 1) /\ x = tt[k]
    BY <1>1, <2>2
  <2>4. Joined(ss \o u) = Joined(ss) \o Joined(u)
    <3>1. CASE k - 1 = 0
      BY <1>0, <1>1, <2>3, <3>1, JoinedEmpty
    <3>2. CASE k - 1 \in 1..n
      BY <2>2, <2>3, <3>2 DEF H
    <3> QED BY <2>2, <3>1, <3>2
  <2>4a. PICK L : L = Seq(T)
    OBVIOUS
  <2>4b. ss \in Seq(L) /\ u \in Seq(L) /\ x \in L
    BY <2>4a
  <2>5. p(k) = Append(u, x) /\ ss \o u \in Seq(Seq(T))
        /\ ss \o Append(u, x) = Append(ss \o u, x)
    <3>1. ss \o u \in Seq(L) /\ ss \o Append(u, x) = Append(ss \o u, x)
      BY <2>4b, ConcatList, ConcatAppend, SMTT(20)
    <3> QED BY <1>1, <2>2, <2>3, <2>4a, <3>1
  <2>6. /\ Joined(Append(u, x)) = Joined(u) \o x
        /\ Joined(Append(ss \o u, x)) = Joined(ss \o u) \o x
    BY <2>5, JoinedAppend
  <2>7. Joined(u) \in Seq(T)
    BY JoinedList
  <2>8. (Joined(ss) \o Joined(u)) \o x = Joined(ss) \o (Joined(u) \o x)
    <3>1. Concat(Joined(ss), Joined(u) \o x, (Joined(ss) \o Joined(u)) \o x)
      BY <1>0, <2>7, ConcatThrice, Zenon
    <3> QED BY <3>1 DEF Concat
  <2>9. Joined(ss \o p(k)) = Joined(ss) \o Joined(p(k))
    BY <2>4, <2>5, <2>6, <2>8
  <2> QED BY <2>1, <2>9 DEF H
<1>3. n = 0 \/ n \in 1..n
  BY <1>1
<1> QED BY <1>0, <1>1, <1>2, <1>3, JoinedEmpty DEF Concat

\* Lists that are empty, and lists of one element.
LEMMA JoinedEmpties ==
  ASSUME NEW ss \in Seq({<<>>})
  PROVE  Joined(ss) = <<>>
<1> DEFINE n == Len(ss)
           p(k) == SubSeq(ss, 1, k)
           H == {k \in 1..n : Joined(p(k)) # <<>>}
<1>0. PICK E : E = {<<>>} /\ ss \in Seq(E)
  OBVIOUS
<1>1. /\ n \in Nat /\ p(0) = <<>> /\ p(n) = ss
      /\ \A k \in 0..n : p(k) \in Seq(E)
      /\ \A k \in 1..n : ss[k] \in E /\ p(k) = Append(p(k - 1), ss[k])
  BY <1>0
<1> HIDE DEF n, p
<1>2. ASSUME H # {} PROVE FALSE
  <2>0. H \in SUBSET (1..n)
    OBVIOUS
  <2> HIDE DEF H
  <2>1. PICK k \in H : \A j \in H : k <= j
    BY <1>1, <1>2, <2>0, Least
  <2>2. k \in 1..n /\ k - 1 \notin H /\ k - 1 \in 0..n /\ (k - 1 = 0 \/ k - 1 \in 1..n)
    BY <1>1, <2>0, <2>1
  <2>3. Joined(p(k - 1)) = <<>>
    BY <1>1, <2>2, JoinedEmpty DEF H
  <2>4. /\ p(k - 1) \in Seq(E) /\ ss[k] \in E /\ ss[k] = <<>>
        /\ p(k) = Append(p(k - 1), ss[k])
    BY <1>0, <1>1, <2>2
  <2>5. Joined(p(k)) = Joined(p(k - 1)) \o ss[k]
    BY <2>4, JoinedAppend
  <2>6. <<>> \o <<>> = <<>>
    OBVIOUS
  <2> QED BY <2>3, <2>4, <2>5, <2>6 DEF H
<1>3. n = 0 \/ n \in 1..n
  BY <1>1
<1> QED BY <1>1, <1>2, <1>3, JoinedEmpty

LEMMA JoinedSingles ==
  ASSUME NEW T, NEW s \in Seq(T)
  PROVE  Joined([i \in DOMAIN s |-> <<s[i]>>]) = s
<1> DEFINE n == Len(s)
           ss == [i \in 1..n |-> <<s[i]>>]
           p(k) == SubSeq(ss, 1, k)
           q(k) == SubSeq(s, 1, k)
           H == {k \in 1..n : Joined(p(k)) # q(k)}
<1>0. /\ n \in Nat /\ DOMAIN s = 1..n /\ ss \in Seq(Seq(T)) /\ Len(ss) = n
      /\ \A i \in 1..n : ss[i] = <<s[i]>>
  OBVIOUS
<1> HIDE DEF n, ss
<1>1. /\ p(0) = <<>> /\ p(n) = ss
      /\ \A k \in 0..n : p(k) \in Seq(Seq(T))
      /\ \A k \in 1..n : ss[k] \in Seq(T) /\ p(k) = Append(p(k - 1), ss[k])
  BY <1>0, Prefixes
<1>2. /\ q(0) = <<>> /\ q(n) = s
      /\ \A k \in 0..n : q(k) \in Seq(T)
      /\ \A k \in 1..n : s[k] \in T /\ q(k) = Append(q(k - 1), s[k])
  BY Prefixes DEF n
<1> HIDE DEF p, q
<1>3. ASSUME H # {} PROVE FALSE
  <2>0. H \in SUBSET (1..n)
    OBVIOUS
  <2> HIDE DEF H
  <2>1. PICK k \in H : \A j \in H : k <= j
    BY <1>0, <1>3, <2>0, Least
  <2>2. k \in 1..n /\ k - 1 \notin H /\ k - 1 \in 0..n /\ (k - 1 = 0 \/ k - 1 \in 1..n)
    BY <1>0, <2>0, <2>1
  <2>3. Joined(p(k - 1)) = q(k - 1)
    BY <1>1, <1>2, <2>2, JoinedEmpty DEF H
  <2>4. p(k - 1) \in Seq(Seq(T)) /\ ss[k] \in Seq(T) /\ p(k) = Append(p(k - 1), ss[k])
    BY <1>1, <2>2
  <2>5. Joined(p(k)) = Joined(p(k - 1)) \o ss[k]
    BY <2>4, JoinedAppend
  <2>6. q(k - 1) \in Seq(T) /\ s[k] \in T /\ q(k) = Append(q(k - 1), s[k])
    BY <1>2, <2>2
  <2>7. q(k - 1) \o <<s[k]>> = Append(q(k - 1), s[k])
    BY <2>6
  <2>8. Joined(p(k)) = q(k)
    BY <1>0, <2>2, <2>3, <2>5, <2>6, <2>7
  <2> QED BY <2>1, <2>8 DEF H
<1>4. n = 0 \/ n \in 1..n
  BY <1>0
<1>5. ss = [i \in DOMAIN s |-> <<s[i]>>]
  BY <1>0 DEF ss
<1> QED BY <1>1, <1>2, <1>3, <1>4, <1>5, JoinedEmpty
LEMMA AppendIs ==
  ASSUME NEW S, NEW s \in Seq(S), NEW x \in S, NEW n \in Nat, n = Len(s) + 1
  PROVE  Append(s, x) = [k \in 1..n |-> IF k = n THEN x ELSE s[k]]
<1>1. PICK t : t = Append(s, x)
  OBVIOUS
<1>2. t \in Seq(S) /\ Len(t) = n
  BY <1>1
<1>3. \A k \in 1..n : t[k] = IF k = n THEN x ELSE s[k]
  BY <1>1
<1>4. t = [k \in 1..n |-> t[k]]
  BY <1>2
<1> QED BY <1>1, <1>3, <1>4

\* What is picked of a list that goes on where another one ends.
GoesOn(s, t, n) == \A i \in 1..n : t[i] = s[i]

LEMMA PickedBefore ==
  ASSUME NEW n \in Nat, NEW I \in SUBSET (1..n), NEW s, NEW t, GoesOn(s, t, n)
  PROVE  Picked(t, I) = Picked(s, I)
<1>1. \A k \in 1..Cardinality(I) : Nth(I, k) \in I
  BY NthPlace
<1> QED BY <1>1 DEF Picked, GoesOn

LEMMA PickedAfter ==
  ASSUME NEW n \in Nat, NEW I \in SUBSET (1..n), NEW s, NEW t, GoesOn(s, t, n)
  PROVE  Picked(t, I \cup {n + 1}) = Append(Picked(s, I), t[n + 1])
<1>1. PICK c, K : c = Cardinality(I) /\ K = I \cup {n + 1}
  OBVIOUS
<1>2. IsFiniteSet(I) /\ c \in Nat /\ n + 1 \in Nat
  BY <1>1, PlacesFinite
<1>3. n + 1 \notin I /\ K \in SUBSET (1..(n + 1)) /\ I \in SUBSET (1..(n + 1))
  BY <1>1
<1>4. Cardinality(K) = c + 1
  BY <1>1, <1>2, FS_AddElement
<1>5. PICK S : S = {s[i] : i \in 1..n} \cup {t[n + 1]}
  OBVIOUS
<1>6. PICK u : u = Picked(s, I)
  OBVIOUS
<1>7. u \in Seq(S) /\ Len(u) = c /\ t[n + 1] \in S
  <2>1. \A k \in 1..c : s[Nth(I, k)] \in S
    BY <1>1, <1>5, NthPlace
  <2> QED BY <1>1, <1>2, <1>5, <1>6, <2>1 DEF Picked
<1>8. ASSUME NEW k \in 1..c
      PROVE  t[Nth(K, k)] = u[k]
  <2>1. PICK i \in I : i = Nth(I, k) /\ Rank(I, i) = k
    BY <1>1, NthPlace
  <2>3. Rank(K, i) = k /\ i \in K
    BY <1>1, <2>1 DEF Rank
  <2>4. Nth(K, Rank(K, i)) = i
    BY <1>2, <1>3, <2>3, NthOfRank
  <2>5. u[k] = s[i] /\ s[i] = t[i]
    BY <1>1, <1>6, <2>1 DEF Picked, GoesOn
  <2> QED BY <2>3, <2>4, <2>5
<1>9. Nth(K, c + 1) = n + 1
  <2>1. {j \in K : j <= n + 1} = K /\ n + 1 \in K
    <3>1. n + 1 \in K /\ \A j \in K : j <= n + 1
      BY <1>1
    <3> QED BY <3>1
  <2>2. Rank(K, n + 1) = c + 1
    BY <1>4, <2>1 DEF Rank
  <2>3. Nth(K, Rank(K, n + 1)) = n + 1
    BY <1>3, <2>1, NthOfRank
  <2> QED BY <2>2, <2>3
<1>10. Picked(t, K) = Append(u, t[n + 1])
  <2>1. PICK d : d = c + 1
    OBVIOUS
  <2>2. Picked(t, K) = [k \in 1..d |-> t[Nth(K, k)]]
    BY <1>4, <2>1 DEF Picked
  <2>3. Append(u, t[n + 1]) = [k \in 1..d |-> IF k = d THEN t[n + 1] ELSE u[k]]
    <3>1. d \in Nat /\ d = Len(u) + 1
      BY <1>7, <2>1
    <3> QED BY <3>1
  <2>4. ASSUME NEW k \in 1..d
        PROVE  t[Nth(K, k)] = IF k = d THEN t[n + 1] ELSE u[k]
    <3>1. CASE k = d
      BY <1>9, <2>1, <3>1
    <3>2. CASE k # d
      <4>1. k \in 1..c
        BY <1>2, <2>1, <3>2
      <4> QED BY <1>8, <3>2, <4>1
    <3> QED BY <3>1, <3>2
  <2> QED BY <2>2, <2>3, <2>4
<1> QED BY <1>1, <1>6, <1>10

\* What picking makes of a list with one element more.
PicksOneMore(s, x, I) == /\ Picked(Append(s, x), I) = Picked(s, I)
                         /\ Picked(Append(s, x), I
                               \cup {Len(s) + 1}) = Append(Picked(s, I), x)

LEMMA PickedAppend ==
  ASSUME NEW S, NEW s \in Seq(S), NEW x \in S, NEW I \in SUBSET (DOMAIN s)
  PROVE  PicksOneMore(s, x, I)
<1>1. PICK n, t : n = Len(s) /\ t = Append(s, x)
  OBVIOUS
<1>2. /\ n \in Nat /\ I \in SUBSET (1..n) /\ t[n + 1] = x
      /\ \A i \in 1..n : t[i] = s[i]
  BY <1>1
<1>3. GoesOn(s, t, n)
  BY <1>2 DEF GoesOn
<1>4. Picked(t, I) = Picked(s, I)
  BY <1>2, <1>3, PickedBefore
<1>5. Picked(t, I \cup {n + 1}) = Append(Picked(s, I), t[n + 1])
  BY <1>2, <1>3, PickedAfter
<1> QED BY <1>1, <1>2, <1>4, <1>5 DEF PicksOneMore

LEMMA PickedNone == ASSUME NEW s PROVE Picked(s, {}) = <<>>
<1>1. Cardinality({}) = 0
  BY FS_EmptySet
<1> QED BY <1>1 DEF Picked

LEMMA PickedAll ==
  ASSUME NEW S, NEW s \in Seq(S)
  PROVE  Picked(s, DOMAIN s) = s
<1> DEFINE n == Len(s)
<1>1. n \in Nat /\ DOMAIN s = 1..n /\ s = [i \in 1..n |-> s[i]]
  OBVIOUS
<1> HIDE DEF n
<1>2. \A k \in 0..n : Cardinality(1..k) = k
  <2> QED BY FS_Interval
<1>3. ASSUME NEW i \in 1..n
      PROVE  Nth(1..n, i) = i
  <2>1. {j \in 1..n : j <= i} = 1..i /\ i \in Nat
    BY <1>1
  <2>2. Rank(1..n, i) = i
    <3>1. i \in 0..n
      OBVIOUS
    <3> QED BY <1>2, <2>1, <3>1 DEF Rank
  <2>3. Nth(1..n, Rank(1..n, i)) = i
    BY <1>1, NthOfRank
  <2> QED BY <2>2, <2>3
<1> QED BY <1>1, <1>2, <1>3 DEF Picked

\* What is picked of two lists in a row; where the places J of t are in it.
PlacesAfter(s, t, J) == {j \in DOMAIN (s \o t) : j - Len(s) \in J}

LEMMA PickedConcat ==
  ASSUME NEW S, NEW s \in Seq(S), NEW t \in Seq(S),
         NEW I \in SUBSET (DOMAIN s), NEW J \in SUBSET (DOMAIN t)
  PROVE  Concat(Picked(s, I), Picked(t, J),
                Picked(s \o t, I \cup PlacesAfter(s, t, J)))
<1> DEFINE n == Len(s)
           m == Len(t)
           p(k) == SubSeq(t, 1, k)
           JJ(k) == {j \in J : j <= k}
           KK(k) == I \cup {j \in 1..(n + k) : j - n \in JJ(k)}
           Same(k) == Picked(s \o p(k), KK(k)) = Picked(s, I) \o Picked(p(k), JJ(k))
           H == {k \in 1..m : ~Same(k)}
<1>1. /\ n \in Nat /\ m \in Nat /\ DOMAIN s = 1..n /\ DOMAIN t = 1..m
      /\ I \in SUBSET (1..n) /\ J \in SUBSET (1..m) /\ DOMAIN (s \o t) = 1..(n + m)
      /\ s \o <<>> = s
  OBVIOUS
<1>2. /\ p(0) = <<>> /\ p(m) = t
      /\ \A k \in 0..m : p(k) \in Seq(S) /\ Len(p(k)) = k
      /\ \A k \in 1..m : t[k] \in S /\ p(k) = Append(p(k - 1), t[k])
  OBVIOUS
<1> HIDE DEF n, m, p
<1>3. Same(0)
  <2>1. JJ(0) = {} /\ KK(0) = I
    OBVIOUS
  <2>3. Picked(s, I) \o <<>> = Picked(s, I)
    OBVIOUS
  <2> QED BY <1>1, <1>2, <2>1, <2>3, PickedNone
<1>4. ASSUME H # {} PROVE FALSE
  <2>0. H \in SUBSET (1..m)
    OBVIOUS
  <2>1. PICK k \in H : \A j \in H : k <= j
    <3> HIDE DEF H
    <3> QED BY <1>1, <1>4, <2>0, Least
  <2>2. k \in 1..m /\ k - 1 \notin H /\ (k - 1 = 0 \/ k - 1 \in 1..m) /\ k - 1 \in 0..m
        /\ k \in Nat
    <3> HIDE DEF H
    <3> QED BY <1>1, <2>0, <2>1
  <2>3. Same(k - 1)
    BY <1>3, <2>2
  <2>4. PICK u \in Seq(S), x \in S, h \in Nat : /\ u = p(k - 1) /\ x = t[k]
                                                /\ Len(u) = h
                                               /\ h = k - 1 /\ k = h + 1
    BY <1>2, <2>2
  <2>5. PICK A : A = JJ(h)
    OBVIOUS
  <2>6. PICK B : B = KK(h)
    OBVIOUS
  <2>7. /\ A \in SUBSET (1..h) /\ B \in SUBSET (1..(n + h)) /\ DOMAIN u = 1..h
        /\ s \o u \in Seq(S) /\ Len(s \o u) = n + h /\ DOMAIN (s \o u) = 1..(n + h)
    <3>1. DOMAIN u = 1..h
      BY <2>4
    <3>2. Len(s) = n /\ s \o u \in Seq(S)
      BY DEF n
    <3>3. Len(s \o u) = n + h /\ DOMAIN (s \o u) = 1..(n + h)
      <4>2. PICK w \in Seq(S) : w = s \o u
        BY <3>2
      <4> QED BY <2>4, <3>2, <4>2
    <3>4. A \in SUBSET (1..h)
      BY <2>5
    <3>5. B \in SUBSET (1..(n + h))
      BY <1>1, <2>6
    <3> QED BY <3>1, <3>3, <3>4, <3>5
  <2>8. p(k) = Append(u, x) /\ s \o p(k) = Append(s \o u, x)
    <3>1. p(k) = Append(u, x)
      BY <1>2, <2>4
    <3> QED BY <3>1
  <2>9. /\ Picked(p(k), A) = Picked(u, A)
        /\ Picked(p(k), A \cup {h + 1}) = Append(Picked(u, A), x)
    <3>1. PICK v : v = Append(u, x)
      OBVIOUS
    <3>2. v[h + 1] = x /\ GoesOn(u, v, h)
      BY <2>4, <3>1 DEF GoesOn
    <3>3. Picked(v, A) = Picked(u, A)
      BY <2>7, <3>2, PickedBefore
    <3>4. Picked(v, A \cup {h + 1}) = Append(Picked(u, A), v[h + 1])
      <4>1. h \in Nat /\ A \in SUBSET (1..h) /\ GoesOn(u, v, h)
        BY <2>7, <3>2
      <4> QED BY <4>1, PickedAfter, Zenon
    <3> QED BY <2>8, <3>1, <3>2, <3>3, <3>4
  <2>10. /\ Picked(s \o p(k), B) = Picked(s \o u, B)
         /\ Picked(s \o p(k), B \cup {n + h + 1}) = Append(Picked(s \o u, B), x)
    <3>1. PICK w, v, l : w = s \o u /\ v = Append(s \o u, x) /\ l = n + h
      OBVIOUS
    <3>2. w \in Seq(S) /\ l \in Nat /\ B \in SUBSET (1..l) /\ Len(w) = l
          /\ v = Append(w, x)
      BY <2>7, <3>1
    <3>3. v[l + 1] = x /\ GoesOn(w, v, l)
      BY <3>2 DEF GoesOn
    <3>4. Picked(v, B) = Picked(w, B)
      BY <3>2, <3>3, PickedBefore
    <3>5. Picked(v, B \cup {l + 1}) = Append(Picked(w, B), v[l + 1])
      <4>1. l \in Nat /\ B \in SUBSET (1..l) /\ GoesOn(w, v, l)
        BY <3>2, <3>3
      <4> QED BY <4>1, PickedAfter, Zenon
    <3> QED BY <2>8, <3>1, <3>3, <3>4, <3>5
  <2>11. Picked(s \o u, B) = Picked(s, I) \o Picked(u, A)
    BY <2>3, <2>4, <2>5, <2>6
  <2>12. CASE k \in J
    <3>1. JJ(k) = A \cup {h + 1}
      BY <2>4, <2>5, <2>12
    <3>2. KK(k) = B \cup {n + h + 1}
      <4>1. \A j \in 1..(n + k) : j - n \in JJ(k) <=> j = n + h + 1 \/ j - n \in A
        BY <1>1, <2>4, <3>1
      <4>2. \A j \in 1..(n + k) : j - n \in A => j \in 1..(n + h)
        BY <1>1, <2>7
      <4>3. n + h + 1 \in 1..(n + k) /\ 1..(n + h) \subseteq 1..(n + k)
        BY <1>1, <2>4
      <4> QED BY <2>5, <2>6, <4>1, <4>2, <4>3
    <3>3. Picked(s, I) \in Seq(S) /\ Picked(u, A) \in Seq(S)
      BY <2>7, PickedList
    <3>4. Picked(s, I) \o Append(Picked(u, A), x) = Append(Picked(s, I) \o Picked(u, A),
                                                           x)
      BY <3>3, ConcatAppend, SMTT(20)
    <3> QED BY <2>9, <2>10, <2>11, <3>1, <3>2, <3>4
  <2>13. CASE k \notin J
    <3>1. JJ(k) = A
      BY <2>4, <2>5, <2>13
    <3>2. KK(k) = B
      <4>1. \A j \in 1..(n + k) : j - n \in A => j \in 1..(n + h)
        BY <1>1, <2>7
      <4>2. 1..(n + h) \subseteq 1..(n + k)
        BY <1>1, <2>4
      <4> QED BY <2>5, <2>6, <3>1, <4>1, <4>2
    <3> QED BY <2>9, <2>10, <2>11, <3>1, <3>2
  <2> QED BY <2>12, <2>13
<1>5. Same(m)
  <2>1. m = 0 \/ m \in 1..m
    BY <1>1
  <2> QED BY <1>3, <1>4, <2>1
<1>6. JJ(m) = J /\ KK(m) = I \cup {j \in DOMAIN (s \o t) : j - Len(s) \in J}
  BY <1>1 DEF n
<1> QED BY <1>2, <1>5, <1>6 DEF Concat, PlacesAfter
LEMMA ConcatIs ==
  ASSUME NEW S, NEW s \in Seq(S), NEW t \in Seq(S)
  PROVE  s \o t = [i \in 1..(Len(s) + Len(t)) |-> IF i <= Len(s) THEN s[i]
                                              ELSE t[i - Len(s)]]
<1>1. PICK r, n, k : r = s \o t /\ n = Len(s) /\ k = Len(t)
  OBVIOUS
<1>2. r \in Seq(S) /\ Len(r) = n + k /\ n \in Nat /\ k \in Nat
  BY <1>1
<1>4. r = [i \in 1..(n + k) |-> r[i]]
  BY <1>2
<1> QED BY <1>1, <1>4

\* A list of what a function makes of each element.
Mapped(f, s) == [i \in DOMAIN s |-> f[s[i]]]

LEMMA MappedLength ==
  ASSUME NEW f, NEW S, NEW s \in Seq(S)
  PROVE  DOMAIN Mapped(f, s) = DOMAIN s /\ Len(Mapped(f, s)) = Len(s)
<1> QED BY DEF Mapped

LEMMA MappedList ==
  ASSUME NEW S, NEW T, NEW f \in [S -> T], NEW s \in Seq(S)
  PROVE  /\ Mapped(f, s) \in Seq(T) /\ Len(Mapped(f, s)) = Len(s)
         /\ DOMAIN Mapped(f, s) = DOMAIN s
         /\ \A i \in DOMAIN s : s[i] \in S /\ Mapped(f, s)[i] = f[s[i]]
<1> QED BY DEF Mapped

\* What mapping makes of a list with one element more.
MapsOneMore(f, s, x) == Mapped(f, Append(s, x)) = Append(Mapped(f, s), f[x])

LEMMA MappedAppend ==
  ASSUME NEW S, NEW T, NEW f \in [S -> T], NEW s \in Seq(S), NEW x \in S
  PROVE  MapsOneMore(f, s, x)
<1>1. PICK t, u : t = Append(s, x) /\ u = Mapped(f, s)
  OBVIOUS
<1>2. PICK n : n = Len(s) + 1
  OBVIOUS
<1>3. /\ u \in Seq(T) /\ Len(u) = Len(s) /\ DOMAIN u = DOMAIN s /\ f[x] \in T
      /\ \A i \in DOMAIN s : u[i] = f[s[i]]
  <2>1. /\ Mapped(f, s) \in Seq(T) /\ Len(Mapped(f, s)) = Len(s)
        /\ DOMAIN Mapped(f, s) = DOMAIN s
        /\ \A i \in DOMAIN s : Mapped(f, s)[i] = f[s[i]]
    BY MappedList
  <2> QED BY <1>1, <2>1
<1>4. /\ n \in Nat /\ n = Len(u) + 1 /\ DOMAIN t = 1..n /\ t[n] = x
      /\ \A i \in 1..n : i # n => i \in DOMAIN s /\ t[i] = s[i]
  BY <1>1, <1>2, <1>3
<1>5. Append(u, f[x]) = [i \in 1..n |-> IF i = n THEN f[x] ELSE u[i]]
  BY <1>4
<1>6. \A i \in 1..n : f[t[i]] = IF i = n THEN f[x] ELSE u[i]
  BY <1>3, <1>4
<1>7. Mapped(f, t) = [i \in 1..n |-> f[t[i]]]
  BY <1>4 DEF Mapped
<1> QED BY <1>1, <1>5, <1>6, <1>7 DEF MapsOneMore

LEMMA MappedConcat ==
  ASSUME NEW S, NEW T, NEW f \in [S -> T], NEW s \in Seq(S), NEW t \in Seq(S)
  PROVE  Concat(Mapped(f, s), Mapped(f, t), Mapped(f, s \o t))
<1>1. PICK r, u, v : r = s \o t /\ u = Mapped(f, s) /\ v = Mapped(f, t)
  OBVIOUS
<1>2. PICK n, k : n = Len(s) /\ k = Len(t)
  OBVIOUS
<1>3. /\ n \in Nat /\ k \in Nat /\ DOMAIN s = 1..n /\ DOMAIN t = 1..k
      /\ u \in Seq(T) /\ Len(u) = n /\ \A i \in 1..n : u[i] = f[s[i]]
      /\ v \in Seq(T) /\ Len(v) = k /\ \A i \in 1..k : v[i] = f[t[i]]
  <2>1. /\ Mapped(f, s) \in Seq(T) /\ Len(Mapped(f, s)) = Len(s)
        /\ \A i \in DOMAIN s : Mapped(f, s)[i] = f[s[i]]
    <3>1. Mapped(f, s) \in Seq(T)
      BY MappedList
    <3>2. Len(Mapped(f, s)) = Len(s)
      BY MappedLength
    <3>3. \A i \in DOMAIN s : Mapped(f, s)[i] = f[s[i]]
      BY DEF Mapped
    <3> QED BY <3>1, <3>2, <3>3
  <2>2. /\ Mapped(f, t) \in Seq(T) /\ Len(Mapped(f, t)) = Len(t)
        /\ \A i \in DOMAIN t : Mapped(f, t)[i] = f[t[i]]
    <3>1. Mapped(f, t) \in Seq(T)
      BY MappedList
    <3>2. Len(Mapped(f, t)) = Len(t)
      BY MappedLength
    <3>3. \A i \in DOMAIN t : Mapped(f, t)[i] = f[t[i]]
      BY DEF Mapped
    <3> QED BY <3>1, <3>2, <3>3
  <2>3. n \in Nat /\ k \in Nat /\ DOMAIN s = 1..n /\ DOMAIN t = 1..k
    BY <1>2
  <2> QED BY <1>1, <1>2, <2>1, <2>2, <2>3
<1>4. /\ r = [i \in 1..(n + k) |-> IF i <= n THEN s[i] ELSE t[i - n]]
      /\ u \o v = [i \in 1..(n + k) |-> IF i <= n THEN u[i] ELSE v[i - n]]
  <2>1. r = [i \in 1..(n + k) |-> IF i <= n THEN s[i] ELSE t[i - n]]
    <3>1. s \o t = [i \in 1..(n + k) |-> IF i <= n THEN s[i] ELSE t[i - n]]
      BY <1>2, ConcatIs
    <3> QED BY <1>1, <3>1
  <2>2. u \o v = [i \in 1..(n + k) |-> IF i <= n THEN u[i] ELSE v[i - n]]
    <3>1. u \in Seq(T) /\ v \in Seq(T) /\ n = Len(u) /\ k = Len(v)
      BY <1>3
    <3>2. u \o v = [i \in 1..(Len(u) + Len(v)) |-> IF i <= Len(u) THEN u[i]
                                                ELSE v[i - Len(u)]]
      BY <3>1, ConcatIs
    <3> QED BY <3>1, <3>2
  <2> QED BY <2>1, <2>2
<1>5. \A i \in 1..(n + k) : f[r[i]] = IF i <= n THEN u[i] ELSE v[i - n]
  <2> SUFFICES ASSUME NEW i \in 1..(n + k)
               PROVE  f[r[i]] = IF i <= n THEN u[i] ELSE v[i - n]
    OBVIOUS
  <2>1. CASE i <= n
    <3> QED BY <1>3, <1>4
  <2>2. CASE ~(i <= n)
    <3> QED BY <1>3, <1>4
  <2> QED BY <2>1, <2>2
<1>6. Mapped(f, r) = [i \in 1..(n + k) |-> f[r[i]]]
  BY <1>4 DEF Mapped
<1> QED BY <1>1, <1>4, <1>5, <1>6 DEF Concat
-----------------------------------------------------------------------------
\* Webhook messages (WebhookQueue).
LEMMA WebhooksSize == ASSUME NEW S PROVE Webhooks!Cardinality(S) = Cardinality(S)
BY DEF Webhooks!Cardinality, Cardinality

\* Where a message that was sent is, and how many of its deliveries failed.
WebhooksInv ==
    /\ Webhooks!TypeOK
    /\ Distinct(webhookQueue)
    /\ \A m \in Messages :
          /\ Has(webhookQueue, m) => m \notin flying /\ webhookOutcome[m] = "none"
             /\ webhookRetries[m] # Webhooks!NotTried
          /\ m \in flying => webhookOutcome[m] = "none"
          /\ webhookRetries[m] # Webhooks!NotTried =>
                Has(webhookQueue, m) \/ m \in flying \/ webhookOutcome[m] # "none"
          /\ webhookFailures[m] = IF webhookOutcome[m] = "given_up" THEN MaxRetries + 2
                                  ELSE webhookRetries[m] + 1

LEMMA WebhooksInit == Webhooks!Init => WebhooksInv
<1> SUFFICES ASSUME Webhooks!Init PROVE WebhooksInv
  OBVIOUS
<1>1. Webhooks!NotTried \in Webhooks!NotTried..MaxRetries /\ 0 \in 0..(MaxRetries + 2)
      /\ Webhooks!NotTried + 1 = 0
  BY WebhooksAssumption DEF Webhooks!NotTried
<1>2. Webhooks!TypeOK
  BY <1>1, EmptyList DEF Webhooks!Init, Webhooks!TypeOK
<1>3. Distinct(webhookQueue) /\ \A m \in Messages : ~Has(webhookQueue, m)
  BY EmptyList DEF Webhooks!Init
<1> QED BY <1>1, <1>2, <1>3 DEF Webhooks!Init, WebhooksInv

\* A message is in the queue once or not at all.
LEMMA QueuedOnce ==
  ASSUME WebhooksInv, NEW m \in Messages
  PROVE  Cardinality({i \in DOMAIN webhookQueue : webhookQueue[i] = m})
           = IF Has(webhookQueue, m) THEN 1 ELSE 0
<1>1. CASE Has(webhookQueue, m)
  <2>1. PICK i \in DOMAIN webhookQueue : webhookQueue[i] = m
    BY <1>1 DEF Has
  <2>2. {j \in DOMAIN webhookQueue : webhookQueue[j] = m} = {i}
    BY <2>1 DEF WebhooksInv, Distinct
  <2> QED BY <1>1, <2>2, FS_Singleton
<1>2. CASE ~Has(webhookQueue, m)
  <2>1. {j \in DOMAIN webhookQueue : webhookQueue[j] = m} = {}
    BY <1>2 DEF Has
  <2> QED BY <1>2, <2>1, FS_EmptySet
<1> QED BY <1>1, <1>2

LEMMA MessagesStayKept == WebhooksInv => Webhooks!MessagesAreKept
<1> SUFFICES ASSUME WebhooksInv PROVE Webhooks!MessagesAreKept
  OBVIOUS
<1>1. ASSUME NEW m \in Messages, webhookRetries[m] # Webhooks!NotTried \/ m \in flying
             \/ webhookOutcome[m] # "none"
      PROVE  (IF Has(webhookQueue, m) THEN 1 ELSE 0) + (IF m \in flying THEN 1 ELSE 0)
             + (IF webhookOutcome[m] # "none" THEN 1 ELSE 0) = 1
  BY <1>1 DEF WebhooksInv
<1>2. \A m \in Messages : webhookOutcome[m] = "given_up" =>
          webhookFailures[m] = MaxRetries + 2
  BY DEF WebhooksInv
<1> QED BY WebhooksSize, <1>1, <1>2, QueuedOnce DEF Webhooks!MessagesAreKept

LEMMA WebhooksNext == WebhooksInv /\ [Webhooks!Next]_webhooksVars => WebhooksInv'
<1> SUFFICES ASSUME WebhooksInv, [Webhooks!Next]_webhooksVars PROVE WebhooksInv'
  OBVIOUS
<1>0. webhookQueue \in Seq(Messages)
  BY DEF WebhooksInv, Webhooks!TypeOK
<1>1. CASE Webhooks!Start
  BY <1>1 DEF Webhooks!Start, WebhooksInv, Webhooks!TypeOK
<1>2. CASE Webhooks!Stop
  BY <1>2 DEF Webhooks!Stop, WebhooksInv, Webhooks!TypeOK
<1>3. CASE Webhooks!ProcessQueue
  <2>1. /\ Head(webhookQueue) \in Messages /\ webhookQueue' \in Seq(Messages)
        /\ Has(webhookQueue, Head(webhookQueue))
        /\ Distinct(webhookQueue') /\ ~Has(webhookQueue', Head(webhookQueue))
        /\ \A x : Has(webhookQueue', x) => Has(webhookQueue, x)
        /\ \A x : Has(webhookQueue, x) =>
              x = Head(webhookQueue) \/ Has(webhookQueue', x)
    BY <1>0, <1>3, TailOfList DEF Webhooks!ProcessQueue, WebhooksInv
  <2> QED BY <1>3, <2>1 DEF Webhooks!ProcessQueue, WebhooksInv, Webhooks!TypeOK
<1>4. ASSUME NEW m \in Messages, Webhooks!Send(m) PROVE WebhooksInv'
  BY <1>4 DEF Webhooks!Send, WebhooksInv, Webhooks!TypeOK
<1>5. ASSUME NEW m \in Messages, Webhooks!Delivered(m) PROVE WebhooksInv'
  BY <1>5 DEF Webhooks!Delivered, WebhooksInv, Webhooks!TypeOK
<1>6. ASSUME NEW m \in Messages, Webhooks!Failed(m) PROVE WebhooksInv'
  <2>1. CASE /\ webhookRetries[m] < MaxRetries
             /\ webhookQueue' = Append(webhookQueue, m)
             /\ webhookRetries' = [webhookRetries EXCEPT ![m] = @ + 1]
             /\ webhookOutcome' = webhookOutcome
    <3>1. /\ webhookQueue' \in Seq(Messages) /\ Distinct(webhookQueue')
          /\ \A x : Has(webhookQueue', x) <=> x = m \/ Has(webhookQueue, x)
      BY <1>0, <1>6, <2>1, LongerList DEF Webhooks!Failed, WebhooksInv
    <3> QED BY <1>6, <2>1, <3>1, WebhooksAssumption, SMTT(20)
            DEF Webhooks!Failed, WebhooksInv, Webhooks!TypeOK, Webhooks!NotTried
  <2>2. CASE /\ webhookRetries[m] >= MaxRetries
             /\ webhookOutcome' = [webhookOutcome EXCEPT ![m] = "given_up"]
             /\ UNCHANGED <<webhookQueue, webhookRetries>>
    BY <1>6, <2>2, WebhooksAssumption, SMTT(20) DEF Webhooks!Failed, WebhooksInv,
                                                    Webhooks!TypeOK, Webhooks!NotTried
  <2> QED BY <1>6, <2>1, <2>2 DEF Webhooks!Failed, Webhooks!Queued
<1>7. CASE UNCHANGED webhooksVars
  BY <1>7 DEF webhooksVars, WebhooksInv, Webhooks!TypeOK
<1> QED BY <1>1, <1>2, <1>3, <1>4, <1>5, <1>6, <1>7 DEF Webhooks!Next
-----------------------------------------------------------------------------
\* Access tokens of the WeChat channel (AccessTokens).
\* A send that is under way has delivered nothing in its first attempt, and in its
\* second what the first was not told of; and its second attempt has a token that the
\* API accepts, unless something disturbed it.
SendInOrder(m) ==
    /\ call[m].attempt = 1 =>
          channel = "wechat" /\ call[m].at \in {"asking", "asked", "sent"}
    /\ call[m].at \in {"idle", "asking", "asked", "sent"} /\ call[m].attempt = 0 =>
           delivered[m] = 0
    /\ call[m].attempt = 1 => delivered[m] <= 1 /\ (delivered[m] = 1 => m \in hindered)
    /\ call[m].attempt = 1 /\ call[m].at \in {"asked", "sent"} /\ m \notin hindered =>
           call[m].token \in valid

TokensInv == /\ Tokens!TypeOK
             /\ Tokens!StaleTokenLosesNothing
             /\ fresh => stored # Tokens!NoToken
             /\ \A c \in Tokens!Callers : call[c].at = "asked" =>
                   call[c].token # Tokens!NoToken
             /\ \A m \in Outgoing : SendInOrder(m)

CallRecords == [at : {"idle", "asking", "asked", "sent", "done", "failed"},
                tries : 0..(MaxTries - 1), token : 0..MaxIssued, attempt : {0, 1}]

LEMMA CallFields ==
  ASSUME NEW at, NEW tries, NEW token, NEW attempt
  PROVE  /\ Tokens!Call(at, tries, token, attempt).at = at
         /\ Tokens!Call(at, tries, token, attempt).tries = tries
         /\ Tokens!Call(at, tries, token, attempt).token = token
         /\ Tokens!Call(at, tries, token, attempt).attempt = attempt
BY DEF Tokens!Call

LEMMA CallIsRecord ==
  ASSUME NEW at \in {"idle", "asking", "asked", "sent", "done", "failed"},
         NEW tries \in 0..(MaxTries - 1), NEW token \in 0..MaxIssued,
         NEW attempt \in {0, 1}
  PROVE  Tokens!Call(at, tries, token, attempt) \in CallRecords
BY DEF Tokens!Call, CallRecords

LEMMA TokensInit == Tokens!Init => TokensInv
<1> SUFFICES ASSUME Tokens!Init PROVE TokensInv
  OBVIOUS
<1>1. /\ Tokens!Idle \in CallRecords /\ Tokens!Idle.at = "idle"
      /\ Tokens!Idle.attempt = 0 /\ Tokens!Idle.token = Tokens!NoToken
      /\ Tokens!NoToken = 0 /\ 0 \in 0..MaxIssued /\ 1 \in 0..MaxIssued
  BY TokensAssumption, CallIsRecord, CallFields DEF Tokens!Idle, Tokens!NoToken
<1>2. call = [c \in Tokens!Callers |-> Tokens!Idle] /\ Outgoing \subseteq Tokens!Callers
  BY DEF Tokens!Init, Tokens!Callers
<1> HIDE DEF Tokens!Idle
<1>4. Tokens!TypeOK
  BY <1>1 DEF Tokens!Init, Tokens!TypeOK, CallRecords, Tokens!NoToken
<1>5. \A m \in Outgoing : call[m] = Tokens!Idle
  BY <1>2
<1>6. \A m \in Outgoing : SendInOrder(m)
  BY <1>1, <1>5 DEF Tokens!Init, SendInOrder
<1>7. Tokens!StaleTokenLosesNothing
  BY <1>1, <1>5 DEF Tokens!Init, Tokens!StaleTokenLosesNothing
<1> QED BY <1>1, <1>4, <1>6, <1>7 DEF TokensInv, Tokens!Init

\* One caller's step: what it must leave of its own call and its own message.
LEMMA CallerSteps ==
  ASSUME TokensInv, NEW c \in Tokens!Callers, NEW r \in CallRecords,
         call' = [call EXCEPT ![c] = r],
         r.at = "asked" => r.token # Tokens!NoToken,
         UNCHANGED <<channel, issued>>, fresh' \in BOOLEAN, stored' \in 0..MaxIssued,
         fresh' => stored' # Tokens!NoToken,
         valid' = valid, hindered \subseteq hindered', hindered' \subseteq Outgoing,
         delivered' \in [Outgoing -> 0..2],
         \A m \in Outgoing : m # c => delivered'[m] = delivered[m],
         c \in Outgoing => /\ SendInOrder(c)'
                           /\ r.at = "done" => delivered'[c] >= 1
                           /\ delivered'[c] <= IF channel = "wechat" /\ c \in hindered'
                                 THEN 2 ELSE 1
                           /\ channel = "wechat" /\ r.at = "failed" => c \in hindered'
  PROVE  TokensInv'
<1>1. /\ call' \in [Tokens!Callers -> CallRecords] /\ call'[c] = r
      /\ \A d \in Tokens!Callers : d # c => call'[d] = call[d]
      /\ Outgoing \subseteq Tokens!Callers
  BY DEF TokensInv, Tokens!TypeOK, CallRecords, Tokens!Callers
<1>2. Tokens!TypeOK'
  BY DEF TokensInv, Tokens!TypeOK, CallRecords
<1>3. ASSUME NEW m \in Outgoing PROVE SendInOrder(m)'
  <2>1. CASE m = c
    BY <2>1
  <2>2. CASE m # c
    <3>1. call'[m] = call[m] /\ delivered'[m] = delivered[m] /\ SendInOrder(m)
      BY <2>2 DEF TokensInv
    <3> QED BY <3>1 DEF SendInOrder
  <2> QED BY <2>2
<1>4. Tokens!StaleTokenLosesNothing'
  <2> SUFFICES ASSUME NEW m \in Outgoing
               PROVE  /\ call'[m].at = "done" => delivered'[m] >= 1
                      /\ delivered'[m] <= (IF channel = "wechat" /\ m \in hindered'
                            THEN 2 ELSE 1)
                      /\ channel = "wechat" /\ call'[m].at = "failed" => m \in hindered'
    BY DEF Tokens!StaleTokenLosesNothing
  <2>1. CASE m = c
    BY <1>1, <2>1
  <2>2. CASE m # c
    <3>1. call'[m] = call[m] /\ delivered'[m] = delivered[m]
      BY <2>2
    <3>2. /\ call[m].at = "done" => delivered[m] >= 1
          /\ delivered[m] <= (IF channel = "wechat" /\ m \in hindered THEN 2 ELSE 1)
          /\ channel = "wechat" /\ call[m].at = "failed" => m \in hindered
          /\ delivered[m] \in 0..2
      BY DEF TokensInv, Tokens!StaleTokenLosesNothing, Tokens!TypeOK
    <3> QED BY <3>1, <3>2
  <2> QED BY <2>1, <2>2
<1> QED BY <1>2, <1>3, <1>4 DEF TokensInv

\* A refresh that is over leaves a send with a token, or a send that throws.
LEMMA RefreshedIsRecord ==
  ASSUME TokensInv, NEW c \in Tokens!Callers, NEW token \in 0..MaxIssued
  PROVE  /\ Tokens!Refreshed(c, token) \in CallRecords
         /\ Tokens!Refreshed(c, token).at # "asked"
         /\ Tokens!Refreshed(c, token).at # "done"
         /\ c \in Outgoing /\ token # Tokens!NoToken =>
                /\ Tokens!Refreshed(c, token).at = "sent"
                /\ Tokens!Refreshed(c, token).token = token
                /\ Tokens!Refreshed(c, token).attempt = call[c].attempt
         /\ c \in Outgoing /\ token = Tokens!NoToken =>
                Tokens!Refreshed(c, token).at = "failed"
                /\ Tokens!Refreshed(c, token).attempt = 0
<1>1. call[c].attempt \in {0, 1} /\ 0 \in 0..(MaxTries - 1)
      /\ Tokens!NoToken \in 0..MaxIssued
  BY TokensAssumption DEF TokensInv, Tokens!TypeOK, Tokens!NoToken
<1>2. CASE c = Timer
  BY <1>1, <1>2, CallIsRecord, CallFields, TokensAssumption DEF Tokens!Refreshed,
                                                                Tokens!Idle
<1>3. CASE c # Timer /\ token = Tokens!NoToken
  BY <1>1, <1>3, CallIsRecord, CallFields DEF Tokens!Refreshed, Tokens!Thrown
<1>4. CASE c # Timer /\ token # Tokens!NoToken
  BY <1>1, <1>4, CallIsRecord, CallFields DEF Tokens!Refreshed
<1> QED BY <1>2, <1>3, <1>4

LEMMA SendInOrderOf ==
  ASSUME TokensInv, NEW m \in Outgoing
  PROVE  /\ m \in Tokens!Callers /\ m # Timer /\ SendInOrder(m)
         /\ call[m] \in CallRecords /\ delivered[m] \in 0..2
         /\ call[m].at = "done" => delivered[m] >= 1
         /\ delivered[m] <= (IF channel = "wechat" /\ m \in hindered THEN 2 ELSE 1)
         /\ channel = "wechat" /\ call[m].at = "failed" => m \in hindered
BY TokensAssumption DEF TokensInv, Tokens!TypeOK, Tokens!Callers,
                        Tokens!StaleTokenLosesNothing, CallRecords

LEMMA TokensNext == TokensInv /\ [Tokens!Next]_tokensVars => TokensInv'
<1> SUFFICES ASSUME TokensInv, [Tokens!Next]_tokensVars PROVE TokensInv'
  OBVIOUS
<1>0. /\ channel \in {"wechat", "feishu"} /\ stored \in 0..MaxIssued
      /\ fresh \in BOOLEAN
      /\ issued \in 0..MaxIssued /\ valid \subseteq 1..issued
      /\ call \in [Tokens!Callers -> CallRecords]
      /\ delivered \in [Outgoing -> 0..2] /\ hindered \subseteq Outgoing
      /\ fresh => stored # Tokens!NoToken
      /\ \A c \in Tokens!Callers : call[c].at = "asked" =>
            call[c].token # Tokens!NoToken
      /\ Tokens!StaleTokenLosesNothing /\ \A m \in Outgoing : SendInOrder(m)
      /\ Outgoing \subseteq Tokens!Callers /\ Timer \in Tokens!Callers
  BY DEF TokensInv, Tokens!TypeOK, CallRecords, Tokens!Callers
<1>01. /\ 0 \in 0..(MaxTries - 1) /\ Tokens!NoToken \in 0..MaxIssued
       /\ \A attempt \in {0, 1} : /\ Tokens!Asking(attempt) \in CallRecords
                                  /\ Tokens!Asking(attempt).at = "asking"
                                  /\ Tokens!Asking(attempt).attempt = attempt
       /\ Tokens!Thrown \in CallRecords /\ Tokens!Thrown.at = "failed"
       /\ Tokens!Thrown.attempt = 0
       /\ Tokens!Returned \in CallRecords /\ Tokens!Returned.at = "done"
       /\ Tokens!Returned.attempt = 0
  BY TokensAssumption, CallIsRecord, CallFields DEF Tokens!Asking, Tokens!Thrown,
                                                    Tokens!Returned, Tokens!NoToken
<1>1. ASSUME NEW m \in Outgoing, Tokens!Send(m) PROVE TokensInv'
  <2> DEFINE r == IF fresh THEN Tokens!Refreshed(m, stored) ELSE Tokens!Asking(0)
  <2>1. /\ call[m].at = "idle" /\ call' = [call EXCEPT ![m] = r]
        /\ UNCHANGED <<channel, stored, fresh, issued, valid, delivered, hindered>>
    BY <1>1 DEF Tokens!Send, Tokens!local, Tokens!api
  <2>2. m \in Tokens!Callers /\ call[m].attempt = 0 /\ delivered[m] = 0
    BY <2>1, SendInOrderOf DEF SendInOrder, CallRecords
  <2>3. r \in CallRecords /\ r.attempt = 0 /\ r.at \in {"sent", "asking"}
    BY <1>0, <1>01, <2>2, RefreshedIsRecord
  <2> HIDE DEF r
  <2>4. SendInOrder(m)'
    BY <1>0, <2>1, <2>2, <2>3 DEF SendInOrder
  <2>5. /\ delivered'[m] <= IF channel = "wechat" /\ m \in hindered' THEN 2 ELSE 1
        /\ r.at # "done" /\ r.at # "failed" /\ r.at # "asked"
    BY <2>1, <2>2, <2>3
  <2> QED BY <1>0, <2>1, <2>2, <2>3, <2>4, <2>5, CallerSteps
<1>2. CASE Tokens!TimerFires
  <2>1. /\ call' = [call EXCEPT ![Timer] = Tokens!Asking(0)]
        /\ UNCHANGED <<channel, stored, fresh, issued, valid, delivered, hindered>>
    BY <1>2 DEF Tokens!TimerFires, Tokens!local, Tokens!api
  <2> QED BY <1>0, <1>01, <2>1, CallerSteps, TokensAssumption
<1>3. ASSUME NEW c \in Tokens!Callers, Tokens!Store(c) PROVE TokensInv'
  <2> DEFINE token == call[c].token
             r == Tokens!Refreshed(c, token)
  <2>1. /\ call[c].at = "asked" /\ token # Tokens!NoToken /\ token \in 0..MaxIssued
        /\ stored' = token /\ fresh' = TRUE
        /\ call' = [call EXCEPT ![c] = r]
        /\ UNCHANGED <<channel, issued, valid, delivered, hindered>>
    BY <1>0, <1>3 DEF Tokens!Store, Tokens!api, CallRecords
  <2>2. /\ r \in CallRecords /\ r.at # "asked" /\ r.at # "done"
        /\ c \in Outgoing => /\ r.at = "sent" /\ r.token = token
                             /\ r.attempt = call[c].attempt
    BY <2>1, RefreshedIsRecord
  <2> HIDE DEF r
  <2>3. c \in Outgoing => /\ SendInOrder(c)'
                          /\ delivered[c] <= IF channel = "wechat" /\ c \in hindered
                                THEN 2 ELSE 1
    <3> SUFFICES ASSUME c \in Outgoing PROVE SendInOrder(c)'
      BY SendInOrderOf
    <3>1. call'[c] = r /\ SendInOrder(c)
      BY <1>0, <2>1
    <3> QED BY <2>1, <2>2, <3>1 DEF SendInOrder
  <2> HIDE DEF token
  <2> QED BY <1>0, <2>1, <2>2, <2>3, CallerSteps
<1>4. ASSUME NEW c \in Tokens!Callers, Tokens!RefreshFails(c) PROVE TokensInv'
  <2> DEFINE again == Tokens!Call("asking", call[c].tries + 1, Tokens!NoToken,
                                  call[c].attempt)
             r == IF call[c].tries + 1 < MaxTries THEN again
                 ELSE Tokens!Refreshed(c, stored)
  <2>1. /\ call[c].at \in {"asking", "asked"}
        /\ call' = [call EXCEPT ![c] = r]
        /\ hindered' = hindered \cup ({c} \cap Outgoing)
        /\ UNCHANGED <<channel, stored, fresh, issued, valid, delivered>>
    BY <1>4 DEF Tokens!RefreshFails, Tokens!local, Tokens!api
  <2>2. call[c].tries \in 0..(MaxTries - 1) /\ call[c].attempt \in {0, 1}
    BY <1>0 DEF CallRecords
  <2>3. /\ call[c].tries + 1 < MaxTries =>
               /\ again \in CallRecords /\ again.at = "asking"
               /\ again.attempt = call[c].attempt
    <3>1. call[c].tries + 1 < MaxTries => call[c].tries + 1 \in 0..(MaxTries - 1)
      BY <2>2, TokensAssumption
    <3> QED BY <1>01, <2>2, <3>1, CallIsRecord, CallFields
  <2>4. /\ r \in CallRecords /\ r.at # "asked" /\ r.at # "done"
        /\ c \in Outgoing => \/ r.at \in {"asking", "sent"}
                                /\ r.attempt = call[c].attempt
                             \/ r.at = "failed" /\ r.attempt = 0
    <3> HIDE DEF again
    <3> QED BY <1>0, <2>3, RefreshedIsRecord
  <2> HIDE DEF r
  <2>5. c \in Outgoing => /\ SendInOrder(c)' /\ c \in hindered'
                          /\ delivered[c] <= IF channel = "wechat" /\ c \in hindered'
                                THEN 2 ELSE 1
    <3> SUFFICES ASSUME c \in Outgoing
                 PROVE  /\ SendInOrder(c)' /\ c \in hindered'
                        /\ delivered[c] <= IF channel = "wechat" /\ c \in hindered'
                              THEN 2 ELSE 1
      OBVIOUS
    <3>1. call'[c] = r /\ SendInOrder(c) /\ c \in hindered'
      BY <1>0, <2>1
    <3>2. delivered[c] <= IF channel = "wechat" /\ c \in hindered' THEN 2 ELSE 1
      BY <3>1, SendInOrderOf
    <3> QED BY <2>1, <2>4, <3>1, <3>2 DEF SendInOrder
  <2> QED BY <1>0, <2>1, <2>4, <2>5, CallerSteps
<1>5. ASSUME NEW m \in Outgoing, Tokens!Deliver(m) PROVE TokensInv'
  <2>1. /\ call[m].at = "sent" /\ delivered' = [delivered EXCEPT ![m] = @ + 1]
        /\ call' = [call EXCEPT ![m] = Tokens!Returned]
        /\ UNCHANGED <<channel, stored, fresh, issued, valid, hindered>>
    BY <1>5 DEF Tokens!Deliver, Tokens!local, Tokens!api
  <2>2. /\ delivered[m] \in 0..1 /\ (delivered[m] = 1 =>
              m \in hindered /\ channel = "wechat")
        /\ m \in Tokens!Callers
    BY <2>1, SendInOrderOf DEF SendInOrder, CallRecords
  <2>3. /\ delivered' \in [Outgoing -> 0..2] /\ delivered'[m] = delivered[m] + 1
        /\ \A k \in Outgoing : k # m => delivered'[k] = delivered[k]
    BY <1>0, <2>1, <2>2
  <2>4. delivered'[m] >= 1 /\ delivered'[m] <= IF channel = "wechat" /\ m \in hindered'
            THEN 2 ELSE 1
    BY <2>1, <2>2, <2>3
  <2>5. SendInOrder(m)'
    BY <1>0, <1>01, <2>1 DEF SendInOrder
  <2> QED BY <1>0, <1>01, <2>1, <2>2, <2>3, <2>4, <2>5, CallerSteps
<1>6. ASSUME NEW m \in Outgoing, NEW r \in {Tokens!Asking(1), Tokens!Thrown},
             call[m].at = "sent", call' = [call EXCEPT ![m] = r],
             r = IF channel = "wechat" /\ call[m].attempt = 0 THEN Tokens!Asking(1)
                 ELSE Tokens!Thrown,
             UNCHANGED <<channel, stored, fresh, issued, valid>>,
             \/ UNCHANGED <<delivered, hindered>> /\ call[m].token \notin valid
             \/ /\ hindered' = hindered \cup {m}
                /\ delivered' \in {delivered, [delivered EXCEPT ![m] = @ + 1]}
      PROVE  TokensInv'
  <2>1. /\ call[m].attempt \in {0, 1} /\ m \in Tokens!Callers /\ SendInOrder(m)
        /\ delivered[m] \in 0..1
        /\ delivered[m] = 1 => m \in hindered /\ channel = "wechat"
    BY <1>6, SendInOrderOf DEF SendInOrder, CallRecords
  <2>2. /\ delivered' \in [Outgoing -> 0..2] /\ delivered'[m] \in 0..(delivered[m] + 1)
        /\ \A k \in Outgoing : k # m => delivered'[k] = delivered[k]
        /\ hindered \subseteq hindered' /\ hindered' \subseteq Outgoing
        /\ delivered'[m] # delivered[m] => m \in hindered'
    <3>1. delivered' = delivered
          \/ delivered' = [delivered EXCEPT ![m] = delivered[m] + 1]
      BY <1>6
    <3> QED BY <1>0, <1>6, <2>1, <3>1
  <2>3. delivered'[m] <= IF channel = "wechat" /\ m \in hindered' THEN 2 ELSE 1
    BY <2>1, <2>2
  <2>4. r \in CallRecords /\ r.at \in {"asking", "failed"} /\ call'[m] = r
    BY <1>0, <1>01, <1>6, <2>1
  <2>5. CASE r.at = "failed"
    <3>1. channel = "wechat" => m \in hindered'
      BY <1>01, <1>6, <2>1, <2>5 DEF SendInOrder
    <3>2. r.attempt = 0
      BY <1>01, <1>6, <2>5
    <3>3. SendInOrder(m)'
      BY <2>4, <2>5, <3>2 DEF SendInOrder
    <3> QED BY <1>0, <1>6, <2>1, <2>2, <2>3, <2>4, <2>5, <3>1, <3>3, CallerSteps
  <2>6. CASE r.at = "asking"
    <3>1. channel = "wechat" /\ call[m].attempt = 0 /\ r.attempt = 1
      BY <1>01, <1>6, <2>6
    <3>2. delivered[m] = 0
      BY <1>6, <2>1, <3>1 DEF SendInOrder
    <3>3. SendInOrder(m)'
      BY <1>6, <2>2, <2>4, <2>6, <3>1, <3>2 DEF SendInOrder
    <3> QED BY <1>0, <1>6, <2>1, <2>2, <2>3, <2>4, <2>6, <3>3, CallerSteps
  <2> QED BY <2>4, <2>5, <2>6
<1>7. ASSUME NEW m \in Outgoing, Tokens!Refuse(m) \/ Tokens!SendFails(m)
                 PROVE TokensInv'
  <2>1. Tokens!AfterFailure(m) \in {Tokens!Asking(1), Tokens!Thrown}
    BY DEF Tokens!AfterFailure
  <2> QED BY <1>6, <1>7, <2>1 DEF Tokens!Refuse, Tokens!SendFails, Tokens!AfterFailure,
                                  Tokens!local, Tokens!api
\* What the API drops was nobody's last token, or the send is said to be hindered.
<1>8. ASSUME NEW old \in SUBSET valid, NEW more \in SUBSET {issued + 1},
             valid' = (valid \ old) \cup more, valid' \subseteq 1..issued',
             issued' \in 0..MaxIssued, hindered' = hindered \cup Tokens!LastToken(old),
             UNCHANGED <<channel, stored, fresh, delivered>>,
             call' \in [Tokens!Callers -> CallRecords],
             \A m \in Tokens!Callers :
                 \/ call'[m] = call[m]
                 \/ /\ call[m].at = "asking" /\ call'[m].at = "asked"
                    /\ call'[m].attempt = call[m].attempt /\ call'[m].token \in more
      PROVE  TokensInv'
  <2>1. hindered \subseteq hindered' /\ hindered' \subseteq Outgoing
    BY <1>0, <1>8 DEF Tokens!LastToken
  <2>2. Tokens!TypeOK'
    BY <1>0, <1>8, <2>1 DEF Tokens!TypeOK, CallRecords
  <2>3. ASSUME NEW m \in Outgoing PROVE SendInOrder(m)'
    <3>1. SendInOrder(m) /\ m \in Tokens!Callers /\ call[m] \in CallRecords
      BY SendInOrderOf
    <3>2. CASE call'[m] = call[m]
      <4>1. call[m].attempt = 1 /\ call[m].token \in old => m \in hindered'
        BY <1>8 DEF Tokens!LastToken
      <4> QED BY <1>8, <2>1, <3>1, <3>2, <4>1 DEF SendInOrder
    <3>3. CASE /\ call[m].at = "asking" /\ call'[m].at = "asked"
               /\ call'[m].attempt = call[m].attempt /\ call'[m].token \in more
      BY <1>8, <2>1, <3>1, <3>3 DEF SendInOrder
    <3> QED BY <1>8, <3>1, <3>2, <3>3
  <2>4. ASSUME NEW m \in Outgoing
        PROVE  /\ call'[m].at = "done" => delivered'[m] >= 1
               /\ delivered'[m] <= (IF channel' = "wechat" /\ m \in hindered' THEN 2
                     ELSE 1)
               /\ channel' = "wechat" /\ call'[m].at = "failed" => m \in hindered'
    <3>1. /\ m \in Tokens!Callers /\ delivered[m] \in 0..2
          /\ call[m].at = "done" => delivered[m] >= 1
          /\ delivered[m] <= (IF channel = "wechat" /\ m \in hindered THEN 2 ELSE 1)
          /\ channel = "wechat" /\ call[m].at = "failed" => m \in hindered
      BY SendInOrderOf
    <3>2. call'[m] = call[m] \/ call'[m].at = "asked"
      BY <1>8, <3>1
    <3> QED BY <1>8, <2>1, <3>1, <3>2
  <2>5. \A c \in Tokens!Callers : call'[c].at = "asked" =>
            call'[c].token # Tokens!NoToken
    BY <1>0, <1>8 DEF Tokens!NoToken
  <2> QED BY <1>0, <1>8, <2>2, <2>3, <2>4, <2>5 DEF TokensInv,
                                                    Tokens!StaleTokenLosesNothing
<1>9. ASSUME NEW c \in Tokens!Callers, Tokens!Issue(c) PROVE TokensInv'
  <2>1. PICK old \in SUBSET valid : /\ valid' = (valid \ old) \cup {issued'}
                                    /\ hindered' = hindered \cup Tokens!LastToken(old)
    BY <1>9 DEF Tokens!Issue
  <2>2. /\ call[c].at = "asking" /\ issued' = issued + 1 /\ issued' \in 0..MaxIssued
        /\ call' = [call EXCEPT ![c].at = "asked", ![c].token = issued']
        /\ UNCHANGED <<channel, stored, fresh, delivered>>
    BY <1>0, <1>9, TokensAssumption DEF Tokens!Issue, Tokens!local
  <2>3. valid' \subseteq 1..issued'
    BY <1>0, <2>1, <2>2
  <2>4. /\ call' \in [Tokens!Callers -> CallRecords]
        /\ \A m \in Tokens!Callers : m # c => call'[m] = call[m]
        /\ call'[c].at = "asked" /\ call'[c].token = issued'
        /\ call'[c].attempt = call[c].attempt
    BY <1>0, <2>2 DEF CallRecords
  <2>5. /\ {issued'} \in SUBSET {issued + 1}
        /\ \A m \in Tokens!Callers :
              \/ call'[m] = call[m]
              \/ /\ call[m].at = "asking" /\ call'[m].at = "asked"
                 /\ call'[m].attempt = call[m].attempt /\ call'[m].token \in {issued'}
    BY <2>2, <2>4
  <2>6. ASSUME NEW more, more = {issued'} PROVE TokensInv'
    <3>1. valid' = (valid \ old) \cup more /\ more \in SUBSET {issued + 1}
      BY <2>1, <2>5, <2>6
    <3>2. \A m \in Tokens!Callers :
              \/ call'[m] = call[m]
              \/ /\ call[m].at = "asking" /\ call'[m].at = "asked"
                 /\ call'[m].attempt = call[m].attempt /\ call'[m].token \in more
      BY <2>5, <2>6
    <3> QED BY <1>8, <2>1, <2>2, <2>3, <2>4, <3>1, <3>2, Zenon
  <2> QED BY <2>6
<1>10. ASSUME NEW t \in valid, Tokens!Drop(t) PROVE TokensInv'
  <2>1. /\ valid' = (valid \ {t}) \cup {} /\ {t} \in SUBSET valid
        /\ {} \in SUBSET {issued + 1}
        /\ hindered' = hindered \cup Tokens!LastToken({t}) /\ issued' = issued
        /\ call' = call
        /\ UNCHANGED <<channel, stored, fresh, delivered>>
        /\ valid' \subseteq 1..issued' /\ issued' \in 0..MaxIssued
    BY <1>0, <1>10 DEF Tokens!Drop, Tokens!local
  <2> QED BY <1>0, <1>8, <2>1
<1>11. CASE Tokens!Lapse
  BY <1>11 DEF Tokens!Lapse, Tokens!api, TokensInv, Tokens!TypeOK,
               Tokens!StaleTokenLosesNothing, SendInOrder
<1>12. CASE UNCHANGED tokensVars
  BY <1>12 DEF tokensVars, Tokens!local, Tokens!api, TokensInv, Tokens!TypeOK,
               Tokens!StaleTokenLosesNothing, SendInOrder
<1> QED BY <1>1, <1>2, <1>3, <1>4, <1>5, <1>7, <1>9, <1>10, <1>11, <1>12 DEF Tokens!Next
-----------------------------------------------------------------------------
\* Dead letters of the external channels (DeadLetters).
LEMMA LettersSize == ASSUME NEW S PROVE Letters!Cardinality(S) = Cardinality(S)
BY DEF Letters!Cardinality, Cardinality

\* A letter is in one place only, and is somewhere.
InOnePlace ==
    /\ Distinct(queue) /\ \A r \in Letters!Replays : Distinct(replays[r][2])
    /\ \A m \in Letter, r \in Letters!Replays :
          Has(replays[r][2], m) => /\ ~Has(queue, m)
                                   /\ \A q \in Letters!Replays : Has(replays[q][2], m)
                                         => q = r
    /\ \A m \in Letter, e \in Letters!Ends :
          m \in gone[e] => /\ ~Has(queue, m)
                           /\ \A r \in Letters!Replays : ~Has(replays[r][2], m)
                           /\ \A d \in Letters!Ends : m \in gone[d] => d = e
    /\ \A m \in Letter :
          m \in letters <=> \/ Has(queue, m)
                            \/ \E r \in Letters!Replays : Has(replays[r][2], m)
                            \/ \E e \in Letters!Ends : m \in gone[e]

\* What is a letter, here or in a file, is no message that is still being sent; and no
\* file that is not mixed has one twice.
OfSendsThatAreOver ==
    /\ \A m \in letters : sends[m] = "over"
    /\ \A m \in Letter : Has(file.letters, m) => sends[m] = "over"
    /\ \A m \in Letter, w \in Letters!Writes : Has(writes[w].letters, m) =>
          sends[m] = "over"
    /\ file.state # "mixed" => Distinct(file.letters)
    /\ \A w \in Letters!Writes : Distinct(writes[w].letters)

LettersInv == /\ Letters!TypeOK
              /\ \A m \in Letter : sends[m] = "waiting" => retries[m] < MaxRetries
              /\ raced \/ (/\ InOnePlace /\ OfSendsThatAreOver
                           /\ loading => letters = {})

LEMMA LettersInit == Letters!Init => LettersInv
<1> SUFFICES ASSUME Letters!Init PROVE LettersInv
  OBVIOUS
<1>1. Letters!TypeOK
  <2>1. <<>> \in Seq(Letter) /\ 0 \in 0..MaxRetries /\ 0 \in 0..MaxDeaths
    BY LettersAssumption, EmptyList
  <2>2. Letters!NoReplay \in BOOLEAN \X Seq(Letter)
    BY <2>1 DEF Letters!NoReplay
  <2>3. Letters!NoWrite \in [step : {"none", "mkdir", "write"}, letters : Seq(Letter),
                             mixed : BOOLEAN]
    BY <2>1 DEF Letters!NoWrite
  <2>4. file \in [letters : Seq(Letter), state : {"whole", "cut", "mixed"}]
    BY <2>1 DEF Letters!Init
  <2> QED BY <2>1, <2>2, <2>3, <2>4 DEF Letters!Init, Letters!TypeOK, Letters!Steps
<1>2. \A r \in Letters!Replays : replays[r][2] = <<>>
  BY DEF Letters!Init, Letters!NoReplay
<1>3. \A w \in Letters!Writes : writes[w].letters = <<>>
  BY DEF Letters!Init, Letters!NoWrite
<1>4. \A e \in Letters!Ends : gone[e] = {}
  BY DEF Letters!Init
<1>5. queue = <<>> /\ letters = {} /\ file.letters = <<>>
  BY DEF Letters!Init
<1> QED BY <1>1, <1>2, <1>3, <1>4, <1>5, EmptyList DEF Letters!Init, LettersInv,
                                                       InOnePlace, OfSendsThatAreOver

LEMMA PlacesOf ==
  ASSUME NEW m, NEW p
  PROVE  p \in Letters!Places(m) <=>
            \/ \E i \in DOMAIN queue : queue[i] = m /\ p = <<"queue", 0, i>>
            \/ \E r \in Letters!Replays : \E i \in DOMAIN replays[r][2] :
                  replays[r][2][i] = m /\ p = <<"replay", r, i>>
            \/ \E e \in Letters!Ends : m \in gone[e] /\ p = <<e, 0, 0>>
<1> DEFINE Queued == {<<"queue", 0, i>> : i \in {i \in DOMAIN queue : queue[i] = m}}
           In(r) == {<<"replay", r, i>> :
                         i \in {i \in DOMAIN replays[r][2] : replays[r][2][i] = m}}
           Left == {<<e, 0, 0>> : e \in {e \in Letters!Ends : m \in gone[e]}}
<1>1. Letters!Places(m) = Queued \cup (UNION {In(r) : r \in Letters!Replays}) \cup Left
  BY DEF Letters!Places
<1>2. p \in Queued <=> \E i \in DOMAIN queue : queue[i] = m /\ p = <<"queue", 0, i>>
  OBVIOUS
<1>3. ASSUME NEW r \in Letters!Replays
      PROVE  p \in In(r) <=> \E i \in DOMAIN replays[r][2] :
                                 replays[r][2][i] = m /\ p = <<"replay", r, i>>
  OBVIOUS
<1>4. p \in Left <=> \E e \in Letters!Ends : m \in gone[e] /\ p = <<e, 0, 0>>
  OBVIOUS
<1> HIDE DEF Queued, In, Left
<1>5. p \in UNION {In(r) : r \in Letters!Replays}
          <=> \E r \in Letters!Replays : p \in In(r)
  OBVIOUS
<1>6. p \in Letters!Places(m) <=>
         (p \in Queued \/ p \in UNION {In(r) : r \in Letters!Replays} \/ p \in Left)
  BY <1>1
<1>7. p \in UNION {In(r) : r \in Letters!Replays} <=>
         \E r \in Letters!Replays : \E i \in DOMAIN replays[r][2] :
             replays[r][2][i] = m /\ p = <<"replay", r, i>>
  BY <1>3, <1>5
<1>8. p \in Letters!Places(m) <=>
         \/ p \in Queued
         \/ \E r \in Letters!Replays : \E i \in DOMAIN replays[r][2] :
               replays[r][2][i] = m /\ p = <<"replay", r, i>>
         \/ p \in Left
  BY <1>6, <1>7, Zenon
<1> QED BY <1>2, <1>4, <1>8

LEMMA LettersHaveTheirPlace == LettersInv => Letters!EveryLetterHasItsPlace
<1> SUFFICES ASSUME InOnePlace, Letters!TypeOK, NEW m \in letters
                        PROVE Cardinality(Letters!Places(m)) = 1
  BY LettersSize DEF LettersInv, Letters!EveryLetterHasItsPlace
<1>0. m \in Letter
  BY DEF Letters!TypeOK
<1> SUFFICES \E p : Letters!Places(m) = {p}
  BY FS_Singleton
<1>1. CASE Has(queue, m)
  <2>1. PICK i \in DOMAIN queue : queue[i] = m
    BY <1>1 DEF Has
  <2>2. /\ \A j \in DOMAIN queue : queue[j] = m => j = i
        /\ \A r \in Letters!Replays : ~Has(replays[r][2], m)
        /\ \A e \in Letters!Ends : m \notin gone[e]
    BY <1>0, <1>1, <2>1 DEF InOnePlace, Distinct
  <2>3. \A p : p \in Letters!Places(m) <=> p = <<"queue", 0, i>>
    BY <2>1, <2>2, PlacesOf DEF Has
  <2>5. Letters!Places(m) = {<<"queue", 0, i>>}
    BY <2>3
  <2> QED BY <2>5
<1>2. CASE \E r \in Letters!Replays : Has(replays[r][2], m)
  <2>1. PICK r \in Letters!Replays : \E i \in DOMAIN replays[r][2] : replays[r][2][i] = m
    BY <1>2 DEF Has
  <2>2. PICK i \in DOMAIN replays[r][2] : replays[r][2][i] = m
    BY <2>1
  <2>3. /\ \A j \in DOMAIN replays[r][2] : replays[r][2][j] = m => j = i
        /\ \A q \in Letters!Replays : Has(replays[q][2], m) => q = r
        /\ ~Has(queue, m)
        /\ \A e \in Letters!Ends : m \notin gone[e]
    BY <1>0, <2>1, <2>2 DEF InOnePlace, Distinct, Has
  <2>4. \A p : p \in Letters!Places(m) <=> p = <<"replay", r, i>>
    BY <2>1, <2>2, <2>3, PlacesOf DEF Has
  <2>5. Letters!Places(m) = {<<"replay", r, i>>}
    BY <2>4
  <2> QED BY <2>5
<1>3. CASE \E e \in Letters!Ends : m \in gone[e]
  <2>1. PICK e \in Letters!Ends : m \in gone[e]
    BY <1>3
  <2>2. /\ ~Has(queue, m) /\ \A r \in Letters!Replays : ~Has(replays[r][2], m)
        /\ \A d \in Letters!Ends : m \in gone[d] => d = e
    BY <1>0, <2>1 DEF InOnePlace
  <2>3. \A p : p \in Letters!Places(m) <=> p = <<e, 0, 0>>
    BY <2>1, <2>2, PlacesOf DEF Has
  <2>5. Letters!Places(m) = {<<e, 0, 0>>}
    BY <2>3
  <2> QED BY <2>5
<1> QED BY <1>0, <1>1, <1>2, <1>3 DEF InOnePlace

\* What a new write of the file does to the writes under way.
LEMMA PersistsAddsWrite ==
  ASSUME Letters!TypeOK, Letters!Persists
  PROVE  /\ writes' \in [Letters!Writes -> [step : {"none", "mkdir", "write"},
                                            letters : Seq(Letter), mixed : BOOLEAN]]
         /\ \A w \in Letters!Writes : writes'[w] = writes[w]
            \/ writes'[w].letters = <<>>
<1> DEFINE new == [Letters!NoWrite EXCEPT !.step = "mkdir"]
<1>1. PICK v \in Letters!Writes : writes' = [writes EXCEPT ![v] = new]
  BY DEF Letters!Persists
<1>2. /\ new.letters = <<>>
      /\ new \in [step : {"none", "mkdir", "write"}, letters : Seq(Letter),
                  mixed : BOOLEAN]
  BY EmptyList DEF Letters!NoWrite
<1> HIDE DEF new
<1> QED BY <1>1, <1>2 DEF Letters!TypeOK

\* How the queue, what is replayed and what is gone may change, with the letters they
\* hold moving from one to another.
LEMMA MovesKeepPlaces ==
  ASSUME Letters!TypeOK, InOnePlace, OfSendsThatAreOver,
         writes' \in [Letters!Writes -> [step : {"none", "mkdir", "write"},
                                            letters : Seq(Letter), mixed : BOOLEAN]],
         \A w \in Letters!Writes : writes'[w] = writes[w] \/ writes'[w].letters = <<>>,
         \A m \in Letter : sends[m] = "over" => sends'[m] = "over",
         \A m \in letters' : m \in letters \/ sends'[m] = "over",
         letters' \subseteq Letter, file' = file
  PROVE  OfSendsThatAreOver'
<1>1. \A w \in Letters!Writes : Distinct(writes'[w].letters)
  BY EmptyList DEF OfSendsThatAreOver
<1>2. \A m \in Letter, w \in Letters!Writes : Has(writes'[w].letters, m) =>
          sends'[m] = "over"
  BY EmptyList DEF OfSendsThatAreOver
<1>3. \A m \in letters' : sends'[m] = "over"
  BY DEF OfSendsThatAreOver
<1> QED BY <1>1, <1>2, <1>3 DEF OfSendsThatAreOver

\* A letter that is dead makes room for itself.
LEMMA EnqueueKeepsPlaces ==
  ASSUME Letters!TypeOK, InOnePlace, NEW m \in Letter, m \notin letters,
         Letters!Enqueue(m),
         UNCHANGED replays
  PROVE  /\ queue' \in Seq(Letter) /\ gone' \in [Letters!Ends -> SUBSET Letter]
         /\ letters' = letters \cup {m} /\ InOnePlace'
<1> DEFINE all == Append(queue, m)
           evicted == Letters!Overflow(all)
           rest == Letters!Kept(all)
<1>1. /\ all \in Seq(Letter) /\ Distinct(all) /\ Len(all) \in Nat
      /\ \A x : Has(all, x) <=> x = m \/ Has(queue, x)
  <2>1. queue \in Seq(Letter) /\ Distinct(queue) /\ ~Has(queue, m)
    BY DEF Letters!TypeOK, InOnePlace
  <2> QED BY <2>1, LongerList
<1>2. /\ queue' = rest /\ letters' = letters \cup {m}
      /\ gone' = [gone EXCEPT !["evicted"] = @ \cup Letters!Range(evicted)]
  BY DEF Letters!Enqueue, Letters!Gone
<1> HIDE DEF all
<1>3. PICK k \in 0..Len(all) : k = Len(evicted) /\ evicted = SubSeq(all, 1, k)
  <2>1. CASE Len(all) > MaxEntries
    <3>1. Len(all) - MaxEntries \in 0..Len(all)
      BY <1>1, <2>1, LettersAssumption
    <3>2. Len(evicted) = Len(all) - MaxEntries
      BY <1>1, <2>1, <3>1, SplitList DEF Letters!Overflow
    <3> QED BY <2>1, <3>1, <3>2 DEF Letters!Overflow
  <2>2. CASE ~(Len(all) > MaxEntries)
    <3>1. evicted = <<>> /\ 0 \in 0..Len(all)
      BY <1>1, <2>2 DEF Letters!Overflow
    <3>2. SubSeq(all, 1, 0) \in Seq(Letter) /\ Len(SubSeq(all, 1, 0)) = 0
      BY <1>1, <3>1, SplitList
    <3>3. SubSeq(all, 1, 0) = <<>>
      BY <3>2
    <3> QED BY <3>1, <3>3
  <2> QED BY <2>1, <2>2
<1>4. rest = SubSeq(all, k + 1, Len(all))
  BY <1>3 DEF Letters!Kept
<1> HIDE DEF evicted, rest
<1>5. /\ evicted \in Seq(Letter) /\ rest \in Seq(Letter) /\ Distinct(rest)
      /\ \A x : Has(all, x) <=> Has(evicted, x) \/ Has(rest, x)
      /\ \A x : ~(Has(evicted, x) /\ Has(rest, x))
  BY <1>1, <1>3, <1>4, SplitList
<1>6. Letters!Range(evicted) \subseteq Letter /\ \A x : x \in Letters!Range(evicted)
          <=> Has(evicted, x)
  BY <1>5 DEF Letters!Range, Has
<1>7. /\ "evicted" \in Letters!Ends /\ gone' \in [Letters!Ends -> SUBSET Letter]
      /\ gone'["evicted"] = gone["evicted"] \cup Letters!Range(evicted)
      /\ \A e \in Letters!Ends : e # "evicted" => gone'[e] = gone[e]
  BY <1>2, <1>6 DEF Letters!TypeOK, Letters!Ends
<1>8. \A x \in Letter, e \in Letters!Ends :
         x \in gone'[e] <=> x \in gone[e] \/ (e = "evicted" /\ Has(evicted, x))
  BY <1>6, <1>7
<1>9. \A x \in Letter : Has(evicted, x) \/ Has(rest, x) <=> x = m \/ Has(queue, x)
  BY <1>1, <1>5
<1>10. /\ \A e \in Letters!Ends : m \notin gone[e]
       /\ \A r \in Letters!Replays : ~Has(replays[r][2], m)
       /\ ~Has(queue, m)
  BY DEF InOnePlace
<1>11. InOnePlace'
  BY <1>2, <1>5, <1>7, <1>8, <1>9, <1>10 DEF InOnePlace
<1> QED BY <1>2, <1>5, <1>7, <1>11

LEMMA LettersNext == LettersInv /\ [Letters!Next]_lettersVars => LettersInv'
<1> SUFFICES ASSUME LettersInv, [Letters!Next]_lettersVars PROVE LettersInv'
  OBVIOUS
<1>0. CASE UNCHANGED lettersVars
  BY <1>0 DEF lettersVars, LettersInv, Letters!TypeOK, InOnePlace, OfSendsThatAreOver
<1> SUFFICES ASSUME ~raced, Letters!Moves PROVE LettersInv'
  BY <1>0 DEF Letters!Next
<1>01. /\ Letters!TypeOK /\ InOnePlace /\ OfSendsThatAreOver
       /\ loading => letters = {}
       /\ \A m \in Letter : sends[m] = "waiting" => retries[m] < MaxRetries
  BY DEF LettersInv
<1>02. /\ sends \in [Letter -> Letters!Steps] /\ retries \in [Letter -> 0..MaxRetries]
       /\ queue \in Seq(Letter)
       /\ replays \in [Letters!Replays -> BOOLEAN \X Seq(Letter)]
       /\ file.letters \in Seq(Letter)
       /\ gone \in [Letters!Ends -> SUBSET Letter] /\ letters \subseteq Letter
       /\ \A w \in Letters!Writes : writes[w].letters \in Seq(Letter)
  BY <1>01 DEF Letters!TypeOK
\* A step of a send that leaves the letters alone.
<1>1. ASSUME UNCHANGED <<queue, replays, loading, file, writes, deaths, gone, letters,
                         raced>>,
             sends' \in [Letter -> Letters!Steps],
             retries' \in [Letter -> 0..MaxRetries],
             \A m \in Letter : sends'[m] = "waiting" => retries'[m] < MaxRetries,
             \A m \in Letter : sends[m] = "over" => sends'[m] = "over"
      PROVE  LettersInv'
  <2>1. InOnePlace'
    BY <1>01, <1>1 DEF InOnePlace
  <2>2. OfSendsThatAreOver'
    BY <1>01, <1>02, <1>1 DEF OfSendsThatAreOver
  <2>3. Letters!TypeOK'
    BY <1>01, <1>1 DEF Letters!TypeOK
  <2> QED BY <1>01, <1>1, <2>1, <2>2, <2>3 DEF LettersInv
\* A step that moves letters.
<1>2. ASSUME \/ UNCHANGED writes
             \/ Letters!Persists,
             raced' \/ InOnePlace', UNCHANGED <<loading, file, deaths>>,
             loading => raced' \/ letters' = {},
             raced' \in BOOLEAN,
             sends' \in [Letter -> Letters!Steps],
             retries' \in [Letter -> 0..MaxRetries],
             \A m \in Letter : sends'[m] = "waiting" => retries'[m] < MaxRetries,
             queue' \in Seq(Letter),
             replays' \in [Letters!Replays -> BOOLEAN \X Seq(Letter)],
             gone' \in [Letters!Ends -> SUBSET Letter], letters' \subseteq Letter,
             \A m \in Letter : sends[m] = "over" => sends'[m] = "over",
             \A m \in letters' : m \in letters \/ sends'[m] = "over"
      PROVE  LettersInv'
  <2>1. /\ writes' \in [Letters!Writes -> [step : {"none", "mkdir", "write"},
                                           letters : Seq(Letter), mixed : BOOLEAN]]
        /\ \A w \in Letters!Writes : writes'[w] = writes[w] \/ writes'[w].letters = <<>>
    BY <1>01, <1>2, PersistsAddsWrite DEF Letters!TypeOK
  <2>2. OfSendsThatAreOver'
    BY <1>01, <1>2, <2>1, MovesKeepPlaces
  <2>3. Letters!TypeOK'
    BY <1>01, <1>2, <2>1 DEF Letters!TypeOK
  <2> QED BY <1>2, <2>2, <2>3 DEF LettersInv
<1>3. ASSUME NEW m \in Letter, Letters!BeginSend(m) \/ Letters!SendSucceeds(m)
             \/ Letters!Retry(m) PROVE LettersInv'
  <2>1. CASE Letters!BeginSend(m)
    BY <1>01, <1>02, <1>1, <2>1 DEF Letters!BeginSend, Letters!Steps
  <2>2. CASE Letters!SendSucceeds(m)
    <3>1. /\ sends' \in [Letter -> Letters!Steps]
          /\ retries' \in [Letter -> 0..MaxRetries]
          /\ \A k \in Letter : sends'[k] = "waiting" => retries'[k] < MaxRetries
          /\ \A k \in Letter : sends[k] = "over" => sends'[k] = "over"
      BY <1>01, <1>02, <2>2, LettersAssumption DEF Letters!SendSucceeds, Letters!Over,
                                                   Letters!Steps
    <3> QED BY <1>1, <2>2, <3>1 DEF Letters!SendSucceeds
  <2>3. CASE Letters!Retry(m)
    <3>1. retries[m] \in 0..MaxRetries /\ retries[m] < MaxRetries
      BY <1>01, <1>02, <2>3 DEF Letters!Retry
    <3>2. /\ sends' \in [Letter -> Letters!Steps]
          /\ retries' \in [Letter -> 0..MaxRetries]
          /\ \A k \in Letter : sends'[k] = "waiting" => retries'[k] < MaxRetries
          /\ \A k \in Letter : sends[k] = "over" => sends'[k] = "over"
      BY <1>01, <1>02, <2>3, <3>1, LettersAssumption DEF Letters!Retry, Letters!Steps
    <3> QED BY <1>1, <2>3, <3>2 DEF Letters!Retry
  <2> QED BY <1>3, <2>1, <2>2, <2>3
<1>4. ASSUME NEW m \in Letter, Letters!SendFails(m) PROVE LettersInv'
  <2>1. sends[m] = "sending" /\ UNCHANGED <<replays, loading, file, deaths>>
        /\ m \notin letters
    BY <1>01, <1>4 DEF Letters!SendFails, OfSendsThatAreOver
  <2>2. CASE /\ sends' = [sends EXCEPT ![m] = "waiting"] /\ retries[m] < MaxRetries
             /\ UNCHANGED <<retries, queue, writes, gone, letters, raced>>
    <3>1. /\ sends' \in [Letter -> Letters!Steps]
          /\ retries' \in [Letter -> 0..MaxRetries]
          /\ \A k \in Letter : sends'[k] = "waiting" => retries'[k] < MaxRetries
          /\ \A k \in Letter : sends[k] = "over" => sends'[k] = "over"
      BY <1>01, <1>02, <2>1, <2>2 DEF Letters!Steps
    <3> QED BY <1>1, <2>1, <2>2, <3>1
  <2>3. ASSUME Letters!Over(m)
        PROVE  /\ sends' \in [Letter -> Letters!Steps]
               /\ retries' \in [Letter -> 0..MaxRetries]
               /\ \A k \in Letter : sends'[k] = "waiting" => retries'[k] < MaxRetries
               /\ \A k \in Letter : sends[k] = "over" => sends'[k] = "over"
               /\ sends'[m] = "over"
    BY <1>01, <1>02, <2>3, LettersAssumption DEF Letters!Over, Letters!Steps
  <2>4. CASE Letters!Over(m) /\ UNCHANGED <<queue, writes, gone, letters, raced>>
    BY <1>1, <2>1, <2>3, <2>4
  <2>5. CASE Letters!Over(m) /\ Letters!Enqueue(m)
    <3>1. /\ queue' \in Seq(Letter) /\ gone' \in [Letters!Ends -> SUBSET Letter]
          /\ letters' = letters \cup {m} /\ InOnePlace'
      BY <1>01, <2>1, <2>5, EnqueueKeepsPlaces
    <3>2. Letters!Persists /\ raced' = (raced \/ loading)
      BY <2>5 DEF Letters!Enqueue, Letters!Uses
    <3>3. raced' \in BOOLEAN /\ (loading => raced')
      BY <1>01, <3>2 DEF Letters!TypeOK
    <3>4. letters' \subseteq Letter
          /\ replays' \in [Letters!Replays -> BOOLEAN \X Seq(Letter)]
      BY <1>02, <2>1, <3>1
    <3> QED BY <1>2, <2>1, <2>3, <2>5, <3>1, <3>2, <3>3, <3>4
  <2> QED BY <1>4, <2>2, <2>4, <2>5 DEF Letters!SendFails
<1>5. ASSUME NEW r \in Letters!Replays, Letters!BeginReplay(r) PROVE LettersInv'
  <2>1. /\ replays[r][2] = <<>> /\ queue' = <<>>
        /\ replays' = [replays EXCEPT ![r] = <<TRUE, queue>>]
        /\ UNCHANGED <<sends, retries, loading, file, writes, deaths, gone, letters>>
        /\ raced' = (raced \/ loading)
    BY <1>5 DEF Letters!BeginReplay, Letters!NoReplay, Letters!Uses
  <2>2. /\ replays' \in [Letters!Replays -> BOOLEAN \X Seq(Letter)]
        /\ replays'[r][2] = queue /\ \A q \in Letters!Replays : q # r =>
              replays'[q] = replays[q]
        /\ queue' \in Seq(Letter)
    BY <1>02, <2>1, EmptyList
  <2>3. \A m \in Letter, q \in Letters!Replays :
           Has(replays'[q][2], m)
               <=> IF q = r THEN Has(queue, m) ELSE Has(replays[q][2], m)
    BY <2>2
  <2>4. \A m \in Letter : ~Has(queue', m) /\ ~Has(replays[r][2], m)
    BY <2>1, EmptyList
  <2>5. Distinct(queue') /\ \A q \in Letters!Replays : Distinct(replays'[q][2])
    BY <1>01, <2>1, <2>2, EmptyList DEF InOnePlace
  <2>6. InOnePlace'
    BY <1>01, <2>1, <2>3, <2>4, <2>5 DEF InOnePlace
  <2>7. raced' \in BOOLEAN /\ (loading => raced' \/ letters' = {})
    BY <1>01, <2>1 DEF Letters!TypeOK
  <2> QED BY <1>01, <1>02, <1>2, <2>1, <2>2, <2>6, <2>7
<1>6. ASSUME NEW r \in Letters!Replays, Letters!ReplayOne(r) PROVE LettersInv'
  <2> DEFINE todo == replays[r][2]
             m == Head(todo)
  <2>1. /\ todo # <<>> /\ replays' = [replays EXCEPT ![r] = <<TRUE, Tail(todo)>>]
        /\ UNCHANGED <<sends, retries, loading, file, writes, deaths, letters, raced>>
        /\ \/ gone' = [gone EXCEPT !["replayed"] = @ \cup {m}] /\ queue' = queue
           \/ queue' = Append(queue, m) /\ gone' = gone
    BY <1>6 DEF Letters!ReplayOne, Letters!Gone
  <2>2. /\ todo \in Seq(Letter) /\ Distinct(todo)
    BY <1>01, <1>02 DEF InOnePlace
  <2>3. /\ m \in Letter /\ Tail(todo) \in Seq(Letter)
        /\ Has(todo, m) /\ ~Has(Tail(todo), m) /\ Distinct(Tail(todo))
        /\ \A x : Has(todo, x) <=> x = m \/ Has(Tail(todo), x)
    <3> HIDE DEF todo
    <3> QED BY <2>1, <2>2, TailOfList
  <2>4. /\ ~Has(queue, m) /\ \A q \in Letters!Replays : Has(replays[q][2], m) => q = r
        /\ \A e \in Letters!Ends : m \notin gone[e]
        /\ m \in letters
    BY <1>01, <2>3 DEF InOnePlace
  <2>5. /\ replays' \in [Letters!Replays -> BOOLEAN \X Seq(Letter)]
        /\ replays'[r][2] = Tail(todo) /\ \A q \in Letters!Replays : q # r =>
              replays'[q] = replays[q]
    BY <1>02, <2>1, <2>3
  <2>6. \A x \in Letter, q \in Letters!Replays :
           Has(replays'[q][2], x) <=> Has(replays[q][2], x) /\ ~(q = r /\ x = m)
    BY <2>3, <2>5
  <2>7. \A q \in Letters!Replays : Distinct(replays'[q][2])
    BY <1>01, <2>3, <2>5 DEF InOnePlace
  <2> HIDE DEF m, todo
  <2>8. CASE gone' = [gone EXCEPT !["replayed"] = @ \cup {m}] /\ queue' = queue
    <3>1. /\ "replayed" \in Letters!Ends /\ gone' \in [Letters!Ends -> SUBSET Letter]
          /\ \A x \in Letter, e \in Letters!Ends :
                x \in gone'[e] <=> x \in gone[e] \/ (e = "replayed" /\ x = m)
      BY <1>02, <2>3, <2>8 DEF Letters!Ends
    <3>2. InOnePlace'
      BY <1>01, <2>1, <2>3, <2>4, <2>6, <2>7, <2>8, <3>1 DEF InOnePlace
    <3> QED BY <1>01, <1>02, <1>2, <2>1, <2>5, <2>8, <3>1, <3>2 DEF Letters!TypeOK
  <2>9. CASE queue' = Append(queue, m) /\ gone' = gone
    <3>1. /\ queue' \in Seq(Letter) /\ Distinct(queue')
          /\ \A x : Has(queue', x) <=> x = m \/ Has(queue, x)
      BY <1>01, <1>02, <2>3, <2>4, <2>9, LongerList DEF InOnePlace
    <3>2. InOnePlace'
      BY <1>01, <2>1, <2>3, <2>4, <2>6, <2>7, <2>9, <3>1, SMTT(20) DEF InOnePlace
    <3> QED BY <1>01, <1>02, <1>2, <2>1, <2>5, <2>9, <3>1, <3>2 DEF Letters!TypeOK
  <2> QED BY <2>1, <2>8, <2>9
<1>7. ASSUME NEW r \in Letters!Replays, Letters!EndReplay(r) PROVE LettersInv'
  <2>1. /\ replays[r] = <<TRUE, <<>> >>
        /\ replays' = [replays EXCEPT ![r] = Letters!NoReplay]
        /\ Letters!Persists
        /\ UNCHANGED <<sends, retries, queue, loading, file, deaths, gone, letters,
                       raced>>
    BY <1>7 DEF Letters!EndReplay
  <2>2. \A q \in Letters!Replays : replays'[q][2] = replays[q][2]
    BY <1>02, <2>1 DEF Letters!NoReplay
  <2>3. replays' \in [Letters!Replays -> BOOLEAN \X Seq(Letter)]
    BY <1>02, <2>1, EmptyList DEF Letters!NoReplay
  <2>4. InOnePlace'
    BY <1>01, <2>1, <2>2 DEF InOnePlace
  <2> QED BY <1>01, <1>02, <1>2, <2>1, <2>3, <2>4 DEF Letters!TypeOK
\* A step of a write that leaves the letters alone.
<1>8. ASSUME NEW w \in Letters!Writes, Letters!MakeDirectory(w)
             \/ Letters!FinishWrite(w),
             file' \in [letters : Seq(Letter), state : {"whole", "cut", "mixed"}],
             writes' \in [Letters!Writes -> [step : {"none", "mkdir", "write"},
                                             letters : Seq(Letter), mixed : BOOLEAN]],
             \A m \in Letter : Has(file'.letters, m) => sends[m] = "over",
             file'.state # "mixed" => Distinct(file'.letters),
             \A v \in Letters!Writes : \/ writes'[v].letters \in {writes[v].letters,
                                             <<>>}
                                       \/ writes'[v].letters = queue
      PROVE  LettersInv'
  <2>1. UNCHANGED <<sends, retries, queue, replays, loading, deaths, gone, letters,
                    raced>>
    BY <1>8 DEF Letters!MakeDirectory, Letters!FinishWrite
  <2>2. InOnePlace'
    BY <1>01, <2>1 DEF InOnePlace
  <2>3. \A m \in Letter : Has(queue, m) => sends[m] = "over"
    BY <1>01 DEF InOnePlace, OfSendsThatAreOver
  <2>4. ASSUME NEW v \in Letters!Writes
        PROVE  /\ Distinct(writes'[v].letters)
               /\ \A m \in Letter : Has(writes'[v].letters, m) => sends[m] = "over"
    <3>1. CASE writes'[v].letters = writes[v].letters
      BY <1>01, <3>1 DEF OfSendsThatAreOver
    <3>2. CASE writes'[v].letters = <<>>
      BY <3>2, EmptyList
    <3>3. CASE writes'[v].letters = queue
      BY <1>01, <2>3, <3>3 DEF InOnePlace
    <3> QED BY <1>8, <3>1, <3>2, <3>3
  <2>5. OfSendsThatAreOver'
    BY <1>01, <1>8, <2>1, <2>4 DEF OfSendsThatAreOver
  <2>6. Letters!TypeOK'
    BY <1>01, <1>8, <2>1 DEF Letters!TypeOK
  <2> QED BY <1>01, <2>1, <2>2, <2>5, <2>6 DEF LettersInv
<1>9. ASSUME NEW w \in Letters!Writes, Letters!MakeDirectory(w) PROVE LettersInv'
  <2>1. /\ file'.letters = queue /\ file'.state = "cut"
        /\ file' \in [letters : Seq(Letter), state : {"whole", "cut", "mixed"}]
    BY <1>02, <1>9 DEF Letters!MakeDirectory
  <2>2. Distinct(queue) /\ \A m \in Letter : Has(queue, m) => sends[m] = "over"
    BY <1>01 DEF InOnePlace, OfSendsThatAreOver
  <2>3. ASSUME NEW v \in Letters!Writes
        PROVE  /\ writes'[v] \in [step : {"none", "mkdir", "write"},
                                  letters : Seq(Letter), mixed : BOOLEAN]
               /\ writes'[v].letters \in {writes[v].letters, queue}
    <3>1. writes[v] \in [step : {"none", "mkdir", "write"},
                         letters : Seq(Letter), mixed : BOOLEAN]
      BY <1>01 DEF Letters!TypeOK
    <3>2. writes'[v] = IF v = w THEN [step |-> "write", letters |-> queue,
                                      mixed |-> Letters!Overlaps(w) # {}]
                       ELSE IF v \in Letters!Overlaps(w)
                           THEN [writes[v] EXCEPT !.mixed = TRUE]
                       ELSE writes[v]
      BY <1>9 DEF Letters!MakeDirectory
    <3> DEFINE overlaps == Letters!Overlaps(w) # {}
    <3>3. overlaps \in BOOLEAN
      OBVIOUS
    <3>4. CASE v = w
      <4>1. writes'[v] = [step |-> "write", letters |-> queue, mixed |-> overlaps]
        BY <3>2, <3>4
      <4> HIDE DEF overlaps
      <4> QED BY <1>02, <3>3, <4>1
    <3>5. CASE v # w
      BY <3>1, <3>2, <3>5
    <3> QED BY <3>4, <3>5
  <2>4. writes' \in [Letters!Writes -> [step : {"none", "mkdir", "write"},
                                        letters : Seq(Letter), mixed : BOOLEAN]]
    <3> DEFINE Row(v) == IF v = w THEN [step |-> "write", letters |-> queue,
                                        mixed |-> Letters!Overlaps(w) # {}]
                         ELSE IF v \in Letters!Overlaps(w)
                             THEN [writes[v] EXCEPT !.mixed = TRUE]
                         ELSE writes[v]
    <3>1. writes' = [v \in Letters!Writes |-> Row(v)]
      BY <1>9 DEF Letters!MakeDirectory
    <3> HIDE DEF Row
    <3>2. \A v \in Letters!Writes : Row(v) = writes'[v]
      BY <3>1
    <3> QED BY <2>3, <3>1, <3>2
  <2> QED BY <1>8, <1>9, <2>1, <2>2, <2>3, <2>4
<1>10. ASSUME NEW w \in Letters!Writes, Letters!FinishWrite(w) PROVE LettersInv'
  <2> DEFINE ls == writes[w].letters
  <2>1. /\ ls \in Seq(Letter) /\ Distinct(ls)
        /\ \A m \in Letter : Has(ls, m) => sends[m] = "over"
        /\ writes' = [writes EXCEPT ![w] = Letters!NoWrite]
    BY <1>01, <1>02, <1>10 DEF Letters!FinishWrite, OfSendsThatAreOver
  <2>2. /\ Letters!NoWrite \in [step : {"none", "mkdir", "write"},
                                letters : Seq(Letter),
                                mixed : BOOLEAN]
        /\ Letters!NoWrite.letters = <<>>
    BY EmptyList DEF Letters!NoWrite
  <2>3. /\ writes' \in [Letters!Writes -> [step : {"none", "mkdir", "write"},
                                           letters : Seq(Letter), mixed : BOOLEAN]]
        /\ \A v \in Letters!Writes : writes'[v].letters \in {writes[v].letters, <<>>}
    BY <1>01, <2>1, <2>2 DEF Letters!TypeOK
  <2>4. /\ file' \in [letters : Seq(Letter), state : {"whole", "cut", "mixed"}]
        /\ \A m \in Letter : Has(file'.letters, m) => sends[m] = "over"
        /\ file'.state # "mixed" => Distinct(file'.letters)
    <3> HIDE DEF ls
    <3>1. CASE file' = [letters |-> ls, state |-> "whole"]
      BY <2>1, <3>1
    <3>2. CASE file.state = "mixed" /\ file' = file
      BY <1>01, <3>2 DEF Letters!TypeOK, OfSendsThatAreOver
    <3>3. CASE \E n \in 1..(Len(file.letters) + 1) :
                  file' = [letters |-> ls \o SubSeq(file.letters, n, Len(file.letters)),
                           state |-> "mixed"]
      <4>1. PICK n \in 1..(Len(file.letters) + 1) :
                  file' = [letters |-> ls \o SubSeq(file.letters, n, Len(file.letters)),
                           state |-> "mixed"]
        BY <3>3
      <4> DEFINE rest == SubSeq(file.letters, n, Len(file.letters))
      <4>2. Len(file.letters) \in 0..Len(file.letters)
        BY <1>02
      <4>3. rest \in Seq(Letter) /\ \A x : Has(rest, x) => Has(file.letters, x)
        BY <1>02, <4>2, PartOfList
      <4> HIDE DEF rest
      <4>4. /\ ls \o rest \in Seq(Letter)
            /\ \A x : Has(ls \o rest, x) <=> Has(ls, x) \/ Has(rest, x)
        BY <2>1, <4>3, JoinedLists
      <4>5. file'.letters = ls \o rest /\ file'.state = "mixed"
            /\ file' \in [letters : Seq(Letter), state : {"whole", "cut", "mixed"}]
        BY <4>1, <4>4 DEF rest
      <4> QED BY <1>01, <2>1, <4>3, <4>4, <4>5 DEF OfSendsThatAreOver
    <3> QED BY <1>10, <3>1, <3>2, <3>3 DEF Letters!FinishWrite, ls
  <2> QED BY <1>8, <1>10, <2>3, <2>4
<1>11. CASE Letters!Flush
  <2>1. /\ gone' = [gone EXCEPT !["flushed"] = @ \cup Letters!Range(queue)]
        /\ queue' = <<>>
        /\ Letters!Persists /\ raced' = (raced \/ loading)
        /\ UNCHANGED <<sends, retries, replays, loading, file, deaths, letters>>
    BY <1>11 DEF Letters!Flush, Letters!Gone, Letters!Uses
  <2>2. Letters!Range(queue) \subseteq Letter /\ \A x : x \in Letters!Range(queue)
            <=> Has(queue, x)
    BY <1>02 DEF Letters!Range, Has
  <2>3. /\ gone' \in [Letters!Ends -> SUBSET Letter]
        /\ \A x \in Letter, e \in Letters!Ends :
              x \in gone'[e] <=> x \in gone[e] \/ (e = "flushed" /\ Has(queue, x))
        /\ "flushed" \in Letters!Ends
    BY <1>02, <2>1, <2>2 DEF Letters!Ends
  <2>4. Distinct(queue') /\ queue' \in Seq(Letter) /\ \A x : ~Has(queue', x)
    BY <2>1, EmptyList
  <2>5. InOnePlace'
    BY <1>01, <2>1, <2>3, <2>4 DEF InOnePlace
  <2>6. raced' \in BOOLEAN /\ (loading => raced' \/ letters' = {})
    BY <1>01, <2>1 DEF Letters!TypeOK
  <2> QED BY <1>01, <1>02, <1>2, <2>1, <2>3, <2>4, <2>5, <2>6
<1>12. CASE Letters!Load
  <2>1. PICK n \in 0..Len(file.letters) : queue' = SubSeq(file.letters, 1, n)
    BY <1>12 DEF Letters!Load
  <2>2. /\ loading /\ loading' = FALSE /\ letters' = letters \cup Letters!Range(queue')
        /\ raced' = (raced \/ file.state = "mixed")
        /\ UNCHANGED <<sends, retries, replays, file, writes, deaths, gone>>
    BY <1>12 DEF Letters!Load
  <2>3. /\ queue' \in Seq(Letter) /\ \A x : Has(queue', x) => Has(file.letters, x)
        /\ Distinct(file.letters) => Distinct(queue')
    <3>1. 1 \in 1..(Len(file.letters) + 1)
      BY <1>02
    <3> QED BY <1>02, <2>1, <3>1, PartOfList
  <2>4. Letters!Range(queue') \subseteq Letter /\ \A x : x \in Letters!Range(queue')
            <=> Has(queue', x)
    BY <2>3 DEF Letters!Range, Has
  <2>5. letters = {} /\ letters' \subseteq Letter /\ raced' \in BOOLEAN
        /\ \A x : x \in letters' <=> Has(queue', x)
    BY <1>01, <2>2, <2>4
  <2>6. Letters!TypeOK'
    BY <1>01, <2>2, <2>3, <2>5 DEF Letters!TypeOK
  <2>7. CASE file.state = "mixed"
    BY <1>01, <2>2, <2>6, <2>7 DEF LettersInv
  <2>8. CASE file.state # "mixed"
    <3>1. Distinct(queue') /\ \A m \in Letter : Has(queue', m) => sends[m] = "over"
      BY <1>01, <2>3, <2>8 DEF OfSendsThatAreOver
    <3>2. \A m \in Letter : /\ \A r \in Letters!Replays : ~Has(replays[r][2], m)
                            /\ \A e \in Letters!Ends : m \notin gone[e]
      BY <1>01, <2>5 DEF InOnePlace
    <3>3. InOnePlace'
      BY <1>01, <2>2, <2>5, <3>1, <3>2 DEF InOnePlace
    <3>4. OfSendsThatAreOver'
      BY <1>01, <2>2, <2>5, <3>1, <2>4 DEF OfSendsThatAreOver, Letters!TypeOK
    <3> QED BY <1>01, <2>2, <2>6, <3>3, <3>4 DEF LettersInv
  <2> QED BY <2>7, <2>8
<1>13. CASE Letters!Restart
  <2>1. /\ deaths' \in 0..MaxDeaths /\ loading' = TRUE /\ file' = file /\ raced' = raced
        /\ sends' = [m \in Letter |-> IF sends[m] = "new" THEN "new" ELSE "over"]
        /\ retries' = [m \in Letter |-> 0]
        /\ queue' = <<>> /\ letters' = {}
        /\ replays' = [r \in Letters!Replays |-> Letters!NoReplay]
        /\ writes' = [w \in Letters!Writes |-> Letters!NoWrite]
        /\ gone' = [e \in Letters!Ends |-> {}]
    BY <1>01, <1>13, LettersAssumption DEF Letters!Restart, Letters!TypeOK
  <2>2. /\ sends' \in [Letter -> Letters!Steps]
        /\ retries' \in [Letter -> 0..MaxRetries]
        /\ \A m \in Letter : sends'[m] # "waiting" /\ (sends[m] = "over" =>
              sends'[m] = "over")
    BY <1>02, <2>1, LettersAssumption DEF Letters!Steps
  <2>3. /\ queue' \in Seq(Letter)
        /\ replays' \in [Letters!Replays -> BOOLEAN \X Seq(Letter)]
        /\ writes' \in [Letters!Writes -> [step : {"none", "mkdir", "write"},
                                           letters : Seq(Letter), mixed : BOOLEAN]]
        /\ \A w \in Letters!Writes : writes'[w].letters = <<>>
        /\ \A r \in Letters!Replays : replays'[r][2] = <<>>
    BY <2>1, EmptyList DEF Letters!NoReplay, Letters!NoWrite
  <2>4. Letters!TypeOK'
    BY <1>01, <2>1, <2>2, <2>3 DEF Letters!TypeOK
  <2>5. InOnePlace'
    BY <2>1, <2>3, EmptyList DEF InOnePlace
  <2>6. OfSendsThatAreOver'
    BY <1>01, <2>1, <2>2, <2>3, EmptyList DEF OfSendsThatAreOver
  <2> QED BY <2>1, <2>2, <2>4, <2>5, <2>6 DEF LettersInv
<1> QED BY <1>3, <1>4, <1>5, <1>6, <1>7, <1>9, <1>10, <1>11, <1>12, <1>13
           DEF Letters!Moves
-----------------------------------------------------------------------------
\* Sessions of the WebSocket channel (GatewaySessions).
SocketsInv == Sockets!TypeOK /\ Sockets!SessionsFollowSockets

LEMMA SocketsInit == Sockets!Init => SocketsInv
<1> SUFFICES ASSUME Sockets!Init PROVE SocketsInv
  OBVIOUS
<1>1. Sockets!TypeOK
  BY SocketsAssumption DEF Sockets!Init, Sockets!TypeOK
<1>2. Sockets!SessionsFollowSockets
  BY DEF Sockets!Init, Sockets!SessionsFollowSockets
<1> QED BY <1>1, <1>2 DEF SocketsInv

\* The channel, the gateway and the monitor forget the connections in C at once.
LEMMA DisconnectsTogether ==
  ASSUME SocketsInv, NEW C \in SUBSET Connections, Sockets!Disconnects(C)
  PROVE  /\ sessions' \subseteq Connections /\ active' \subseteq Connections
         /\ gateway' \in [Connections -> {"none", "real", "auto"}]
         /\ \A c \in sessions' : c \in sessions /\ c \notin C /\ gateway'[c] = "real"
         /\ \A c \in sessions : c \in sessions' \/ c \in C
         /\ active' = {c \in Connections : gateway'[c] = "real"}
         /\ \A c \in active' : c \in active /\ c \notin C
<1>1. /\ sessions' = sessions \ C /\ active' = active \ C
      /\ gateway' = [c \in Connections |-> IF c \in C THEN "none" ELSE gateway[c]]
  BY DEF Sockets!Disconnects
<1>2. /\ sessions \subseteq Connections /\ active \subseteq Connections
      /\ gateway \in [Connections -> {"none", "real", "auto"}]
      /\ \A c \in sessions : gateway[c] = "real"
      /\ active = {c \in Connections : gateway[c] = "real"}
  BY DEF SocketsInv, Sockets!TypeOK, Sockets!SessionsFollowSockets
<1> QED BY <1>1, <1>2

LEMMA SocketsNext == SocketsInv /\ [Sockets!Next]_socketsVars => SocketsInv'
<1> SUFFICES ASSUME SocketsInv, [Sockets!Next]_socketsVars PROVE SocketsInv'
  OBVIOUS
<1>0. /\ server \in {"down", "up", "closing"}
      /\ socket \in [Connections -> {"none", "open", "dying", "closed"}]
      /\ sessions \subseteq Connections /\ active \subseteq Connections
      /\ gateway \in [Connections -> {"none", "real", "auto"}]
      /\ idle \in [Connections -> 0..(Timeout + 1)]
      /\ turns \in [Connections -> 0..MaxTurns]
  BY DEF SocketsInv, Sockets!TypeOK
<1>01. /\ \A c \in sessions : gateway[c] = "real" /\ socket[c] \in {"open", "dying"}
       /\ active = {c \in Connections : gateway[c] = "real"}
       /\ \A c \in active : socket[c] \in {"open", "dying"}
       /\ \A c \in Connections : socket[c] = "open" => c \in sessions
       /\ server = "down" => active = {}
  BY DEF SocketsInv, Sockets!SessionsFollowSockets
<1>1. CASE Sockets!Start
  BY <1>1 DEF Sockets!Start, SocketsInv, Sockets!TypeOK, Sockets!SessionsFollowSockets
<1>2. CASE Sockets!Stop
  <2>1. /\ server' = "closing" /\ sessions' = {}
        /\ UNCHANGED <<gateway, active, idle, turns>>
        /\ socket' = [c \in Connections |-> IF c \in sessions THEN "dying"
              ELSE socket[c]]
    BY <1>2 DEF Sockets!Stop
  <2>2. Sockets!TypeOK'
    BY <1>0, <2>1 DEF Sockets!TypeOK
  <2>3. Sockets!SessionsFollowSockets'
    BY <1>01, <2>1 DEF Sockets!SessionsFollowSockets
  <2> QED BY <2>2, <2>3 DEF SocketsInv
<1>3. CASE Sockets!Closed
  BY <1>3 DEF Sockets!Closed, SocketsInv, Sockets!TypeOK, Sockets!SessionsFollowSockets
<1>4. CASE Sockets!Heartbeat
  <2> DEFINE late == {c \in sessions : socket[c] = "open" /\ idle[c] > Timeout}
  <2>1. /\ server = "up" /\ UNCHANGED <<server, idle, turns>>
        /\ Sockets!Disconnects(late)
        /\ socket' = [c \in Connections |-> IF c \in late THEN "dying" ELSE socket[c]]
    BY <1>4 DEF Sockets!Heartbeat
  <2>2. late \in SUBSET Connections /\ \A c \in late : c \in sessions
    BY <1>0
  <2> HIDE DEF late
  <2>3. /\ sessions' \subseteq Connections /\ active' \subseteq Connections
        /\ gateway' \in [Connections -> {"none", "real", "auto"}]
        /\ \A c \in sessions' : c \in sessions /\ c \notin late /\ gateway'[c] = "real"
        /\ \A c \in sessions : c \in sessions' \/ c \in late
        /\ active' = {c \in Connections : gateway'[c] = "real"}
        /\ \A c \in active' : c \in active /\ c \notin late
    BY <2>1, <2>2, DisconnectsTogether
  <2>5. Sockets!TypeOK'
    BY <1>0, <2>1, <2>3 DEF Sockets!TypeOK
  <2>6. Sockets!SessionsFollowSockets'
    BY <1>01, <2>1, <2>3 DEF Sockets!SessionsFollowSockets
  <2> QED BY <2>5, <2>6 DEF SocketsInv
<1>5. CASE Sockets!Tick
  <2>1. /\ UNCHANGED <<server, socket, sessions, gateway, active, turns>>
        /\ idle' = [c \in Connections |-> IF socket[c] = "open" /\ idle[c] <= Timeout
                                          THEN idle[c] + 1 ELSE idle[c]]
    BY <1>5 DEF Sockets!Tick
  <2>2. idle' \in [Connections -> 0..(Timeout + 1)]
    BY <1>0, <2>1, SocketsAssumption
  <2>3. Sockets!SessionsFollowSockets'
    BY <1>01, <2>1 DEF Sockets!SessionsFollowSockets
  <2> QED BY <2>1, <2>2, <2>3 DEF SocketsInv, Sockets!TypeOK
<1>6. ASSUME NEW d \in Connections, Sockets!Connect(d) PROVE SocketsInv'
  <2>1. /\ server = "up" /\ socket[d] = "none"
        /\ socket' = [socket EXCEPT ![d] = "open"]
        /\ sessions' = sessions \cup {d} /\ active' = active \cup {d}
        /\ gateway' = [gateway EXCEPT ![d] = "real"]
        /\ UNCHANGED <<server, idle, turns>>
    BY <1>6 DEF Sockets!Connect
  <2>2. Sockets!TypeOK'
    BY <1>0, <2>1 DEF Sockets!TypeOK
  <2>3. Sockets!SessionsFollowSockets'
    BY <1>0, <1>01, <2>1 DEF Sockets!SessionsFollowSockets
  <2> QED BY <2>2, <2>3 DEF SocketsInv
<1>7. ASSUME NEW d \in Connections, Sockets!Message(d) PROVE SocketsInv'
  <2>1. /\ UNCHANGED <<server, socket, sessions, gateway, active>>
        /\ idle' = [idle EXCEPT ![d] = 0] /\ turns[d] < MaxTurns
        /\ turns' = [turns EXCEPT ![d] = @ + 1]
    BY <1>7 DEF Sockets!Message
  <2>2. Sockets!TypeOK'
    BY <1>0, <2>1, SocketsAssumption DEF Sockets!TypeOK
  <2>3. Sockets!SessionsFollowSockets'
    BY <1>01, <2>1 DEF Sockets!SessionsFollowSockets
  <2> QED BY <2>2, <2>3 DEF SocketsInv
<1>8. ASSUME NEW d \in Connections, Sockets!Send(d) PROVE SocketsInv'
  <2>1. /\ UNCHANGED <<server, socket, sessions, active, idle, turns>>
        /\ gateway' = [gateway EXCEPT ![d] = IF @ = "none" THEN "auto" ELSE @]
    BY <1>8 DEF Sockets!Send
  <2>3. Sockets!TypeOK'
    BY <1>0, <2>1 DEF Sockets!TypeOK
  <2>4. Sockets!SessionsFollowSockets'
    BY <1>01, <2>1 DEF Sockets!SessionsFollowSockets
  <2> QED BY <2>3, <2>4 DEF SocketsInv
<1>9. ASSUME NEW d \in Connections, Sockets!EndTurn(d) PROVE SocketsInv'
  <2>1. /\ UNCHANGED <<server, socket, sessions, gateway, active, idle>>
        /\ turns[d] > 0 /\ turns' = [turns EXCEPT ![d] = @ - 1]
    BY <1>9 DEF Sockets!EndTurn
  <2>2. Sockets!TypeOK'
    BY <1>0, <2>1, SocketsAssumption DEF Sockets!TypeOK
  <2>3. Sockets!SessionsFollowSockets'
    BY <1>01, <2>1 DEF Sockets!SessionsFollowSockets
  <2> QED BY <2>2, <2>3 DEF SocketsInv
<1>10. ASSUME NEW d \in Connections, Sockets!ClientCloses(d) PROVE SocketsInv'
  BY <1>10 DEF Sockets!ClientCloses, SocketsInv, Sockets!TypeOK,
               Sockets!SessionsFollowSockets
<1>11. ASSUME NEW d \in Connections, Sockets!CloseEvent(d) PROVE SocketsInv'
  <2> DEFINE C == {d}
  <2>1. /\ socket[d] = "dying" /\ socket' = [socket EXCEPT ![d] = "closed"]
        /\ Sockets!Disconnects(C) /\ UNCHANGED <<server, idle, turns>>
    BY <1>11 DEF Sockets!CloseEvent
  <2>2. C \in SUBSET Connections /\ d \in C /\ \A c : c \in C => c = d
    OBVIOUS
  <2> HIDE DEF C
  <2>3. /\ sessions' \subseteq Connections /\ active' \subseteq Connections
        /\ gateway' \in [Connections -> {"none", "real", "auto"}]
        /\ \A c \in sessions' : c \in sessions /\ c \notin C /\ gateway'[c] = "real"
        /\ \A c \in sessions : c \in sessions' \/ c \in C
        /\ active' = {c \in Connections : gateway'[c] = "real"}
        /\ \A c \in active' : c \in active /\ c \notin C
    BY <2>1, <2>2, DisconnectsTogether
  <2>5. Sockets!TypeOK'
    BY <1>0, <2>1, <2>3 DEF Sockets!TypeOK
  <2>6. Sockets!SessionsFollowSockets'
    BY <1>01, <2>1, <2>2, <2>3 DEF Sockets!SessionsFollowSockets
  <2> QED BY <2>5, <2>6 DEF SocketsInv
<1>12. CASE UNCHANGED socketsVars
  BY <1>12 DEF socketsVars, SocketsInv, Sockets!TypeOK, Sockets!SessionsFollowSockets
<1> QED BY <1>1, <1>2, <1>3, <1>4, <1>5, <1>6, <1>7, <1>8, <1>9, <1>10, <1>11, <1>12
           DEF Sockets!Next
-----------------------------------------------------------------------------
\* The health report (WorkspaceHealth).
\* What the monitor and the gateway's errors say: a turn that failed and a start that
\* failed show in the monitor, and a channel that serves when it should not shows in the
\* errors of the gateway.
FailuresShow ==
    /\ failedTurn => monitor = "degraded"
    /\ place = "down" /\ ~stopped => monitor = "degraded" \/ ~gatewayStatus.made
    /\ place = "up" => running /\ (gatewayStatus.running => up = Health!Channels)
    /\ place = "up" /\ ~gatewayStatus.running /\ ~gatewayStatus.errors => up = {}
    /\ place \in {"down", "llm", "skills"} /\ ~gatewayStatus.errors => up = {}
    /\ place = "closes" /\ ~gatewayStatus.errors => up \subseteq left
    /\ place = "rollsBack" => gatewayStatus.errors

HealthInv == Health!TypeOK /\ FailuresShow

LEMMA HealthInit == Health!Init => HealthInv
<1> SUFFICES ASSUME Health!Init PROVE HealthInv
  OBVIOUS
<1>1. 0 \in 0..MaxStartFailures /\ 0 \in 0..MaxStarts /\ 0 \in 0..MaxTurns /\ 0 \in 0..5
  BY HealthAssumption
<1>2. /\ gatewayStatus \in [made : BOOLEAN, running : BOOLEAN, errors : BOOLEAN]
      /\ gatewayStatus.made = FALSE
  BY DEF Health!Init, Health!NoGateway
<1>3. Health!TypeOK
  BY <1>1, <1>2 DEF Health!Init, Health!TypeOK, Health!AllParts
<1>4. FailuresShow
  BY <1>2 DEF Health!Init, FailuresShow
<1> QED BY <1>3, <1>4 DEF HealthInv

LEMMA ReportIsTrue == HealthInv => Health!HealthIsTrue
<1> SUFFICES ASSUME HealthInv, Health!Report = "ok" PROVE Health!HealthIsTrue
  BY DEF Health!HealthIsTrue
<1>1. /\ Health!RuntimeCheck = "ok" /\ Health!MemoryCheck \in {"ok", "disabled"}
      /\ Health!GatewayCheck = "ok" /\ Health!IngressCheck \in {"ok", "disabled"}
  <2>1. "unavailable" \notin Health!Checks /\ "degraded" \notin Health!Checks
    BY DEF Health!Report
  <2>2. Health!RuntimeCheck \in {"ok", "degraded"}
    BY DEF Health!RuntimeCheck
  <2>3. Health!MemoryCheck \in {"ok", "disabled", "unavailable"}
    BY DEF Health!MemoryCheck
  <2>4. Health!GatewayCheck \in {"ok", "degraded", "unavailable"}
    BY DEF Health!GatewayCheck
  <2>5. Health!IngressCheck \in {"ok", "degraded", "disabled"}
    BY DEF Health!IngressCheck
  <2> QED BY <2>1, <2>2, <2>3, <2>4, <2>5 DEF Health!Checks
<1>2. monitor # "degraded"
  BY <1>1 DEF Health!RuntimeCheck
<1>3. config.memory # "off" => memory = "open"
  BY <1>1 DEF Health!MemoryCheck
<1>4. gatewayStatus.made /\ ~gatewayStatus.errors /\ (running => gatewayStatus.running)
  BY <1>1 DEF Health!GatewayCheck
<1>5. rejecting = {}
  BY <1>1, <1>4 DEF Health!IngressCheck, HealthInv, Health!TypeOK
<1> QED BY <1>2, <1>3, <1>4, <1>5 DEF Health!HealthIsTrue, HealthInv, FailuresShow

LEMMA HealthNext == HealthInv /\ [Health!Next]_healthVars => HealthInv'
<1> SUFFICES ASSUME HealthInv, [Health!Next]_healthVars PROVE HealthInv'
  OBVIOUS
<1>0. /\ config \in [memory : {"off", "any", "required"},
                     adapters : {"disabled", "ok", "degraded"}]
      /\ place \in {"down", "llm", "skills", "opens", "rollsBack", "up", "closes"}
      /\ left \subseteq Health!Channels /\ up \subseteq Health!Channels
      /\ rejecting \subseteq Guarded
      /\ running \in BOOLEAN /\ stopped \in BOOLEAN /\ failedTurn \in BOOLEAN
      /\ monitor \in {"none", "starting", "running", "degraded", "stopped"}
      /\ memory \in {"none", "open"} /\ partsMade \in 0..5
      /\ gatewayStatus \in [made : BOOLEAN, running : BOOLEAN, errors : BOOLEAN]
      /\ turnsUnderWay \in 0..MaxTurns /\ startFailures \in 0..MaxStartFailures
      /\ starts \in 0..MaxStarts
  BY DEF HealthInv, Health!TypeOK, Health!AllParts
<1>01. FailuresShow
  BY DEF HealthInv
<1>02. /\ \A n \in 1..5 : Health!AtLeast(n) \in 0..5
       /\ Health!NewGateway \in [made : BOOLEAN, running : BOOLEAN, errors : BOOLEAN]
  BY <1>0 DEF Health!AtLeast, Health!NewGateway
<1>1. CASE Health!Begin
  <2>1. /\ place = "down" /\ starts' \in 0..MaxStarts /\ stopped' = FALSE
        /\ failedTurn' = FALSE /\ partsMade' \in 0..5
        /\ UNCHANGED <<config, left, gatewayStatus, up, rejecting, turnsUnderWay>>
        /\ startFailures' \in 0..MaxStartFailures /\ memory' \in {"none", "open"}
        /\ running' \in BOOLEAN /\ place' \in {"llm", "down"}
        /\ monitor' \in {"starting", "degraded"} /\ (place' = "down" =>
              monitor' = "degraded")
    <3>1. starts < MaxStarts /\ starts' = starts + 1 => starts' \in 0..MaxStarts
      BY <1>0, HealthAssumption
    <3>2. startFailures < MaxStartFailures /\ startFailures' = startFailures + 1 =>
              startFailures' \in 0..MaxStartFailures
      BY <1>0, HealthAssumption
    <3>3. Health!AtLeast(Health!Tools) \in 0..5
          /\ Health!AtLeast(Health!Governance) \in 0..5
      BY <1>02 DEF Health!Tools, Health!Governance
    <3> QED BY <1>0, <1>1, <3>1, <3>2, <3>3 DEF Health!Begin, Health!Fails
  <2>2. Health!TypeOK'
    BY <1>0, <2>1 DEF Health!TypeOK, Health!AllParts
  <2>3. FailuresShow'
    BY <1>01, <2>1 DEF FailuresShow
  <2> QED BY <2>2, <2>3 DEF HealthInv
<1>2. CASE Health!HasProvider
  BY <1>0, <1>01, <1>2 DEF Health!HasProvider, HealthInv, Health!TypeOK, FailuresShow,
                           Health!AllParts
<1>3. CASE Health!HasGateway
  <2>1. /\ place' = "opens" /\ memory' \in {"none", "open"}
        /\ gatewayStatus' = Health!NewGateway
        /\ up' = {} /\ rejecting' = {}
        /\ UNCHANGED <<config, left, running, stopped, monitor, partsMade,
                       turnsUnderWay, failedTurn,
                       startFailures, starts>>
    BY <1>0, <1>3 DEF Health!HasGateway
  <2>2. Health!TypeOK'
    BY <1>0, <1>02, <2>1 DEF Health!TypeOK, Health!AllParts
  <2>3. FailuresShow'
    BY <1>01, <2>1 DEF FailuresShow
  <2> QED BY <2>2, <2>3 DEF HealthInv
<1>4. CASE Health!InitializeFails
  <2>1. /\ place \in {"llm", "skills"} \/ (place = "opens" /\ up = {})
        /\ startFailures' \in 0..MaxStartFailures /\ place' = "down" /\ running' = FALSE
        /\ monitor' = "degraded" /\ memory' \in {"none", "open"}
        /\ UNCHANGED <<config, left, stopped, partsMade, gatewayStatus, up, rejecting,
                       turnsUnderWay,
                       failedTurn, starts>>
    BY <1>0, <1>4, HealthAssumption DEF Health!InitializeFails, Health!Fails
  <2>2. Health!TypeOK'
    BY <1>0, <2>1 DEF Health!TypeOK, Health!AllParts
  <2>3. FailuresShow'
    BY <1>01, <2>1 DEF FailuresShow
  <2> QED BY <2>2, <2>3 DEF HealthInv
<1>5. CASE Health!ChannelStarts
  <2>1. /\ place = "opens" /\ up' \subseteq Health!Channels
        /\ UNCHANGED <<config, place, left, running, stopped, monitor, memory,
                       partsMade,
                       gatewayStatus, rejecting, turnsUnderWay, failedTurn,
                       startFailures, starts>>
    BY <1>0, <1>5 DEF Health!ChannelStarts
  <2>2. Health!TypeOK'
    BY <1>0, <2>1 DEF Health!TypeOK, Health!AllParts
  <2>3. FailuresShow'
    BY <1>01, <2>1 DEF FailuresShow
  <2> QED BY <2>2, <2>3 DEF HealthInv
<1>6. CASE Health!ChannelFails
  <2>1. /\ startFailures' \in 0..MaxStartFailures /\ place' = "rollsBack" /\ left' = up
        /\ gatewayStatus' = [gatewayStatus EXCEPT !.errors = TRUE]
        /\ UNCHANGED <<config, running, stopped, monitor, memory, partsMade, up,
                       rejecting,
                       turnsUnderWay, failedTurn, starts>>
    BY <1>0, <1>6, HealthAssumption DEF Health!ChannelFails
  <2>2. Health!TypeOK'
    BY <1>0, <2>1 DEF Health!TypeOK, Health!AllParts
  <2>3. FailuresShow'
    BY <1>0, <1>01, <2>1 DEF FailuresShow
  <2> QED BY <2>2, <2>3 DEF HealthInv
<1>7. CASE Health!StopsChannel
  <2>1. PICK c \in left :
          /\ place \in {"rollsBack", "closes"}
          /\ left' = left \ {c}
          /\ \/ up' = up \ {c} /\ UNCHANGED <<gatewayStatus, startFailures>>
             \/ /\ startFailures' \in 0..MaxStartFailures
                /\ gatewayStatus' = [gatewayStatus EXCEPT !.errors = TRUE]
                /\ UNCHANGED up
          /\ UNCHANGED <<config, place, running, stopped, monitor, memory, partsMade,
                         rejecting,
                         turnsUnderWay, failedTurn, starts>>
    BY <1>0, <1>7, HealthAssumption DEF Health!StopsChannel
  <2>2. Health!TypeOK'
    <3>1. up' \subseteq up /\ left' \subseteq left
      BY <2>1
    <3>2. startFailures' \in 0..MaxStartFailures
          /\ gatewayStatus' \in [DOMAIN gatewayStatus -> BOOLEAN]
      BY <1>0, <2>1 DEF Health!TypeOK
    <3> QED BY <1>0, <2>1, <3>1, <3>2 DEF Health!TypeOK, Health!AllParts
  <2>3. FailuresShow'
    BY <1>0, <1>01, <2>1 DEF FailuresShow
  <2> QED BY <2>2, <2>3 DEF HealthInv
<1>8. CASE Health!RolledBack
  <2>1. /\ place = "rollsBack" /\ place' = "down" /\ running' = FALSE
        /\ monitor' = "degraded" /\ memory' \in {"none", "open"}
        /\ UNCHANGED <<config, left, stopped, partsMade, gatewayStatus, up, rejecting,
                       turnsUnderWay,
                       failedTurn, startFailures, starts>>
    BY <1>0, <1>8 DEF Health!RolledBack, Health!Fails
  <2>2. Health!TypeOK'
    BY <1>0, <2>1 DEF Health!TypeOK, Health!AllParts
  <2>3. FailuresShow'
    BY <1>01, <2>1 DEF FailuresShow
  <2> QED BY <2>2, <2>3 DEF HealthInv
<1>9. CASE Health!Opened
  <2>1. /\ up = Health!Channels /\ place' = "up" /\ running' = TRUE
        /\ monitor' = "running"
        /\ gatewayStatus' = [gatewayStatus EXCEPT !.running = TRUE]
        /\ failedTurn' = FALSE
        /\ UNCHANGED <<config, left, stopped, memory, partsMade, up, rejecting,
                       turnsUnderWay,
                       startFailures, starts>>
    BY <1>9 DEF Health!Opened
  <2>2. Health!TypeOK'
    BY <1>0, <2>1 DEF Health!TypeOK, Health!AllParts
  <2>3. FailuresShow'
    BY <1>0, <1>01, <2>1 DEF FailuresShow
  <2> QED BY <2>2, <2>3 DEF HealthInv
<1>10. CASE Health!Stop
  <2>1. /\ place \in {"down", "up"} /\ place' = "closes"
        /\ left' = IF gatewayStatus.running THEN Health!Channels ELSE {}
        /\ UNCHANGED <<config, running, stopped, monitor, memory, partsMade,
                       gatewayStatus, up,
                       rejecting, turnsUnderWay, failedTurn, startFailures, starts>>
    BY <1>10 DEF Health!Stop
  <2>2. Health!TypeOK'
    BY <1>0, <2>1 DEF Health!TypeOK, Health!AllParts
  <2>3. FailuresShow'
    BY <1>0, <1>01, <2>1 DEF FailuresShow
  <2> QED BY <2>2, <2>3 DEF HealthInv
<1>11. CASE Health!Closed
  <2>1. /\ place = "closes" /\ left = {} /\ place' = "down"
        /\ running' = FALSE /\ stopped' = TRUE /\ monitor' \in {"none", "stopped"}
        /\ gatewayStatus' = [gatewayStatus EXCEPT !.running = FALSE]
        /\ memory' = "none" /\ failedTurn' = FALSE
        /\ UNCHANGED <<config, left, partsMade, up, rejecting, turnsUnderWay,
                       startFailures, starts>>
    BY <1>11 DEF Health!Closed
  <2>2. Health!TypeOK'
    BY <1>0, <2>1 DEF Health!TypeOK, Health!AllParts
  <2>3. FailuresShow'
    BY <1>0, <1>01, <2>1 DEF FailuresShow
  <2> QED BY <2>2, <2>3 DEF HealthInv
<1>12. CASE Health!GatewayStopsAlone
  <2>1. /\ place = "up" /\ startFailures' \in 0..MaxStartFailures
        /\ up' \subseteq Health!Channels
        /\ \/ up' = {} /\ gatewayStatus' = [gatewayStatus EXCEPT !.running = FALSE]
           \/ gatewayStatus' = [gatewayStatus EXCEPT !.running = FALSE, !.errors = TRUE]
        /\ UNCHANGED <<config, place, left, running, stopped, monitor, memory,
                       partsMade,
                       rejecting, turnsUnderWay, failedTurn, starts>>
    BY <1>0, <1>12, HealthAssumption DEF Health!GatewayStopsAlone
  <2>2. Health!TypeOK'
    <3>1. gatewayStatus' \in [made : BOOLEAN, running : BOOLEAN, errors : BOOLEAN]
      BY <1>0, <2>1
    <3>2. up' \subseteq Health!Channels
      BY <2>1
    <3> QED BY <1>0, <2>1, <3>1, <3>2 DEF Health!TypeOK, Health!AllParts
  <2>3. FailuresShow'
    BY <1>0, <1>01, <2>1 DEF FailuresShow
  <2> QED BY <2>2, <2>3 DEF HealthInv
<1>13. CASE Health!TurnBegins \/ Health!TurnEnds \/ Health!TurnFails
  <2>1. /\ turnsUnderWay' \in 0..MaxTurns /\ startFailures' \in 0..MaxStartFailures
        /\ \/ UNCHANGED <<monitor, failedTurn>>
           \/ monitor' = "degraded" /\ failedTurn' = TRUE
        /\ UNCHANGED <<config, place, left, running, stopped, memory, partsMade,
                       gatewayStatus,
                       up, rejecting, starts>>
    BY <1>0, <1>13, HealthAssumption DEF Health!TurnBegins, Health!TurnEnds,
                                         Health!TurnFails
  <2>2. Health!TypeOK'
    <3>1. CASE UNCHANGED <<monitor, failedTurn>>
      BY <1>0, <2>1, <3>1 DEF Health!TypeOK, Health!AllParts
    <3>2. CASE monitor' = "degraded" /\ failedTurn' = TRUE
      BY <1>0, <2>1, <3>2 DEF Health!TypeOK, Health!AllParts
    <3> QED BY <2>1, <3>1, <3>2
  <2>3. FailuresShow'
    BY <1>01, <2>1 DEF FailuresShow
  <2> QED BY <2>2, <2>3 DEF HealthInv
<1>14. ASSUME NEW c \in Guarded, Health!Rejects(c) PROVE HealthInv'
  BY <1>0, <1>01, <1>14 DEF Health!Rejects, HealthInv, Health!TypeOK, FailuresShow,
                            Health!AllParts
<1>15. CASE UNCHANGED healthVars
  BY <1>0, <1>01, <1>15 DEF healthVars, HealthInv, Health!TypeOK, FailuresShow,
                            Health!AllParts
<1> QED BY <1>1, <1>2, <1>3, <1>4, <1>5, <1>6, <1>7, <1>8, <1>9, <1>10, <1>11, <1>12,
           <1>13, <1>14, <1>15 DEF Health!Next
-----------------------------------------------------------------------------
\* The guard and the deduplicator of external messages (ExternalIngress).
LEMMA IngressSize == ASSUME NEW S PROVE Ingress!Cardinality(S) = Cardinality(S)
BY DEF Ingress!Cardinality, Cardinality

LEMMA IngressPicked == ASSUME NEW s, NEW I PROVE Ingress!Picked(s, I) = Picked(s, I)
BY DEF Ingress!Picked, Picked, Ingress!Nth, Nth, Ingress!Rank, Rank,
       Ingress!Cardinality, Cardinality

\* What was let in of a user and still counts for the rate.
Recents(u) == {b \in accepted : Sender[b.message] = u /\ clock - b.at < RateWindow}

\* Each of these has an entry of its own among the times of the user.
CountedAt(f, u) == /\ f \in [Recents(u) -> DOMAIN buckets[u]]
                   /\ \A b \in Recents(u) : buckets[u][f[b]] = b.at
                   /\ \A b, c \in Recents(u) : f[b] = f[c] => b = c
Counted(u) == \E f : CountedAt(f, u)

\* A message that was let in less than a window ago is on record.
OnRecord == \A a \in accepted : clock - a.at < Window =>
                seen[a.message] # Ingress!Unseen /\ seen[a.message] >= a.at

IngressInv == /\ Ingress!TypeOK /\ Ingress!AcceptedWithinLimits /\ OnRecord
              /\ \A a \in accepted : a.at <= clock
              /\ \A m \in Messages : seen[m] <= clock
              /\ guarded => \A u \in Users : Counted(u)

LEMMA IngressInit == Ingress!Init => IngressInv
<1> SUFFICES ASSUME Ingress!Init PROVE IngressInv
  OBVIOUS
<1>1. clock = 1 /\ 1 \in Ingress!Times /\ Ingress!Unseen = 0 /\ accepted = {}
      /\ 0 <= RateMax
  BY IngressAssumption DEF Ingress!Init, Ingress!Times, Ingress!Unseen
<1>2. Ingress!TypeOK
  <2> QED BY <1>1 DEF Ingress!Init, Ingress!TypeOK
<1>3. \A u \in Users : Counted(u)
  <2> SUFFICES ASSUME NEW u \in Users PROVE Counted(u)
    OBVIOUS
  <2>1. Recents(u) = {}
    BY <1>1 DEF Recents
  <2>2. CountedAt([b \in {} |-> 1], u)
    BY <2>1 DEF CountedAt
  <2> QED BY <2>2 DEF Counted
<1>4. \A m \in Messages : seen[m] <= clock
  BY <1>1 DEF Ingress!Init
<1> QED BY <1>1, <1>2, <1>3, <1>4 DEF IngressInv, Ingress!AcceptedWithinLimits, OnRecord

\* They are no more than the times that still count, and have places among those.
LEMMA RecentsFit ==
  ASSUME Ingress!TypeOK, NEW u \in Users, Counted(u)
  PROVE  /\ Ingress!Recent(u) \in Seq(Ingress!Times)
         /\ IsFiniteSet(Recents(u)) /\ Cardinality(Recents(u)) <= Len(Ingress!Recent(u))
         /\ \E g : /\ g \in [Recents(u) -> 1..Len(Ingress!Recent(u))]
                   /\ \A b \in Recents(u) : Ingress!Recent(u)[g[b]] = b.at
                   /\ \A b, c \in Recents(u) : g[b] = g[c] => b = c
<1> DEFINE s == buckets[u]
           I == {i \in DOMAIN s : clock - s[i] < RateWindow}
           r == Ingress!Recent(u)
<1>1. s \in Seq(Ingress!Times)
  BY DEF Ingress!TypeOK
<1>2. r = Picked(s, I)
  BY IngressPicked DEF Ingress!Recent
<1>3. I \in SUBSET (DOMAIN s)
  OBVIOUS
<1>4. PICK f : CountedAt(f, u)
  BY DEF Counted
<1>5. \A b \in Recents(u) : f[b] \in I /\ s[f[b]] = b.at
  BY <1>4 DEF CountedAt, Recents
<1> HIDE DEF s, I
<1>6. r \in Seq(Ingress!Times) /\ Len(r) = Cardinality(I) /\ Cardinality(I) \in Nat
  BY <1>1, <1>2, <1>3, PickedList
<1>7. \A i \in I : Rank(I, i) \in 1..Cardinality(I) /\ r[Rank(I, i)] = s[i]
  BY <1>1, <1>2, <1>3, PickedHas
<1>8. \A i, j \in I : Rank(I, i) = Rank(I, j) => i = j
  <2>1. Len(s) \in Nat /\ DOMAIN s = 1..Len(s)
    OBVIOUS
  <2>2. \A i \in I : Nth(I, Rank(I, i)) = i
    BY <1>3, <2>1, NthOfRank
  <2> QED BY <2>2
<1> HIDE DEF r
<1> DEFINE g == [b \in Recents(u) |-> Rank(I, f[b])]
<1>9. g \in [Recents(u) -> 1..Len(r)]
  BY <1>5, <1>6, <1>7
<1>10. \A b \in Recents(u) : r[g[b]] = b.at
  BY <1>5, <1>7
<1>11. \A b, c \in Recents(u) : g[b] = g[c] => b = c
  <2>1. \A b, c \in Recents(u) : g[b] = g[c] => f[b] = f[c]
    BY <1>5, <1>8
  <2> QED BY <1>4, <2>1 DEF CountedAt
<1> HIDE DEF g
<1>12. IsFiniteSet(Recents(u)) /\ Cardinality(Recents(u)) <= Len(r)
  <2> DEFINE n == Len(r)
  <2>1. n \in Nat
    OBVIOUS
  <2> HIDE DEF n
  <2>2. IsFiniteSet(1..n) /\ Cardinality(1..n) = n
    BY <2>1, FS_Interval
  <2>3. g \in Injection(Recents(u), 1..n)
    BY <1>9, <1>11 DEF Injection, IsInjective, n
  <2>4. IsFiniteSet(Recents(u)) /\ Cardinality(Recents(u)) <= Cardinality(1..n)
    BY <2>2, <2>3, FS_Injection
  <2> QED BY <2>2, <2>4 DEF n
<1> QED BY <1>6, <1>9, <1>10, <1>11, <1>12 DEF r

\* Nothing is let in, and time does not go back: what counted at the new time counted
\* before.
LEMMA NothingLetIn ==
  ASSUME IngressInv, UNCHANGED <<guarded, seen, buckets, accepted>>,
         clock' \in Ingress!Times, clock <= clock'
  PROVE  /\ Ingress!AcceptedWithinLimits' /\ OnRecord'
         /\ \A a \in accepted' : a.at <= clock'
         /\ \A m \in Messages : seen'[m] <= clock'
         /\ guarded' => \A u \in Users : Counted(u)'
<1>0. /\ clock \in Nat /\ clock' \in Nat /\ Window \in Nat /\ RateWindow \in Nat
      /\ \A a \in accepted : a.at \in Nat /\ a.message \in Messages
      /\ \A m \in Messages : seen[m] \in Nat
  BY IngressAssumption DEF IngressInv, Ingress!TypeOK, Ingress!Times, Ingress!Unseen
<1>1. Ingress!AcceptedWithinLimits'
  BY DEF IngressInv, Ingress!AcceptedWithinLimits, Ingress!Within
<1>2. OnRecord'
  BY <1>0 DEF IngressInv, OnRecord
<1>3. (\A a \in accepted' : a.at <= clock') /\ (\A m \in Messages : seen'[m] <= clock')
  BY <1>0 DEF IngressInv
<1>4. ASSUME guarded', NEW u \in Users PROVE Counted(u)'
  <2>1. PICK f : CountedAt(f, u)
    BY <1>4 DEF IngressInv, Counted
  <2>2. \A b \in Recents(u)' : b \in Recents(u)
    BY <1>0 DEF Recents
  <2>3. PICK h : /\ h \in [Recents(u)' -> DOMAIN buckets'[u]]
                 /\ \A b \in Recents(u)' : h[b] = f[b]
    <3> DEFINE h0 == [b \in Recents(u)' |-> f[b]]
    <3>1. /\ h0 \in [Recents(u)' -> DOMAIN buckets'[u]]
          /\ \A b \in Recents(u)' : h0[b] = f[b]
      BY <2>1, <2>2 DEF CountedAt
    <3> HIDE DEF h0
    <3> QED BY <3>1
  <2>4. /\ \A b \in Recents(u)' : buckets'[u][h[b]] = b.at
        /\ \A b, c \in Recents(u)' : h[b] = h[c] => b = c
    BY <2>1, <2>2, <2>3 DEF CountedAt
  <2>5. CountedAt(h, u)'
    BY <2>3, <2>4 DEF CountedAt
  <2> QED BY <2>5 DEF Counted
<1> QED BY <1>1, <1>2, <1>3, <1>4

\* A message is let in: it has no other in its window, and its user has few enough.
LEMMA LetIn ==
  ASSUME IngressInv, NEW m \in Messages, Ingress!Admit(m)
  PROVE  IngressInv'
<1> DEFINE u == Sender[m]
           d == [message |-> m, at |-> clock]
<1>0. /\ clock \in Ingress!Times /\ clock \in Nat /\ Window \in Nat
      /\ RateWindow \in Nat
      /\ RateMax \in Nat /\ u \in Users /\ Ingress!Times \subseteq Nat
      /\ 0 \notin Ingress!Times
      /\ seen \in [Messages -> Ingress!Times \cup {0}] /\ Ingress!Unseen = 0
      /\ buckets \in [Users -> Seq(Ingress!Times)]
      /\ \A a \in accepted : a.message \in Messages /\ a.at \in Ingress!Times
         /\ a.at <= clock
      /\ accepted \subseteq [message : Messages, at : Ingress!Times]
      /\ \A n \in Messages : seen[n] <= clock
  BY IngressAssumption DEF IngressInv, Ingress!TypeOK, Ingress!Times, Ingress!Unseen
<1>00. /\ \A n \in Messages : seen[n] \in Nat
       /\ \A a \in accepted : a.at \in Nat
  <2>2. \A x \in Ingress!Times \cup {0} : x \in Nat
    BY <1>0
  <2> QED BY <1>0, <2>2
<1>1. /\ ~Ingress!IsDuplicate(m) /\ ~Ingress!RateLimited(u) /\ seen' = Ingress!Noted(m)
      /\ buckets' = IF guarded
            THEN [buckets EXCEPT ![u] = Append(Ingress!Recent(u), clock)]
                               ELSE buckets
      /\ userSessions' = userSessions \cup {u}
      /\ accepted' = accepted \cup {d} /\ deliveries' = deliveries \cup {d}
      /\ UNCHANGED <<clock, guarded, webhookServer>>
  BY DEF Ingress!Admit
<1>2. d \in [message : Messages, at : Ingress!Times] /\ d.message = m /\ d.at = clock
  BY <1>0
<1>3. guarded => \A v \in Users : Counted(v)
  BY DEF IngressInv
<1> HIDE DEF d
<1>4. \A a \in accepted : a.message = m => ~(clock - a.at < Window)
  <2> SUFFICES ASSUME NEW a \in accepted, a.message = m, clock - a.at < Window
                          PROVE FALSE
    OBVIOUS
  <2>1. seen[m] # Ingress!Unseen /\ seen[m] >= a.at
    BY DEF IngressInv, OnRecord
  <2>2. seen[m] \in Nat /\ a.at \in Nat
    BY <1>00
  <2>3. clock - seen[m] < Window
    BY <1>0, <2>1, <2>2
  <2> QED BY <1>1, <2>1, <2>3 DEF Ingress!IsDuplicate
<1>5. OnRecord'
  <2> SUFFICES ASSUME NEW a \in accepted', clock' - a.at < Window
               PROVE  seen'[a.message] # Ingress!Unseen /\ seen'[a.message] >= a.at
    BY DEF OnRecord
  <2>1. \A n \in Messages : seen'[n] = IF n = m THEN clock
                                       ELSE IF Ingress!Remembered(seen[n]) THEN seen[n]
                                           ELSE Ingress!Unseen
    BY <1>1 DEF Ingress!Noted
  <2>2. CASE a.message = m
    <3>1. a.at <= clock
      <4>1. CASE a = d
        BY <1>0, <1>2, <4>1
      <4>2. CASE a # d
        BY <1>0, <1>1, <4>2
      <4> QED BY <4>1, <4>2
    <3> QED BY <1>0, <2>1, <2>2, <3>1
  <2>3. CASE a.message # m
    <3>1. a \in accepted
      BY <1>1, <1>2, <2>3
    <3>2. seen[a.message] # Ingress!Unseen /\ seen[a.message] >= a.at
      BY <1>1, <3>1 DEF IngressInv, OnRecord
    <3>3. clock - seen[a.message] < Window /\ clock - seen[a.message] <= Window
      <4>1. clock - a.at < Window
        BY <1>1
      <4>2. seen[a.message] \in Nat /\ a.at \in Nat
        BY <1>0, <1>00, <3>1
      <4> QED BY <1>0, <3>2, <4>1, <4>2
    <3>4. Ingress!Remembered(seen[a.message])
      BY <3>2, <3>3 DEF Ingress!Remembered
    <3> QED BY <1>0, <2>1, <3>1, <3>2, <3>4
  <2> QED BY <2>2, <2>3
<1>6. /\ \A a \in accepted' : a.at <= clock'
      /\ \A n \in Messages : seen'[n] <= clock' /\ seen'[n] \in Ingress!Times \cup {0}
      /\ seen' \in [Messages -> Ingress!Times \cup {0}]
  <2>1. seen' = [n \in Messages |-> IF n = m THEN clock
                                    ELSE IF Ingress!Remembered(seen[n]) THEN seen[n]
                                        ELSE Ingress!Unseen]
    BY <1>1 DEF Ingress!Noted
  <2>2. \A a \in accepted' : a.at <= clock'
    BY <1>0, <1>1, <1>2
  <2> QED BY <1>0, <1>1, <2>1, <2>2
<1>7. ASSUME guarded
      PROVE  /\ Len(Ingress!Recent(u)) < RateMax
             /\ Ingress!Recent(u) \in Seq(Ingress!Times)
             /\ IsFiniteSet(Recents(u))
             /\ Cardinality(Recents(u)) <= Len(Ingress!Recent(u))
             /\ \E g : /\ g \in [Recents(u) -> 1..Len(Ingress!Recent(u))]
                       /\ \A b \in Recents(u) : Ingress!Recent(u)[g[b]] = b.at
                       /\ \A b, c \in Recents(u) : g[b] = g[c] => b = c
  <2>1. Ingress!TypeOK /\ Counted(u)
    BY <1>0, <1>7 DEF IngressInv
  <2>2. /\ Ingress!Recent(u) \in Seq(Ingress!Times)
        /\ IsFiniteSet(Recents(u)) /\ Cardinality(Recents(u)) <= Len(Ingress!Recent(u))
        /\ \E g : /\ g \in [Recents(u) -> 1..Len(Ingress!Recent(u))]
                  /\ \A b \in Recents(u) : Ingress!Recent(u)[g[b]] = b.at
                  /\ \A b, c \in Recents(u) : g[b] = g[c] => b = c
    BY <1>0, <2>1, RecentsFit
  <2>4. Len(Ingress!Recent(u)) < RateMax
    BY <1>0, <1>1, <1>7 DEF Ingress!RateLimited
  <2> QED BY <2>2, <2>4
<1>8. /\ \A v \in Users : v # u => Recents(v)' = Recents(v) /\ buckets'[v] = buckets[v]
      /\ Recents(u)' \subseteq Recents(u) \cup {d}
  BY <1>1, <1>2 DEF Recents
<1> HIDE DEF u
<1>9. ASSUME guarded, NEW v \in Users PROVE Counted(v)'
  <2>1. CASE v # u
    <3>1. PICK f : CountedAt(f, v)
      BY <1>3, <1>9 DEF Counted
    <3>2. CountedAt(f, v)'
      BY <1>8, <2>1, <3>1 DEF CountedAt
    <3> QED BY <3>2 DEF Counted
  <2>2. CASE v = u
    <3> DEFINE r == Ingress!Recent(u)
               k == Len(r) + 1
    <3>1. PICK g : /\ g \in [Recents(u) -> 1..Len(r)]
                   /\ \A b \in Recents(u) : r[g[b]] = b.at
                   /\ \A b, c \in Recents(u) : g[b] = g[c] => b = c
      BY <1>7, <1>9
    <3>2. r \in Seq(Ingress!Times) /\ buckets'[u] = Append(r, clock)
      BY <1>0, <1>1, <1>7, <1>9
    <3> HIDE DEF r
    <3>3. /\ DOMAIN buckets'[u] = 1..k /\ buckets'[u][k] = clock /\ k \notin 1..Len(r)
          /\ \A i \in 1..Len(r) : i \in 1..k /\ buckets'[u][i] = r[i]
          /\ k \in 1..k
      BY <3>2
    <3> HIDE DEF k
    <3>4. PICK h : /\ h \in [Recents(u)' -> 1..k]
                   /\ \A b \in Recents(u)' : h[b] = IF b = d THEN k ELSE g[b]
      <4> DEFINE h0 == [b \in Recents(u)' |-> IF b = d THEN k ELSE g[b]]
      <4>1. \A b \in Recents(u)' : (IF b = d THEN k ELSE g[b]) \in 1..k
        BY <1>8, <3>1, <3>3
      <4>2. /\ h0 \in [Recents(u)' -> 1..k]
            /\ \A b \in Recents(u)' : h0[b] = IF b = d THEN k ELSE g[b]
        BY <4>1
      <4> HIDE DEF h0
      <4> QED BY <4>2
    <3>5. \A b \in Recents(u)' : buckets'[u][h[b]] = b.at
      BY <1>2, <1>8, <3>1, <3>3, <3>4
    <3>6. \A b, c \in Recents(u)' : h[b] = h[c] => b = c
      BY <1>8, <3>1, <3>3, <3>4
    <3>7. CountedAt(h, u)'
      BY <3>3, <3>4, <3>5, <3>6 DEF CountedAt
    <3> QED BY <2>2, <3>7 DEF Counted
  <2> QED BY <2>1, <2>2
<1>10. \A a, b \in accepted' : a.message = b.message /\ a # b =>
           ~Ingress!Within(a, b, Window)
  <2> SUFFICES ASSUME NEW a \in accepted', NEW b \in accepted',
                      a.message = b.message, a # b, Ingress!Within(a, b, Window)
               PROVE  FALSE
    OBVIOUS
  <2>1. a = d \/ a \in accepted
    BY <1>1
  <2>2. b = d \/ b \in accepted
    BY <1>1
  <2>3. CASE a \in accepted /\ b \in accepted
    BY <2>3 DEF IngressInv, Ingress!AcceptedWithinLimits
  <2>4. CASE a = d /\ b \in accepted
    <3>1. b.at \in Nat /\ b.at <= clock /\ ~(clock - b.at < Window)
      BY <1>0, <1>2, <1>4, <2>4
    <3>2. b.at \in clock..(clock + Window - 1)
      BY <1>2, <2>4 DEF Ingress!Within
    <3> QED BY <1>0, <3>1, <3>2
  <2>5. CASE b = d /\ a \in accepted
    <3>1. a.at \in Nat /\ a.at <= clock /\ ~(clock - a.at < Window)
      BY <1>0, <1>2, <1>4, <2>5
    <3>2. clock \in a.at..(a.at + Window - 1)
      BY <1>2, <2>5 DEF Ingress!Within
    <3> QED BY <1>0, <3>1, <3>2
  <2> QED BY <2>1, <2>2, <2>3, <2>4, <2>5
<1>11. ASSUME guarded, NEW a \in accepted'
       PROVE  Cardinality({b \in accepted' : /\ Sender[b.message] = Sender[a.message]
                                             /\ Ingress!Within(a, b,
                                                   RateWindow)}) <= RateMax
  <2> DEFINE W == {b \in accepted' : /\ Sender[b.message] = Sender[a.message]
                                     /\ Ingress!Within(a, b, RateWindow)}
             R == Recents(u) \cup {d}
  <2>0. a.at \in Nat /\ clock \in Nat
    BY <1>0, <1>1, <1>2
  <2>1. CASE d \in W
    <3>1. Sender[a.message] = u /\ a.at <= clock /\ clock <= a.at + RateWindow - 1
      BY <1>2, <2>1 DEF Ingress!Within, u
    <3>2. \A b \in W : b.at \in Nat /\ a.at <= b.at
      BY <2>0 DEF Ingress!Within
    <3>3. W \subseteq R
      <4> SUFFICES ASSUME NEW b \in W, b # d PROVE b \in Recents(u)
        OBVIOUS
      <4>1. b \in accepted /\ Sender[b.message] = u
        BY <1>1, <3>1
      <4>2. clock - b.at < RateWindow
        BY <1>0, <2>0, <3>1, <3>2
      <4> QED BY <4>1, <4>2 DEF Recents
    <3> HIDE DEF W
    <3>4. /\ IsFiniteSet(Recents(u)) /\ Cardinality(Recents(u)) \in Nat
          /\ Cardinality(Recents(u)) < RateMax
      <4>1. /\ IsFiniteSet(Recents(u))
            /\ Cardinality(Recents(u)) <= Len(Ingress!Recent(u))
            /\ Len(Ingress!Recent(u)) < RateMax
            /\ Ingress!Recent(u) \in Seq(Ingress!Times)
        BY <1>7, <1>11
      <4>2. Cardinality(Recents(u)) \in Nat
        BY <4>1, FS_CardinalityType
      <4> QED BY <1>0, <4>1, <4>2
    <3>5. IsFiniteSet(R)
          /\ Cardinality(R) \in {Cardinality(Recents(u)), Cardinality(Recents(u)) + 1}
      BY <3>4, FS_AddElement
    <3> HIDE DEF R
    <3>6. W \in SUBSET R
      BY <3>3
    <3>7. IsFiniteSet(W) /\ Cardinality(W) <= Cardinality(R)
      BY <3>5, <3>6, FS_Subset
    <3>8. Cardinality(W) \in Nat /\ Cardinality(R) \in Nat
      BY <3>5, <3>7, FS_CardinalityType
    <3>9. Cardinality(W) <= RateMax
      BY <1>0, <3>4, <3>5, <3>7, <3>8
    <3> QED BY <3>9 DEF W
  <2>2. CASE d \notin W /\ a \in accepted
    <3>1. W = {b \in accepted : /\ Sender[b.message] = Sender[a.message]
                                /\ Ingress!Within(a, b, RateWindow)}
      BY <1>1, <2>2
    <3> HIDE DEF W
    <3>2. Cardinality(W) <= RateMax
      BY IngressSize, <1>11, <2>2, <3>1 DEF IngressInv, Ingress!AcceptedWithinLimits
    <3> QED BY <3>2 DEF W
  <2>3. CASE d \notin W /\ a = d
    <3>2. ~(RateWindow >= 1)
      BY <1>0, <1>2, <2>3 DEF Ingress!Within
    <3>3. W = {}
      BY <1>0, <2>0, <3>2 DEF Ingress!Within
    <3> HIDE DEF W
    <3>4. Cardinality(W) <= RateMax
      BY <1>0, <3>3, FS_EmptySet
    <3> QED BY <3>4 DEF W
  <2> QED BY <1>1, <2>1, <2>2, <2>3
<1>12. Ingress!AcceptedWithinLimits'
  BY IngressSize, <1>1, <1>10, <1>11 DEF Ingress!AcceptedWithinLimits
<1>13. Ingress!TypeOK'
  <2>1. buckets' \in [Users -> Seq(Ingress!Times)]
        /\ \A v \in Users : Len(buckets'[v]) <= RateMax
    <3>1. CASE ~guarded
      BY <1>1, <3>1 DEF IngressInv, Ingress!TypeOK
    <3>2. CASE guarded
      <4> DEFINE r == Append(Ingress!Recent(u), clock)
      <4>1. /\ Ingress!Recent(u) \in Seq(Ingress!Times)
            /\ Len(Ingress!Recent(u)) < RateMax
            /\ buckets' = [buckets EXCEPT ![u] = r]
        BY <1>1, <1>7, <3>2
      <4>2. r \in Seq(Ingress!Times) /\ Len(r) <= RateMax
        BY <1>0, <4>1
      <4> HIDE DEF r
      <4> QED BY <4>1, <4>2 DEF IngressInv, Ingress!TypeOK
    <3> QED BY <3>1, <3>2
  <2>2. /\ accepted' \subseteq [message : Messages, at : Ingress!Times]
           /\ deliveries' \subseteq accepted'
        /\ userSessions' \subseteq Users
    BY <1>0, <1>1, <1>2 DEF IngressInv, Ingress!TypeOK, u
  <2> QED BY <1>0, <1>1, <1>6, <2>1, <2>2 DEF IngressInv, Ingress!TypeOK
<1> QED BY <1>1, <1>5, <1>6, <1>9, <1>12, <1>13 DEF IngressInv

LEMMA IngressNext == IngressInv /\ [Ingress!Next]_ingressVars => IngressInv'
<1> SUFFICES ASSUME IngressInv, [Ingress!Next]_ingressVars PROVE IngressInv'
  OBVIOUS
<1>1. CASE \E m \in Messages : Ingress!Admit(m)
  BY <1>1, LetIn
<1>2. CASE ~\E m \in Messages : Ingress!Admit(m)
  <2>1. /\ clock \in Ingress!Times /\ clock' \in Ingress!Times /\ clock <= clock'
        /\ UNCHANGED <<guarded, seen, buckets, accepted>>
        /\ webhookServer' \in {"down", "up", "closing"} /\ userSessions' \subseteq Users
        /\ deliveries' \subseteq accepted
    <3>1. /\ clock \in 1..MaxIngressTime /\ webhookServer \in {"down", "up", "closing"}
          /\ userSessions \subseteq Users /\ deliveries \subseteq accepted
          /\ clock <= clock
      BY DEF IngressInv, Ingress!TypeOK, Ingress!Times
    <3>2. CASE \E m \in Messages : Ingress!Deliver(m)
      BY <1>2, <3>1, <3>2 DEF Ingress!Deliver, Ingress!Refuse, Ingress!vars,
                              ingressVars, Ingress!Times
    <3>3. CASE \E v \in Users : Ingress!Subscribe(v) \/ Ingress!Unsubscribe(v)
      BY <3>1, <3>3 DEF Ingress!Subscribe, Ingress!Unsubscribe, Ingress!Times
    <3>4. CASE (\E a \in deliveries : Ingress!Answer(a)) \/ Ingress!Invalid
               \/ Ingress!Start \/ Ingress!Stop \/ Ingress!Close
      BY <3>1, <3>4 DEF Ingress!Answer, Ingress!Invalid, Ingress!Start, Ingress!Stop,
                        Ingress!Close, Ingress!vars, ingressVars, Ingress!Times
    <3>5. CASE Ingress!Tick
      BY <3>1, <3>5, IngressAssumption DEF Ingress!Tick, Ingress!Times
    <3>6. CASE UNCHANGED ingressVars
      BY <3>1, <3>6 DEF ingressVars, Ingress!Times
    <3> QED BY <3>2, <3>3, <3>4, <3>5, <3>6 DEF Ingress!Next
  <2>2. Ingress!TypeOK'
    BY <2>1 DEF IngressInv, Ingress!TypeOK
  <2>3. /\ Ingress!AcceptedWithinLimits' /\ OnRecord'
        /\ \A a \in accepted' : a.at <= clock'
        /\ \A m \in Messages : seen'[m] <= clock'
        /\ guarded' => \A u \in Users : Counted(u)'
    BY <2>1, NothingLetIn
  <2> QED BY <2>2, <2>3 DEF IngressInv
<1> QED BY <1>1, <1>2
-----------------------------------------------------------------------------
\* Skills and their files (SkillFiles).
\* A file at rest is that of the skill it says, and no other skill's.
AtRest(f) == /\ files[f] # None =>
                   f \in undeleted
                   \/ f \in {skills[files[f]], skills[SkillSet!Given(f)]}
             /\ \A n \in SkillSet!AllNames : skills[n] = f =>
                   n \in {files[f], SkillSet!Given(f)}

\* The skill an operation is about has its file, unless the one it has is suspect.
AboutItsFile(o) ==
    /\ o.file \in Files /\ o.name \in SkillSet!AllNames
    /\ skills[o.name] \in {None, o.file} \cup suspect
    /\ o.kind = "delete" => o.step = "issued"

\* An operation on a file that is not suspect has the file and the skill for itself,
\* its skill is the only one with that file, and until the file is opened nothing
\* changed.
Undisturbed(s) ==
    /\ ops[s].step # "deleted"
    /\ \A t \in Slots : ops[t].file = ops[s].file \/ ops[t].name = ops[s].name => t = s
    /\ \A n \in SkillSet!AllNames : skills[n] = ops[s].file => n = ops[s].name
    /\ ops[s].kind # "create" => skills[ops[s].name] = ops[s].file
    /\ ops[s].step = "issued" => AtRest(ops[s].file)

SkillSetInv ==
    /\ SkillSet!TypeOK
    /\ SkillSet!SkillsMatchFiles
    /\ \A s \in Slots : \/ ops[s] = SkillSet!NoOp
                        \/ /\ ops[s].kind # "none" /\ ops[s].step # "none"
                           /\ AboutItsFile(ops[s])
                           /\ ops[s].file \notin suspect => Undisturbed(s)

LEMMA SkillSetInit == SkillSet!Init => SkillSetInv
<1> SUFFICES ASSUME SkillSet!Init PROVE SkillSetInv
  OBVIOUS
<1>1. SkillSet!NoOp \in [kind : {"none", "create", "execute", "delete"},
                         name : SkillSet!AllNames \cup {None}, file : Files \cup {None},
                         step : {"none", "issued", "open", "deleted"}]
  BY DEF SkillSet!NoOp
<1>2. SkillSet!TypeOK
  BY <1>1, SkillSetAssumption DEF SkillSet!Init, SkillSet!TypeOK
<1> QED BY <1>2, SkillSetAssumption DEF SkillSet!Init, SkillSetInv,
                                        SkillSet!SkillsMatchFiles, SkillSet!AllNames

\* A started operation is in order.
LEMMA BegunIsInOrder ==
  ASSUME SkillSetInv, NEW n \in SkillSet!AllNames, NEW f \in Files,
         NEW kind \in {"create", "execute", "delete"}, SkillSet!Begin(kind, n, f),
         skills[n] \in {None, f}, kind # "create" => skills[n] = f
  PROVE  SkillSetInv'
<1> DEFINE o == [kind |-> kind, name |-> n, file |-> f, step |-> "issued"]
<1>1. PICK s \in Slots : ops[s] = SkillSet!NoOp /\ ops' = [ops EXCEPT ![s] = o]
  BY DEF SkillSet!Begin
<1>2. o.kind = kind /\ o.name = n /\ o.file = f /\ o.step = "issued"
  OBVIOUS
<1>3. o \in [kind : {"none", "create", "execute", "delete"},
             name : SkillSet!AllNames \cup {None}, file : Files \cup {None},
             step : {"none", "issued", "open", "deleted"}]
  OBVIOUS
<1> HIDE DEF o
<1>4. /\ skills' = skills /\ files' = files /\ crashes' = crashes
      /\ undeleted' = undeleted
      /\ suspect \subseteq suspect'
      /\ suspect' = suspect \cup {ops[t].file : t \in SkillSet!Beside(n, f)}
                            \cup {g \in {f} : SkillSet!Beside(n, f) # {}
                            \/ SkillSet!Shared(f, n)}
  BY DEF SkillSet!Begin
<1>40. \A t \in Slots : ops[t].file = f \/ ops[t].name = n =>
          ops[t].file \in suspect' /\ f \in suspect'
  BY <1>4 DEF SkillSet!Beside
<1>41. f \notin suspect' => /\ f \notin suspect /\ ~SkillSet!Shared(f, n)
                           /\ \A t \in Slots : ops[t].file # f /\ ops[t].name # n
  BY <1>4, <1>40
<1>42. suspect' \subseteq Files
  <2>1. \A t \in SkillSet!Beside(n, f) : ops[t].file \in Files
    <3> SUFFICES ASSUME NEW t \in Slots, ops[t].file = f \/ ops[t].name = n
                 PROVE  ops[t].file \in Files
      BY DEF SkillSet!Beside
    <3>1. ops[t] # SkillSet!NoOp
      BY SkillSetAssumption DEF SkillSet!NoOp
    <3> QED BY <3>1 DEF SkillSetInv, AboutItsFile
  <2>2. suspect \subseteq Files
    BY DEF SkillSetInv, SkillSet!TypeOK
  <2> QED BY <1>4, <2>1, <2>2
<1>5. /\ ops' \in [Slots -> [kind : {"none", "create", "execute", "delete"},
                             name : SkillSet!AllNames \cup {None}, file : Files
                                 \cup {None},
                             step : {"none", "issued", "open", "deleted"}]]
      /\ ops'[s] = o /\ \A t \in Slots : t # s => ops'[t] = ops[t]
  BY <1>1, <1>3 DEF SkillSetInv, SkillSet!TypeOK
<1>6. SkillSet!TypeOK'
  BY <1>4, <1>42, <1>5 DEF SkillSetInv, SkillSet!TypeOK
<1>7. ops'[s].kind # "none" /\ ops'[s].step # "none" /\ AboutItsFile(ops[s])'
  BY <1>2, <1>4, <1>5 DEF AboutItsFile
<1>8. ASSUME f \notin suspect' PROVE Undisturbed(s)'
  <2>1. /\ \A t \in Slots : ops[t].file # f
        /\ \A m \in SkillSet!AllNames : skills[m] = f => m = n
        /\ AtRest(f)
    BY <1>41, <1>8 DEF SkillSet!On, SkillSet!Shared, SkillSetInv,
                       SkillSet!SkillsMatchFiles, AtRest
  <2>2. AtRest(f)'
    BY <1>4, <2>1 DEF AtRest, SkillSet!Given
  <2>3. \A t \in Slots : ops[t].file # f /\ ops[t].name # n
    BY <1>41, <1>8
  <2> QED BY <1>2, <1>4, <1>5, <2>1, <2>2, <2>3 DEF Undisturbed
<1>9. ASSUME NEW t \in Slots, t # s, ops[t] # SkillSet!NoOp
      PROVE  /\ ops'[t].kind # "none" /\ ops'[t].step # "none"
             /\ AboutItsFile(ops[t])'
             /\ ops'[t].file \notin suspect' => Undisturbed(t)'
  <2>1. /\ ops[t].kind # "none" /\ ops[t].step # "none" /\ AboutItsFile(ops[t])
        /\ ops[t].file \notin suspect => Undisturbed(t)
    BY <1>9 DEF SkillSetInv
  <2>2. ops'[t] = ops[t] /\ AboutItsFile(ops[t])'
    BY <1>4, <1>5, <1>9, <2>1 DEF AboutItsFile
  <2>3. ASSUME ops[t].file \notin suspect' PROVE Undisturbed(t)'
    <3>1. Undisturbed(t)
      BY <1>4, <2>1, <2>3
    <3>2. ops[t].file # f /\ ops[t].name # n
      BY <1>40, <2>3
    <3>3. AtRest(ops[t].file) => AtRest(ops[t].file)'
      BY <1>4, <2>2 DEF AtRest, SkillSet!Given
    <3> QED BY <1>2, <1>4, <1>5, <2>2, <3>1, <3>2, <3>3 DEF Undisturbed
  <2> QED BY <2>1, <2>2, <2>3
<1>10. SkillSet!SkillsMatchFiles'
  <2> SUFFICES ASSUME NEW g \in Files, SkillSet!On(g)' = {}, g \notin suspect'
               PROVE  AtRest(g)'
    BY DEF SkillSet!SkillsMatchFiles, AtRest
  <2>1. SkillSet!On(g) = {} /\ g \notin suspect
    BY <1>1, <1>4, SkillSetAssumption DEF SkillSet!On, SkillSet!NoOp
  <2> QED BY <1>4, <2>1 DEF SkillSetInv, SkillSet!SkillsMatchFiles, AtRest,
                            SkillSet!Given
<1>11. \A t \in Slots : \/ ops'[t] = SkillSet!NoOp
                        \/ /\ ops'[t].kind # "none" /\ ops'[t].step # "none"
                           /\ AboutItsFile(ops[t])'
                           /\ ops'[t].file \notin suspect' => Undisturbed(t)'
  BY <1>2, <1>5, <1>7, <1>8, <1>9
<1> QED BY <1>4, <1>6, <1>10, <1>11 DEF SkillSetInv

\* What the operation in a slot is, and what the file of one that is not suspect is.
LEMMA OperationIsInOrder ==
  ASSUME SkillSetInv, NEW s \in Slots, ops[s] # SkillSet!NoOp
  PROVE  /\ ops[s].kind \in {"create", "execute", "delete"}
         /\ ops[s].step \in {"issued", "open", "deleted"}
         /\ AboutItsFile(ops[s]) /\ ops[s].file # None
         /\ ops[s].file \notin suspect => Undisturbed(s)
<1>1. ops[s] \in [kind : {"none", "create", "execute", "delete"},
                  name : SkillSet!AllNames \cup {None}, file : Files \cup {None},
                  step : {"none", "issued", "open", "deleted"}]
  BY DEF SkillSetInv, SkillSet!TypeOK
<1> QED BY <1>1, SkillSetAssumption DEF SkillSetInv, AboutItsFile

\* The other operations go on, or find their file deleted.
OthersGoOn(s, f) ==
    \A t \in Slots \ {s} : \/ ops'[t] = ops[t]
                           \/ /\ ops[t].file = f /\ ops[t].kind # "delete"
                              /\ ops'[t] = [ops[t] EXCEPT !.step = "deleted"]

\* An operation that ends, with what became of its file and its skill, leaves the
\* others in order.
LEMMA EndedLeavesOthers ==
  ASSUME SkillSetInv, NEW s \in Slots, ops[s] # SkillSet!NoOp,
         NEW n, n = ops[s].name, NEW f, f = ops[s].file,
         NEW after \in SkillSet!AllNames \cup {None}, NEW home,
         home \in {None, skills[n], f},
         files' = [files EXCEPT ![f] = after],
         skills' = [skills EXCEPT ![n] = home],
         undeleted' \in SUBSET Files, \A g \in undeleted : g = f \/ g \in undeleted',
         \* what it leaves is at rest, unless the file is suspect
         f \in suspect' \/ AtRest(f)',
         suspect \subseteq suspect', suspect' \subseteq suspect \cup {f},
         crashes' = crashes,
         ops'[s] = SkillSet!NoOp, ops' \in [Slots -> {SkillSet!NoOp} \cup
             [kind : {"create", "execute", "delete"}, name : SkillSet!AllNames,
              file : Files, step : {"issued", "open", "deleted"}]],
         OthersGoOn(s, f)
  PROVE  SkillSetInv'
<1>1. /\ AboutItsFile(ops[s]) /\ f \in Files /\ n \in SkillSet!AllNames /\ f # None
      /\ skills[n] \in {None, f} \cup suspect /\ home \in {None, f} \cup suspect
      /\ f \notin suspect => Undisturbed(s)
  BY OperationIsInOrder DEF AboutItsFile
<1>2. /\ skills \in [SkillSet!AllNames -> Files \cup {None}]
      /\ files \in [Files -> SkillSet!AllNames \cup {None}]
      /\ suspect \subseteq Files /\ crashes \in 0..MaxCrashes
  BY DEF SkillSetInv, SkillSet!TypeOK
<1>3. /\ skills' \in [SkillSet!AllNames -> Files \cup {None}]
      /\ files' \in [Files -> SkillSet!AllNames \cup {None}]
      /\ \A m \in SkillSet!AllNames : m # n => skills'[m] = skills[m]
      /\ skills'[n] = home
      /\ \A g \in Files : g # f => files'[g] = files[g]
      /\ files'[f] = after
  BY <1>1, <1>2
<1>4. SkillSet!TypeOK'
  <2>1. ops' \in [Slots -> [kind : {"none", "create", "execute", "delete"},
                            name : SkillSet!AllNames \cup {None}, file : Files
                                \cup {None},
                            step : {"none", "issued", "open", "deleted"}]]
    BY DEF SkillSet!NoOp
  <2>2. suspect' \subseteq Files /\ crashes' \in 0..MaxCrashes
    BY <1>1, <1>2
  <2> QED BY <1>3, <2>1, <2>2 DEF SkillSet!TypeOK
<1>7. ASSUME NEW g \in Files, g # f, g \notin suspect, AtRest(g) PROVE AtRest(g)'
  <2>1. files'[g] = files[g] /\ SkillSet!Given(g)' = SkillSet!Given(g)
    BY <1>3, <1>7 DEF SkillSet!Given
  <2>2. home # g /\ skills[n] # g
    BY <1>1, <1>7, SkillSetAssumption
  <2>3. \A m \in SkillSet!AllNames : skills'[m] = g <=> skills[m] = g
    BY <1>3, <2>2
  <2>4. files[g] # None =>
            files[g] \in SkillSet!AllNames /\ SkillSet!Given(g) \in SkillSet!AllNames
    BY <1>2, <1>7, SkillSetAssumption DEF SkillSet!Given
  <2> QED BY <1>7, <2>1, <2>3, <2>4 DEF AtRest
<1>8. SkillSet!SkillsMatchFiles'
  <2> SUFFICES ASSUME NEW g \in Files, SkillSet!On(g)' = {}, g \notin suspect'
               PROVE  AtRest(g)'
    BY DEF SkillSet!SkillsMatchFiles, AtRest
  <2>1. CASE g = f
    <3> QED BY <2>1
  <2>2. CASE g # f
    <3>1. \A t \in Slots : ops[t].file = g => t # s /\ ops'[t] = ops[t]
      BY <2>2 DEF OthersGoOn
    <3>2. SkillSet!On(g) = {} /\ g \notin suspect
      BY <3>1 DEF SkillSet!On
    <3> QED BY <1>7, <2>2, <3>2 DEF SkillSetInv, SkillSet!SkillsMatchFiles, AtRest
  <2> QED BY <2>1, <2>2
<1>9. ASSUME NEW t \in Slots, ops'[t] # SkillSet!NoOp
      PROVE  /\ ops'[t].kind # "none" /\ ops'[t].step # "none"
             /\ AboutItsFile(ops[t])'
             /\ ops'[t].file \notin suspect' => Undisturbed(t)'
  <2>1. t # s
    BY <1>9
  <2>2. ops[t] # SkillSet!NoOp
    BY <1>9, <2>1, SkillSetAssumption DEF SkillSet!NoOp, OthersGoOn
  <2>3. /\ ops[t].kind \in {"create", "execute", "delete"}
        /\ ops[t].step \in {"issued", "open", "deleted"}
        /\ AboutItsFile(ops[t]) /\ ops[t].file # None
        /\ ops[t].file \notin suspect => Undisturbed(t)
        /\ ops[t] \in [kind : {"none", "create", "execute", "delete"},
                       name : SkillSet!AllNames \cup {None}, file : Files \cup {None},
                       step : {"none", "issued", "open", "deleted"}]
    BY <2>2, OperationIsInOrder DEF SkillSetInv, SkillSet!TypeOK
  <2>4. /\ ops'[t].kind = ops[t].kind /\ ops'[t].name = ops[t].name
        /\ ops'[t].file = ops[t].file
        /\ ops'[t].step = ops[t].step \/ (ops'[t].step = "deleted" /\ ops[t].file = f
                                          /\ ops[t].kind # "delete")
    BY <2>1, <2>3 DEF OthersGoOn
  <2>10. skills'[ops[t].name] \in {None, ops[t].file} \cup suspect
    <3>1. CASE ops[t].name # n
      BY <1>3, <2>3, <3>1 DEF AboutItsFile
    <3>2. CASE ops[t].name = n
      <4>1. f \in suspect
        BY <1>1, <2>1, <3>2 DEF Undisturbed
      <4> QED BY <1>1, <1>3, <3>2, <4>1
    <3> QED BY <3>1, <3>2
  <2>5. AboutItsFile(ops[t])'
    BY <1>1, <2>3, <2>4, <2>10 DEF AboutItsFile
  <2>6. ASSUME ops[t].file \notin suspect' PROVE Undisturbed(t)'
    <3>1. Undisturbed(t) /\ ops[t].file \in Files
      BY <2>3, <2>6 DEF AboutItsFile
    <3>2. ops[t].file # f /\ ops[t].name # n /\ ops[t].name \in SkillSet!AllNames
      BY <2>1, <2>3, <3>1 DEF Undisturbed, AboutItsFile
    <3>3. \A u \in Slots : /\ ops'[u].file = ops[t].file => ops[u].file = ops[t].file
                           /\ ops'[u].name = ops[t].name => ops[u].name = ops[t].name
      BY <3>1, <3>2, SkillSetAssumption DEF SkillSet!NoOp, OthersGoOn
    <3>4. ops[t].file \notin suspect /\ home # ops[t].file
      BY <1>1, <2>4, <2>6, <3>1, <3>2, SkillSetAssumption
    <3>5. /\ \A m \in SkillSet!AllNames : skills'[m] = ops[t].file => m = ops[t].name
          /\ ops[t].kind # "create" => skills'[ops[t].name] = ops[t].file
      BY <1>3, <3>1, <3>2, <3>4 DEF Undisturbed
    <3>6. ASSUME ops[t].step = "issued" PROVE AtRest(ops[t].file)'
      <4>1. PICK g \in Files : g = ops[t].file /\ g # f /\ g \notin suspect /\ AtRest(g)
        BY <3>1, <3>2, <3>4, <3>6 DEF Undisturbed
      <4>2. AtRest(g)'
        BY <1>7, <4>1
      <4>3. ops'[t].file = g
        BY <2>4, <4>1
      <4> QED BY <4>1, <4>2, <4>3
    <3>7. ASSUME NEW u \in Slots, ops'[u].file = ops[t].file
                 \/ ops'[u].name = ops[t].name
          PROVE  u = t
      <4>1. ops[u].file = ops[t].file \/ ops[u].name = ops[t].name
        BY <3>3, <3>7
      <4> QED BY <3>1, <4>1 DEF Undisturbed
    <3>8. ops'[t].step # "deleted" /\ (ops'[t].step = "issued" =>
              ops[t].step = "issued")
      BY <2>4, <3>1, <3>2 DEF Undisturbed
    <3> QED BY <2>4, <3>5, <3>6, <3>7, <3>8 DEF Undisturbed
  <2> QED BY <2>3, <2>4, <2>5, <2>6
<1> QED BY <1>4, <1>8, <1>9 DEF SkillSetInv

LEMMA SkillSetNext == SkillSetInv /\ [SkillSet!Next]_skillSetVars => SkillSetInv'
<1> SUFFICES ASSUME SkillSetInv, [SkillSet!Next]_skillSetVars PROVE SkillSetInv'
  OBVIOUS
<1> DEFINE Operations == {SkillSet!NoOp} \cup
               [kind : {"create", "execute", "delete"}, name : SkillSet!AllNames,
                file : Files, step : {"issued", "open", "deleted"}]
<1>0. /\ skills \in [SkillSet!AllNames -> Files \cup {None}]
      /\ files \in [Files -> SkillSet!AllNames \cup {None}]
      /\ suspect \in SUBSET Files /\ undeleted \in SUBSET Files
      /\ SkillSet!SkillsMatchFiles
  BY DEF SkillSetInv, SkillSet!TypeOK
<1>01. ops \in [Slots -> Operations]
  <2> SUFFICES ASSUME NEW s \in Slots, ops[s] # SkillSet!NoOp
                          PROVE ops[s] \in Operations
    BY DEF SkillSetInv, SkillSet!TypeOK
  <2>1. ops[s] \in [kind : {"none", "create", "execute", "delete"},
                    name : SkillSet!AllNames \cup {None}, file : Files \cup {None},
                    step : {"none", "issued", "open", "deleted"}]
    BY DEF SkillSetInv, SkillSet!TypeOK
  <2> QED BY <2>1, OperationIsInOrder DEF AboutItsFile
<1>1. ASSUME NEW n \in SkillSet!AllNames, SkillSet!CreateSkill(n) PROVE SkillSetInv'
  <2>1. FileOf[n] \in Files /\ n \in Names /\ skills[n] = None
        /\ SkillSet!Begin("create", n, FileOf[n])
    BY <1>1, SkillSetAssumption DEF SkillSet!CreateSkill
  <2> QED BY <2>1, BegunIsInOrder
<1>2. ASSUME NEW n \in SkillSet!AllNames, NEW kind \in {"execute", "delete"},
             skills[n] # None,
             SkillSet!Begin(kind, n, skills[n])
      PROVE  SkillSetInv'
  <2>1. skills[n] \in Files
    BY <1>0, <1>2
  <2> QED BY <1>2, <2>1, BegunIsInOrder
<1>3. ASSUME NEW s \in Slots, SkillSet!OpenFile(s) PROVE SkillSetInv'
  <2> DEFINE f == ops[s].file
             o == [ops[s] EXCEPT !.step = "open"]
  <2>1. /\ ops[s].kind \in {"create", "execute"} /\ ops[s].step = "issued"
        /\ ops' = [ops EXCEPT ![s] = o] /\ files' = [files EXCEPT ![f] = Unknown]
        /\ skills' = skills /\ suspect' = suspect /\ crashes' = crashes
        /\ undeleted' = undeleted \ {f}
    BY <1>3 DEF SkillSet!OpenFile
  <2>2. ops[s] # SkillSet!NoOp
    BY <2>1 DEF SkillSet!NoOp
  <2>3. /\ AboutItsFile(ops[s]) /\ f \in Files
        /\ f \notin suspect => Undisturbed(s)
    BY <2>2, OperationIsInOrder DEF AboutItsFile
  <2>4. /\ o.kind = ops[s].kind /\ o.name = ops[s].name /\ o.file = f /\ o.step = "open"
        /\ o \in [kind : {"none", "create", "execute", "delete"},
                  name : SkillSet!AllNames \cup {None}, file : Files \cup {None},
                  step : {"none", "issued", "open", "deleted"}]
    BY DEF SkillSetInv, SkillSet!TypeOK
  <2>5. ops'[s] = o /\ \A t \in Slots : t # s => ops'[t] = ops[t]
    BY <1>01, <2>1
  <2> HIDE DEF o
  <2>6. /\ files' \in [Files -> SkillSet!AllNames \cup {None}] /\ files'[f] = Unknown
        /\ \A g \in Files : g # f => files'[g] = files[g]
    BY <1>0, <2>1, <2>3 DEF SkillSet!AllNames
  <2>7. SkillSet!TypeOK'
    BY <2>1, <2>4, <2>6 DEF SkillSetInv, SkillSet!TypeOK
  <2>8. \A t \in Slots : /\ ops'[t].kind = ops[t].kind /\ ops'[t].name = ops[t].name
                         /\ ops'[t].file = ops[t].file
    BY <2>4, <2>5
  <2>9. \A g \in Files : SkillSet!On(g)' = {} => SkillSet!On(g) = {} /\ g # f
    BY <2>8 DEF SkillSet!On
  <2>10. ASSUME NEW g \in Files, g # f, AtRest(g) PROVE AtRest(g)'
    <3>1. files'[g] = files[g] /\ SkillSet!Given(g)' = SkillSet!Given(g)
          /\ (g \in undeleted => g \in undeleted')
      BY <2>1, <2>6, <2>10 DEF SkillSet!Given
    <3> QED BY <2>1, <2>10, <3>1 DEF AtRest
  <2>11. SkillSet!SkillsMatchFiles'
    <3> SUFFICES ASSUME NEW g \in Files, SkillSet!On(g)' = {}, g \notin suspect'
                            PROVE AtRest(g)'
      BY DEF SkillSet!SkillsMatchFiles, AtRest
    <3>1. AtRest(g) /\ g # f
      BY <1>0, <2>1, <2>9 DEF SkillSet!SkillsMatchFiles, AtRest
    <3> QED BY <2>10, <3>1
  <2>12. ASSUME NEW t \in Slots, ops'[t] # SkillSet!NoOp
         PROVE  /\ ops'[t].kind # "none" /\ ops'[t].step # "none"
                /\ AboutItsFile(ops[t])'
                /\ ops'[t].file \notin suspect' => Undisturbed(t)'
    <3>1. ops[t] # SkillSet!NoOp
      BY <2>2, <2>5, <2>12
    <3>2. /\ ops[t].kind # "none" /\ ops[t].step # "none" /\ AboutItsFile(ops[t])
          /\ ops[t].file \notin suspect => Undisturbed(t)
      BY <3>1, OperationIsInOrder
    <3>3. ops'[t].kind # "none" /\ ops'[t].step # "none" /\ AboutItsFile(ops[t])'
      BY <2>1, <2>4, <3>2 DEF AboutItsFile
    <3>4. ASSUME ops[t].file \notin suspect PROVE Undisturbed(t)'
      <4>1. Undisturbed(t)
        BY <3>2, <3>4
      <4>2. ops'[t].step # "deleted" /\ (ops'[t].step = "issued" =>
                t # s /\ ops[t].step = "issued")
        BY <2>4, <2>5, <4>1 DEF Undisturbed
      <4>3. ASSUME ops'[t].step = "issued" PROVE AtRest(ops[t].file)'
        <5>1. AtRest(ops[t].file) /\ ops[t].file \in Files /\ ops[t].file # f
          BY <3>2, <4>1, <4>2, <4>3 DEF Undisturbed, AboutItsFile
        <5>2. PICK g : g = ops[t].file
          OBVIOUS
        <5>3. AtRest(g)'
          BY <2>10, <5>1, <5>2
        <5> QED BY <2>8, <5>2, <5>3
      <4> QED BY <2>1, <2>8, <4>1, <4>2, <4>3 DEF Undisturbed
    <3> QED BY <2>1, <2>8, <3>3, <3>4
  <2> QED BY <2>7, <2>11, <2>12 DEF SkillSetInv
<1>4. ASSUME NEW s \in Slots, SkillSet!FinishSave(s) PROVE SkillSetInv'
  <2>01. PICK n, f : n = ops[s].name /\ f = ops[s].file
    OBVIOUS
  <2> DEFINE home == IF ops[s].kind = "create" THEN f ELSE skills[n]
  <2>1. /\ ops[s].step \in {"open", "deleted"} /\ ops[s] # SkillSet!NoOp
        /\ undeleted' = undeleted
        /\ ops' = [ops EXCEPT ![s] = SkillSet!NoOp] /\ suspect' = suspect
        /\ crashes' = crashes
    BY <1>4, <2>01 DEF SkillSet!FinishSave, SkillSet!NoOp
  <2>2. /\ AboutItsFile(ops[s]) /\ f \in Files /\ n \in SkillSet!AllNames
        /\ f \notin suspect => Undisturbed(s)
    BY <2>01, <2>1, OperationIsInOrder DEF AboutItsFile
  <2>3. PICK after \in {n, Unknown, files[f]} :
          /\ files' = [files EXCEPT ![f] = after]
          /\ f \in suspect \/ after = n
    <3>1. CASE ops[s].step = "open" /\ files' = [files EXCEPT ![f] = n]
      BY <3>1
    <3>2. CASE f \in suspect /\ files' = [files EXCEPT ![f] = Unknown]
      BY <3>2
    <3>3. CASE ops[s].step = "deleted" /\ UNCHANGED files
      BY <1>0, <2>01, <2>2, <3>3 DEF Undisturbed
    <3> QED BY <1>4, <2>01, <3>1, <3>2, <3>3 DEF SkillSet!FinishSave
  <2>4. after \in SkillSet!AllNames \cup {None}
    BY <1>0, <2>2 DEF SkillSet!AllNames
  <2>5. skills' = [skills EXCEPT ![n] = home] /\ home \in {None, skills[n], f}
    BY <1>0, <1>4, <2>01, <2>2 DEF SkillSet!FinishSave, SkillSet!Created
  <2>6. f \notin suspect => /\ home = f
                            /\ \A m \in SkillSet!AllNames : skills[m] = f => m = n
    BY <2>01, <2>2 DEF Undisturbed
  <2> HIDE DEF home
  <2>7. ASSUME f \notin suspect' PROVE AtRest(f)'
    <3>1. files'[f] = n /\ skills'[n] = f /\ \A m \in SkillSet!AllNames : skills'[m] = f
              => m = n
      BY <1>0, <2>1, <2>2, <2>3, <2>5, <2>6, <2>7
    <3> QED BY <3>1 DEF AtRest
  <2>8. /\ ops'[s] = SkillSet!NoOp /\ ops' \in [Slots -> Operations]
        /\ \A t \in Slots \ {s} : ops'[t] = ops[t]
    <3> HIDE DEF Operations
    <3>1. SkillSet!NoOp \in Operations
      BY DEF Operations
    <3> QED BY <1>01, <2>1, <3>1
  <2>9. undeleted' \in SUBSET Files /\ \A g \in undeleted : g = f \/ g \in undeleted'
    BY <1>0, <2>1
  <2>10. OthersGoOn(s, f)
    BY <2>8 DEF OthersGoOn
  <2> QED BY <2>1, <2>3, <2>4, <2>5, <2>7, <2>8, <2>9, <2>10, <2>01, EndedLeavesOthers
<1>5. ASSUME NEW s \in Slots, SkillSet!FailSave(s) PROVE SkillSetInv'
  <2>01. PICK n, f : n = ops[s].name /\ f = ops[s].file
    OBVIOUS
  <2>02. PICK home, after : home = skills[n] /\ after = files[f]
    OBVIOUS
  <2>1. /\ ops[s].kind \in {"create", "execute"} /\ ops[s] # SkillSet!NoOp
        /\ undeleted' = undeleted
        /\ ops' = [ops EXCEPT ![s] = SkillSet!NoOp] /\ crashes' = crashes
        /\ suspect \subseteq suspect' /\ suspect' \subseteq suspect \cup {f}
        /\ ops[s].step = "open" => f \in suspect'
    BY <1>5, <2>01 DEF SkillSet!FailSave, SkillSet!NoOp
  <2>0. skills' = skills /\ files' = files
    BY <1>5 DEF SkillSet!FailSave
  <2>2. /\ ops[s].step \in {"issued", "open", "deleted"}
        /\ f \in Files /\ n \in SkillSet!AllNames
        /\ f \notin suspect => Undisturbed(s)
    BY <2>01, <2>1, OperationIsInOrder DEF AboutItsFile
  <2>3. /\ after \in SkillSet!AllNames \cup {None}
        /\ files' = [files EXCEPT ![f] = after] /\ skills' = [skills EXCEPT ![n] = home]
    BY <1>0, <2>0, <2>02, <2>2
  <2>4. ASSUME f \notin suspect' PROVE AtRest(f)'
    <3>1. AtRest(f)
      BY <2>01, <2>1, <2>2, <2>4 DEF Undisturbed
    <3> QED BY <2>0, <2>1, <3>1 DEF AtRest, SkillSet!Given
  <2>5. home \in {None, skills[n], f}
    BY <2>02
  <2>6. /\ ops'[s] = SkillSet!NoOp /\ ops' \in [Slots -> Operations]
        /\ \A t \in Slots \ {s} : ops'[t] = ops[t]
    <3> HIDE DEF Operations
    <3>1. SkillSet!NoOp \in Operations
      BY DEF Operations
    <3> QED BY <1>01, <2>1, <3>1
  <2>9. undeleted' \in SUBSET Files /\ \A g \in undeleted : g = f \/ g \in undeleted'
    BY <1>0, <2>1
  <2>10. OthersGoOn(s, f)
    BY <2>6 DEF OthersGoOn
  <2> QED BY <2>1, <2>3, <2>4, <2>5, <2>6, <2>9, <2>10, <2>01, EndedLeavesOthers
<1>6. ASSUME NEW s \in Slots, SkillSet!FinishDelete(s) PROVE SkillSetInv'
  <2>01. PICK n, f : n = ops[s].name /\ f = ops[s].file
    OBVIOUS
  <2>1. /\ ops[s].kind = "delete" /\ ops[s] # SkillSet!NoOp
        /\ skills' = [skills EXCEPT ![n] = None]
        /\ crashes' = crashes /\ suspect' = suspect
    BY <1>6, <2>01 DEF SkillSet!FinishDelete, SkillSet!NoOp
  <2>2. /\ AboutItsFile(ops[s]) /\ f \in Files /\ n \in SkillSet!AllNames
        /\ f \notin suspect => Undisturbed(s)
    BY <2>01, <2>1, OperationIsInOrder DEF AboutItsFile
  <2>3. ASSUME f \notin suspect PROVE \A m \in SkillSet!AllNames : skills'[m] # f
    BY <1>0, <2>01, <2>1, <2>2, <2>3, SkillSetAssumption DEF Undisturbed
  \* What is left, whether or not the file went.
  <2>4. PICK after \in {None, files[f]} :
          /\ files' = [files EXCEPT ![f] = after]
          /\ after = None \/ f \in undeleted'
          /\ undeleted' \in SUBSET Files /\ \A g \in undeleted : g = f
             \/ g \in undeleted'
          /\ \A t \in Slots \ {s} : \/ ops'[t] = ops[t]
                                   \/ /\ ops[t].file = f /\ ops[t].step = "open"
                                      /\ ops'[t] = [ops[t] EXCEPT !.step = "deleted"]
          /\ ops' = [t \in Slots |-> IF t = s THEN SkillSet!NoOp ELSE ops'[t]]
    <3>1. CASE /\ files' = [files EXCEPT ![f] = None] /\ undeleted' = undeleted \ {f}
               /\ ops' = [t \in Slots |-> IF t = s THEN SkillSet!NoOp
                                          ELSE IF ops[t].file = f
                                          /\ ops[t].step = "open"
                                          THEN [ops[t] EXCEPT !.step = "deleted"]
                                              ELSE ops[t]]
      <4>1. \A t \in Slots \ {s} : \/ ops'[t] = ops[t]
                                   \/ /\ ops[t].file = f /\ ops[t].step = "open"
                                      /\ ops'[t] = [ops[t] EXCEPT !.step = "deleted"]
        BY <3>1
      <4>2. ops' = [t \in Slots |-> IF t = s THEN SkillSet!NoOp ELSE ops'[t]]
        BY <3>1
      <4> QED BY <1>0, <3>1, <4>1, <4>2
    <3>2. CASE /\ undeleted' = undeleted \cup {f}
               /\ ops' = [ops EXCEPT ![s] = SkillSet!NoOp]
               /\ files' = files
      <4>1. files' = [files EXCEPT ![f] = files[f]]
        BY <1>0, <2>2, <3>2
      <4>2. \A t \in Slots \ {s} : ops'[t] = ops[t]
        BY <1>01, <3>2
      <4>3. ops' = [t \in Slots |-> IF t = s THEN SkillSet!NoOp ELSE ops'[t]]
        BY <1>01, <3>2
      <4>4. undeleted' \in SUBSET Files /\ f \in undeleted'
            /\ \A g \in undeleted : g = f \/ g \in undeleted'
        BY <1>0, <2>2, <3>2
      <4> QED BY <4>1, <4>2, <4>3, <4>4
    <3> QED BY <1>6, <2>01, <3>1, <3>2 DEF SkillSet!FinishDelete
  <2>5. ASSUME NEW t \in Slots \ {s}
        PROVE  /\ ops'[t] \in Operations
               /\ \/ ops'[t] = ops[t]
                  \/ /\ ops[t].file = f /\ ops[t].kind # "delete"
                     /\ ops'[t] = [ops[t] EXCEPT !.step = "deleted"]
    <3>1. CASE /\ ops[t].file = f /\ ops[t].step = "open"
               /\ ops'[t] = [ops[t] EXCEPT !.step = "deleted"]
      <4>1. ops[t] # SkillSet!NoOp
        BY <3>1 DEF SkillSet!NoOp
      <4>2. ops[t].kind # "delete"
        BY <3>1, <4>1, OperationIsInOrder DEF AboutItsFile
      <4>3. ops'[t] \in Operations
        BY <1>01, <3>1, <4>1
      <4> QED BY <3>1, <4>2, <4>3
    <3>2. CASE ops'[t] = ops[t]
      <4> HIDE DEF Operations
      <4> QED BY <1>01, <3>2
    <3> QED BY <2>4, <3>1, <3>2
  <2>6. ops'[s] = SkillSet!NoOp /\ ops' \in [Slots -> Operations]
    <3>1. SkillSet!NoOp \in Operations /\ ops'[s] = SkillSet!NoOp
      BY <2>4
    <3>2. \A t \in Slots : ops'[t] \in Operations
      BY <2>5, <3>1
    <3> HIDE DEF Operations
    <3>3. ops' = [t \in Slots |-> ops'[t]]
      BY <2>4
    <3> QED BY <3>1, <3>2, <3>3
  <2>7. ASSUME f \notin suspect' PROVE AtRest(f)'
    <3>1. \A m \in SkillSet!AllNames : skills'[m] # f
      BY <2>1, <2>3, <2>7
    <3>2. files'[f] = None \/ f \in undeleted'
      BY <1>0, <2>2, <2>4
    <3> QED BY <3>1, <3>2 DEF AtRest
  <2>02. PICK home : home = None
    OBVIOUS
  <2>8. /\ skills' = [skills EXCEPT ![n] = home] /\ home \in {None, skills[n], f}
        /\ after \in SkillSet!AllNames \cup {None}
        /\ suspect \subseteq suspect' /\ suspect' \subseteq suspect \cup {f}
    BY <1>0, <2>02, <2>1, <2>2
  <2>9. OthersGoOn(s, f)
    BY <2>5 DEF OthersGoOn
  <2>10. /\ files' = [files EXCEPT ![f] = after]
         /\ undeleted' \in SUBSET Files /\ \A g \in undeleted : g = f
            \/ g \in undeleted'
    BY <2>4
  <2>11. f \in suspect' \/ AtRest(f)'
    BY <2>7
  <2>12. ops[s] # SkillSet!NoOp /\ crashes' = crashes
    BY <2>1
  <2> QED BY <2>01, <2>6, <2>8, <2>9, <2>10, <2>11, <2>12, EndedLeavesOthers
<1>7. CASE SkillSet!Restart
  <2>1. /\ SkillSet!Loads /\ files' = files /\ crashes' \in 0..MaxCrashes
        /\ undeleted' = {}
        /\ ops' = [s \in Slots |-> SkillSet!NoOp]
    BY <1>7, SkillSetAssumption DEF SkillSet!Restart, SkillSetInv, SkillSet!TypeOK
  <2> DEFINE namesRead == {SkillSet!Given(f) : f \in Files} \ {None}
  <2>02. PICK last \in [namesRead -> Files] :
           /\ \A n \in namesRead : SkillSet!Given(last[n]) = n
           /\ skills' = [n \in SkillSet!AllNames |-> IF n \in namesRead THEN last[n]
                 ELSE None]
           /\ suspect' = {f \in Files : SkillSet!Given(f) # None
              /\ last[SkillSet!Given(f)] # f}
    BY <2>1 DEF SkillSet!Loads
  <2>03. ASSUME NEW f \in Files, files[f] # None
         PROVE  SkillSet!Given(f) # None /\ SkillSet!Given(f) \in namesRead
                /\ SkillSet!Given(f) \in SkillSet!AllNames
    <3>1. SkillSet!Given(f) \in SkillSet!AllNames
      BY <1>0, <2>03, SkillSetAssumption DEF SkillSet!Given, SkillSet!TypeOK
    <3> QED BY <3>1, SkillSetAssumption
  <2> HIDE DEF namesRead
  <2>2. skills' \in [SkillSet!AllNames -> Files \cup {None}] /\ suspect' \subseteq Files
    BY <2>02
  <2>3. ops' \in [Slots -> [kind : {"none", "create", "execute", "delete"},
                            name : SkillSet!AllNames \cup {None}, file : Files
                                \cup {None},
                            step : {"none", "issued", "open", "deleted"}]]
    BY <2>1 DEF SkillSet!NoOp
  <2>4. SkillSet!TypeOK'
    BY <1>0, <2>1, <2>2, <2>3 DEF SkillSet!TypeOK
  <2>5. \A n \in SkillSet!AllNames : skills'[n] # None => SkillSet!Given(skills'[n]) = n
    BY <2>02
  <2>6. \A f \in Files : f \notin suspect' /\ files[f] # None =>
            skills'[SkillSet!Given(f)] = f
    <3> SUFFICES ASSUME NEW f \in Files, f \notin suspect', files[f] # None
                 PROVE  skills'[SkillSet!Given(f)] = f
      OBVIOUS
    <3>0. PICK n : n = SkillSet!Given(f)
      OBVIOUS
    <3>1. n \in SkillSet!AllNames /\ n \in namesRead /\ n # None
      BY <2>03, <3>0, SkillSetAssumption
    <3>2. f \notin {g \in Files : SkillSet!Given(g) # None
          /\ last[SkillSet!Given(g)] # g}
      BY <2>02
    <3>3. last[n] = f
      BY <3>0, <3>1, <3>2
    <3>4. skills'[n] = last[n]
      BY <2>02, <3>1
    <3> QED BY <3>0, <3>3, <3>4
  <2>7. \A f \in Files : SkillSet!Given(f)' = SkillSet!Given(f)
    BY <2>1 DEF SkillSet!Given
  <2>8. SkillSet!SkillsMatchFiles'
    <3> SUFFICES ASSUME NEW f \in Files, f \notin suspect' PROVE AtRest(f)'
      BY DEF SkillSet!SkillsMatchFiles, AtRest
    <3>1. \A n \in SkillSet!AllNames : skills'[n] = f => SkillSet!Given(f) = n
      BY <2>5, SkillSetAssumption
    <3> QED BY <2>1, <2>6, <2>7, <3>1 DEF AtRest
  <2> QED BY <2>1, <2>4, <2>8 DEF SkillSetInv
<1>8. CASE UNCHANGED skillSetVars
  BY <1>8 DEF skillSetVars, SkillSetInv, SkillSet!TypeOK, SkillSet!SkillsMatchFiles,
              SkillSet!On, AboutItsFile, Undisturbed, AtRest, SkillSet!Given
<1> QED BY <1>1, <1>2, <1>3, <1>4, <1>5, <1>6, <1>7, <1>8
        DEF SkillSet!Next, SkillSet!ExecuteSkill, SkillSet!DeleteSkill
-----------------------------------------------------------------------------
\* Evaluation and evolution of skills (SkillEvolution).
\* An evaluation as SkillEvaluator makes it: no declining trend before TrendFrom calls.
Evaluated(e) == /\ e \in [calls : Nat, wins : Nat, trend : Evolution!Trends]
                /\ e.wins <= e.calls /\ e.calls <= MaxCalls
                /\ e.trend = "declining" => e.calls >= TrendFrom

\* What is known in memory, in the file, or on its way there.
Lifecycle(content) == /\ content.evals \in [Skills -> Evolution!Evaluation]
                      /\ \A n \in Skills : Evaluated(content.evals[n])
                      /\ content.patches \subseteq Skills

EvolutionInv == /\ Evolution!TypeOK
                /\ Evolution!RetiredWereUsed
                /\ Lifecycle(Evolution!Known) /\ Lifecycle(saved.content)
                /\ Lifecycle(saving.content)

LEMMA FreshIsEvaluated == Lifecycle(Evolution!Nothing)
BY EvolutionAssumption DEF Lifecycle, Evolution!Nothing, Evolution!Fresh, Evaluated,
                           Evolution!Trends, Evolution!Evaluation

\* One more call keeps an evaluation in order, when there is room for it.
LEMMA CountedIsEvaluated ==
  ASSUME NEW e, Evaluated(e), e.calls < MaxCalls, NEW success \in BOOLEAN
  PROVE  Evaluated(Evolution!Counted(e, success))
         /\ Evolution!Counted(e, success).calls = e.calls + 1
BY EvolutionAssumption DEF Evaluated, Evolution!Counted, Evolution!Trend,
                           Evolution!Trends

LEMMA EvaluatedIsEvaluation ==
  ASSUME NEW e, Evaluated(e)
  PROVE  e \in Evolution!Evaluation
BY EvolutionAssumption DEF Evaluated, Evolution!Evaluation, Evolution!Trends

\* Only skills with a trend and under the threshold are for retirement.
LEMMA ForRetirementWereUsed ==
  ASSUME EvolutionInv
  PROVE  \A n \in Evolution!ForRetirement :
            /\ n \in Skills /\ evals[n].calls \in 1..MaxCalls
            /\ evals[n].calls \in TrendFrom..(EvolutionThreshold - 1)
BY EvolutionAssumption DEF EvolutionInv, Evolution!ForRetirement, Lifecycle,
                           Evolution!Known, Evaluated

LEMMA EvolutionInit == Evolution!Init => EvolutionInv
<1> SUFFICES ASSUME Evolution!Init PROVE EvolutionInv
  OBVIOUS
<1>1. Evolution!Known = Evolution!Nothing /\ saved.content = Evolution!Nothing
      /\ saving.content = Evolution!Nothing
  BY DEF Evolution!Init, Evolution!Known, Evolution!Nothing, Evolution!NotSaving
<1>2. Evolution!TypeOK /\ Evolution!RetiredWereUsed
  BY EvolutionAssumption DEF Evolution!Init, Evolution!TypeOK,
                             Evolution!RetiredWereUsed, Evolution!Fresh,
                             Evolution!Evaluation, Evolution!Trends,
     Evolution!NotSaving, Evolution!Idle, Evolution!Nothing
<1> QED BY <1>1, <1>2, FreshIsEvaluated DEF EvolutionInv

\* A call that was counted leaves what is known in order.
LEMMA CountingKeepsInv ==
  ASSUME EvolutionInv, NEW n \in Skills, NEW e, Evaluated(e),
         evals' = [evals EXCEPT ![n] = e], patches' \in SUBSET Skills,
         UNCHANGED <<present, saved, saving, evolving, retired>>
  PROVE  EvolutionInv'
<1>1. e \in Evolution!Evaluation /\ e.wins <= e.calls
  BY EvaluatedIsEvaluation DEF Evaluated
<1>2. evals' \in [Skills -> Evolution!Evaluation]
      /\ \A k \in Skills : Evaluated(evals'[k])
  BY <1>1 DEF EvolutionInv, Evolution!TypeOK, Lifecycle, Evolution!Known
<1>3. Lifecycle(Evolution!Known)'
  BY <1>2 DEF Lifecycle, Evolution!Known, Evaluated
<1>5. Evolution!TypeOK' /\ Evolution!RetiredWereUsed'
  BY <1>2 DEF EvolutionInv, Evolution!TypeOK, Evolution!RetiredWereUsed, Evaluated
<1> QED BY <1>3, <1>5 DEF EvolutionInv

\* A step that leaves what is known and saved alone keeps it in order.
LEMMA EvolutionNext == EvolutionInv /\ [Evolution!Next]_evolutionVars => EvolutionInv'
<1> SUFFICES ASSUME EvolutionInv, [Evolution!Next]_evolutionVars PROVE EvolutionInv'
  OBVIOUS
<1>0. /\ Evolution!TypeOK /\ Evolution!RetiredWereUsed
      /\ Lifecycle(Evolution!Known) /\ Lifecycle(saved.content)
      /\ Lifecycle(saving.content)
      /\ \A n \in Skills : Evaluated(evals[n])
  BY DEF EvolutionInv, Lifecycle, Evolution!Known
<1>1. ASSUME NEW n \in Skills, Evolution!RecordSkillOutcome(n) PROVE EvolutionInv'
  <2>1. PICK success \in BOOLEAN : Evolution!RecordCall(n, success)
    BY <1>1 DEF Evolution!RecordSkillOutcome
  <2>2. Evaluated(Evolution!Counted(evals[n], success))
    BY <1>0, <2>1, CountedIsEvaluated DEF Evolution!RecordCall
  <2> QED BY <1>0, <1>1, <2>1, <2>2, CountingKeepsInv DEF Evolution!RecordSkillOutcome,
                                                          Evolution!RecordCall,
                                                          Evolution!TypeOK
<1>2. ASSUME NEW n \in Skills, Evolution!ExecuteSkill(n) PROVE EvolutionInv'
  <2>1. CASE Evolution!RecordCall(n, TRUE) /\ UNCHANGED patches
    <3>1. Evaluated(Evolution!Counted(evals[n], TRUE))
      BY <1>0, <2>1, CountedIsEvaluated DEF Evolution!RecordCall
    <3> QED BY <1>0, <1>2, <2>1, <3>1, CountingKeepsInv DEF Evolution!ExecuteSkill,
                                                            Evolution!RecordCall,
                                                            Evolution!TypeOK
  <2>2. CASE /\ evals[n].calls + 1 < MaxCalls
             /\ evals' = [evals EXCEPT ![n] = Evolution!Counted(Evolution!Counted(@,
                   TRUE), FALSE)]
             /\ patches' = patches \cup {n}
    <3>0. evals[n].calls \in Nat /\ MaxCalls \in Nat
      BY <1>0, EvolutionAssumption DEF Evaluated
    <3>1. Evaluated(evals[n]) /\ evals[n].calls < MaxCalls
      BY <1>0, <2>2, <3>0
    <3>4. Evaluated(Evolution!Counted(evals[n], TRUE))
          /\ Evolution!Counted(evals[n], TRUE).calls < MaxCalls
      <4>1. /\ Evaluated(Evolution!Counted(evals[n], TRUE))
            /\ Evolution!Counted(evals[n], TRUE).calls = evals[n].calls + 1
        BY <3>1, CountedIsEvaluated
      <4> QED BY <2>2, <4>1
    <3>2. Evaluated(Evolution!Counted(Evolution!Counted(evals[n], TRUE), FALSE))
      BY <3>4, CountedIsEvaluated
    <3>3. patches' \in SUBSET Skills
      BY <1>0, <2>2 DEF Evolution!TypeOK
    <3> QED BY <1>2, <2>2, <3>2, <3>3, CountingKeepsInv DEF Evolution!ExecuteSkill
  <2> QED BY <1>2, <2>1, <2>2 DEF Evolution!ExecuteSkill
<1>3. ASSUME NEW n \in Skills,
             Evolution!MarkPatchSuggestion(n) \/ Evolution!CreateSkill(n)
             \/ Evolution!DeleteSkill(n) \/ Evolution!Retire(n)
      PROVE  EvolutionInv'
  <2>1. /\ UNCHANGED <<evals, saved, saving, retired>>
        /\ patches' \subseteq patches
        /\ present' \subseteq present \cup {n}
        /\ evolving' \in [on : BOOLEAN, left : SUBSET Skills]
    BY <1>0, <1>3 DEF Evolution!TypeOK, Evolution!MarkPatchSuggestion,
                      Evolution!CreateSkill, Evolution!DeleteSkill, Evolution!Retire
  <2>2. Evolution!TypeOK' /\ Evolution!RetiredWereUsed'
    BY <1>0, <2>1 DEF Evolution!TypeOK, Evolution!RetiredWereUsed
  <2>3. Lifecycle(Evolution!Known)' /\ Lifecycle(saved.content)'
        /\ Lifecycle(saving.content)'
    BY <1>0, <2>1 DEF Lifecycle, Evolution!Known, Evaluated
  <2> QED BY <2>2, <2>3 DEF EvolutionInv
<1>4. CASE Evolution!Evolve
  <2>1. Evolution!RetiredWereUsed'
        /\ retired' \subseteq [name : Skills, calls : 1..MaxCalls]
    BY <1>0, <1>4, ForRetirementWereUsed DEF Evolution!Evolve,
                                             Evolution!RetiredWereUsed, Evolution!TypeOK
  <2>2. Evolution!ForRetirement \subseteq Skills
    BY ForRetirementWereUsed
  <2> QED BY <1>4, <2>1, <2>2
          DEF EvolutionInv, Evolution!Evolve, Evolution!TypeOK, Lifecycle,
              Evolution!Known, Evaluated
<1>5. CASE Evolution!Improve
  <2>1. patches' \subseteq Skills
    BY <1>0, <1>5 DEF Evolution!Improve, Evolution!NeedEvolution, Evolution!TypeOK
  <2> QED BY <1>5, <2>1 DEF EvolutionInv, Evolution!Improve, Evolution!Idle,
                            Evolution!TypeOK, Evolution!RetiredWereUsed,
          Lifecycle, Evolution!Known, Evaluated
<1>6. CASE Evolution!BeginSave
  <2>1. saving'.content = Evolution!Known /\ saving'.on = TRUE
        /\ saved'.content = saved.content
    BY <1>6 DEF Evolution!BeginSave
  <2> QED BY <1>0, <1>6, <2>1 DEF EvolutionInv, Evolution!BeginSave, Evolution!TypeOK,
                                  Evolution!RetiredWereUsed,
          Lifecycle, Evolution!Known, Evaluated
<1>7. CASE Evolution!FinishSave
  <2> QED BY <1>7, FreshIsEvaluated
          DEF EvolutionInv, Evolution!FinishSave, Evolution!NotSaving, Evolution!TypeOK,
              Evolution!RetiredWereUsed, Lifecycle, Evolution!Known,
              Evaluated, Evolution!Nothing, Evolution!Fresh
<1>8. CASE Evolution!Restart
  <2> DEFINE loaded == IF saved.parses THEN saved.content ELSE Evolution!Nothing
  <2>1. Lifecycle(loaded) /\ evals' = loaded.evals /\ patches' = loaded.patches
    BY <1>0, <1>8, FreshIsEvaluated DEF Evolution!Restart
  <2> HIDE DEF loaded
  <2>2. saving'.content = Evolution!Nothing /\ saving'.on = FALSE
        /\ evolving' = Evolution!Idle
    BY <1>8 DEF Evolution!Restart, Evolution!NotSaving
  <2>3. saved' = saved /\ retired' = retired /\ present' = present
    BY <1>8 DEF Evolution!Restart
  <2>4. Lifecycle(Evolution!Known)'
    BY <2>1 DEF Lifecycle, Evolution!Known, Evaluated
  <2>5. Lifecycle(saved.content)' /\ Lifecycle(saving.content)'
    BY <1>0, <2>2, <2>3, FreshIsEvaluated DEF Lifecycle, Evaluated, Evolution!Nothing,
                                              Evolution!Fresh
  <2>6. Evolution!TypeOK' /\ Evolution!RetiredWereUsed'
    BY <1>0, <2>1, <2>2, <2>3 DEF Evolution!TypeOK, Evolution!RetiredWereUsed,
                                  Lifecycle, Evaluated, Evolution!Idle
  <2> QED BY <2>4, <2>5, <2>6 DEF EvolutionInv
<1>9. CASE UNCHANGED evolutionVars
  BY <1>9 DEF EvolutionInv, evolutionVars, Evolution!TypeOK, Evolution!RetiredWereUsed,
              Lifecycle, Evolution!Known, Evaluated
<1> QED BY <1>1, <1>2, <1>3, <1>4, <1>5, <1>6, <1>7, <1>8, <1>9 DEF Evolution!Next
-----------------------------------------------------------------------------
\* The memory database, its indexes and its cache (MemoryStore).
LEMMA MemoryPicked == ASSUME NEW s, NEW I PROVE Memory!Picked(s, I) = Picked(s, I)
BY DEF Memory!Picked, Picked, Memory!Nth, Nth, Memory!Rank, Rank, Memory!Cardinality,
       Cardinality

Cells == Memories \cup {None}

\* A memory has one row, an entry is of the row of its number, and nothing that was
\* deleted is in a row, in the cache, or on its way into it.
MemoryInv ==
    /\ rows \in [Memory!Numbers -> Cells] /\ texts \in [Memory!Numbers -> Cells]
    /\ vectors \in [Memory!Numbers -> Cells]
    /\ vectorSearch \in BOOLEAN /\ stale \subseteq Memory!Numbers
    /\ cache \in Seq(Memories) /\ Len(cache) <= Capacity
    /\ used \subseteq Memories /\ arriving \subseteq used /\ deleted \subseteq used
    /\ \A n \in Memory!Numbers : rows[n] # None =>
          rows[n] \in used /\ rows[n] \notin deleted
    /\ \A n, k \in Memory!Numbers : rows[n] # None /\ rows[n] = rows[k] => n = k
    /\ \A n \in Memory!Numbers : texts[n] # None => texts[n] = rows[n]
    /\ \A n \in Memory!Numbers \ stale : vectors[n] # None => vectors[n] = rows[n]
    /\ arriving \cap deleted = {}
    /\ \A m \in deleted : ~Has(cache, m)

LEMMA RangeIsHas == ASSUME NEW s, NEW x PROVE x \in Memory!Range(s) <=> Has(s, x)
BY DEF Memory!Range, Has

LEMMA MemoryTypes == ASSUME MemoryInv PROVE Memory!TypeOK
BY DEF MemoryInv, Memory!TypeOK, Cells

LEMMA IndexesFollow == ASSUME MemoryInv PROVE Memory!IndexesFollowRows
BY RangeIsHas DEF MemoryInv, Memory!IndexesFollowRows

LEMMA MemoryInit == ASSUME Memory!Init PROVE MemoryInv
<1>1. cache \in Seq(Memories) /\ Len(cache) = 0 /\ ~\E m : Has(cache, m)
  BY EmptyList DEF Memory!Init
<1>2. 0 <= Capacity
  BY MemoryAssumption
<1> QED BY <1>1, <1>2 DEF Memory!Init, MemoryInv, Cells

\* What the cache without some memories, or after one was used, holds.
LEMMA CacheBut ==
  ASSUME cache \in Seq(Memories), NEW ms
  PROVE  /\ Memory!CachedBut(ms) \in Seq(Memories)
         /\ Len(Memory!CachedBut(ms)) <= Len(cache)
         /\ \A x : Has(Memory!CachedBut(ms), x) => Has(cache, x) /\ x \notin ms
         /\ \A x \in ms : Has(cache, x) => Len(Memory!CachedBut(ms)) < Len(cache)
<1> DEFINE I == {i \in DOMAIN cache : cache[i] \notin ms}
<1>0. Memory!CachedBut(ms) = Picked(cache, I)
  BY MemoryPicked DEF Memory!CachedBut
<1>2. I \in SUBSET DOMAIN cache
  OBVIOUS
<1>3. \A i \in I : cache[i] \notin ms
  OBVIOUS
<1>4. ASSUME NEW x \in ms, Has(cache, x) PROVE Cardinality(I) < Len(cache)
  <2>1. PICK i \in 1..Len(cache) : cache[i] = x
    BY <1>4 DEF Has
  <2>2. i \notin I
    BY <2>1
  <2> HIDE DEF I
  <2>3. IsFiniteSet(1..Len(cache)) /\ Cardinality(1..Len(cache)) = Len(cache)
    <3> DEFINE n == Len(cache)
    <3>1. n \in Nat
      OBVIOUS
    <3> HIDE DEF n
    <3>2. IsFiniteSet(1..n) /\ Cardinality(1..n) = n
      BY <3>1, FS_Interval
    <3> QED BY <3>2 DEF n
  <2>4. I \in SUBSET (1..Len(cache)) /\ I # 1..Len(cache)
    BY <1>2, <2>2
  <2>5. Cardinality(I) <= Cardinality(1..Len(cache))
        /\ Cardinality(I) # Cardinality(1..Len(cache))
        /\ Cardinality(I) \in Nat
    BY <2>3, <2>4, FS_Subset, FS_CardinalityType
  <2> QED BY <2>3, <2>5
<1> HIDE DEF I
<1>5. /\ Picked(cache, I) \in Seq(Memories) /\ Len(Picked(cache, I)) = Cardinality(I)
      /\ DOMAIN Picked(cache, I) = 1..Cardinality(I) /\ Cardinality(I) \in 0..Len(cache)
      /\ \A k \in 1..Cardinality(I) : Nth(I, k) \in I
         /\ Picked(cache, I)[k] = cache[Nth(I, k)]
  BY <1>2, PickedList
<1>6. ASSUME NEW x, Has(Picked(cache, I), x) PROVE Has(cache, x) /\ x \notin ms
  <2>1. PICK k \in 1..Cardinality(I) : Picked(cache, I)[k] = x
    BY <1>5, <1>6 DEF Has
  <2>2. Nth(I, k) \in I /\ cache[Nth(I, k)] = x
    BY <1>5, <2>1
  <2>3. Nth(I, k) \in DOMAIN cache /\ x \notin ms
    BY <1>2, <1>3, <2>2
  <2> QED BY <2>2, <2>3 DEF Has
<1> QED BY <1>0, <1>4, <1>5, <1>6

LEMMA CacheTouched ==
  ASSUME cache \in Seq(Memories), Len(cache) <= Capacity, NEW m \in Memories
  PROVE  /\ Memory!Touched(m) \in Seq(Memories) /\ Len(Memory!Touched(m)) <= Capacity
         /\ \A x : Has(Memory!Touched(m), x) => x = m \/ Has(cache, x)
<1>0. Len(cache) \in Nat /\ Capacity \in Nat \ {0}
  BY MemoryAssumption
<1>1. CASE Has(cache, m)
  <2> DEFINE s == Memory!CachedBut({m})
  <2>1. s \in Seq(Memories) /\ Len(s) < Len(cache) /\ \A x : Has(s, x) => Has(cache, x)
    BY <1>1, CacheBut
  <2>2. Memory!Touched(m) = Append(s, m)
    BY <1>1, RangeIsHas DEF Memory!Touched
  <2> HIDE DEF s
  <2>3. Append(s, m) \in Seq(Memories) /\ Len(Append(s, m)) = Len(s) + 1
        /\ Len(s) \in Nat
        /\ \A x : Has(Append(s, m), x) <=> x = m \/ Has(s, x)
    BY <2>1, LongerList
  <2> QED BY <1>0, <2>1, <2>2, <2>3
<1>2. CASE ~Has(cache, m)
  <2> DEFINE s == IF Len(cache) >= Capacity THEN Tail(cache) ELSE cache
  <2>1. s \in Seq(Memories) /\ Len(s) < Capacity /\ \A x : Has(s, x) => Has(cache, x)
    <3>1. CASE Len(cache) >= Capacity
      <4>1. cache # <<>>
        BY <1>0, <3>1
      <4>2. Tail(cache) \in Seq(Memories) /\ Len(Tail(cache)) = Len(cache) - 1
            /\ \A x : Has(Tail(cache), x) => Has(cache, x)
        BY <4>1, TailOfList
      <4> QED BY <1>0, <4>2
    <3>2. CASE Len(cache) < Capacity
      BY <1>0, <3>2
    <3> QED BY <1>0, <3>1
  <2>2. Memory!Touched(m) = Append(s, m)
    BY <1>2, RangeIsHas DEF Memory!Touched
  <2> HIDE DEF s
  <2>3. Append(s, m) \in Seq(Memories) /\ Len(Append(s, m)) = Len(s) + 1
        /\ Len(s) \in Nat
        /\ \A x : Has(Append(s, m), x) <=> x = m \/ Has(s, x)
    BY <2>1, LongerList
  <2> QED BY <1>0, <2>1, <2>2, <2>3
<1> QED BY <1>1, <1>2

\* The number a new row is given is not in use.
LEMMA NumberIsFree ==
  ASSUME MemoryInv, Memory!NextNumber \in Memory!Numbers
  PROVE  rows[Memory!NextNumber] = None
<1>1. CASE Memory!Held(rows) = {}
  BY <1>1 DEF Memory!Held
<1>2. CASE Memory!Held(rows) # {}
  <2> DEFINE H == Memory!Held(rows)
             top == CHOOSE n \in H : \A k \in H : k <= n
  <2>1. H \in SUBSET (1..MaxRows) /\ H # {} /\ MaxRows \in Nat
    BY <1>2, MemoryAssumption DEF Memory!Held, Memory!Numbers
  <2>2. Memory!NextNumber = 1 + top
    BY <1>2 DEF Memory!NextNumber
  <2>3. \E n \in H : \A k \in H : k <= n
    <3> HIDE DEF H
    <3> QED BY <2>1, Greatest
  <2>4. top \in H /\ \A k \in H : k <= top
    <3> HIDE DEF H
    <3> QED BY <2>3
  <2>5. Memory!NextNumber \notin H
    <3> HIDE DEF H, top
    <3> QED BY <2>1, <2>2, <2>4
  <2> QED BY <2>5 DEF Memory!Held
<1> QED BY <1>1, <1>2

LEMMA InsertKeeps == ASSUME MemoryInv, NEW m \in Memories, Memory!Insert(m)
    PROVE MemoryInv'
<1>1. m \notin used /\ Memory!NextNumber \in Memory!Numbers /\ m # None
      /\ rows[Memory!NextNumber] = None
  BY NumberIsFree, MemoryAssumption DEF Memory!Insert
<1> DEFINE k == Memory!NextNumber
<1>2. /\ rows' = [rows EXCEPT ![k] = m] /\ texts' = [texts EXCEPT ![k] = m]
      /\ \/ vectors' = vectors
         \/ vectors[k] = None /\ vectors' = [vectors EXCEPT ![k] = m]
      /\ used' = used \cup {m} /\ arriving' = arriving \cup {m}
      /\ cache' = cache /\ deleted' = deleted /\ vectorSearch' = vectorSearch
      /\ stale' = stale
  BY DEF Memory!Insert
<1> HIDE DEF k
<1>3. k \in Memory!Numbers /\ rows[k] = None
  BY <1>1 DEF k
<1>4. /\ rows' \in [Memory!Numbers -> Cells] /\ texts' \in [Memory!Numbers -> Cells]
      /\ vectors' \in [Memory!Numbers -> Cells]
  BY <1>2 DEF MemoryInv, Cells
<1>10. \A n \in Memory!Numbers \ stale : vectors'[n] # None => vectors'[n] = rows'[n]
  <2> SUFFICES ASSUME NEW n \in Memory!Numbers \ stale, vectors'[n] # None
               PROVE  vectors'[n] = rows'[n]
    OBVIOUS
  <2>1. vectors[n] # None => vectors[n] = rows[n]
    BY DEF MemoryInv
  <2>2. rows \in [Memory!Numbers -> Cells] /\ vectors \in [Memory!Numbers -> Cells]
    BY DEF MemoryInv
  <2> QED BY <1>2, <1>3, <2>1, <2>2
<1> QED BY <1>1, <1>2, <1>4, <1>10 DEF MemoryInv

LEMMA CacheMoves ==
  ASSUME MemoryInv,
         UNCHANGED <<rows, texts, vectors, stale, used, deleted, vectorSearch>>,
         arriving' \subseteq arriving, NEW c, cache' = c, c \in Seq(Memories),
         Len(c) <= Capacity,
         \A m \in deleted : ~Has(c, m)
  PROVE  MemoryInv'
BY DEF MemoryInv

LEMMA TouchKeeps ==
  ASSUME MemoryInv, NEW m \in Memories, m \notin deleted, cache' = Memory!Touched(m),
         UNCHANGED <<rows, texts, vectors, stale, used, deleted, vectorSearch>>,
         arriving' \subseteq arriving
  PROVE  MemoryInv'
<1>1. cache \in Seq(Memories) /\ Len(cache) <= Capacity
      /\ \A x \in deleted : ~Has(cache, x)
  BY DEF MemoryInv
<1>2. Memory!Touched(m) \in Seq(Memories) /\ Len(Memory!Touched(m)) <= Capacity
      /\ \A x : Has(Memory!Touched(m), x) => x = m \/ Has(cache, x)
  BY <1>1, CacheTouched
<1>3. \A x \in deleted : ~Has(Memory!Touched(m), x)
  BY <1>1, <1>2
<1> QED BY <1>2, <1>3, CacheMoves

\* Deleting statements, as far as they got, leave the indexes right.
LEMMA StatementsKeep ==
  ASSUME MemoryInv, NEW ts, NEW ns, Memory!Statements(ts, ns), ns \subseteq ts,
         ts \subseteq Memory!Numbers,
         NEW goes, \A n \in Memory!Numbers : rows[n] \in goes => n \in ns
  PROVE  /\ rows' \in [Memory!Numbers -> Cells] /\ texts' \in [Memory!Numbers -> Cells]
         /\ vectors' \in [Memory!Numbers -> Cells] /\ stale' \subseteq Memory!Numbers
         /\ \A n \in Memory!Numbers : rows'[n] # None => /\ rows'[n] = rows[n]
                                                         /\ rows'[n] \in used
                                                         /\ rows'[n] \notin deleted
                                                               \cup goes
         /\ \A n, k \in Memory!Numbers : rows'[n] # None /\ rows'[n] = rows'[k] => n = k
         /\ \A n \in Memory!Numbers : texts'[n] # None => texts'[n] = rows'[n]
         /\ \A n \in Memory!Numbers \ stale' : vectors'[n] # None =>
               vectors'[n] = rows'[n]
<1>1. PICK vs \in SUBSET ts :
        /\ texts' = [n \in Memory!Numbers |-> IF n \in ts THEN None ELSE texts[n]]
        /\ vectors' = [n \in Memory!Numbers |-> IF n \in vs THEN None ELSE vectors[n]]
        /\ rows' = [n \in Memory!Numbers |-> IF n \in ns THEN None ELSE rows[n]]
        /\ stale' = (stale \cup ns) \ vs
  BY DEF Memory!Statements, Memory!Cleared
<1>2. /\ rows' \in [Memory!Numbers -> Cells] /\ texts' \in [Memory!Numbers -> Cells]
      /\ vectors' \in [Memory!Numbers -> Cells] /\ stale' \subseteq Memory!Numbers
  BY <1>1 DEF MemoryInv, Cells
<1>3. \A n \in Memory!Numbers : /\ rows'[n] = IF n \in ns THEN None ELSE rows[n]
                                /\ texts'[n] = IF n \in ts THEN None ELSE texts[n]
                                /\ vectors'[n] = IF n \in vs THEN None ELSE vectors[n]
  BY <1>1
<1>4. \A n \in Memory!Numbers : rows'[n] # None => /\ rows'[n] = rows[n]
                                                   /\ rows'[n] \in used
                                                   /\ rows'[n] \notin deleted \cup goes
  BY <1>3 DEF MemoryInv
<1>5. \A n, k \in Memory!Numbers : rows'[n] # None /\ rows'[n] = rows'[k] => n = k
  BY <1>3 DEF MemoryInv
<1>6. \A n \in Memory!Numbers : texts'[n] # None => texts'[n] = rows'[n]
  BY <1>3 DEF MemoryInv
<1>7. \A n \in Memory!Numbers \ stale' : vectors'[n] # None => vectors'[n] = rows'[n]
  <2> SUFFICES ASSUME NEW n \in Memory!Numbers \ stale', vectors'[n] # None
               PROVE  vectors'[n] = rows'[n]
    OBVIOUS
  <2>1. n \notin vs /\ n \notin stale /\ n \notin ns
    BY <1>1, <1>3
  <2>2. vectors[n] # None => vectors[n] = rows[n]
    BY <2>1 DEF MemoryInv
  <2> QED BY <1>3, <2>1, <2>2
<1> QED BY <1>2, <1>4, <1>5, <1>6, <1>7

\* Statements that are cut short delete no row.
LEMMA CutShortKeeps ==
  ASSUME MemoryInv, NEW target \in SUBSET Memory!Numbers, Memory!CutShort(target)
  PROVE  /\ rows' \in [Memory!Numbers -> Cells] /\ texts' \in [Memory!Numbers -> Cells]
         /\ vectors' \in [Memory!Numbers -> Cells] /\ stale' \subseteq Memory!Numbers
         /\ \A n \in Memory!Numbers : rows'[n] # None =>
               rows'[n] \in used /\ rows'[n] \notin deleted
         /\ \A n, k \in Memory!Numbers : rows'[n] # None /\ rows'[n] = rows'[k] => n = k
         /\ \A n \in Memory!Numbers : texts'[n] # None => texts'[n] = rows'[n]
         /\ \A n \in Memory!Numbers \ stale' : vectors'[n] # None =>
               vectors'[n] = rows'[n]
<1>1. PICK ns : ns = {}
  OBVIOUS
<1>2. PICK ts \in SUBSET target : Memory!Statements(ts, ns)
  BY <1>1 DEF Memory!CutShort
<1>3. ns \subseteq ts /\ ts \subseteq Memory!Numbers
      /\ \A n \in Memory!Numbers : rows[n] \in ns => n \in ns
  BY <1>1
<1>4. \A n \in Memory!Numbers : rows'[n] # None =>
          rows'[n] \in used /\ rows'[n] \notin deleted \cup ns
  BY <1>2, <1>3, StatementsKeep
<1> QED BY <1>2, <1>3, <1>4, StatementsKeep

\* The row of a memory that is stored, and the cache without it.
LEMMA RowOf ==
  ASSUME MemoryInv, NEW m \in Memories, m \in Memory!Stored
  PROVE  /\ Memory!NumberOf(m) \in Memory!Numbers /\ rows[Memory!NumberOf(m)] = m
         /\ m # None /\ m \in used
         /\ \A n \in Memory!Numbers : rows[n] \in {m} => n \in {Memory!NumberOf(m)}
         /\ Memory!Uncached(m) \in Seq(Memories) /\ Len(Memory!Uncached(m)) <= Capacity
         /\ \A x : Has(Memory!Uncached(m), x) => Has(cache, x) /\ x \notin {m}
<1>1. \E n \in Memory!Numbers : rows[n] = m /\ m # None
  BY DEF Memory!Stored, Memory!Held
<1>2. Memory!NumberOf(m) \in Memory!Numbers /\ rows[Memory!NumberOf(m)] = m
  BY <1>1 DEF Memory!NumberOf
<1>3. m # None /\ m \in used /\ \A n \in Memory!Numbers : rows[n] \in {m} =>
          n \in {Memory!NumberOf(m)}
  BY <1>1, <1>2 DEF MemoryInv
<1>5. cache \in Seq(Memories) /\ Len(cache) <= Capacity /\ Len(cache) \in Nat
  BY DEF MemoryInv
<1>6. PICK c : c = Memory!CachedBut({m})
  OBVIOUS
<1>7. /\ c \in Seq(Memories) /\ Len(c) <= Len(cache) /\ Len(c) \in Nat
      /\ \A x : Has(c, x) => Has(cache, x) /\ x \notin {m}
  BY <1>5, <1>6, CacheBut
<1>8. Len(c) <= Capacity
  BY <1>5, <1>7, MemoryAssumption
<1> QED BY <1>2, <1>3, <1>6, <1>7, <1>8 DEF Memory!Uncached

LEMMA DeleteKeeps == ASSUME MemoryInv, NEW m \in Memories, Memory!Delete(m)
    PROVE MemoryInv'
<1>1. /\ m \in Memory!Stored /\ cache' = Memory!Uncached(m)
      /\ deleted' = IF m \in arriving THEN deleted ELSE deleted \cup {m}
      /\ arriving' = arriving /\ used' = used /\ vectorSearch' = vectorSearch
  BY DEF Memory!Delete
<1>2. PICK k : k = Memory!NumberOf(m)
  OBVIOUS
<1>01. PICK ks : ks = {k}
  OBVIOUS
<1>3. Memory!Statements(ks, ks)
  BY <1>01, <1>2 DEF Memory!Delete
<1>02. PICK goes : goes = {m}
  OBVIOUS
<1>4. /\ k \in Memory!Numbers /\ rows[k] = m /\ m # None /\ m \in used
      /\ \A n \in Memory!Numbers : rows[n] \in {m} => n \in {k}
      /\ cache' \in Seq(Memories) /\ Len(cache') <= Capacity
      /\ \A x : Has(cache', x) => Has(cache, x) /\ x \notin {m}
  BY <1>1, <1>2, RowOf
<1>5. /\ rows' \in [Memory!Numbers -> Cells] /\ texts' \in [Memory!Numbers -> Cells]
      /\ vectors' \in [Memory!Numbers -> Cells] /\ stale' \subseteq Memory!Numbers
      /\ \A n \in Memory!Numbers : rows'[n] # None => /\ rows'[n] = rows[n]
                                                      /\ rows'[n] \in used
                                                      /\ rows'[n] \notin deleted
                                                            \cup {m}
      /\ \A n, j \in Memory!Numbers : rows'[n] # None /\ rows'[n] = rows'[j] => n = j
      /\ \A n \in Memory!Numbers : texts'[n] # None => texts'[n] = rows'[n]
      /\ \A n \in Memory!Numbers \ stale' : vectors'[n] # None => vectors'[n] = rows'[n]
  <2>1. ks \subseteq Memory!Numbers /\ \A n \in Memory!Numbers : rows[n] \in goes =>
            n \in ks
    BY <1>01, <1>02, <1>4
  <2>2. /\ rows' \in [Memory!Numbers -> Cells] /\ texts' \in [Memory!Numbers -> Cells]
        /\ vectors' \in [Memory!Numbers -> Cells] /\ stale' \subseteq Memory!Numbers
        /\ \A n \in Memory!Numbers : rows'[n] # None => /\ rows'[n] = rows[n]
                                                        /\ rows'[n] \in used
                                                        /\ rows'[n] \notin deleted
                                                              \cup goes
        /\ \A n, j \in Memory!Numbers : rows'[n] # None /\ rows'[n] = rows'[j] => n = j
        /\ \A n \in Memory!Numbers : texts'[n] # None => texts'[n] = rows'[n]
        /\ \A n \in Memory!Numbers \ stale' : vectors'[n] # None =>
              vectors'[n] = rows'[n]
    BY <1>3, <2>1, StatementsKeep
  <2> QED BY <1>02, <2>2
<1>6. deleted' \subseteq deleted \cup {m} /\ arriving' \cap deleted' = {}
      /\ deleted' \subseteq used
  BY <1>1, <1>4 DEF MemoryInv
<1> QED BY <1>1, <1>4, <1>5, <1>6 DEF MemoryInv

LEMMA StartKeeps == ASSUME MemoryInv, Memory!Restart PROVE MemoryInv'
<1>1. /\ vectorSearch' \in BOOLEAN /\ cache' = <<>> /\ arriving' = {}
      /\ UNCHANGED <<rows, texts, vectors, stale, used, deleted>>
  BY DEF Memory!Restart, Memory!tables
<1>2. cache' \in Seq(Memories) /\ Len(cache') <= Capacity
      /\ \A m \in deleted' : ~Has(cache', m)
  BY <1>1, EmptyList, MemoryAssumption
<1> QED BY <1>1, <1>2 DEF MemoryInv

LEMMA MemoryNext == ASSUME MemoryInv, [Memory!Next]_memoryVars PROVE MemoryInv'
<1>1. ASSUME NEW m \in Memories, Memory!Insert(m) PROVE MemoryInv'
  BY <1>1, InsertKeeps
<1>2. ASSUME NEW m \in Memories, Memory!Arrive(m) PROVE MemoryInv'
  <2>1. m \notin deleted
    BY <1>2 DEF Memory!Arrive, MemoryInv
  <2> QED BY <1>2, <2>1, TouchKeeps DEF Memory!Arrive, Memory!tables
<1>3. ASSUME NEW m \in Memories, Memory!Get(m) PROVE MemoryInv'
  <2>1. m \notin deleted
    BY <1>3, RangeIsHas DEF Memory!Get, MemoryInv, Memory!Stored, Memory!Held
  <2> QED BY <1>3, <2>1, TouchKeeps DEF Memory!Get, Memory!tables
<1>4. ASSUME NEW m \in Memories, Memory!Delete(m) PROVE MemoryInv'
  BY <1>4, DeleteKeeps
<1>5. ASSUME NEW ms, Memory!Expire(ms) PROVE MemoryInv'
  <2>1. cache \in Seq(Memories) /\ Len(cache) <= Capacity /\ Len(cache) \in Nat
        /\ \A x \in deleted : ~Has(cache, x)
    BY DEF MemoryInv
  <2>2. /\ Memory!CachedBut(ms) \in Seq(Memories)
        /\ Len(Memory!CachedBut(ms)) <= Len(cache)
        /\ Len(Memory!CachedBut(ms)) \in Nat /\ \A x : Has(Memory!CachedBut(ms), x) =>
              Has(cache, x)
    BY <2>1, CacheBut
  <2>3. Len(Memory!CachedBut(ms)) <= Capacity
    BY <2>1, <2>2, MemoryAssumption
  <2>4. \A x \in deleted : ~Has(Memory!CachedBut(ms), x)
    BY <2>1, <2>2
  <2> QED BY <1>5, <2>2, <2>3, <2>4, CacheMoves DEF Memory!Expire, Memory!tables
<1>0. Memory!Held(rows) \in SUBSET Memory!Numbers
  BY DEF Memory!Held
<1>6. ASSUME NEW ns \in SUBSET Memory!Held(rows), Memory!Cleanup(ns) PROVE MemoryInv'
  <2>0. PICK g : g = {}
    OBVIOUS
  <2>1. ns \subseteq Memory!Numbers /\ \A n \in Memory!Numbers : rows[n] \in g =>
            n \in ns
    BY <1>0, <2>0
  <2>2. Memory!Statements(ns, ns)
        /\ UNCHANGED <<cache, arriving, used, deleted, vectorSearch>>
    BY <1>6 DEF Memory!Cleanup
  <2>3. /\ rows' \in [Memory!Numbers -> Cells] /\ texts' \in [Memory!Numbers -> Cells]
        /\ vectors' \in [Memory!Numbers -> Cells] /\ stale' \subseteq Memory!Numbers
        /\ \A n \in Memory!Numbers : rows'[n] # None => /\ rows'[n] = rows[n]
                                                        /\ rows'[n] \in used
                                                        /\ rows'[n] \notin deleted
                                                              \cup g
        /\ \A n, k \in Memory!Numbers : rows'[n] # None /\ rows'[n] = rows'[k] => n = k
        /\ \A n \in Memory!Numbers : texts'[n] # None => texts'[n] = rows'[n]
        /\ \A n \in Memory!Numbers \ stale' : vectors'[n] # None =>
              vectors'[n] = rows'[n]
    BY <2>1, <2>2, StatementsKeep
  <2> QED BY <2>2, <2>3 DEF MemoryInv
<1>7. ASSUME Memory!Restart PROVE MemoryInv'
  BY <1>7, StartKeeps
<1>10. ASSUME NEW m \in Memories, Memory!DeleteThrows(m) PROVE MemoryInv'
  <2>1. /\ m \in Memory!Stored /\ cache' = Memory!Uncached(m)
        /\ UNCHANGED <<arriving, used, deleted, vectorSearch>>
    BY <1>10 DEF Memory!DeleteThrows
  <2>2. PICK target : target = {Memory!NumberOf(m)}
    OBVIOUS
  <2>3. Memory!CutShort(target)
    BY <1>10, <2>2 DEF Memory!DeleteThrows
  <2>4. /\ Memory!NumberOf(m) \in Memory!Numbers
        /\ cache' \in Seq(Memories) /\ Len(cache') <= Capacity
        /\ \A x : Has(cache', x) => Has(cache, x) /\ x \notin {m}
    BY <2>1, RowOf
  <2>5. target \in SUBSET Memory!Numbers
    BY <2>2, <2>4
  <2>6. /\ rows' \in [Memory!Numbers -> Cells] /\ texts' \in [Memory!Numbers -> Cells]
        /\ vectors' \in [Memory!Numbers -> Cells] /\ stale' \subseteq Memory!Numbers
        /\ \A n \in Memory!Numbers : rows'[n] # None =>
              rows'[n] \in used /\ rows'[n] \notin deleted
        /\ \A n, k \in Memory!Numbers : rows'[n] # None /\ rows'[n] = rows'[k] => n = k
        /\ \A n \in Memory!Numbers : texts'[n] # None => texts'[n] = rows'[n]
        /\ \A n \in Memory!Numbers \ stale' : vectors'[n] # None =>
              vectors'[n] = rows'[n]
    BY <2>3, <2>5, CutShortKeeps
  <2> QED BY <2>1, <2>4, <2>6 DEF MemoryInv
<1>11. ASSUME Memory!CleanupThrows PROVE MemoryInv'
  <2>1. /\ Memory!CutShort(Memory!Held(rows))
        /\ UNCHANGED <<cache, arriving, used, deleted, vectorSearch>>
    BY <1>11 DEF Memory!CleanupThrows
  <2>2. /\ rows' \in [Memory!Numbers -> Cells] /\ texts' \in [Memory!Numbers -> Cells]
        /\ vectors' \in [Memory!Numbers -> Cells] /\ stale' \subseteq Memory!Numbers
        /\ \A n \in Memory!Numbers : rows'[n] # None =>
              rows'[n] \in used /\ rows'[n] \notin deleted
        /\ \A n, k \in Memory!Numbers : rows'[n] # None /\ rows'[n] = rows'[k] => n = k
        /\ \A n \in Memory!Numbers : texts'[n] # None => texts'[n] = rows'[n]
        /\ \A n \in Memory!Numbers \ stale' : vectors'[n] # None =>
              vectors'[n] = rows'[n]
    BY <1>0, <2>1, CutShortKeeps
  <2> QED BY <2>1, <2>2 DEF MemoryInv
<1>9. ASSUME UNCHANGED memoryVars PROVE MemoryInv'
  BY <1>9 DEF memoryVars, MemoryInv
<1> QED BY <1>1, <1>2, <1>3, <1>4, <1>5, <1>6, <1>7, <1>9, <1>10, <1>11 DEF Memory!Next
-----------------------------------------------------------------------------
\* The stores that keep a list in a file (FileStores).
LEMMA StoredSize == ASSUME NEW S PROVE Stored!Cardinality(S) = Cardinality(S)
BY DEF Stored!Cardinality, Cardinality

LEMMA StoredPicked == ASSUME NEW s, NEW I PROVE Stored!Picked(s, I) = Picked(s, I)
BY DEF Stored!Picked, Picked, Stored!Nth, Nth, Stored!Rank, Rank, Stored!Cardinality,
       Cardinality

LEMMA StoredWithout == ASSUME NEW s, NEW i PROVE Stored!Without(s, i) = Without(s, i)
BY StoredPicked DEF Stored!Without, Without

\* A list that the store of kind k can hold after n changes at time t: only a session's
\* summaries are ordered by something else than the time, and a list whose front is cut
\* off has the oldest in front.
InTime(s) == \A i, j \in DOMAIN s : i <= j => s[i].order <= s[j].order

Fits(s, n, k, t) == /\ s \in Seq(Stored!Item) /\ Len(s) <= n
                    /\ k # "session" => \A i \in DOMAIN s : s[i].order <= t
                    /\ k \in Stored!Unsorted => InTime(s)

OfGroup(s, g) == {i \in DOMAIN s : s[i].group = g}

\* After a change that had the file to itself, either its write is the only one, of the
\* list as it is, or the file is that list.
Settled == intact /\ ~unsaved =>
    \/ Stored!Quiet /\ disk = [items |-> items, parses |-> TRUE]
    \/ \E w \in Stored!WriteSlots : /\ storeWrites[w].step # "none"
                                    /\ storeWrites[w].items = items
                                    /\ ~storeWrites[w].mixed
                                    /\ \A v \in Stored!WriteSlots : v # w =>
                                          storeWrites[v].step = "none"

\* What was dropped is no newer than what is there, nor than what can still come: a
\* session that lost a summary is full, and what the others add is of the present time.
DroppedInv ==
    /\ dropped \subseteq Stored!Item
    /\ \A d \in dropped, i \in DOMAIN items :
           store \in Stored!KeepsLast \/ items[i].group = d.group =>
               d.order <= items[i].order
    /\ store # "session" => \A d \in dropped : d.order <= storeClock
    /\ store = "session" =>
          \A d \in dropped : Cardinality(OfGroup(items, d.group)) >= Limit
    /\ store \notin Stored!KeepsLast \cup Stored!KeepsOfGroup => dropped = {}

WritesOK == /\ storeWrites \in [Stored!WriteSlots -> [step : {"none", "queued", "open"},
                                                      items : Seq(Stored!Item),
                                          mixed : BOOLEAN]]
            /\ \A w \in Stored!WriteSlots :
                  Fits(storeWrites[w].items, changes, store, storeClock)

DiskOK == /\ disk \in [items : Seq(Stored!Item), parses : BOOLEAN]
          /\ Fits(disk.items, changes, store, storeClock)

StoreInv == /\ store \in Stored!Stores /\ Fits(items, changes, store, storeClock)
            /\ DiskOK /\ WritesOK
            /\ storeClock \in 0..MaxClock /\ changes \in 0..MaxChanges
            /\ storeCrashes \in 0..MaxCrashes
            /\ intact \in BOOLEAN /\ unsaved \in BOOLEAN
            /\ Settled

StoresInv == StoreInv /\ DroppedInv

LEMMA StoresTypes == StoresInv => Stored!TypeOK
<1> SUFFICES ASSUME StoresInv PROVE Stored!TypeOK
  OBVIOUS
<1>1. items \in Seq(Stored!Item) /\ Len(items) <= MaxChanges
  <2>1. items \in Seq(Stored!Item) /\ Len(items) <= changes /\ changes \in 0..MaxChanges
    BY DEF StoresInv, StoreInv, Fits
  <2> QED BY <2>1, StoredAssumption
<1> QED BY <1>1 DEF StoresInv, StoreInv, WritesOK, DiskOK, DroppedInv, Stored!TypeOK

\* When no write is under way, the file is the list.
LEMMA StoresAreSettled == StoresInv => Stored!StoresSettle
<1> SUFFICES ASSUME StoresInv PROVE Stored!StoresSettle
  OBVIOUS
<1>1. Stored!Quiet /\ intact /\ ~unsaved => disk = [items |-> items, parses |-> TRUE]
  BY DEF StoresInv, StoreInv, Settled, Stored!Quiet
<1> QED BY <1>1 DEF StoresInv, DroppedInv, Stored!StoresSettle

LEMMA NothingFits ==
  ASSUME NEW n \in Nat, NEW k, NEW t
  PROVE  Fits(<<>>, n, k, t)
BY DEF Fits, InTime

LEMMA StoresInit == Stored!Init => StoresInv
<1> SUFFICES ASSUME Stored!Init PROVE StoresInv
  OBVIOUS
<1>1. /\ store \in Stored!Stores /\ items = <<>>
      /\ disk = [items |-> <<>>, parses |-> TRUE]
      /\ storeWrites = [w \in Stored!WriteSlots |-> Stored!NoWrite] /\ storeClock = 0
      /\ changes = 0 /\ storeCrashes = 0
      /\ intact = TRUE /\ unsaved = FALSE /\ dropped = {}
  BY DEF Stored!Init
<1>2. Fits(<<>>, 0, store, 0) /\ <<>> \in Seq(Stored!Item)
  BY NothingFits
<1>3. DiskOK
  BY <1>1, <1>2 DEF DiskOK
<1>4. WritesOK
  BY <1>1, <1>2 DEF WritesOK, Stored!NoWrite
<1>5. Settled
  BY <1>1 DEF Settled, Stored!Quiet, Stored!NoWrite
<1>6. DroppedInv
  BY <1>1 DEF DroppedInv
<1>7. Fits(items, changes, store, storeClock)
  BY <1>1, <1>2
<1>8. /\ storeClock \in 0..MaxClock /\ changes \in 0..MaxChanges
      /\ storeCrashes \in 0..MaxCrashes
      /\ intact \in BOOLEAN /\ unsaved \in BOOLEAN
  <2>1. storeClock \in 0..MaxClock /\ changes \in 0..MaxChanges
        /\ storeCrashes \in 0..MaxCrashes
    <3>1. 0 \in 0..MaxClock /\ 0 \in 0..MaxChanges /\ 0 \in 0..MaxCrashes
      BY StoredAssumption
    <3> QED BY <1>1, <3>1
  <2> QED BY <1>1, <2>1
<1> QED BY <1>1, <1>3, <1>4, <1>5, <1>6, <1>7, <1>8 DEF StoresInv, StoreInv

\* Lists fit later if they fit now.
LEMMA FitsLater ==
  ASSUME StoreInv, NEW s, Fits(s, changes, store, storeClock), store' = store,
         changes' \in Nat, changes <= changes', storeClock' \in Nat,
         storeClock <= storeClock'
  PROVE  Fits(s, changes', store', storeClock')
<1>1. s \in Seq(Stored!Item) /\ Len(s) \in Nat /\ changes \in Nat /\ storeClock \in Nat
  BY DEF StoreInv, Fits
<1>3. ASSUME store # "session", NEW i \in DOMAIN s PROVE s[i].order <= storeClock'
  <2>1. s[i] \in Stored!Item
    BY <1>1
  <2>2. s[i].order \in Nat
    BY <2>1 DEF Stored!Item
  <2>3. s[i].order <= storeClock
    BY <1>3 DEF Fits
  <2> QED BY <1>1, <2>2, <2>3
<1> QED BY <1>1, <1>3 DEF Fits

LEMMA DiskFitsLater ==
  ASSUME StoreInv, store' = store, disk' = disk,
         changes' \in Nat, changes <= changes', storeClock' \in Nat,
         storeClock <= storeClock'
  PROVE  DiskOK'
<1>1. Fits(disk.items, changes, store, storeClock)
  BY DEF StoreInv, DiskOK
<1>2. Fits(disk.items, changes', store', storeClock')
  BY <1>1, FitsLater
<1> QED BY <1>2 DEF StoreInv, DiskOK

LEMMA WritesFitLater ==
  ASSUME StoreInv, store' = store, storeWrites' = storeWrites,
         changes' \in Nat, changes <= changes', storeClock' \in Nat,
         storeClock <= storeClock'
  PROVE  WritesOK'
<1>1. ASSUME NEW w \in Stored!WriteSlots
                 PROVE Fits(storeWrites[w].items, changes', store', storeClock')
  <2>1. Fits(storeWrites[w].items, changes, store, storeClock)
    BY DEF StoreInv, WritesOK
  <2> QED BY <2>1, FitsLater
<1> QED BY <1>1 DEF StoreInv, WritesOK

\* A change whose list fits leaves the store in order.
LEMMA BecomeKeeps ==
  ASSUME StoreInv, NEW s, Stored!Become(s), Stored!Counts,
         Fits(s, changes', store, storeClock)
  PROVE  StoreInv'
<1>1. /\ items' = s /\ store' = store /\ disk' = disk /\ storeClock' = storeClock
      /\ storeCrashes' = storeCrashes
      /\ Stored!Persist(s)
  BY DEF Stored!Become
<1>2. changes' \in 0..MaxChanges /\ changes <= changes' /\ changes' \in Nat
      /\ storeClock \in Nat
  BY StoredAssumption DEF Stored!Counts, StoreInv
<1>3. DiskOK'
  BY <1>1, <1>2, DiskFitsLater
<1>4. PICK w \in Stored!WriteSlots : /\ storeWrites[w].step = "none"
                                     /\ storeWrites' = [storeWrites EXCEPT ![w] =
                                            [step |-> "queued", items |-> s,
                                             mixed |-> FALSE]]
                                     /\ intact' = Stored!Quiet /\ unsaved' = FALSE
  BY <1>1 DEF Stored!Persist
<1>5. s \in Seq(Stored!Item)
  BY DEF Fits
<1>6. /\ storeWrites' \in [Stored!WriteSlots -> [step : {"none", "queued", "open"},
                                                 items : Seq(Stored!Item),
                                     mixed : BOOLEAN]]
      /\ storeWrites'[w] = [step |-> "queued", items |-> s, mixed |-> FALSE]
      /\ \A v \in Stored!WriteSlots : v # w => storeWrites'[v] = storeWrites[v]
  BY <1>4, <1>5 DEF StoreInv, WritesOK
<1>7. ASSUME NEW v \in Stored!WriteSlots
                 PROVE Fits(storeWrites'[v].items, changes', store', storeClock')
  <2>1. Fits(storeWrites[v].items, changes, store, storeClock)
    BY DEF StoreInv, WritesOK
  <2>2. Fits(storeWrites[v].items, changes', store', storeClock')
    BY <1>1, <1>2, <2>1, FitsLater
  <2> QED BY <1>1, <1>6, <2>2
<1>8. WritesOK'
  BY <1>6, <1>7 DEF WritesOK
<1>9. Settled'
  <2>1. intact' => \A v \in Stored!WriteSlots : v # w => storeWrites'[v].step = "none"
    BY <1>4, <1>6 DEF Stored!Quiet
  <2> QED BY <1>1, <1>6, <2>1 DEF Settled
<1> QED BY <1>1, <1>2, <1>3, <1>4, <1>8, <1>9 DEF StoreInv, Stored!Quiet

\* What a limit drops is the lowest there is, also when it is the first of the list.
LEMMA FirstIsLow ==
  ASSUME NEW s \in Seq(Stored!Item), NEW scope \in SUBSET (DOMAIN s), scope # {},
         store \in Stored!Unsorted => InTime(s)
  PROVE  /\ Stored!First(s, scope) \in scope
         /\ \A j \in scope : s[Stored!First(s, scope)].order <= s[j].order
<1>0. /\ MaxClock \in Nat /\ MaxClock + 1 \in Nat /\ Len(s) \in Nat
      /\ DOMAIN s = 1..Len(s)
      /\ scope \in SUBSET (1..Len(s)) /\ \A i \in scope : s[i].order \in 0..MaxClock
  <2>1. MaxClock \in Nat /\ MaxClock + 1 \in Nat
    BY StoredAssumption
  <2>2. Len(s) \in Nat /\ DOMAIN s = 1..Len(s)
    OBVIOUS
  <2>3. \A i \in scope : s[i] \in Stored!Item
    BY <2>2
  <2>4. \A i \in scope : s[i].order \in 0..MaxClock
    BY <2>3 DEF Stored!Item
  <2> QED BY <2>1, <2>2, <2>4
<1>1. CASE store \in Stored!Unsorted
  <2>1. PICK k \in scope : \A j \in scope : k <= j
    BY <1>0, Least
  <2>2. Stored!First(s, scope) \in scope /\ \A j \in scope : Stored!First(s, scope) <= j
    BY <1>1, <2>1 DEF Stored!First
  <2> QED BY <1>1, <2>2 DEF InTime
<1>2. CASE store \notin Stored!Unsorted
  <2> DEFINE H == {t \in 1..(MaxClock + 1) : \E i \in scope : s[i].order + 1 = t}
  <2>1. H \in SUBSET (1..(MaxClock + 1))
        /\ \A t \in H : \E i \in scope : s[i].order + 1 = t
    OBVIOUS
  <2>2. \A i \in scope : s[i].order + 1 \in H
    <3> SUFFICES ASSUME NEW i \in scope PROVE s[i].order + 1 \in H
      OBVIOUS
    <3>1. s[i].order + 1 \in 1..(MaxClock + 1)
      BY <1>0
    <3> QED BY <3>1
  <2>3. H # {}
    BY <2>2
  <2> HIDE DEF H
  <2>4. PICK t \in H : \A u \in H : t <= u
    BY <1>0, <2>1, <2>3, Least
  <2> DEFINE I == {i \in scope : s[i].order + 1 = t}
  <2>5. I \in SUBSET (1..Len(s)) /\ I # {} /\ \A i \in I : i \in scope
        /\ s[i].order + 1 = t
    BY <1>0, <2>1, <2>4
  <2>6. \A i \in scope : s[i].order + 1 = t => i \in I
    OBVIOUS
  <2> HIDE DEF I
  <2>7. PICK k \in I : \A j \in I : k <= j
    BY <1>0, <2>5, Least
  <2>8. ASSUME NEW j \in scope
        PROVE  s[k].order < s[j].order \/ (s[k].order = s[j].order /\ k <= j)
    <3>1. t <= s[j].order + 1 /\ s[k].order + 1 = t /\ k \in scope
      BY <2>2, <2>4, <2>5
    <3>2. s[j].order \in Nat /\ s[k].order \in Nat
      BY <1>0, <3>1
    <3>3. s[j].order + 1 = t => k <= j
      BY <2>6, <2>7
    <3> QED BY <3>1, <3>2, <3>3, SMTT(20)
  <2>9. k \in scope
    BY <2>5
  <2>10. /\ Stored!First(s, scope) \in scope
         /\ \A j \in scope : \/ s[Stored!First(s, scope)].order < s[j].order
                             \/ s[Stored!First(s, scope)].order = s[j].order
                                /\ Stored!First(s, scope) <= j
    <3>1. \A j \in scope : IF store \in Stored!Unsorted \/ s[k].order = s[j].order
              THEN k <= j
                         ELSE s[k].order < s[j].order
      BY <1>0, <1>2, <2>8, <2>9
    <3>2. /\ Stored!First(s, scope) \in scope
          /\ \A j \in scope : IF store \in Stored!Unsorted
             \/ s[Stored!First(s, scope)].order = s[j].order
                             THEN Stored!First(s, scope) <= j
                             ELSE s[Stored!First(s, scope)].order < s[j].order
      BY <2>9, <3>1, Zenon DEF Stored!First
    <3> QED BY <1>2, <3>2
  <2>11. ASSUME NEW j \in scope PROVE s[Stored!First(s, scope)].order <= s[j].order
    <3>1. s[j].order \in Nat /\ s[Stored!First(s, scope)].order \in Nat
      BY <1>0, <2>10
    <3> QED BY <2>10, <3>1
  <2> QED BY <2>10, <2>11
<1> QED BY <1>1, <1>2

\* As many of a group are picked as are to stay.
LEMMA GroupStays ==
  ASSUME NEW s \in Seq(Stored!Item), NEW I \in SUBSET (DOMAIN s), NEW h,
         NEW C \in SUBSET I,
         \A i \in C : s[i].group = h
  PROVE  /\ Cardinality(C) <= Cardinality(OfGroup(Picked(s, I), h))
         /\ Cardinality(C) \in Nat /\ Cardinality(OfGroup(Picked(s, I), h)) \in Nat
<1>1. Len(s) \in Nat /\ I \in SUBSET (1..Len(s))
      /\ DOMAIN Picked(s, I) = 1..Cardinality(I)
  BY PickedList
<1>2. OfGroup(Picked(s, I), h) \in SUBSET (1..Cardinality(I))
  BY <1>1 DEF OfGroup
<1>3. ASSUME NEW i \in C PROVE Rank(I, i) \in OfGroup(Picked(s, I), h)
  <2>2. Rank(I, i) \in 1..Cardinality(I) /\ Picked(s, I)[Rank(I, i)] = s[i]
    BY PickedHas
  <2> QED BY <1>1, <2>2 DEF OfGroup
<1> QED BY <1>1, <1>2, <1>3, RanksCount

\* What is picked fits if the list did.
LEMMA PickedFits ==
  ASSUME NEW s, NEW n \in Nat, NEW k, NEW t, Fits(s, n, k, t),
         NEW I \in SUBSET (DOMAIN s)
  PROVE  /\ Fits(Picked(s, I), n, k, t)
         /\ \A j \in DOMAIN Picked(s, I) : \E i \in I : Picked(s, I)[j] = s[i]
<1>1. s \in Seq(Stored!Item) /\ Len(s) \in Nat /\ Len(s) <= n
  BY DEF Fits
<1>2. /\ Picked(s, I) \in Seq(Stored!Item) /\ Len(Picked(s, I)) = Cardinality(I)
      /\ DOMAIN Picked(s, I) = 1..Cardinality(I) /\ Cardinality(I) \in 0..Len(s)
      /\ \A j \in 1..Cardinality(I) : Nth(I, j) \in I /\ Picked(s, I)[j] = s[Nth(I, j)]
  BY <1>1, PickedList
<1>3. ASSUME InTime(s) PROVE InTime(Picked(s, I))
  <2> SUFFICES ASSUME NEW i \in 1..Cardinality(I), NEW j \in 1..Cardinality(I), i <= j
               PROVE  s[Nth(I, i)].order <= s[Nth(I, j)].order
    BY <1>2 DEF InTime
  <2>1. I \in SUBSET (1..Len(s)) /\ Nth(I, i) \in 1..Len(s) /\ Nth(I, j) \in 1..Len(s)
    BY <1>1, <1>2
  <2>2. i < j => Nth(I, i) < Nth(I, j)
    BY <1>1, <2>1, NthMonotone
  <2>3. Nth(I, i) <= Nth(I, j)
    <3>1. CASE i = j
      BY <2>1, <3>1
    <3>2. CASE i < j
      BY <2>1, <2>2, <3>2
    <3> QED BY <1>2, <3>1, <3>2
  <2> QED BY <1>1, <1>3, <2>1, <2>3 DEF InTime
<1> QED BY <1>2, <1>3 DEF Fits

\* What a limit is of, and what s adds to the list: one of group g, of the present time,
\* or the summary of a turn.
Competes(s, scope, g) == \/ store \in Stored!KeepsLast /\ scope = DOMAIN s
                         \/ store \in Stored!KeepsOfGroup /\ scope = OfGroup(s, g)

IsAdded(s, g) ==
    /\ \A i \in DOMAIN s : \/ \E j \in DOMAIN items : /\ s[i].group = items[j].group
                                                      /\ s[i].order = items[j].order
                           \/ s[i].group = g /\ s[i].order = storeClock
                           \/ s[i].group = g /\ store = "session" /\ i = Len(items) + 1
    /\ store = "session" => \E x \in Stored!Item : x.group = g /\ s = Append(items, x)

\* What a limit drops is no newer than what is kept: what is added is of the present time,
\* or, of a session that lost a summary before, takes the place of the lowest.
LEMMA TrimKeeps ==
  ASSUME StoresInv, Stored!Counts, NEW s, Fits(s, changes', store, storeClock), NEW g,
         NEW scope \in SUBSET (DOMAIN s), Stored!Trim(s, scope), Competes(s, scope, g),
         IsAdded(s, g)
  PROVE  StoresInv'
<1>0. /\ s \in Seq(Stored!Item) /\ Len(s) \in Nat /\ DOMAIN s = 1..Len(s)
      /\ items \in Seq(Stored!Item)
      /\ Len(items) \in Nat /\ DOMAIN items = 1..Len(items)
      /\ changes' \in Nat /\ storeClock \in Nat /\ store \in Stored!Stores
  BY DEF Fits, StoresInv, StoreInv, Stored!Counts
<1>01. \A i \in DOMAIN s : s[i] \in Stored!Item /\ s[i].order \in Nat
       /\ s[i].group \in Groups
  <2>1. \A i \in DOMAIN s : s[i] \in Stored!Item
    BY <1>0
  <2> QED BY <2>1 DEF Stored!Item
<1>02. \A i \in DOMAIN items : items[i] \in Stored!Item /\ items[i].order \in Nat
  <2>1. \A i \in DOMAIN items : items[i] \in Stored!Item
    BY <1>0
  <2> QED BY <2>1 DEF Stored!Item
<1>03. \A d \in dropped : d \in Stored!Item /\ d.order \in Nat
  BY DEF StoresInv, DroppedInv, Stored!Item
<1>04. IsFiniteSet(scope) /\ Cardinality(scope) \in Nat
  BY <1>0, PlacesFinite
<1>05. ASSUME store = "session"
       PROVE  \A h : OfGroup(items, h) \in SUBSET OfGroup(s, h)
  <2>1. PICK x \in Stored!Item : x.group = g /\ s = Append(items, x)
    BY <1>05 DEF IsAdded
  <2>2. \A i \in DOMAIN items : i \in DOMAIN s /\ s[i] = items[i]
    BY <2>1
  <2> QED BY <2>2 DEF OfGroup
<1>06. \A h : IsFiniteSet(OfGroup(s, h)) /\ Cardinality(OfGroup(s, h)) \in Nat
  <2> SUFFICES ASSUME NEW h
               PROVE  IsFiniteSet(OfGroup(s, h)) /\ Cardinality(OfGroup(s, h)) \in Nat
    OBVIOUS
  <2>1. OfGroup(s, h) \in SUBSET (1..Len(s))
    BY DEF OfGroup
  <2> QED BY <2>1, PlacesFinite
<1>07. ASSUME store = "session", NEW h
       PROVE  /\ Cardinality(OfGroup(items, h)) <= Cardinality(OfGroup(s, h))
              /\ Cardinality(OfGroup(items, h)) \in Nat
  <2>1. OfGroup(items, h) \in SUBSET OfGroup(s, h)
    BY <1>05, <1>07
  <2>2. OfGroup(items, h) \in SUBSET (1..Len(items))
    BY DEF OfGroup
  <2>3. Cardinality(OfGroup(items, h)) \in Nat
    BY <2>2, PlacesFinite
  <2> QED BY <1>06, <2>1, <2>3, FS_Subset
<1>08. ASSUME store = "session"
       PROVE  OfGroup(items, g) # OfGroup(s, g)
  <2>1. PICK x \in Stored!Item : x.group = g /\ s = Append(items, x)
    BY <1>08 DEF IsAdded
  <2> QED BY <2>1 DEF OfGroup
<1>09. ASSUME store = "session", Cardinality(OfGroup(items, g)) >= Limit
       PROVE  Cardinality(OfGroup(s, g)) > Limit
  <2>1. OfGroup(items, g) \in SUBSET OfGroup(s, g)
    BY <1>05, <1>09
  <2>2. Cardinality(OfGroup(items, g)) # Cardinality(OfGroup(s, g))
    BY <1>06, <1>08, <1>09, <2>1, FS_Subset
  <2> QED BY <1>06, <1>07, <1>09, <2>2, StoredAssumption
\* What was dropped before is no newer than what is there now, unless the place is full.
<1>10. ASSUME NEW d \in dropped, NEW i \in DOMAIN s, store \in Stored!KeepsLast
              \/ s[i].group = d.group,
              store = "session" /\ s[i].group = g /\ i = Len(items) + 1
              => \E j \in DOMAIN items : items[j].group = g
              /\ items[j].order <= s[i].order
       PROVE  d.order <= s[i].order
  <2>1. CASE \E j \in DOMAIN items : s[i].group = items[j].group
             /\ s[i].order = items[j].order
    BY <1>10, <2>1 DEF StoresInv, DroppedInv
  <2>2. CASE s[i].group = g /\ s[i].order = storeClock /\ store # "session"
    BY <2>2 DEF StoresInv, DroppedInv
  <2>3. CASE s[i].group = g /\ store = "session" /\ i = Len(items) + 1
    <3>1. PICK j \in DOMAIN items : items[j].group = g /\ items[j].order <= s[i].order
      BY <1>10, <2>3
    <3>2. d.order <= items[j].order
      BY <1>10, <2>3, <3>1 DEF StoresInv, DroppedInv, Stored!KeepsLast
    <3> QED BY <1>01, <1>02, <1>03, <3>1, <3>2
  <2>4. CASE s[i].group = g /\ store = "session" /\ i # Len(items) + 1
    <3>1. PICK x \in Stored!Item : x.group = g /\ s = Append(items, x)
      BY <2>4 DEF IsAdded
    <3>2. i \in DOMAIN items /\ s[i] = items[i]
      BY <2>4, <3>1
    <3> QED BY <2>1, <3>2
  <2> QED BY <2>1, <2>2, <2>3 DEF IsAdded
<1>11. store' = store /\ storeClock' = storeClock
  BY DEF Stored!Trim, Stored!Become
<1>12. CASE ~(Cardinality(scope) > Limit)
  <2>1. Stored!Become(s) /\ items' = s /\ dropped' = dropped
    BY StoredSize, <1>12 DEF Stored!Trim, Stored!Full, Stored!Become
  <2>2. StoreInv'
    BY <2>1, BecomeKeeps DEF StoresInv
  <2>3. ASSUME store = "session" PROVE \A d \in dropped : d.group # g
    <3> SUFFICES ASSUME NEW d \in dropped, d.group = g PROVE FALSE
      OBVIOUS
    <3>1. Cardinality(OfGroup(items, g)) >= Limit
      BY <2>3 DEF StoresInv, DroppedInv
    <3>2. scope = OfGroup(s, g)
      BY <2>3 DEF Stored!KeepsLast, Competes
    <3> QED BY <1>09, <1>12, <2>3, <3>1, <3>2
  <2>4. \A d \in dropped, i \in DOMAIN s :
            store \in Stored!KeepsLast \/ s[i].group = d.group => d.order <= s[i].order
    <3> SUFFICES ASSUME NEW d \in dropped, NEW i \in DOMAIN s,
                        store \in Stored!KeepsLast \/ s[i].group = d.group
                 PROVE  d.order <= s[i].order
      OBVIOUS
    <3>1. ~(store = "session" /\ s[i].group = g)
      BY <2>3 DEF Stored!KeepsLast
    <3> QED BY <1>10, <3>1
  <2>5. store = "session" =>
            \A d \in dropped : Cardinality(OfGroup(s, d.group)) >= Limit
    <3> SUFFICES ASSUME store = "session", NEW d \in dropped
                 PROVE  Cardinality(OfGroup(s, d.group)) >= Limit
      OBVIOUS
    <3>1. Cardinality(OfGroup(items, d.group)) >= Limit
      BY DEF StoresInv, DroppedInv
    <3> QED BY <1>06, <1>07, <3>1, StoredAssumption
  <2>6. DroppedInv'
    BY <1>11, <2>1, <2>4, <2>5 DEF StoresInv, DroppedInv
  <2> QED BY <2>2, <2>6 DEF StoresInv
<1>13. CASE Cardinality(scope) > Limit
  <2> DEFINE x == Stored!First(s, scope)
  <2>0. scope # {}
    BY <1>13, FS_EmptySet, StoredAssumption
  <2>1. x \in scope /\ \A j \in scope : s[x].order <= s[j].order
    BY <1>0, <2>0, FirstIsLow DEF Fits
  <2>2. PICK I : I = DOMAIN s \ {x}
    OBVIOUS
  <2>3. Stored!Become(Picked(s, I)) /\ items' = Picked(s, I) /\ dropped' = dropped
            \cup {s[x]}
    BY StoredWithout, StoredSize, <1>13, <2>2 DEF Stored!Trim, Stored!Full,
                                                  Stored!Become, Without
  <2> HIDE DEF x
  <2>4. I \in SUBSET (DOMAIN s) /\ I \in SUBSET (1..Len(s)) /\ x \in DOMAIN s
        /\ \A i \in I : i # x
    BY <2>1, <2>2
  <2>5. /\ Fits(Picked(s, I), changes', store, storeClock)
        /\ \A j \in DOMAIN Picked(s, I) : \E i \in I : Picked(s, I)[j] = s[i]
    BY <1>0, <2>4, PickedFits
  <2>6. StoreInv'
    BY <2>3, <2>5, BecomeKeeps DEF StoresInv
  <2>7. s[x].group = g \/ store \in Stored!KeepsLast
    BY <2>1 DEF OfGroup, Competes
  <2>8. \A d \in dropped', i \in I :
            store \in Stored!KeepsLast \/ s[i].group = d.group => d.order <= s[i].order
    <3> SUFFICES ASSUME NEW d \in dropped', NEW i \in I,
                        store \in Stored!KeepsLast \/ s[i].group = d.group
                 PROVE  d.order <= s[i].order
      OBVIOUS
    <3>0. i \in DOMAIN s /\ i # x
      BY <2>4
    <3>1. CASE d = s[x]
      <4>1. i \in scope
        BY <2>7, <3>0, <3>1 DEF OfGroup, Stored!KeepsLast, Stored!KeepsOfGroup, Competes
      <4> QED BY <2>1, <3>1, <4>1
    <3>2. CASE d \in dropped
      <4>1. ASSUME store = "session", s[i].group = g, i = Len(items) + 1
            PROVE  \E j \in DOMAIN items : items[j].group = g
                   /\ items[j].order <= s[i].order
        <5>1. PICK y \in Stored!Item : y.group = g /\ s = Append(items, y)
          BY <4>1 DEF IsAdded
        <5>2. x \in DOMAIN items /\ s[x] = items[x]
          BY <2>4, <4>1, <5>1
        <5>3. i \in scope
          BY <3>0, <4>1 DEF OfGroup, Stored!KeepsLast, Competes
        <5>4. s[x].group = g /\ s[x].order <= s[i].order
          BY <2>1, <2>7, <4>1, <5>3 DEF Stored!KeepsLast
        <5> QED BY <5>2, <5>4
      <4> QED BY <1>10, <3>0, <3>2, <4>1
    <3> QED BY <2>3, <3>1, <3>2
  <2>9. \A d \in dropped', j \in DOMAIN items' :
            store \in Stored!KeepsLast \/ items'[j].group = d.group =>
                d.order <= items'[j].order
    BY <2>3, <2>5, <2>8
  <2>10. dropped' \subseteq Stored!Item /\ (store # "session" =>
             \A d \in dropped' : d.order <= storeClock)
    <3>1. s[x] \in Stored!Item /\ (store # "session" => s[x].order <= storeClock)
      BY <2>4 DEF Fits
    <3> QED BY <2>3, <3>1 DEF StoresInv, DroppedInv
  <2>11. store = "session" =>
             \A d \in dropped' : Cardinality(OfGroup(items', d.group)) >= Limit
    <3> SUFFICES ASSUME store = "session", NEW d \in dropped'
                 PROVE  Cardinality(OfGroup(Picked(s, I), d.group)) >= Limit
      BY <2>3
    <3>1. scope = OfGroup(s, g) /\ s[x].group = g
      BY <2>7 DEF Stored!KeepsLast, Competes
    <3>2. CASE d.group = g
      <4>1. PICK C : C = scope \ {x}
        OBVIOUS
      <4>2. Cardinality(C) = Cardinality(scope) - 1
        BY <1>04, <2>1, <4>1, FS_RemoveElement
      <4>3. C \in SUBSET I /\ \A i \in C : s[i].group = g
        BY <2>2, <3>1, <4>1 DEF OfGroup
      <4>4. /\ Cardinality(C) <= Cardinality(OfGroup(Picked(s, I), g))
            /\ Cardinality(OfGroup(Picked(s, I), g)) \in Nat
        BY <1>0, <2>4, <4>3, GroupStays
      <4> QED BY <1>04, <1>13, <3>2, <4>2, <4>4, StoredAssumption
    <3>3. CASE d.group # g
      <4>1. d \in dropped
        BY <2>3, <3>1, <3>3
      <4>2. Cardinality(OfGroup(items, d.group)) >= Limit
        BY <4>1 DEF StoresInv, DroppedInv
      <4>3. OfGroup(s, d.group) \in SUBSET I
            /\ \A i \in OfGroup(s, d.group) : s[i].group = d.group
        BY <2>2, <3>1, <3>3 DEF OfGroup
      <4>4. /\ Cardinality(OfGroup(s, d.group)) <= Cardinality(OfGroup(Picked(s, I),
                  d.group))
            /\ Cardinality(OfGroup(Picked(s, I), d.group)) \in Nat
        BY <1>0, <2>4, <4>3, GroupStays
      <4> QED BY <1>06, <1>07, <4>2, <4>4, StoredAssumption
    <3> QED BY <3>2, <3>3
  <2>12. DroppedInv'
    <3>1. store \in Stored!KeepsLast \cup Stored!KeepsOfGroup
      BY DEF Competes
    <3> QED BY <1>11, <2>9, <2>10, <2>11, <3>1 DEF DroppedInv
  <2> QED BY <2>6, <2>12 DEF StoresInv
<1> QED BY <1>12, <1>13

\* A change that adds nothing, or of a store that has no limit.
OfOld(s) == \A i \in DOMAIN s : \E j \in DOMAIN items : /\ s[i].group = items[j].group
                                                       /\ s[i].order = items[j].order

LEMMA ChangeKeeps ==
  ASSUME StoresInv, Stored!Counts, NEW s, Fits(s, changes', store, storeClock),
         Stored!Become(s),
         dropped' = dropped, store # "session", dropped = {} \/ OfOld(s)
  PROVE  StoresInv'
<1>1. StoreInv'
  BY BecomeKeeps DEF StoresInv
<1>2. items' = s /\ store' = store /\ storeClock' = storeClock
  BY DEF Stored!Become
<1>3. \A d \in dropped, i \in DOMAIN s :
          store \in Stored!KeepsLast \/ s[i].group = d.group => d.order <= s[i].order
  BY DEF StoresInv, DroppedInv, OfOld
<1>4. DroppedInv'
  BY <1>2, <1>3 DEF StoresInv, DroppedInv
<1> QED BY <1>1, <1>4 DEF StoresInv

LEMMA NothingDropped ==
  ASSUME StoresInv, store \notin Stored!KeepsLast \cup Stored!KeepsOfGroup
  PROVE  dropped = {}
BY DEF StoresInv, DroppedInv

\* A new item makes a list one longer.
LEMMA AddedFits ==
  ASSUME StoresInv, Stored!Counts, NEW g \in Groups, NEW k \in 0..MaxClock,
         k = storeClock \/ store = "session"
  PROVE  /\ Fits(Append(items, Stored!New(g, k)), changes', store, storeClock)
         /\ Stored!New(g, k) \in Stored!Item
         /\ IsAdded(Append(items, Stored!New(g, k)), g)
<1>1. /\ items \in Seq(Stored!Item) /\ Len(items) <= changes /\ changes \in Nat
      /\ storeClock \in Nat
      /\ changes' = changes + 1 /\ k \in Nat
  BY DEF StoresInv, StoreInv, Fits, Stored!Counts
<1>2. PICK x : x = Stored!New(g, k)
  OBVIOUS
<1>3. x \in Stored!Item /\ x.group = g /\ x.order = k
  BY <1>2 DEF Stored!New, Stored!Item, Stored!Statuses
<1>4. /\ Append(items, x) \in Seq(Stored!Item) /\ Len(Append(items, x)) = Len(items) + 1
      /\ Len(items) \in Nat /\ DOMAIN items = 1..Len(items)
      /\ DOMAIN Append(items, x) = 1..(Len(items) + 1)
      /\ Append(items, x)[Len(items) + 1] = x
      /\ \A i \in 1..Len(items) : Append(items, x)[i] = items[i]
  BY <1>1, <1>3
<1>5. Len(Append(items, x)) <= changes'
  BY <1>1
<1>7. store # "session" =>
          \A i \in 1..(Len(items) + 1) : Append(items, x)[i].order <= storeClock
  <2> SUFFICES ASSUME store # "session", NEW i \in 1..(Len(items) + 1)
               PROVE  Append(items, x)[i].order <= storeClock
    OBVIOUS
  <2>1. CASE i \in 1..Len(items)
    BY <2>1 DEF StoresInv, StoreInv, Fits
  <2>2. CASE ~(i \in 1..Len(items))
    <3>1. Append(items, x)[i] = x
      BY <2>2
    <3>2. x.order <= storeClock
      BY <1>3
    <3> QED BY <3>1, <3>2
  <2> QED BY <2>1, <2>2
<1>6. store \in Stored!Unsorted => InTime(Append(items, x))
  <2> SUFFICES ASSUME store \in Stored!Unsorted, NEW i \in 1..(Len(items) + 1),
                      NEW j \in 1..(Len(items) + 1), i <= j
               PROVE  Append(items, x)[i].order <= Append(items, x)[j].order
    BY <1>4 DEF InTime
  <2>1. store # "session"
    BY DEF Stored!Unsorted
  <2>2. CASE j \in 1..Len(items)
    <3>1. i \in 1..Len(items) /\ items[i].order <= items[j].order
      BY <1>4, <2>2 DEF StoresInv, StoreInv, Fits, InTime
    <3> QED BY <1>4, <2>2, <3>1
  <2>3. CASE j = Len(items) + 1
    <3>1. Append(items, x)[j].order = storeClock
      BY <1>3, <1>4, <2>1, <2>3
    <3> QED BY <1>7, <2>1, <3>1
  <2> QED BY <1>4, <2>2, <2>3
<1>8. Fits(Append(items, x), changes', store, storeClock)
  BY <1>4, <1>5, <1>6, <1>7 DEF Fits
<1>9. IsAdded(Append(items, x), g)
  <2> QED BY <1>3 DEF IsAdded
<1> QED BY <1>2, <1>3, <1>8, <1>9

LEMMA AddedInTime ==
  ASSUME StoresInv, Stored!Counts, NEW g \in Groups
  PROVE  /\ Fits(Append(items, Stored!New(g, storeClock)), changes', store, storeClock)
         /\ Stored!New(g, storeClock) \in Stored!Item
         /\ IsAdded(Append(items, Stored!New(g, storeClock)), g)
<1>1. storeClock \in 0..MaxClock
  BY DEF StoresInv, StoreInv
<1> QED BY <1>1, AddedFits

LEMMA TrimLastKeeps ==
  ASSUME StoresInv, Stored!Counts, NEW g \in Groups, store \in Stored!KeepsLast,
         Stored!TrimLast(Append(items, Stored!New(g, storeClock)))
  PROVE  StoresInv'
<1>1. PICK s : s = Append(items, Stored!New(g, storeClock))
  OBVIOUS
<1>2. Fits(s, changes', store, storeClock) /\ IsAdded(s, g)
  BY <1>1, AddedInTime
<1>3. PICK scope : scope = DOMAIN s
  OBVIOUS
<1>4. scope \in SUBSET (DOMAIN s) /\ Competes(s, scope, g) /\ Stored!Trim(s, scope)
  BY <1>1, <1>3 DEF Competes, Stored!TrimLast
<1> QED BY <1>2, <1>4, TrimKeeps

LEMMA TrimGroupKeeps ==
  ASSUME StoresInv, Stored!Counts, NEW g, NEW s, Fits(s, changes', store, storeClock),
         IsAdded(s, g),
         store \in Stored!KeepsOfGroup, Stored!TrimGroup(s, g)
  PROVE  StoresInv'
<1>1. PICK scope : scope = OfGroup(s, g)
  OBVIOUS
<1>2. scope \in SUBSET (DOMAIN s) /\ Competes(s, scope, g) /\ Stored!Trim(s, scope)
  BY <1>1 DEF Competes, Stored!TrimGroup, OfGroup
<1> QED BY <1>2, TrimKeeps

\* An item that changes in its place keeps its group and its order.
LEMMA InPlaceFits ==
  ASSUME StoresInv, Stored!Counts, NEW i \in DOMAIN items, NEW v \in Stored!Statuses
  PROVE  /\ Fits([items EXCEPT ![i].status = v], changes', store, storeClock)
         /\ OfOld([items EXCEPT ![i].status = v])
<1>1. /\ items \in Seq(Stored!Item) /\ Len(items) \in Nat /\ Len(items) <= changes
      /\ changes' = changes + 1 /\ changes \in Nat
  BY DEF StoresInv, StoreInv, Fits, Stored!Counts
<1>2. PICK s : s = [items EXCEPT ![i].status = v]
  OBVIOUS
<1>3. \A j \in DOMAIN items : items[j] \in Stored!Item
  BY <1>1
<1>4. [items[i] EXCEPT !.status = v] \in Stored!Item
  BY <1>3 DEF Stored!Item
<1>5. /\ s \in Seq(Stored!Item) /\ Len(s) = Len(items) /\ DOMAIN s = DOMAIN items
      /\ \A j \in DOMAIN items : s[j] = IF j = i THEN [items[i] EXCEPT !.status = v]
            ELSE items[j]
  BY <1>1, <1>2, <1>4
<1>6. \A j \in DOMAIN items : s[j].group = items[j].group /\ s[j].order = items[j].order
  BY <1>3, <1>5 DEF Stored!Item
<1>7. OfOld(s)
  BY <1>5, <1>6 DEF OfOld
<1>8. Len(s) <= changes'
  BY <1>1, <1>5
<1>9. store # "session" => \A j \in DOMAIN s : s[j].order <= storeClock
  BY <1>5, <1>6 DEF StoresInv, StoreInv, Fits
<1>10. store \in Stored!Unsorted => InTime(s)
  BY <1>5, <1>6 DEF StoresInv, StoreInv, Fits, InTime
<1> QED BY <1>2, <1>5, <1>7, <1>8, <1>9, <1>10 DEF Fits

LEMMA SetsKeeps ==
  ASSUME StoresInv, NEW i \in DOMAIN items, NEW v \in Stored!Statuses,
         store # "session", Stored!Sets(i, v)
  PROVE  StoresInv'
<1>1. Stored!Counts /\ Stored!Become([items EXCEPT ![i].status = v])
      /\ dropped' = dropped
  BY DEF Stored!Sets
<1> QED BY <1>1, InPlaceFits, ChangeKeeps

\* What is left of a list fits.
LEMMA LeftFits ==
  ASSUME StoresInv, Stored!Counts, NEW I \in SUBSET (DOMAIN items)
  PROVE  Fits(Picked(items, I), changes', store, storeClock) /\ OfOld(Picked(items, I))
<1>1. Fits(items, changes', store, storeClock)
  <2>1. Fits(items, changes, store, storeClock) /\ Len(items) \in Nat /\ changes \in Nat
        /\ changes' = changes + 1
    BY DEF StoresInv, StoreInv, Fits, Stored!Counts
  <2> QED BY <2>1 DEF Fits
<1>2. changes' \in Nat
  BY DEF Stored!Counts, StoresInv, StoreInv
<1>3. /\ Fits(Picked(items, I), changes', store, storeClock)
      /\ \A j \in DOMAIN Picked(items, I) : \E i \in I : Picked(items, I)[j] = items[i]
  BY <1>1, <1>2, PickedFits
<1> QED BY <1>3 DEF OfOld

\* With a session go the items that it lost.
LEMMA WithoutGroupKeeps ==
  ASSUME StoresInv, NEW g, store \in Stored!KeepsOfGroup, Stored!WithoutGroup(g)
  PROVE  StoresInv'
<1>1. PICK I : I = {i \in DOMAIN items : items[i].group # g}
  OBVIOUS
<1>2. /\ I \in SUBSET (DOMAIN items) /\ Stored!Counts /\ Stored!Become(Picked(items, I))
      /\ dropped' = {x \in dropped : x.group # g}
  BY StoredPicked, <1>1 DEF Stored!WithoutGroup
<1>3. Fits(Picked(items, I), changes', store, storeClock) /\ OfOld(Picked(items, I))
  BY <1>2, LeftFits
<1>4. StoreInv'
  BY <1>2, <1>3, BecomeKeeps DEF StoresInv
<1>5. items' = Picked(items, I) /\ store' = store /\ storeClock' = storeClock
  BY <1>2 DEF Stored!Become
<1>6. \A d \in dropped', i \in DOMAIN items' :
          store \in Stored!KeepsLast \/ items'[i].group = d.group =>
              d.order <= items'[i].order
  BY <1>2, <1>3, <1>5 DEF StoresInv, DroppedInv, OfOld
<1>7. ASSUME store = "session", NEW d \in dropped'
      PROVE  Cardinality(OfGroup(Picked(items, I), d.group)) >= Limit
  <2>1. d \in dropped /\ d.group # g
    BY <1>2
  <2>2. Cardinality(OfGroup(items, d.group)) >= Limit
    BY <1>7, <2>1 DEF StoresInv, DroppedInv
  <2>3. /\ OfGroup(items, d.group) \in SUBSET I
        /\ \A i \in OfGroup(items, d.group) : items[i].group = d.group
    BY <1>1, <2>1 DEF OfGroup
  <2>4. items \in Seq(Stored!Item)
    BY DEF StoresInv, StoreInv, Fits
  <2>5. /\ Cardinality(OfGroup(items, d.group)) <= Cardinality(OfGroup(Picked(items, I),
              d.group))
        /\ Cardinality(OfGroup(items, d.group)) \in Nat
        /\ Cardinality(OfGroup(Picked(items, I), d.group)) \in Nat
    BY <1>2, <2>3, <2>4, GroupStays
  <2> QED BY <2>2, <2>5, StoredAssumption
<1>8. DroppedInv'
  BY <1>2, <1>5, <1>6, <1>7 DEF StoresInv, DroppedInv
<1> QED BY <1>4, <1>8 DEF StoresInv

\* A checkpoint of the same time takes the place of the one before.
LEMMA CheckpointKeeps ==
  ASSUME StoresInv, NEW g \in Groups, Stored!CreateCheckpoint(g)
  PROVE  StoresInv'
<1>1. PICK same : same = {i \in DOMAIN items : items[i].group = g
           /\ items[i].order = storeClock}
  OBVIOUS
<1>2. /\ store = "checkpoints" /\ Stored!Counts
      /\ Stored!TrimGroup(IF same = {} THEN Append(items, Stored!New(g, storeClock))
                          ELSE [i \in DOMAIN items |-> IF i \in same
                              THEN Stored!New(g, storeClock) ELSE items[i]], g)
  BY <1>1 DEF Stored!CreateCheckpoint
<1>3. CASE same = {}
  BY <1>2, <1>3, AddedInTime, TrimGroupKeeps DEF Stored!KeepsOfGroup
<1>4. CASE same # {}
  <2>1. PICK x : x = Stored!New(g, storeClock)
    OBVIOUS
  <2>2. x \in Stored!Item /\ x.group = g /\ x.order = storeClock
    BY <1>2, <2>1, AddedInTime DEF Stored!New
  <2>3. PICK s : s = [i \in DOMAIN items |-> IF i \in same THEN x ELSE items[i]]
    OBVIOUS
  <2>4. Stored!TrimGroup(s, g)
    BY <1>2, <1>4, <2>1, <2>3
  <2>5. /\ items \in Seq(Stored!Item) /\ Len(items) \in Nat /\ Len(items) <= changes
        /\ changes \in Nat /\ changes' = changes + 1 /\ storeClock \in Nat
    BY <1>2 DEF StoresInv, StoreInv, Fits, Stored!Counts
  <2>6. /\ s \in Seq(Stored!Item) /\ Len(s) = Len(items) /\ DOMAIN s = DOMAIN items
        /\ \A i \in DOMAIN items : s[i] = IF i \in same THEN x ELSE items[i]
    BY <2>2, <2>3, <2>5, SMTT(20)
  <2>7. Len(s) <= changes'
    BY <2>5, <2>6
  <2>8. \A i \in DOMAIN s : s[i].order <= storeClock
    <3> SUFFICES ASSUME NEW i \in DOMAIN s PROVE s[i].order <= storeClock
      OBVIOUS
    <3>1. items[i].order <= storeClock
      BY <1>2, <2>6 DEF StoresInv, StoreInv, Fits
    <3>2. storeClock <= storeClock
      BY <2>5
    <3> QED BY <2>2, <2>6, <3>1, <3>2
  <2>9. Fits(s, changes', store, storeClock)
    BY <1>2, <2>6, <2>7, <2>8 DEF Fits, Stored!Unsorted
  <2>10. IsAdded(s, g)
    BY <1>2, <2>2, <2>6 DEF IsAdded
  <2> QED BY <1>2, <2>4, <2>9, <2>10, TrimGroupKeeps DEF Stored!KeepsOfGroup
<1> QED BY <1>3, <1>4

LEMMA AddsKeeps ==
  ASSUME StoresInv, NEW g \in Groups, Stored!Adds(g)
  PROVE  StoresInv'
<1>1. ASSUME Stored!RecordAudit(g) \/ Stored!RecordTransaction(g)
             \/ Stored!AddEpisode(g) PROVE StoresInv'
  BY <1>1, TrimLastKeeps DEF Stored!RecordAudit, Stored!RecordTransaction,
                             Stored!AddEpisode, Stored!KeepsLast
<1>2. ASSUME Stored!RecordExecution(g) PROVE StoresInv'
  BY <1>2, AddedInTime, TrimGroupKeeps DEF Stored!RecordExecution, Stored!KeepsOfGroup
<1>3. ASSUME NEW turn \in 0..MaxClock, Stored!AddSummary(g, turn) PROVE StoresInv'
  <2>1. store = "session" /\ Stored!Counts
        /\ Stored!TrimGroup(Append(items, Stored!New(g, turn)), g)
    BY <1>3 DEF Stored!AddSummary
  <2>2. /\ Fits(Append(items, Stored!New(g, turn)), changes', store, storeClock)
        /\ IsAdded(Append(items, Stored!New(g, turn)), g)
    BY <2>1, AddedFits
  <2> QED BY <2>1, <2>2, TrimGroupKeeps DEF Stored!KeepsOfGroup
<1>4. ASSUME Stored!SetPreference(g) PROVE StoresInv'
  <2>1. store = "profile" /\ Stored!Counts /\ dropped' = dropped
    BY <1>4 DEF Stored!SetPreference
  <2>2. dropped = {}
    BY <2>1, NothingDropped DEF Stored!KeepsLast, Stored!KeepsOfGroup
  <2>3. CASE Stored!Become(Append(items, Stored!New(g, storeClock)))
    BY <2>1, <2>2, <2>3, AddedInTime, ChangeKeeps
  <2>4. CASE \E i \in DOMAIN items : Stored!Become([items EXCEPT ![i].status = "changed"])
    <3>1. PICK i \in DOMAIN items : Stored!Become([items EXCEPT ![i].status = "changed"])
      BY <2>4
    <3> QED BY <2>1, <3>1, InPlaceFits, ChangeKeeps DEF Stored!Statuses
  <2> QED BY <1>4, <2>3, <2>4 DEF Stored!SetPreference
<1>5. ASSUME Stored!AddKnowledge(g) \/ Stored!ForgeSkill(g) \/ Stored!CreateProposal(g)
                 PROVE StoresInv'
  <2>1. /\ store \in {"knowledge", "drafts", "proposals"} /\ Stored!Counts
        /\ dropped' = dropped
        /\ Stored!Become(Append(items, Stored!New(g, storeClock)))
    BY <1>5 DEF Stored!AddKnowledge, Stored!ForgeSkill, Stored!CreateProposal
  <2>2. dropped = {}
    BY <2>1, NothingDropped DEF Stored!KeepsLast, Stored!KeepsOfGroup
  <2> QED BY <2>1, <2>2, AddedInTime, ChangeKeeps
<1>6. ASSUME Stored!SaveSnapshot(g) PROVE StoresInv'
  <2>1. store = "snapshot" /\ Stored!Counts /\ dropped' = dropped
        /\ Stored!Become(<<Stored!New(g, storeClock)>>)
    BY <1>6 DEF Stored!SaveSnapshot
  <2>2. dropped = {}
    BY <2>1, NothingDropped DEF Stored!KeepsLast, Stored!KeepsOfGroup
  <2>3. Stored!New(g, storeClock) \in Stored!Item
        /\ Stored!New(g, storeClock).order = storeClock
    BY <2>1, AddedInTime DEF Stored!New
  <2>4. PICK x : x = Stored!New(g, storeClock)
    OBVIOUS
  <2>5. changes' \in Nat /\ 1 <= changes' /\ storeClock <= storeClock
    BY <2>1 DEF Stored!Counts, StoresInv, StoreInv
  <2>6. <<x>> \in Seq(Stored!Item) /\ Len(<<x>>) = 1
        /\ \A i \in DOMAIN <<x>> : <<x>>[i].order <= storeClock
    BY <2>3, <2>4, <2>5
  <2>7. Fits(<<Stored!New(g, storeClock)>>, changes', store, storeClock)
    BY <2>1, <2>4, <2>5, <2>6 DEF Fits, Stored!Unsorted
  <2> QED BY <2>1, <2>2, <2>7, ChangeKeeps
<1> QED BY <1>1, <1>2, <1>3, <1>4, <1>5, <1>6, CheckpointKeeps DEF Stored!Adds

LEMMA ChangesKeep ==
  ASSUME StoresInv, NEW i \in DOMAIN items, Stored!Changes(i)
  PROVE  StoresInv'
<1>1. CASE store # "session" /\ \E v \in Stored!Statuses : Stored!Sets(i, v)
  BY <1>1, SetsKeeps
<1>2. ASSUME Stored!RemoveItem(i) PROVE StoresInv'
  <2>1. PICK I : I = DOMAIN items \ {i}
    OBVIOUS
  <2>2. /\ I \in SUBSET (DOMAIN items) /\ Stored!Counts
        /\ Stored!Become(Picked(items, I))
        /\ dropped' = dropped /\ store \in {"profile", "knowledge"}
    BY StoredWithout, <1>2, <2>1 DEF Stored!RemoveItem, Without
  <2>3. Fits(Picked(items, I), changes', store, storeClock) /\ OfOld(Picked(items, I))
    BY <2>2, LeftFits
  <2> QED BY <2>2, <2>3, ChangeKeeps
<1>3. Stored!Changes(i) =>
          Stored!RemoveItem(i)
          \/ (store # "session" /\ \E v \in Stored!Statuses : Stored!Sets(i, v))
  BY DEF Stored!Changes, Stored!MarkCheckpoint, Stored!UpdateAudit,
         Stored!UpdateKnowledge, Stored!ApproveDraft, Stored!RejectDraft,
     Stored!ApplyProposal, Stored!RejectProposal, Stored!Statuses
<1> QED BY <1>1, <1>2, <1>3

LEMMA DroppedStays ==
  ASSUME StoresInv, items' = items, store' = store, dropped' = dropped,
         storeClock' = storeClock
  PROVE  DroppedInv'
BY DEF StoresInv, DroppedInv

\* A write that has the file to itself is not mixed with another.
LEMMA OpenKeeps ==
  ASSUME StoresInv, NEW w \in Stored!WriteSlots, Stored!Open(w)
  PROVE  StoresInv'
<1>1. /\ storeWrites[w].step = "queued"
      /\ disk' = [items |-> storeWrites[w].items, parses |-> FALSE]
      /\ UNCHANGED <<store, items, storeClock, changes, storeCrashes, intact, unsaved,
                     dropped>>
  BY DEF Stored!Open
<1>2. PICK row : row = [v \in Stored!WriteSlots |->
                           IF v = w THEN [storeWrites[w] EXCEPT !.step = "open",
                                          !.mixed = Stored!Overlaps(w) # {}]
                           ELSE IF v \in Stored!Overlaps(w)
                               THEN [storeWrites[v] EXCEPT !.mixed = TRUE]
                           ELSE storeWrites[v]]
  OBVIOUS
<1>3. storeWrites' = row
  BY <1>2 DEF Stored!Open
<1>4. \A v \in Stored!WriteSlots : storeWrites[v] \in [step : {"none", "queued",
          "open"}, items : Seq(Stored!Item),
                                                  mixed : BOOLEAN]
  BY DEF StoresInv, StoreInv, WritesOK
<1>5. \A v \in Stored!WriteSlots : /\ row[v] \in [step : {"none", "queued", "open"},
                                                  items : Seq(Stored!Item),
                                                  mixed : BOOLEAN]
                                   /\ row[v].items = storeWrites[v].items
                                   /\ v # w => row[v].step = storeWrites[v].step
  BY <1>2, <1>4
<1>6. row[w].step = "open" /\ (row[w].mixed <=> Stored!Overlaps(w) # {})
  BY <1>2, <1>4
<1>7. row \in [Stored!WriteSlots -> [step : {"none", "queued", "open"},
                                     items : Seq(Stored!Item), mixed : BOOLEAN]]
  <2>1. row = [v \in Stored!WriteSlots |-> row[v]]
    BY <1>2
  <2> QED BY <1>5, <2>1
<1>8. WritesOK'
  BY <1>1, <1>3, <1>5, <1>7 DEF StoresInv, StoreInv, WritesOK
<1>9. DiskOK'
  BY <1>1 DEF StoresInv, StoreInv, WritesOK, DiskOK
<1>10. Settled'
  <2> SUFFICES ASSUME intact, ~unsaved
               PROVE  \E v \in Stored!WriteSlots : /\ row[v].step # "none"
                                                   /\ row[v].items = items
                                                   /\ ~row[v].mixed
                                                   /\ \A u \in Stored!WriteSlots : u # v
                                                         => row[u].step = "none"
    BY <1>1, <1>3 DEF Settled
  <2>1. ~Stored!Quiet
    BY <1>1 DEF Stored!Quiet
  <2>2. PICK v \in Stored!WriteSlots : /\ storeWrites[v].step # "none"
                                       /\ storeWrites[v].items = items
                                       /\ ~storeWrites[v].mixed
                                       /\ \A u \in Stored!WriteSlots : u # v =>
                                             storeWrites[u].step = "none"
    BY <2>1 DEF StoresInv, StoreInv, Settled
  <2>3. v = w
    BY <1>1, <2>2
  <2>4. Stored!Overlaps(w) = {}
    BY <2>2, <2>3 DEF Stored!Overlaps
  <2> QED BY <1>5, <1>6, <2>2, <2>3, <2>4
<1>11. DroppedInv'
  BY <1>1, DroppedStays
<1>12. StoreInv'
  BY <1>1, <1>8, <1>9, <1>10 DEF StoresInv, StoreInv
<1> QED BY <1>11, <1>12 DEF StoresInv

\* The only write leaves the file as the list is.
LEMMA FinishKeeps ==
  ASSUME StoresInv, NEW w \in Stored!WriteSlots, Stored!Finish(w)
  PROVE  StoresInv'
<1>1. /\ storeWrites[w].step = "open"
      /\ storeWrites' = [storeWrites EXCEPT ![w] = Stored!NoWrite]
      /\ UNCHANGED <<store, items, storeClock, changes, storeCrashes, intact, unsaved,
                     dropped>>
      /\ \/ disk' = [items |-> storeWrites[w].items, parses |-> TRUE]
         \/ storeWrites[w].mixed
            /\ \E parses \in BOOLEAN : disk' = [disk EXCEPT !.parses = parses]
  BY DEF Stored!Finish
<1>2. /\ storeWrites \in [Stored!WriteSlots -> [step : {"none", "queued", "open"},
                                                items : Seq(Stored!Item),
                                    mixed : BOOLEAN]]
      /\ \A v \in Stored!WriteSlots :
            Fits(storeWrites[v].items, changes, store, storeClock)
      /\ changes \in Nat /\ DiskOK
  BY DEF StoresInv, StoreInv, WritesOK
<1>3. Fits(Stored!NoWrite.items, changes, store, storeClock)
      /\ Stored!NoWrite.items \in Seq(Stored!Item)
  BY <1>2, NothingFits DEF Stored!NoWrite
<1>4. Stored!NoWrite \in [step : {"none", "queued", "open"}, items : Seq(Stored!Item),
                          mixed : BOOLEAN]
      /\ Stored!NoWrite.step = "none"
  BY DEF Stored!NoWrite
<1>5. /\ storeWrites' \in [Stored!WriteSlots -> [step : {"none", "queued", "open"},
                                                 items : Seq(Stored!Item),
                                     mixed : BOOLEAN]]
      /\ \A v \in Stored!WriteSlots : storeWrites'[v] = IF v = w THEN Stored!NoWrite
            ELSE storeWrites[v]
  BY <1>1, <1>2, <1>4
<1>6. WritesOK'
  BY <1>1, <1>2, <1>3, <1>5 DEF WritesOK
<1>7. DiskOK'
  <2>1. CASE disk' = [items |-> storeWrites[w].items, parses |-> TRUE]
    BY <1>1, <1>2, <2>1 DEF DiskOK
  <2>2. CASE \E parses \in BOOLEAN : disk' = [disk EXCEPT !.parses = parses]
    BY <1>1, <1>2, <2>2 DEF DiskOK
  <2> QED BY <1>1, <2>1, <2>2
<1>8. Settled'
  <2> SUFFICES ASSUME intact, ~unsaved PROVE Stored!Quiet'
                      /\ disk' = [items |-> items, parses |-> TRUE]
    BY <1>1 DEF Settled
  <2>1. ~Stored!Quiet
    BY <1>1 DEF Stored!Quiet
  <2>2. PICK v \in Stored!WriteSlots : /\ storeWrites[v].step # "none"
                                       /\ storeWrites[v].items = items
                                       /\ ~storeWrites[v].mixed
                                       /\ \A u \in Stored!WriteSlots : u # v =>
                                             storeWrites[u].step = "none"
    BY <2>1 DEF StoresInv, StoreInv, Settled
  <2>3. v = w
    BY <1>1, <2>2
  <2>4. \A u \in Stored!WriteSlots : storeWrites'[u].step = "none"
    BY <1>4, <1>5, <2>2, <2>3
  <2> QED BY <1>1, <2>2, <2>4 DEF Stored!Quiet
<1>9. DroppedInv'
  BY <1>1, DroppedStays
<1>10. StoreInv'
  BY <1>1, <1>6, <1>7, <1>8 DEF StoresInv, StoreInv
<1> QED BY <1>9, <1>10 DEF StoresInv

\* After a write that failed the file is settled by none.
LEMMA FailKeeps ==
  ASSUME StoresInv, NEW w \in Stored!WriteSlots, Stored!Fail(w)
  PROVE  StoresInv'
<1>1. /\ storeWrites' = [storeWrites EXCEPT ![w] = Stored!NoWrite] /\ intact' = FALSE
      /\ UNCHANGED <<store, items, storeClock, changes, storeCrashes, unsaved, dropped>>
      /\ disk' = disk \/ \E parses \in BOOLEAN : disk' = [disk EXCEPT !.parses = parses]
  BY DEF Stored!Fail
<1>2. /\ storeWrites \in [Stored!WriteSlots -> [step : {"none", "queued", "open"},
                                                items : Seq(Stored!Item),
                                    mixed : BOOLEAN]]
      /\ \A v \in Stored!WriteSlots :
            Fits(storeWrites[v].items, changes, store, storeClock)
      /\ changes \in Nat /\ DiskOK
  BY DEF StoresInv, StoreInv, WritesOK
<1>3. Fits(Stored!NoWrite.items, changes, store, storeClock)
      /\ Stored!NoWrite.items \in Seq(Stored!Item)
  BY <1>2, NothingFits DEF Stored!NoWrite
<1>4. Stored!NoWrite \in [step : {"none", "queued", "open"}, items : Seq(Stored!Item),
                          mixed : BOOLEAN]
  BY DEF Stored!NoWrite
<1>5. /\ storeWrites' \in [Stored!WriteSlots -> [step : {"none", "queued", "open"},
                                                 items : Seq(Stored!Item),
                                     mixed : BOOLEAN]]
      /\ \A v \in Stored!WriteSlots : storeWrites'[v] = IF v = w THEN Stored!NoWrite
            ELSE storeWrites[v]
  BY <1>1, <1>2, <1>4
<1>6. WritesOK'
  BY <1>1, <1>2, <1>3, <1>5 DEF WritesOK
<1>7. DiskOK'
  BY <1>1, <1>2 DEF DiskOK
<1>8. DroppedInv'
  BY <1>1, DroppedStays
<1>9. StoreInv'
  BY <1>1, <1>6, <1>7 DEF StoresInv, StoreInv, Settled
<1> QED BY <1>8, <1>9 DEF StoresInv

\* A start reads what is in the file, and nothing when it does not parse.
LEMMA CrashKeeps ==
  ASSUME StoresInv, Stored!Crash
  PROVE  StoresInv'
<1>1. /\ items' = IF disk.parses THEN disk.items ELSE <<>>
      /\ storeWrites' = [w \in Stored!WriteSlots |-> Stored!NoWrite]
      /\ intact' = disk.parses /\ unsaved' = FALSE
      /\ dropped' = {} /\ UNCHANGED <<store, disk, storeClock, changes>>
  BY DEF Stored!Crash
<1>2. storeCrashes' \in 0..MaxCrashes
  BY StoredAssumption DEF Stored!Crash, StoresInv, StoreInv
<1>3. disk \in [items : Seq(Stored!Item), parses : BOOLEAN]
      /\ Fits(disk.items, changes, store, storeClock)
      /\ changes \in Nat
  BY DEF StoresInv, StoreInv, DiskOK
<1>4. Fits(<<>>, changes, store, storeClock) /\ <<>> \in Seq(Stored!Item)
  BY <1>3, NothingFits
<1>5. Fits(items', changes', store', storeClock')
  BY <1>1, <1>3, <1>4
<1>6. WritesOK'
  BY <1>1, <1>4 DEF WritesOK, Stored!NoWrite
<1>7. Settled'
  <2>1. \A w \in Stored!WriteSlots : storeWrites'[w].step = "none"
    BY <1>1 DEF Stored!NoWrite
  <2>2. disk.parses => disk = [items |-> disk.items, parses |-> TRUE]
    BY <1>3
  <2> QED BY <1>1, <2>1, <2>2 DEF Settled, Stored!Quiet
<1>8. DiskOK' /\ DroppedInv'
  BY <1>1 DEF StoresInv, StoreInv, DiskOK, DroppedInv
<1>9. intact' \in BOOLEAN /\ unsaved' \in BOOLEAN
  BY <1>1, <1>3
<1> QED BY <1>1, <1>2, <1>5, <1>6, <1>7, <1>8, <1>9 DEF StoresInv, StoreInv

LEMMA TickKeeps ==
  ASSUME StoresInv, Stored!Tick
  PROVE  StoresInv'
<1>1. storeClock' \in 0..MaxClock /\ storeClock <= storeClock' /\ storeClock' \in Nat
      /\ changes \in Nat
      /\ storeClock' = storeClock + 1 /\ storeClock \in Nat /\ changes <= changes
  BY StoredAssumption DEF Stored!Tick, StoresInv, StoreInv
<1>2. UNCHANGED <<store, items, disk, storeWrites, changes, storeCrashes, intact,
                  unsaved, dropped>>
  BY DEF Stored!Tick
<1>3. DiskOK' /\ WritesOK'
  BY <1>1, <1>2, DiskFitsLater, WritesFitLater DEF StoresInv
<1>4. Fits(items, changes', store', storeClock')
  BY <1>1, <1>2, FitsLater DEF StoresInv, StoreInv
<1>5. Settled'
  BY <1>2 DEF StoresInv, StoreInv, Settled, Stored!Quiet
<1>6. DroppedInv'
  <2>1. ASSUME store # "session", NEW d \in dropped PROVE d.order <= storeClock'
    <3>1. d.order <= storeClock /\ d.order \in Nat
      BY <2>1 DEF StoresInv, DroppedInv, Stored!Item
    <3> QED BY <1>1, <3>1
  <2> QED BY <1>2, <2>1 DEF StoresInv, DroppedInv
<1>7. StoreInv'
  BY <1>1, <1>2, <1>3, <1>4, <1>5 DEF StoresInv, StoreInv
<1> QED BY <1>6, <1>7 DEF StoresInv

LEMMA DecayKeeps ==
  ASSUME StoresInv, Stored!DecayLowReferences
  PROVE  StoresInv'
<1>1. PICK i \in DOMAIN items : items' = [items EXCEPT ![i].status = "decided"]
  BY DEF Stored!DecayLowReferences
<1>2. /\ store = "profile" /\ unsaved' = TRUE
      /\ UNCHANGED <<store, disk, storeWrites, storeClock, changes, storeCrashes,
                     intact, dropped>>
  BY DEF Stored!DecayLowReferences
<1>3. /\ items \in Seq(Stored!Item) /\ Len(items) \in Nat
      /\ \A j \in DOMAIN items : items[j] \in Stored!Item
  BY DEF StoresInv, StoreInv, Fits
<1>4. [items[i] EXCEPT !.status = "decided"] \in Stored!Item
  BY <1>3 DEF Stored!Item, Stored!Statuses
<1>5. PICK s : s = [items EXCEPT ![i].status = "decided"]
  OBVIOUS
<1>6. /\ s \in Seq(Stored!Item) /\ Len(s) = Len(items) /\ DOMAIN s = DOMAIN items
      /\ \A j \in DOMAIN items : s[j] = IF j = i
            THEN [items[i] EXCEPT !.status = "decided"]
                                        ELSE items[j]
  BY <1>3, <1>4, <1>5
<1>7. \A j \in DOMAIN items : s[j].order = items[j].order
  BY <1>3, <1>6 DEF Stored!Item
<1>8. Fits(s, changes, store, storeClock)
  BY <1>2, <1>6, <1>7 DEF Fits, StoresInv, StoreInv, Stored!Unsorted
<1>9. DroppedInv'
  <2>1. dropped = {}
    BY <1>2, NothingDropped DEF Stored!KeepsLast, Stored!KeepsOfGroup
  <2> QED BY <1>2, <2>1 DEF DroppedInv
<1>10. DiskOK' /\ WritesOK' /\ Settled'
  BY <1>2 DEF StoresInv, StoreInv, DiskOK, WritesOK, Settled
<1> QED BY <1>1, <1>2, <1>5, <1>8, <1>9, <1>10 DEF StoresInv, StoreInv

LEMMA StoresNext == ASSUME StoresInv, [Stored!Next]_storedVars PROVE StoresInv'
<1>1. ASSUME NEW g \in Groups, Stored!ClearSession(g) \/ Stored!CleanupSession(g)
                 PROVE StoresInv'
  BY <1>1, WithoutGroupKeeps DEF Stored!ClearSession, Stored!CleanupSession,
                                 Stored!KeepsOfGroup
<1>2. ASSUME NEW oldest \in 0..MaxClock, Stored!CleanupAudit(oldest) PROVE StoresInv'
  <2>1. PICK I : I = {i \in DOMAIN items : items[i].order > oldest}
    OBVIOUS
  <2>2. /\ I \in SUBSET (DOMAIN items) /\ Stored!Counts
        /\ Stored!Become(Picked(items, I))
        /\ dropped' = dropped /\ store = "audit"
    BY StoredPicked, <1>2, <2>1 DEF Stored!CleanupAudit
  <2>3. Fits(Picked(items, I), changes', store, storeClock) /\ OfOld(Picked(items, I))
    BY <2>2, LeftFits
  <2> QED BY <2>2, <2>3, ChangeKeeps
<1>3. ASSUME UNCHANGED storedVars PROVE StoresInv'
  <2>1. DroppedInv'
    BY <1>3, DroppedStays DEF storedVars
  <2>2. DiskOK' /\ WritesOK' /\ Settled'
    BY <1>3 DEF storedVars, StoresInv, StoreInv, DiskOK, WritesOK, Settled, Stored!Quiet
  <2> QED BY <1>3, <2>1, <2>2 DEF storedVars, StoresInv, StoreInv
<1> QED BY <1>1, <1>2, <1>3, AddsKeeps, ChangesKeep, OpenKeeps, FinishKeeps, FailKeeps,
       CrashKeeps, TickKeeps, DecayKeeps DEF Stored!Next
-----------------------------------------------------------------------------
\* Snapshots of the audit trail (PhoenixSnapshots).
LEMMA PhoenixSize == ASSUME NEW S PROVE Phoenix!Cardinality(S) = Cardinality(S)
BY DEF Phoenix!Cardinality, Cardinality

Trail == Seq(1..MaxRecords)

\* What a save has written so far: a file of its time, the only name of that time.
OwnFile(f) == /\ f \in dir /\ f.suffix = "tmp" /\ f.at = snapshotTime
              /\ \A g \in dir : g.at = f.at => g.id = f.id

\* One file has a name. A listed file is whole, and the newest of them is the last that
\* was given its name: each later save has a later time, or replaced it.
DirInv == /\ dir \subseteq Phoenix!File
          /\ \A f \in dir : Len(f.entries) <= MaxEntries /\ f.at <= snapshotTime
          /\ \A f \in Phoenix!Listed : f.whole
          /\ \A f, g \in dir : f.at = g.at /\ f.suffix = g.suffix => f = g
          /\ Phoenix!Listed = {} => kept = <<>>
          /\ Phoenix!Listed # {} => \E f \in Phoenix!Listed : f.entries = kept
             /\ \A g \in Phoenix!Listed : ~Phoenix!Newer(g, f)

JobInv == /\ job.step \in {"idle", "write", "rename", "rotate"}
          /\ job.step \in {"write", "rename"} => OwnFile(job.file)
          /\ job.step = "rename" => job.file.whole

PhoenixInv == /\ snapshotTime \in 0..MaxSnapshotTime /\ recorded \in 0..MaxRecords
              /\ process \in {"up", "down", "refused"}
              /\ restores \in {"never", "latest", "named"}
              /\ entries \in Trail /\ Len(entries) <= limit /\ kept \in Trail
              /\ limit \in 1..MaxEntries
              /\ DirInv /\ JobInv

LEMMA PhoenixTypes == PhoenixInv => Phoenix!TypeOK
BY DEF PhoenixInv, DirInv, JobInv, Phoenix!TypeOK, Trail

LEMMA PhoenixInit == Phoenix!Init => PhoenixInv
<1> SUFFICES ASSUME Phoenix!Init PROVE PhoenixInv
  OBVIOUS
<1>1. <<>> \in Trail /\ Len(<<>>) = 0
  BY DEF Trail
<1>2. DirInv
  BY DEF Phoenix!Init, DirInv, Phoenix!Listed
<1>3. JobInv
  BY DEF Phoenix!Init, JobInv, Phoenix!Idle
<1> QED BY <1>1, <1>2, <1>3, PhoenixAssumption DEF Phoenix!Init, PhoenixInv

\* A store never holds more than its limit.
LEMMA CutFits ==
  ASSUME NEW s \in Trail, NEW n \in Nat \ {0}
  PROVE  Phoenix!Cut(s, n) \in Trail /\ Len(Phoenix!Cut(s, n)) <= n
<1>1. Len(s) \in Nat /\ DOMAIN s = 1..Len(s)
  BY DEF Trail
<1>2. CASE Len(s) > n
  <2>1. PICK a \in 1..(Len(s) + 1) : a = Len(s) - n + 1
    BY <1>1, <1>2
  <2>2. a <= Len(s) /\ Len(s) - a + 1 = n /\ Len(s) \in 0..Len(s)
    BY <2>1
  <2>3. s \in Seq(1..MaxRecords)
    BY DEF Trail
  <2>4. /\ SubSeq(s, a, Len(s)) \in Seq(1..MaxRecords)
        /\ Len(SubSeq(s, a, Len(s))) = IF a <= Len(s) THEN Len(s) - a + 1 ELSE 0
    BY <2>2, <2>3, PartOfList
  <2>5. Phoenix!Cut(s, n) = SubSeq(s, a, Len(s))
    BY <1>2, <2>1 DEF Phoenix!Cut, Phoenix!LastN
  <2> QED BY <2>2, <2>4, <2>5 DEF Trail
<1>3. CASE ~(Len(s) > n)
  BY <1>3 DEF Phoenix!Cut
<1> QED BY <1>2, <1>3

\* Nothing of the directory or of a save depends on the store in memory.
LEMMA DirStays ==
  ASSUME DirInv, dir' = dir, kept' = kept, snapshotTime' \in 0..MaxSnapshotTime,
         snapshotTime \in 0..MaxSnapshotTime, snapshotTime <= snapshotTime'
  PROVE  DirInv'
<1>1. Phoenix!Listed' = Phoenix!Listed
  BY DEF Phoenix!Listed
<1>2. \A f \in dir : f.at <= snapshotTime'
  <2> SUFFICES ASSUME NEW f \in dir PROVE f.at <= snapshotTime'
    OBVIOUS
  <2>1. f.at \in Nat /\ f.at <= snapshotTime
    BY DEF DirInv, Phoenix!File
  <2> QED BY <2>1
<1> QED BY <1>1, <1>2 DEF DirInv, Phoenix!Newer

LEMMA JobStays ==
  ASSUME JobInv, dir' = dir, job' = job, snapshotTime' = snapshotTime
  PROVE  JobInv'
BY DEF JobInv, OwnFile

\* A file takes the place of the one of its name.
LEMMA ReplacedFile ==
  ASSUME DirInv, NEW f \in Phoenix!File
  PROVE  /\ Phoenix!Replaced(f) \subseteq Phoenix!File /\ f \in Phoenix!Replaced(f)
         /\ \A g \in Phoenix!Replaced(f) : g = f
            \/ (g \in dir /\ <<g.at, g.id, g.suffix>> # <<f.at, f.id, f.suffix>>)
         /\ \A g \in dir : <<g.at, g.id, g.suffix>> # <<f.at, f.id, f.suffix>> =>
               g \in Phoenix!Replaced(f)
BY DEF Phoenix!Replaced, DirInv

\* A temporary file is not listed, however much of it is written.
LEMMA Written ==
  ASSUME DirInv, snapshotTime \in 0..MaxSnapshotTime, snapshotTime' = snapshotTime,
         kept' = kept,
         NEW f \in Phoenix!File, f.at = snapshotTime, f.suffix = "tmp",
         Len(f.entries) <= MaxEntries,
         \A g \in dir : g.at = snapshotTime => g.id = f.id, dir' = Phoenix!Replaced(f)
  PROVE  DirInv' /\ OwnFile(f)'
<1>1. Phoenix!Listed' = Phoenix!Listed
  <2>1. \A g : g \in Phoenix!Listed' <=> g \in Phoenix!Listed
    BY ReplacedFile DEF Phoenix!Listed
  <2> QED BY <2>1
<1>2. dir' \subseteq Phoenix!File /\ \A g \in dir' : Len(g.entries) <= MaxEntries
      /\ g.at <= snapshotTime'
  <2> QED BY ReplacedFile DEF DirInv
<1>3. \A g, h \in dir' : g.at = h.at /\ g.suffix = h.suffix => g = h
  <2> SUFFICES ASSUME NEW g \in dir', NEW h \in dir', g.at = h.at, g.suffix = h.suffix
                          PROVE g = h
    OBVIOUS
  <2>1. g = f \/ (g \in dir /\ <<g.at, g.id, g.suffix>> # <<f.at, f.id, f.suffix>>)
    BY ReplacedFile
  <2>2. h = f \/ (h \in dir /\ <<h.at, h.id, h.suffix>> # <<f.at, f.id, f.suffix>>)
    BY ReplacedFile
  <2> QED BY <2>1, <2>2 DEF DirInv
<1>4. \A g \in dir' : g.at = f.at => g.id = f.id
  BY ReplacedFile
<1>5. f \in dir'
  BY ReplacedFile
<1> QED BY <1>1, <1>2, <1>3, <1>4, <1>5 DEF DirInv, OwnFile, Phoenix!Newer

LEMMA Saves ==
  ASSUME PhoenixInv, NEW id \in {GivenId, snapshotTime}, Phoenix!BeginSave(id)
  PROVE  PhoenixInv'
<1>a. PICK f : f = [at |-> snapshotTime, id |-> id, suffix |-> "tmp",
                    entries |-> entries, whole |-> FALSE]
  OBVIOUS
<1>1. id \in Phoenix!SnapshotIds
  BY DEF PhoenixInv, Phoenix!SnapshotIds
<1>2. f \in Phoenix!File
  BY <1>a, <1>1 DEF PhoenixInv, Phoenix!File, Trail
<1>3. /\ f.at = snapshotTime /\ f.suffix = "tmp" /\ f.id = id /\ f.entries = entries
  BY <1>a
<1>4. Len(entries) <= MaxEntries
  <2> QED BY PhoenixAssumption DEF PhoenixInv
<1>5. /\ \A g \in dir : g.at = snapshotTime => g.id = id
      /\ dir' = Phoenix!Replaced(f) /\ job' = [step |-> "write", file |-> f]
      /\ UNCHANGED <<snapshotTime, restores, process, entries, limit, recorded, kept>>
  BY <1>a DEF Phoenix!BeginSave, Phoenix!OpensFile
<1>6. DirInv' /\ OwnFile(f)'
  BY <1>2, <1>3, <1>4, <1>5, Written DEF PhoenixInv
<1>7. JobInv'
  <2>1. job'.step = "write" /\ job'.file = f
    BY <1>5
  <2> QED BY <1>6, <2>1 DEF JobInv, OwnFile
<1> QED BY <1>5, <1>6, <1>7 DEF PhoenixInv

LEMMA Writes ==
  ASSUME PhoenixInv, Phoenix!FinishWrite
  PROVE  PhoenixInv'
<1>0. job.file \in dir /\ job.file \in Phoenix!File /\ OwnFile(job.file)
  BY DEF PhoenixInv, Phoenix!FinishWrite, JobInv, OwnFile, DirInv
<1>a. PICK f : f = [job.file EXCEPT !.whole = TRUE]
  OBVIOUS
<1>1. f \in Phoenix!File /\ f.at = job.file.at /\ f.suffix = job.file.suffix
      /\ f.id = job.file.id
      /\ f.entries = job.file.entries /\ f.whole = TRUE
  BY <1>0, <1>a DEF Phoenix!File
<1>2. dir' = Phoenix!Replaced(f) /\ job' = [step |-> "rename", file |-> f]
      /\ UNCHANGED <<snapshotTime, restores, process, entries, limit, recorded, kept>>
  BY <1>a DEF Phoenix!FinishWrite
<1>3. /\ f.at = snapshotTime /\ f.suffix = "tmp" /\ Len(f.entries) <= MaxEntries
      /\ \A g \in dir : g.at = snapshotTime => g.id = f.id
  BY <1>0, <1>1 DEF OwnFile, PhoenixInv, DirInv
<1>4. DirInv' /\ OwnFile(f)'
  BY <1>1, <1>2, <1>3, Written DEF PhoenixInv
<1>5. JobInv'
  <2>1. job'.step = "rename" /\ job'.file = f
    BY <1>2
  <2> QED BY <1>1, <1>4, <2>1 DEF JobInv, OwnFile
<1> QED BY <1>2, <1>4, <1>5 DEF PhoenixInv

\* The file that is given its name is the newest, and whole.
LEMMA Renames ==
  ASSUME PhoenixInv, Phoenix!Rename
  PROVE  PhoenixInv'
<1>0. job.file \in dir /\ job.file \in Phoenix!File /\ OwnFile(job.file)
      /\ job.file.whole
  BY DEF PhoenixInv, Phoenix!Rename, JobInv, OwnFile, DirInv
<1>a. PICK f : f = [job.file EXCEPT !.suffix = "json"]
  OBVIOUS
<1>1. f \in Phoenix!File /\ f.at = job.file.at /\ f.suffix = "json"
      /\ f.id = job.file.id
      /\ f.entries = job.file.entries /\ f.whole
  BY <1>0, <1>a DEF Phoenix!File
<1>2. dir' = {g \in Phoenix!Replaced(f) : g # job.file} /\ kept' = f.entries
      /\ job' = [step |-> "rotate"]
      /\ UNCHANGED <<snapshotTime, restores, process, entries, limit, recorded>>
  BY <1>a DEF Phoenix!Rename
<1>3. /\ f.at = snapshotTime /\ Len(f.entries) <= MaxEntries /\ f.entries \in Trail
      /\ \A g \in dir : g.at = snapshotTime => g.id = f.id
  BY <1>0, <1>1 DEF OwnFile, PhoenixInv, DirInv, Phoenix!File, Trail
<1>4. f # job.file /\ f \in dir'
  <2>1. f # job.file
    BY <1>0, <1>1 DEF OwnFile
  <2> QED BY <1>1, <1>2, <2>1, ReplacedFile DEF PhoenixInv
<1>5. \A g \in dir' : g = f
      \/ (g \in dir /\ <<g.at, g.id, g.suffix>> # <<f.at, f.id, f.suffix>>)
  BY <1>1, <1>2, ReplacedFile DEF PhoenixInv
<1>6. dir' \subseteq Phoenix!File /\ \A g \in dir' : Len(g.entries) <= MaxEntries
      /\ g.at <= snapshotTime'
  <2> QED BY <1>1, <1>2, <1>3, <1>5 DEF PhoenixInv, DirInv
<1>7. \A g, h \in dir' : g.at = h.at /\ g.suffix = h.suffix => g = h
  BY <1>3, <1>5 DEF PhoenixInv, DirInv
<1>8. \A g \in Phoenix!Listed' : g.whole
  BY <1>1, <1>5 DEF PhoenixInv, DirInv, Phoenix!Listed
<1>9. f \in Phoenix!Listed'
  BY <1>1, <1>4 DEF Phoenix!Listed
<1>10. \A g \in Phoenix!Listed' : ~Phoenix!Newer(g, f)
  <2> SUFFICES ASSUME NEW g \in Phoenix!Listed' PROVE ~Phoenix!Newer(g, f)
    OBVIOUS
  <2>1. g \in dir' /\ g.suffix = "json"
    BY DEF Phoenix!Listed
  <2>2. g.at <= f.at /\ g.at \in Nat /\ f.at \in Nat
    BY <1>1, <1>2, <1>3, <1>6, <2>1 DEF Phoenix!File
  <2>3. g.at = f.at => g = f
    BY <1>1, <1>4, <1>7, <2>1
  <2>4. f.id \in Int
    BY <1>1, PhoenixAssumption DEF Phoenix!File, Phoenix!SnapshotIds
  <2> QED BY <2>2, <2>3, <2>4 DEF Phoenix!Newer
<1>11. DirInv'
  BY <1>2, <1>6, <1>7, <1>8, <1>9, <1>10 DEF DirInv
<1>12. JobInv'
  BY <1>2 DEF JobInv
<1> QED BY <1>2, <1>3, <1>11, <1>12 DEF PhoenixInv

\* The rotation deletes no snapshot that none is newer than.
LEMMA Rotates ==
  ASSUME PhoenixInv, Phoenix!Rotate
  PROVE  PhoenixInv'
<1>1. CASE Phoenix!Excess = {}
  <2>1. dir' = dir /\ kept' = kept /\ snapshotTime' = snapshotTime
        /\ job' = Phoenix!Idle
    BY <1>1 DEF Phoenix!Rotate
  <2>2. DirInv'
    BY <2>1, DirStays DEF PhoenixInv
  <2>3. JobInv'
    BY <2>1 DEF JobInv, Phoenix!Idle
  <2> QED BY <2>2, <2>3 DEF Phoenix!Rotate, PhoenixInv
<1>2. CASE Phoenix!Excess # {}
  <2>1. PICK f \in Phoenix!Excess : dir' = dir \ {f}
    BY <1>2 DEF Phoenix!Rotate
  <2>2. job' = job /\ kept' = kept /\ snapshotTime' = snapshotTime
        /\ job.step = "rotate"
    BY DEF Phoenix!Rotate
  <2>3. f \in Phoenix!Listed /\ \E g \in Phoenix!Listed : Phoenix!Newer(g, f)
    <3>1. f \in Phoenix!Listed
          /\ Cardinality({g \in Phoenix!Listed : Phoenix!Newer(g, f)}) >= MaxSnapshots
      BY PhoenixSize DEF Phoenix!Excess
    <3>2. ASSUME {g \in Phoenix!Listed : Phoenix!Newer(g, f)} = {} PROVE FALSE
      <4>1. Cardinality({g \in Phoenix!Listed : Phoenix!Newer(g, f)}) = 0
        BY PhoenixSize, <3>2, FS_EmptySet
      <4> QED BY <3>1, <4>1, PhoenixAssumption
    <3> QED BY <3>1, <3>2
  <2>4. PICK k \in Phoenix!Listed : k.entries = kept
             /\ \A g \in Phoenix!Listed : ~Phoenix!Newer(g, k)
    BY <2>3 DEF PhoenixInv, DirInv
  <2>5. Phoenix!Listed' = Phoenix!Listed \ {f} /\ dir' \subseteq dir
    BY <2>1 DEF Phoenix!Listed
  <2>6. k \in Phoenix!Listed'
    BY <2>3, <2>4, <2>5
  <2>7. DirInv'
    <3> QED BY <2>2, <2>4, <2>5, <2>6 DEF DirInv, PhoenixInv
  <2>8. JobInv'
    BY <2>2 DEF PhoenixInv, JobInv
  <2> QED BY <2>7, <2>8 DEF Phoenix!Rotate, PhoenixInv
<1> QED BY <1>1, <1>2

\* restore() of an id that some snapshot has finds one: times are numbers.
LEMMA OldestIsListed ==
  ASSUME PhoenixInv, NEW id, \E f \in Phoenix!Listed : f.id = id
  PROVE  Phoenix!OldestNamed(id) \in Phoenix!Listed
<1> DEFINE H == {t \in 1..(MaxSnapshotTime + 1) : \E f \in Phoenix!Listed : f.id = id
           /\ f.at + 1 = t}
<1>1. \A f \in Phoenix!Listed : f.at \in 0..MaxSnapshotTime
  BY DEF PhoenixInv, DirInv, Phoenix!File, Phoenix!Listed
<1>2. H # {}
  <2>1. PICK f \in Phoenix!Listed : f.id = id
    OBVIOUS
  <2>2. f.at + 1 \in 1..(MaxSnapshotTime + 1)
    BY <1>1, PhoenixAssumption
  <2> QED BY <2>1, <2>2
<1>3. \A f \in Phoenix!Listed : f.id = id => f.at + 1 \in H
  <2> SUFFICES ASSUME NEW f \in Phoenix!Listed, f.id = id PROVE f.at + 1 \in H
    OBVIOUS
  <2>1. f.at + 1 \in 1..(MaxSnapshotTime + 1)
    BY <1>1, PhoenixAssumption
  <2> QED BY <2>1
<1>4. H \in SUBSET (1..(MaxSnapshotTime + 1))
      /\ \A t \in H : \E f \in Phoenix!Listed : f.id = id /\ f.at + 1 = t
  OBVIOUS
<1> HIDE DEF H
<1>5. PICK t \in H : \A u \in H : t <= u
  <2>1. MaxSnapshotTime + 1 \in Nat
    BY PhoenixAssumption
  <2> QED BY <1>2, <1>4, <2>1, Least
<1>6. PICK f \in Phoenix!Listed : f.id = id /\ f.at + 1 = t
  BY <1>4
<1>7. \A g \in Phoenix!Listed : g.id = id => f.at <= g.at
  BY <1>1, <1>3, <1>5, <1>6
<1> QED BY <1>6, <1>7 DEF Phoenix!OldestNamed

\* The snapshot that a start restores, when no two have one id, is the last that was given
\* its name.
LEMMA NewestIsLast ==
  ASSUME PhoenixInv, Phoenix!Listed # {}
  PROVE  /\ Phoenix!Newest \in Phoenix!Listed /\ Phoenix!Newest.entries = kept
         /\ (\A f, g \in Phoenix!Listed : f.id = g.id => f = g) =>
               Phoenix!OldestNamed(Phoenix!Newest.id).entries = kept
<1>1. PICK k \in Phoenix!Listed : k.entries = kept
           /\ \A g \in Phoenix!Listed : ~Phoenix!Newer(g, k)
  BY DEF PhoenixInv, DirInv
<1>2. Phoenix!Newest \in Phoenix!Listed
      /\ \A g \in Phoenix!Listed : ~Phoenix!Newer(g, Phoenix!Newest)
  BY <1>1 DEF Phoenix!Newest
<1>3. Phoenix!Newest = k
  <2>1. k.at \in Nat /\ Phoenix!Newest.at \in Nat
    BY <1>2 DEF PhoenixInv, DirInv, Phoenix!File, Phoenix!Listed
  <2>2. k.at = Phoenix!Newest.at
    BY <1>1, <1>2, <2>1 DEF Phoenix!Newer
  <2> QED BY <1>2, <2>2 DEF PhoenixInv, DirInv, Phoenix!Listed
<1>4. ASSUME \A f, g \in Phoenix!Listed : f.id = g.id => f = g
      PROVE  Phoenix!OldestNamed(Phoenix!Newest.id) = k
  <2>1. \A f \in Phoenix!Listed : f.id = Phoenix!Newest.id <=> f = k
    BY <1>3, <1>4
  <2> QED BY <2>1 DEF Phoenix!OldestNamed
<1> QED BY <1>1, <1>3, <1>4

\* What is recorded, and what a start holds.
LEMMA HoldsFit ==
  ASSUME PhoenixInv, NEW s \in Trail, NEW n \in 1..MaxEntries, Len(s) <= n,
         Phoenix!Holds(s, n)
  PROVE  PhoenixInv'
<1>1. DirInv'
  BY DirStays DEF Phoenix!Holds, PhoenixInv
<1>2. JobInv'
  BY JobStays DEF Phoenix!Holds, PhoenixInv
<1> QED BY <1>1, <1>2 DEF Phoenix!Holds, PhoenixInv

LEMMA RestoredFits ==
  ASSUME PhoenixInv, NEW f \in Phoenix!Listed, Phoenix!Restored(f)
  PROVE  PhoenixInv'
<1>1. f.entries \in Trail /\ Len(f.entries) <= MaxEntries
  BY DEF PhoenixInv, DirInv, Phoenix!Listed, Phoenix!File, Trail
<1>3. PICK n : n = IF f.entries = <<>> THEN 1 ELSE Len(f.entries)
  OBVIOUS
<1>4. n \in 1..MaxEntries /\ Len(f.entries) <= n
  BY <1>1, <1>3, PhoenixAssumption
<1>5. Phoenix!Holds(f.entries, n)
  BY <1>3 DEF Phoenix!Restored
<1> QED BY <1>1, <1>4, <1>5, HoldsFit

LEMMA Starts == ASSUME PhoenixInv, Phoenix!Start PROVE PhoenixInv'
<1>1. CASE Phoenix!Holds(<<>>, MaxEntries)
  <2>1. <<>> \in Trail /\ Len(<<>>) = 0 /\ MaxEntries \in 1..MaxEntries
        /\ 0 <= MaxEntries
    BY PhoenixAssumption DEF Trail
  <2> QED BY <1>1, <2>1, HoldsFit
<1>2. CASE Phoenix!StartFails
  <2>1. DirInv'
    BY <1>2, DirStays DEF Phoenix!StartFails, PhoenixInv
  <2>2. JobInv'
    BY <1>2, JobStays DEF Phoenix!StartFails, PhoenixInv
  <2> QED BY <1>2, <2>1, <2>2 DEF Phoenix!StartFails, PhoenixInv
<1>3. CASE Phoenix!Listed # {}
           /\ Phoenix!Restored(Phoenix!OldestNamed(Phoenix!Newest.id))
  <2>1. Phoenix!OldestNamed(Phoenix!Newest.id) \in Phoenix!Listed
    BY <1>3, NewestIsLast, OldestIsListed
  <2> QED BY <1>3, <2>1, RestoredFits
<1>4. CASE (\E f \in Phoenix!Listed : f.id = GivenId)
           /\ Phoenix!Restored(Phoenix!OldestNamed(GivenId))
  <2>1. Phoenix!OldestNamed(GivenId) \in Phoenix!Listed
    BY <1>4, OldestIsListed
  <2> QED BY <1>4, <2>1, RestoredFits
<1>5. restores \in {"never", "latest", "named"}
  BY DEF PhoenixInv
<1>6. CASE restores = "never"
  BY <1>1, <1>6 DEF Phoenix!Start
<1>7. CASE restores # "never" /\ ~Phoenix!Readable
  BY <1>2, <1>7 DEF Phoenix!Start
<1>8. CASE restores = "latest" /\ Phoenix!Readable
  BY <1>1, <1>3, <1>8 DEF Phoenix!Start
<1>9. CASE restores = "named" /\ Phoenix!Readable
  BY <1>2, <1>4, <1>9 DEF Phoenix!Start
<1> QED BY <1>5, <1>6, <1>7, <1>8, <1>9

LEMMA PhoenixNext == ASSUME PhoenixInv, [Phoenix!Next]_phoenixVars PROVE PhoenixInv'
<1>1. ASSUME Phoenix!Record PROVE PhoenixInv'
  <2>1. recorded + 1 \in 1..MaxRecords /\ recorded' = recorded + 1
    BY <1>1, PhoenixAssumption DEF Phoenix!Record, PhoenixInv
  <2>2. Append(entries, recorded + 1) \in Trail
    BY <2>1 DEF PhoenixInv, Trail
  <2>3. limit \in Nat \ {0}
    BY DEF PhoenixInv
  <2>4. entries' \in Trail /\ Len(entries') <= limit'
    BY <1>1, <2>2, <2>3, CutFits DEF Phoenix!Record
  <2>5. DirInv'
    BY <1>1, DirStays DEF Phoenix!Record, PhoenixInv
  <2>6. JobInv'
    BY <1>1, JobStays DEF Phoenix!Record, PhoenixInv
  <2> QED BY <1>1, <2>1, <2>4, <2>5, <2>6 DEF Phoenix!Record, PhoenixInv
<1>2. ASSUME Phoenix!Dies PROVE PhoenixInv'
  <2>1. <<>> \in Trail /\ Len(<<>>) <= limit
    BY DEF Trail, PhoenixInv
  <2>2. DirInv'
    BY <1>2, DirStays DEF Phoenix!Dies, PhoenixInv
  <2>3. JobInv'
    BY <1>2 DEF Phoenix!Dies, JobInv, Phoenix!Idle
  <2> QED BY <1>2, <2>1, <2>2, <2>3 DEF Phoenix!Dies, PhoenixInv
<1>3. ASSUME Phoenix!Tick PROVE PhoenixInv'
  <2>1. snapshotTime' \in 0..MaxSnapshotTime /\ snapshotTime <= snapshotTime'
    BY <1>3, PhoenixAssumption DEF Phoenix!Tick, PhoenixInv
  <2>2. DirInv'
    BY <1>3, <2>1, DirStays DEF Phoenix!Tick, PhoenixInv
  <2>3. JobInv'
    BY <1>3 DEF Phoenix!Tick, JobInv, Phoenix!Idle
  <2> QED BY <1>3, <2>1, <2>2, <2>3 DEF Phoenix!Tick, PhoenixInv
<1>4. ASSUME UNCHANGED phoenixVars PROVE PhoenixInv'
  <2>1. DirInv'
    BY <1>4, DirStays DEF phoenixVars, PhoenixInv
  <2>2. JobInv'
    BY <1>4, JobStays DEF phoenixVars, PhoenixInv
  <2> QED BY <1>4, <2>1, <2>2 DEF phoenixVars, PhoenixInv
<1> QED BY <1>1, <1>2, <1>3, <1>4, Saves, Writes, Renames, Rotates, Starts
           DEF Phoenix!Next

\* A start that is to restore the newest snapshot has the entries of the last one that was
\* given its name.
LEMMA LastSaveIsRestored == PhoenixInv => Phoenix!StartHasLastSave
<1> SUFFICES ASSUME PhoenixInv, process # "up", restores = "latest", Phoenix!Start
             PROVE  /\ process' = "up"
                    /\ (\A f, g \in Phoenix!Listed : f.id = g.id => f = g) =>
                          entries' = kept
  BY DEF Phoenix!StartHasLastSave
<1>1. Phoenix!Readable
  BY DEF PhoenixInv, DirInv, Phoenix!Readable
<1>2. IF Phoenix!Listed = {} THEN Phoenix!Holds(<<>>, MaxEntries)
          ELSE Phoenix!Restored(Phoenix!OldestNamed(Phoenix!Newest.id))
  BY <1>1 DEF Phoenix!Start
<1>3. CASE Phoenix!Listed = {}
  BY <1>2, <1>3 DEF Phoenix!Holds, PhoenixInv, DirInv
<1>4. CASE Phoenix!Listed # {}
  BY <1>2, <1>4, NewestIsLast DEF Phoenix!Restored, Phoenix!Holds
<1> QED BY <1>3, <1>4
-----------------------------------------------------------------------------
\* All components together: the one that a behaviour picks starts as it does on its
\* own, and then it moves and the others rest.
LEMMA PartStarts ==
  ASSUME ServicesInit
  PROVE  /\ Init
         /\ part = "webhooks" => Webhooks!Init
         /\ part = "tokens" => Tokens!Init
         /\ part = "letters" => Letters!Init
         /\ part = "sockets" => Sockets!Init
         /\ part = "health" => Health!Init
         /\ part = "ingress" => Ingress!Init
         /\ part = "skills" => SkillSet!Init
         /\ part = "evolution" => Evolution!Init
         /\ part = "memory" => Memory!Init
         /\ part = "stores" => Stored!Init
         /\ part = "phoenix" => Phoenix!Init
         /\ part = "prompts" => Prompts!Init
         /\ part = "streams" => Streams!Init
         /\ part = "registry" => Registry!Init
         /\ part = "trajectory" => Trajectory!Init
         /\ part = "isolation" => Isolation!Init
         /\ part = "duo" => Duo!Init
         /\ part = "permissions" => Permissions!Init
         /\ part = "waits" => Waiting!Init
BY DEF ServicesInit

LEMMA PartMoves ==
  ASSUME [ServicesNext]_everything
  PROVE  /\ part' = part
         /\ [Next]_vars
         /\ part # "phoenix" => UNCHANGED phoenixVars
         /\ part = "webhooks" => [Webhooks!Next]_webhooksVars
         /\ part = "tokens" => [Tokens!Next]_tokensVars
         /\ part = "letters" => [Letters!Next]_lettersVars
         /\ part = "sockets" => [Sockets!Next]_socketsVars
         /\ part = "health" => [Health!Next]_healthVars
         /\ part = "ingress" => [Ingress!Next]_ingressVars
         /\ part = "skills" => [SkillSet!Next]_skillSetVars
         /\ part = "evolution" => [Evolution!Next]_evolutionVars
         /\ part = "memory" => [Memory!Next]_memoryVars
         /\ part = "stores" => [Stored!Next]_storedVars
         /\ part = "phoenix" => [Phoenix!Next]_phoenixVars
         /\ part = "prompts" => [Prompts!Next]_promptsVars
         /\ part = "streams" => [Streams!Next]_streamsVars
         /\ part = "registry" => [Registry!Next]_registryVars
         /\ part = "trajectory" => [Trajectory!Next]_trajectoryVars
         /\ part = "isolation" => [Isolation!Next]_isolationVars
         /\ part = "duo" => [Duo!Next]_duoVars
         /\ part = "permissions" => [Permissions!Next]_permissionsVars
         /\ part = "waits" => [Waiting!Next]_waitingVars
<1>1. CASE ServicesNext
  <2>1. part' = part /\ OthersRest
    BY <1>1 DEF ServicesNext
  <2>2. part # "phoenix" => UNCHANGED phoenixVars
    BY <2>1 DEF OthersRest
  <2>3. part = "breaker" \/ UNCHANGED vars
    BY <2>1 DEF OthersRest
  <2>4. /\ part = "breaker" => Next
        /\ part = "webhooks" => Webhooks!Next
        /\ part = "tokens" => Tokens!Next
        /\ part = "letters" => Letters!Next
        /\ part = "sockets" => Sockets!Next
        /\ part = "health" => Health!Next
        /\ part = "ingress" => Ingress!Next
        /\ part = "skills" => SkillSet!Next
        /\ part = "evolution" => Evolution!Next
        /\ part = "memory" => Memory!Next
        /\ part = "stores" => Stored!Next
        /\ part = "phoenix" => Phoenix!Next
        /\ part = "prompts" => Prompts!Next
        /\ part = "streams" => Streams!Next
        /\ part = "registry" => Registry!Next
        /\ part = "trajectory" => Trajectory!Next
        /\ part = "isolation" => Isolation!Next
        /\ part = "duo" => Duo!Next
        /\ part = "permissions" => Permissions!Next
        /\ part = "waits" => Waiting!Next
    BY <1>1 DEF ServicesNext
  <2> QED BY <2>1, <2>2, <2>3, <2>4
<1>2. CASE UNCHANGED everything
  BY <1>2 DEF everything
<1> QED BY <1>1, <1>2

RestartInv == /\ part = "phoenix" => PhoenixInv

\* After any crash a start that restores the latest snapshot has exactly the entries of
\* the last snapshot that was given its name (PhoenixAuditSnapshotStore).
THEOREM PhoenixRestartHasLastSave == ServicesSpec => RestartHasLastSave
<1>1. ServicesInit => RestartInv
  BY PartStarts, PhoenixInit DEF RestartInv
<1>2. RestartInv /\ [ServicesNext]_everything => RestartInv'
  BY PartMoves, PhoenixNext DEF RestartInv
<1>3. RestartInv /\ [ServicesNext]_everything => [Phoenix!StartHasLastSave]_phoenixVars
  BY PartMoves, LastSaveIsRestored DEF RestartInv
<1> QED BY <1>1, <1>2, <1>3, PTL DEF ServicesSpec, RestartHasLastSave

StorageInv == /\ part = "memory" => MemoryInv
              /\ part = "stores" => StoresInv

\* The indexes of the memory database and its cache serve the row they name and no
\* other (MemoryStore and FTS5 index), and a store that has come to rest has on disk
\* what it has in memory (the JSON stores of the approval, audit and channel layers).
THEOREM StorageIsAlwaysConsistent == ServicesSpec => []StorageIsConsistent
<1>1. ServicesInit => StorageInv
  BY PartStarts, MemoryInit, StoresInit DEF StorageInv
<1>2. StorageInv /\ [ServicesNext]_everything => StorageInv'
  BY PartMoves, MemoryNext, StoresNext DEF StorageInv
<1>3. StorageInv => StorageIsConsistent
  BY IndexesFollow, StoresAreSettled DEF StorageInv, StorageIsConsistent
<1> QED BY <1>1, <1>2, <1>3, PTL DEF ServicesSpec

SkillsInv == /\ part = "skills" => SkillSetInv
             /\ part = "evolution" => EvolutionInv

\* A restart brings back the skills there were and no deleted one, and evolve()
\* retires only skills that were used (SkillManager).
THEOREM SkillsAreKeptThroughout == ServicesSpec => []SkillsAreKept
<1>1. ServicesInit => SkillsInv
  BY PartStarts, SkillSetInit, EvolutionInit DEF SkillsInv
<1>2. SkillsInv /\ [ServicesNext]_everything => SkillsInv'
  BY PartMoves, SkillSetNext, EvolutionNext DEF SkillsInv
<1>3. SkillsInv => SkillsAreKept
  BY DEF SkillsInv, SkillsAreKept, SkillSetInv, EvolutionInv
<1> QED BY <1>1, <1>2, <1>3, PTL DEF ServicesSpec

InboundInv == /\ part = "ingress" => IngressInv
              /\ part = "sockets" => SocketsInv
              /\ part = "health" => HealthInv

\* A message is let in once in a window and no user too often (ExternalIngressGuard and
\* MessageDeduplicator), the sessions of the channel, the gateway and the monitor follow
\* the sockets (WebSocketChannel), and a probe hears that all is well only if it is
\* (getHealthReport).
THEOREM InboundIsAlwaysOrderly == ServicesSpec => []InboundIsOrderly
<1>1. ServicesInit => InboundInv
  BY PartStarts, IngressInit, SocketsInit, HealthInit DEF InboundInv
<1>2. InboundInv /\ [ServicesNext]_everything => InboundInv'
  BY PartMoves, IngressNext, SocketsNext, HealthNext DEF InboundInv
<1>3. InboundInv => InboundIsOrderly
  BY ReportIsTrue DEF InboundInv, InboundIsOrderly, IngressInv, SocketsInv
<1> QED BY <1>1, <1>2, <1>3, PTL DEF ServicesSpec

OutboundInv == /\ part = "letters" => LettersInv
               /\ part = "webhooks" => WebhooksInv
               /\ part = "tokens" => TokensInv

\* Every dead letter is in one place (ExternalChannel), every webhook message is queued
\* once, on its way, delivered or given up after its retries (WebhookChannel), and a stale
\* token costs no message (WeChatChannel).
THEOREM OutboundIsAlwaysKept == ServicesSpec => []OutboundIsKept
<1>1. ServicesInit => OutboundInv
  BY PartStarts, LettersInit, WebhooksInit, TokensInit DEF OutboundInv
<1>2. OutboundInv /\ [ServicesNext]_everything => OutboundInv'
  BY PartMoves, LettersNext, WebhooksNext, TokensNext DEF OutboundInv
<1>3. OutboundInv => OutboundIsKept
  BY LettersHaveTheirPlace, MessagesStayKept DEF OutboundInv, OutboundIsKept, TokensInv
<1> QED BY <1>1, <1>2, <1>3, PTL DEF ServicesSpec
=============================================================================
