----------------------------- MODULE PruningProofs ------------------------------
(* Theorems about Listing and Pruning for any repositories, page size and     *)
(* number of changes.                                                         *)
EXTENDS Pruning, ListLemmas, NaturalsInduction, WellFoundedInduction

LEMMA Truth == /\ \A b \in BOOLEAN : ((b = FALSE) <=> ~b) /\ ((b = TRUE) <=> b)
               /\ \A p, S : (p \in S) \in BOOLEAN
<1>1. \A b \in BOOLEAN : ((b = FALSE) <=> ~b) /\ ((b = TRUE) <=> b)
  BY Zenon
<1>2. \A p, S : (p \in S) \in BOOLEAN
  OBVIOUS
<1> QED BY <1>1, <1>2

LEMMA Bounds == IsFiniteSet(Paths) /\ PageSize \in Nat \ {0} /\ MaxEvents \in Nat
                /\ Mirrors \subseteq Paths /\ Wikis \subseteq Paths
  BY ListingAssumption, WikiAssumption

LEMMA LeastElement == ASSUME NEW T \in SUBSET Nat, T # {} PROVE \E x \in T : \A y \in T : x <= y
<1>1. \E x \in T : \A y \in T : ~(<<y, x>> \in OpToRel(<, Nat))
  BY NatLessThanWellFounded, WFMin
<1>2. \A x, y \in Nat : <<y, x>> \in OpToRel(<, Nat) <=> y < x
  BY DEF OpToRel
<1>3. PICK x \in T : \A y \in T : ~(y < x)
  BY <1>1, <1>2
<1> QED BY <1>3

-----------------------------------------------------------------------------
(* Lists without repetition: where a path stands, and how many of a set stand *)
(* up to there.                                                               *)

Lists == {o \in Seq(Paths) : \A i, j \in 1..Len(o) : o[i] = o[j] => i = j}
PlaceIn(o, p) == CHOOSE i \in DOMAIN o : o[i] = p
RankIn(o, S, p) == Cardinality({q \in S : PlaceIn(o, q) <= PlaceIn(o, p)})

LEMMA ForgeOrder == /\ \A p : Place(p) = PlaceIn(order, p)
                    /\ \A S, p : Rank(S, p) = RankIn(order, S, p)
  BY DEF Place, PlaceIn, Rank, RankIn

LEMMA ListDomain == ASSUME NEW o \in Lists
                    PROVE  Len(o) \in Nat /\ DOMAIN o = 1..Len(o) /\ \A i \in 1..Len(o) : o[i] \in Paths
  BY ElementOfSeq DEF Lists

LEMMA Places ==
  ASSUME NEW o \in Lists
  PROVE  /\ \A p \in ToSet(o) : PlaceIn(o, p) \in 1..Len(o) /\ o[PlaceIn(o, p)] = p
         /\ \A i \in 1..Len(o) : o[i] \in ToSet(o) /\ PlaceIn(o, o[i]) = i
         /\ \A p, q \in ToSet(o) : PlaceIn(o, p) = PlaceIn(o, q) => p = q
<1>1. \A p \in ToSet(o) : PlaceIn(o, p) \in 1..Len(o) /\ o[PlaceIn(o, p)] = p
  BY ListDomain DEF ToSet, PlaceIn
<1>2. \A i \in 1..Len(o) : o[i] \in ToSet(o)
  BY ListDomain DEF ToSet
<1>3. \A i \in 1..Len(o) : PlaceIn(o, o[i]) = i
  BY <1>1, <1>2 DEF Lists
<1> QED BY <1>1, <1>2, <1>3

LEMMA ListFinite == ASSUME NEW o \in Lists, NEW S \in SUBSET ToSet(o)
                    PROVE  IsFiniteSet(S) /\ Cardinality(S) \in Nat
<1>1. S \subseteq Paths
  BY ListDomain DEF ToSet
<1>2. IsFiniteSet(S)
  BY <1>1, Bounds, FS_Subset
<1> QED BY <1>2, FS_CardinalityType

\* A rank counts the path itself, and grows with the place.
LEMMA Ranks ==
  ASSUME NEW o \in Lists, NEW S \in SUBSET ToSet(o)
  PROVE  /\ \A p \in S : RankIn(o, S, p) \in 1..Cardinality(S)
         /\ \A p, q \in S : PlaceIn(o, p) < PlaceIn(o, q) <=> RankIn(o, S, p) < RankIn(o, S, q)
         /\ \A p, q \in S : RankIn(o, S, p) = RankIn(o, S, q) => p = q
<1> DEFINE upto(p) == {q \in S : PlaceIn(o, q) <= PlaceIn(o, p)}
<1>1. IsFiniteSet(S) /\ Cardinality(S) \in Nat /\ \A p \in S : PlaceIn(o, p) \in Nat
  BY ListFinite, Places, ListDomain
<1>2. ASSUME NEW p \in S PROVE RankIn(o, S, p) \in 1..Cardinality(S)
  <2>1. upto(p) \in SUBSET S /\ p \in upto(p)
    BY <1>1
  <2>2. IsFiniteSet(upto(p)) /\ Cardinality(upto(p)) \in Nat /\ Cardinality(upto(p)) <= Cardinality(S)
    BY <1>1, <2>1, FS_Subset, FS_CardinalityType
  <2>3. Cardinality(upto(p)) # 0
    BY <2>1, <2>2, FS_EmptySet
  <2> QED BY <1>1, <2>2, <2>3 DEF RankIn
<1>3. ASSUME NEW p \in S, NEW q \in S, PlaceIn(o, p) < PlaceIn(o, q)
      PROVE  RankIn(o, S, p) < RankIn(o, S, q)
  <2>1. upto(p) \in SUBSET upto(q) /\ q \in upto(q) /\ q \notin upto(p)
    BY <1>1, <1>3
  <2>2. IsFiniteSet(upto(q))
    BY <1>1, FS_Subset
  <2>3. Cardinality(upto(p)) <= Cardinality(upto(q)) /\ Cardinality(upto(p)) # Cardinality(upto(q))
    BY <2>1, <2>2, FS_Subset
  <2>4. Cardinality(upto(p)) \in Nat /\ Cardinality(upto(q)) \in Nat
    BY <2>1, <2>2, FS_Subset, FS_CardinalityType
  <2> QED BY <2>3, <2>4 DEF RankIn
<1>4. ASSUME NEW p \in S, NEW q \in S
      PROVE  PlaceIn(o, p) < PlaceIn(o, q) \/ PlaceIn(o, q) < PlaceIn(o, p) \/ p = q
  BY <1>1, Places
<1>5. \A p \in S : RankIn(o, S, p) \in Nat
  BY <1>1, <1>2
<1> QED BY <1>1, <1>2, <1>3, <1>4, <1>5

\* and every rank up to the size of the set is some path's.
LEMMA RanksOnto ==
  ASSUME NEW o \in Lists, NEW S \in SUBSET ToSet(o), NEW k \in 1..Cardinality(S)
  PROVE  \E p \in S : RankIn(o, S, p) = k
<1> DEFINE first(m) == {q \in S : PlaceIn(o, q) <= m}
           enough == {m \in Nat : Cardinality(first(m)) >= k}
<1>1. IsFiniteSet(S) /\ Cardinality(S) \in Nat /\ k \in Nat \ {0} /\ Len(o) \in Nat
      /\ \A q \in S : PlaceIn(o, q) \in 1..Len(o)
  BY ListFinite, Places, ListDomain
<1>2. \A m \in Nat : IsFiniteSet(first(m)) /\ Cardinality(first(m)) \in Nat
  BY <1>1, FS_Subset, FS_CardinalityType
<1>3. first(Len(o)) = S /\ first(0) = {} /\ Cardinality(first(0)) = 0
  <2>1. first(Len(o)) = S /\ first(0) = {}
    BY <1>1
  <2> QED BY <2>1, FS_EmptySet
<1> HIDE DEF first
<1>4. PICK m \in enough : \A l \in enough : m <= l
  <2>1. Len(o) \in enough
    BY <1>1, <1>3
  <2> HIDE DEF enough
  <2>2. enough \in SUBSET Nat
    BY DEF enough
  <2> QED BY <2>1, <2>2, LeastElement
<1>5. m \in Nat /\ m # 0 /\ Cardinality(first(m)) >= k
  BY <1>1, <1>3, <1>4
<1>6. m - 1 \in Nat /\ Cardinality(first(m - 1)) < k
  <2>1. m - 1 \in Nat /\ ~(m <= m - 1)
    BY <1>5
  <2>2. m - 1 \notin enough
    BY <1>4, <2>1
  <2> QED BY <1>1, <1>2, <2>1, <2>2
<1>7. PICK p \in S : PlaceIn(o, p) = m
  <2>1. ASSUME \A p \in S : PlaceIn(o, p) # m PROVE FALSE
    <3>1. first(m) = first(m - 1)
      BY <1>1, <1>5, <1>6, <2>1 DEF first
    <3> QED BY <1>1, <1>2, <1>5, <1>6, <3>1
  <2> QED BY <2>1
<1>8. first(m) = first(m - 1) \cup {p}
  <2>1. \A q \in S : PlaceIn(o, q) = m => q = p
    BY <1>7, Places
  <2> QED BY <1>1, <1>5, <1>6, <1>7, <2>1 DEF first
<1>9. Cardinality(first(m)) <= Cardinality(first(m - 1)) + 1
  <2>1. \A T, x : IsFiniteSet(T) /\ Cardinality(T) \in Nat => Cardinality(T \cup {x}) <= Cardinality(T) + 1
    BY FS_AddElement
  <2>2. IsFiniteSet(first(m - 1)) /\ Cardinality(first(m - 1)) \in Nat
    BY <1>2, <1>6
  <2> QED BY <1>8, <2>1, <2>2
<1>10. Cardinality(first(m)) = k
  <2>1. Cardinality(first(m)) \in Nat /\ Cardinality(first(m - 1)) \in Nat
    BY <1>2, <1>5, <1>6
  <2> QED BY <1>1, <1>5, <1>6, <1>9, <2>1
<1> QED BY <1>7, <1>10 DEF RankIn, first

\* The sequence of a set in a list's order has each member once, at its rank.
Sorted(o, S) == [k \in 1..Cardinality(S) |-> CHOOSE p \in S : RankIn(o, S, p) = k]

LEMMA InOrderSorted == \A S : InOrder(S) = Sorted(order, S)
  BY ForgeOrder DEF InOrder, Sorted

LEMMA SortedPlaces ==
  ASSUME NEW o \in Lists, NEW S \in SUBSET ToSet(o)
  PROVE  /\ Sorted(o, S) \in Seq(Paths) /\ Len(Sorted(o, S)) = Cardinality(S)
         /\ DOMAIN Sorted(o, S) = 1..Cardinality(S) /\ Cardinality(S) \in Nat
         /\ \A k \in 1..Cardinality(S) : Sorted(o, S)[k] \in S /\ RankIn(o, S, Sorted(o, S)[k]) = k
         /\ \A p \in S : Sorted(o, S)[RankIn(o, S, p)] = p
         /\ \A p \in S, k \in 1..Cardinality(S) : RankIn(o, S, p) = k => Sorted(o, S)[k] = p
         /\ \A j, k \in 1..Cardinality(S) : Sorted(o, S)[j] = Sorted(o, S)[k] => j = k
<1>1. Cardinality(S) \in Nat /\ S \subseteq Paths
  BY ListFinite, ListDomain DEF ToSet
<1>2. \A k \in 1..Cardinality(S) : Sorted(o, S)[k] \in S /\ RankIn(o, S, Sorted(o, S)[k]) = k
  BY RanksOnto DEF Sorted
<1>3. DOMAIN Sorted(o, S) = 1..Cardinality(S) /\ Sorted(o, S) \in [1..Cardinality(S) -> Paths]
  BY <1>1, <1>2 DEF Sorted
<1>4. Sorted(o, S) \in Seq(Paths) /\ Len(Sorted(o, S)) = Cardinality(S)
  BY <1>1, <1>3
<1>5. \A p \in S, k \in 1..Cardinality(S) : RankIn(o, S, p) = k => Sorted(o, S)[k] = p
  BY <1>2, Ranks
<1>6. \A p \in S : Sorted(o, S)[RankIn(o, S, p)] = p
  BY <1>5, Ranks
<1>7. \A j, k \in 1..Cardinality(S) : Sorted(o, S)[j] = Sorted(o, S)[k] => j = k
  BY <1>2
<1> QED BY <1>1, <1>2, <1>3, <1>4, <1>5, <1>6, <1>7

\* A page that is not the end of a set has as many entries as it may.
LEMMA FullPage ==
  ASSUME NEW o \in Lists, NEW S \in SUBSET ToSet(o), NEW a \in Nat, NEW n \in Nat \ {0},
         Cardinality(S) >= a + n
  PROVE  Cardinality({p \in S : RankIn(o, S, p) \in a + 1..a + n}) >= n
<1> DEFINE E == {p \in S : RankIn(o, S, p) \in a + 1..a + n}
           f == [k \in a + 1..a + n |-> Sorted(o, S)[k]]
<1>1. Cardinality(S) \in Nat /\ E \in SUBSET ToSet(o)
  BY ListFinite
<1>2. \A k \in a + 1..a + n : k \in 1..Cardinality(S)
  BY <1>1
<1>3. f \in [a + 1..a + n -> E] /\ \A j, k \in a + 1..a + n : f[j] = f[k] => j = k
  BY <1>2, SortedPlaces
<1>4. IsFiniteSet(E) /\ Cardinality(E) \in Nat
  BY <1>1, ListFinite
<1> HIDE DEF E, f
<1>5. f \in Injection(a + 1..a + n, E)
  BY <1>3 DEF Injection, IsInjective
<1>6. Cardinality(a + 1..a + n) <= Cardinality(E)
  BY <1>4, <1>5, FS_Injection
<1>7. Cardinality(a + 1..a + n) = n
  <2>1. a + 1 \in Int /\ a + n \in Int /\ ~(a + 1 > a + n) /\ a + n - (a + 1) + 1 = n
    OBVIOUS
  <2> QED BY <2>1, FS_Interval
<1> QED BY <1>6, <1>7 DEF E

\* What stands before the whole of another set comes first in the union's order.
LEMMA SortedUnion ==
  ASSUME NEW o \in Lists, NEW A \in SUBSET ToSet(o), NEW B \in SUBSET ToSet(o),
         \A a \in A, b \in B : PlaceIn(o, a) < PlaceIn(o, b)
  PROVE  Sorted(o, A \cup B) = Sorted(o, A) \o Sorted(o, B)
<1> DEFINE C == A \cup B
           m == Cardinality(A)
           n == Cardinality(B)
<1>1. /\ IsFiniteSet(A) /\ IsFiniteSet(B) /\ m \in Nat /\ n \in Nat /\ C \in SUBSET ToSet(o)
      /\ \A p \in C : PlaceIn(o, p) \in Nat
  BY ListFinite, Places, ListDomain
<1>2. A \cap B = {} /\ Cardinality(C) = m + n
  <2>1. A \cap B = {}
    BY <1>1
  <2> QED BY <1>1, <2>1, FS_Union, FS_EmptySet
<1>3. ASSUME NEW p \in A PROVE RankIn(o, C, p) = RankIn(o, A, p)
  <2>1. {q \in C : PlaceIn(o, q) <= PlaceIn(o, p)} = {q \in A : PlaceIn(o, q) <= PlaceIn(o, p)}
    BY <1>1
  <2> QED BY <2>1 DEF RankIn
<1>4. ASSUME NEW p \in B PROVE RankIn(o, C, p) = m + RankIn(o, B, p)
  <2> DEFINE D == {q \in B : PlaceIn(o, q) <= PlaceIn(o, p)}
  <2>1. {q \in C : PlaceIn(o, q) <= PlaceIn(o, p)} = A \cup D
    BY <1>1
  <2>2. D \in SUBSET ToSet(o) /\ A \cap D = {}
    BY <1>2
  <2>3. IsFiniteSet(D) /\ Cardinality(D) \in Nat
    BY <2>2, ListFinite
  <2>4. RankIn(o, B, p) = Cardinality(D) /\ RankIn(o, C, p) = Cardinality(A \cup D)
    BY <2>1 DEF RankIn
  <2> HIDE DEF D
  <2>5. Cardinality(A \cup D) = Cardinality(A) + Cardinality(D) - Cardinality(A \cap D)
    BY <1>1, <2>3, FS_Union
  <2>6. Cardinality(A \cap D) = 0
    BY <2>2, FS_EmptySet
  <2> QED BY <1>1, <2>3, <2>4, <2>5, <2>6
<1> DEFINE s == Sorted(o, A)
           t == Sorted(o, B)
           u == Sorted(o, C)
<1>5. /\ s \in Seq(Paths) /\ Len(s) = m /\ t \in Seq(Paths) /\ Len(t) = n
      /\ u \in Seq(Paths) /\ Len(u) = m + n
  BY <1>1, <1>2, SortedPlaces
<1>6. \A k \in 1..m : u[k] = s[k]
  <2> SUFFICES ASSUME NEW k \in 1..m PROVE u[k] = s[k]
    OBVIOUS
  <2>1. s[k] \in A /\ RankIn(o, A, s[k]) = k
    BY SortedPlaces
  <2>2. s[k] \in C /\ RankIn(o, C, s[k]) = k /\ k \in 1..Cardinality(C)
    BY <1>1, <1>2, <1>3, <2>1
  <2> QED BY <1>1, <2>2, SortedPlaces
<1>7. \A k \in 1..n : u[m + k] = t[k]
  <2> SUFFICES ASSUME NEW k \in 1..n PROVE u[m + k] = t[k]
    OBVIOUS
  <2>1. t[k] \in B /\ RankIn(o, B, t[k]) = k
    BY SortedPlaces
  <2>2. t[k] \in C /\ RankIn(o, C, t[k]) = m + k /\ m + k \in 1..Cardinality(C)
    BY <1>1, <1>2, <1>4, <2>1
  <2> QED BY <1>1, <2>2, SortedPlaces
<1> HIDE DEF s, t, u, m, n
<1>8. /\ s \o t \in Seq(Paths) /\ Len(s \o t) = m + n
      /\ \A k \in 1..m + n : (s \o t)[k] = IF k <= m THEN s[k] ELSE t[k - m]
  BY <1>5, ConcatProperties
<1>9. \A k \in 1..m + n : u[k] = (s \o t)[k]
  <2> SUFFICES ASSUME NEW k \in 1..m + n PROVE u[k] = (s \o t)[k]
    OBVIOUS
  <2>1. CASE k <= m
    BY <1>1, <1>6, <1>8, <2>1
  <2>2. CASE ~(k <= m)
    <3>1. k - m \in 1..n /\ m + (k - m) = k
      BY <1>1, <2>2
    <3> QED BY <1>7, <1>8, <2>2, <3>1
  <2> QED BY <2>1, <2>2
<1>10. u = s \o t
  BY <1>5, <1>8, <1>9, SeqEqual
<1> QED BY <1>10 DEF s, t, u

\* A path's rank in a set grows with the set, if the list keeps the order.
LEMMA RankGrows ==
  ASSUME NEW o \in Lists, NEW l \in Lists, NEW S \in SUBSET ToSet(o), NEW T \in SUBSET ToSet(l),
         S \subseteq T, NEW p,
         \A q \in S : PlaceIn(o, q) <= PlaceIn(o, p) => PlaceIn(l, q) <= PlaceIn(l, p)
  PROVE  /\ RankIn(o, S, p) <= RankIn(l, T, p)
         /\ RankIn(o, S, p) \in Nat /\ RankIn(l, T, p) \in Nat
<1> DEFINE A == {q \in S : PlaceIn(o, q) <= PlaceIn(o, p)}
           B == {q \in T : PlaceIn(l, q) <= PlaceIn(l, p)}
<1>1. A \in SUBSET B /\ A \in SUBSET ToSet(o) /\ B \in SUBSET ToSet(l)
  OBVIOUS
<1>2. IsFiniteSet(B) /\ Cardinality(A) \in Nat /\ Cardinality(B) \in Nat
  BY <1>1, ListFinite
<1>3. Cardinality(A) <= Cardinality(B)
  BY <1>1, <1>2, FS_Subset
<1> QED BY <1>2, <1>3 DEF RankIn

-----------------------------------------------------------------------------
(* What a new repository, and one that is deleted, do to the list.            *)

\* A new path leaves the others in their order.
LEMMA Inserted ==
  ASSUME NEW o \in Lists, NEW p \in Paths, p \notin ToSet(o), NEW i \in 1..Len(o) + 1, NEW l,
         l = InsertAt(o, i, p)
  PROVE  /\ l \in Lists /\ ToSet(l) = ToSet(o) \cup {p}
         /\ \A q, r \in ToSet(o) : PlaceIn(l, q) <= PlaceIn(l, r) <=> PlaceIn(o, q) <= PlaceIn(o, r)
<1> DEFINE n == Len(o)
<1>1. n \in Nat /\ i \in 1..n + 1 /\ o \in Seq(Paths)
  BY DEF Lists
<1>2. /\ l \in Seq(Paths) /\ Len(l) = n + 1 /\ DOMAIN l = 1..n + 1
      /\ \A k \in 1..n + 1 : l[k] = IF k < i THEN o[k] ELSE IF k = i THEN p ELSE o[k - 1]
  <2> DEFINE w == InsertAt(o, i, p)
  <2>1. /\ w \in Seq(Paths) /\ Len(w) = n + 1
        /\ \A k \in 1..n + 1 : w[k] = IF k < i THEN o[k] ELSE IF k = i THEN p ELSE o[k - 1]
    <3>1. o \in Seq(Paths) /\ i \in 1..Len(o) + 1
      BY <1>1
    <3>2. /\ InsertAt(o, i, p) \in Seq(Paths) /\ Len(InsertAt(o, i, p)) = Len(o) + 1
          /\ \A k \in 1..Len(o) + 1 :
               InsertAt(o, i, p)[k] = IF k < i THEN o[k] ELSE IF k = i THEN p ELSE o[k - 1]
      BY ONLY <3>1, p \in Paths, InsertPlaces
    <3> QED BY <3>2
  <2>2. l = w
    OBVIOUS
  <2> HIDE DEF w, n
  <2> QED BY <1>1, <2>1, <2>2
<1>3. \A k \in 1..n : o[k] \in ToSet(o) /\ o[k] # p
  BY Places
<1>4. \A j, k \in 1..n : o[j] = o[k] => j = k
  BY DEF Lists
<1> HIDE DEF n
<1>5. \A j, k \in 1..n + 1 : l[j] = l[k] => j = k
  <2> SUFFICES ASSUME NEW j \in 1..n + 1, NEW k \in 1..n + 1, l[j] = l[k] PROVE j = k
    OBVIOUS
  <2>1. /\ j < i => j \in 1..n /\ l[j] = o[j]
        /\ j > i => j - 1 \in 1..n /\ l[j] = o[j - 1]
        /\ j = i => l[j] = p
    BY <1>1, <1>2
  <2>2. /\ k < i => k \in 1..n /\ l[k] = o[k]
        /\ k > i => k - 1 \in 1..n /\ l[k] = o[k - 1]
        /\ k = i => l[k] = p
    BY <1>1, <1>2
  <2> QED BY <1>1, <1>3, <1>4, <2>1, <2>2
<1>6. l \in Lists
  BY <1>2, <1>5 DEF Lists
<1>7. ASSUME NEW m \in 1..n
      PROVE  PlaceIn(l, o[m]) = IF m < i THEN m ELSE m + 1
  <2>1. CASE m < i
    <3>1. m \in 1..Len(l) /\ l[m] = o[m]
      BY <1>1, <1>2, <2>1
    <3> QED BY <1>6, <2>1, <3>1, Places
  <2>2. CASE m >= i
    <3>1. m + 1 \in 1..Len(l) /\ l[m + 1] = o[m] /\ ~(m < i)
      BY <1>1, <1>2, <2>2
    <3> QED BY <1>6, <3>1, Places
  <2> QED BY <1>1, <2>1, <2>2
<1>8. \A q \in ToSet(o) : PlaceIn(o, q) \in 1..n /\ o[PlaceIn(o, q)] = q
  BY Places DEF n
<1>9. ToSet(l) = ToSet(o) \cup {p}
  <2>1. \A k \in 1..n + 1 : l[k] \in ToSet(o) \cup {p}
    <3> SUFFICES ASSUME NEW k \in 1..n + 1, k # i PROVE l[k] \in ToSet(o)
      BY <1>2
    <3>1. CASE k < i
      <4>1. k \in 1..n /\ l[k] = o[k]
        BY <1>1, <1>2, <3>1
      <4> QED BY <1>3, <4>1
    <3>2. CASE k > i
      <4>1. k - 1 \in 1..n /\ l[k] = o[k - 1]
        BY <1>1, <1>2, <3>2
      <4> QED BY <1>3, <4>1
    <3> QED BY <1>1, <3>1, <3>2
  <2>2. p \in ToSet(l)
    <3>1. i \in 1..Len(l) /\ l[i] = p
      BY <1>1, <1>2
    <3> QED BY <1>6, <3>1, Places
  <2>3. \A m \in 1..n : o[m] \in ToSet(l)
    <3> SUFFICES ASSUME NEW m \in 1..n PROVE o[m] \in ToSet(l)
      OBVIOUS
    <3>1. \/ m \in 1..Len(l) /\ l[m] = o[m]
          \/ m + 1 \in 1..Len(l) /\ l[m + 1] = o[m]
      BY <1>1, <1>2
    <3> QED BY <1>6, <3>1, Places
  <2>4. \A q \in ToSet(o) : q \in ToSet(l)
    BY <1>8, <2>3
  <2>5. \A q \in ToSet(l) : q \in ToSet(o) \cup {p}
    BY <1>2, <2>1 DEF ToSet
  <2> QED BY <2>2, <2>4, <2>5
<1>10. \A q \in ToSet(o) :
          PlaceIn(l, q) = IF PlaceIn(o, q) < i THEN PlaceIn(o, q) ELSE PlaceIn(o, q) + 1
  BY <1>7, <1>8
<1>11. \A q, r \in ToSet(o) : PlaceIn(l, q) <= PlaceIn(l, r) <=> PlaceIn(o, q) <= PlaceIn(o, r)
  BY <1>1, <1>8, <1>10
<1> QED BY <1>6, <1>9, <1>11

\* and so does one that goes.
LEMMA Removed ==
  ASSUME NEW o \in Lists, NEW p \in ToSet(o), NEW l, l = RemoveAt(o, PlaceIn(o, p))
  PROVE  /\ l \in Lists /\ ToSet(l) = ToSet(o) \ {p}
         /\ \A q, r \in ToSet(l) : PlaceIn(l, q) <= PlaceIn(l, r) <=> PlaceIn(o, q) <= PlaceIn(o, r)
<1> DEFINE n == Len(o)
           i == PlaceIn(o, p)
<1>1. n \in Nat /\ i \in 1..n /\ o \in Seq(Paths) /\ o[i] = p
  BY Places DEF Lists
<1>2. /\ l \in Seq(Paths) /\ Len(l) = n - 1 /\ DOMAIN l = 1..n - 1
      /\ \A k \in 1..n - 1 : l[k] = IF k < i THEN o[k] ELSE o[k + 1]
  <2>1. /\ l \in Seq(Paths) /\ Len(l) = n - 1
        /\ \A k \in 1..n - 1 : l[k] = IF k < i THEN o[k] ELSE o[k + 1]
    BY <1>1, RemovePlaces
  <2>2. DOMAIN l = 1..Len(l)
    BY <2>1
  <2> QED BY <2>1, <2>2
<1>3. \A j, k \in 1..n : o[j] = o[k] => j = k
  BY DEF Lists
<1>4. \A k \in 1..n : o[k] \in ToSet(o) /\ PlaceIn(o, o[k]) = k
  BY Places
<1>5. \A q \in ToSet(o) : PlaceIn(o, q) \in 1..n /\ o[PlaceIn(o, q)] = q
  BY Places
<1> HIDE DEF n, i
<1>6. \A j, k \in 1..n - 1 : l[j] = l[k] => j = k
  <2> SUFFICES ASSUME NEW j \in 1..n - 1, NEW k \in 1..n - 1, l[j] = l[k] PROVE j = k
    OBVIOUS
  <2>1. /\ j < i => j \in 1..n /\ l[j] = o[j]
        /\ j >= i => j + 1 \in 1..n /\ l[j] = o[j + 1]
    BY <1>1, <1>2
  <2>2. /\ k < i => k \in 1..n /\ l[k] = o[k]
        /\ k >= i => k + 1 \in 1..n /\ l[k] = o[k + 1]
    BY <1>1, <1>2
  <2> QED BY <1>1, <1>3, <2>1, <2>2
<1>7. l \in Lists
  BY <1>2, <1>6 DEF Lists
<1>8. ASSUME NEW m \in 1..n, m # i
      PROVE  PlaceIn(l, o[m]) = (IF m < i THEN m ELSE m - 1) /\ o[m] \in ToSet(l)
  <2>1. CASE m < i
    <3>1. m \in 1..Len(l) /\ l[m] = o[m]
      BY <1>1, <1>2, <2>1
    <3> QED BY <1>7, <2>1, <3>1, Places
  <2>2. CASE m > i
    <3>1. m - 1 \in 1..Len(l) /\ l[m - 1] = o[m] /\ ~(m < i)
      BY <1>1, <1>2, <2>2
    <3> QED BY <1>7, <3>1, Places
  <2> QED BY <1>1, <1>8, <2>1, <2>2
<1>9. \A k \in 1..n - 1 : l[k] \in ToSet(o) \ {p}
  <2> SUFFICES ASSUME NEW k \in 1..n - 1 PROVE l[k] \in ToSet(o) \ {p}
    OBVIOUS
  <2>1. \/ l[k] = o[k] /\ k \in 1..n /\ k # i
        \/ l[k] = o[k + 1] /\ k + 1 \in 1..n /\ k + 1 # i
    BY <1>1, <1>2
  <2> QED BY <1>1, <1>3, <1>4, <2>1
<1>10. ToSet(l) = ToSet(o) \ {p}
  <2>1. \A q \in ToSet(l) : q \in ToSet(o) \ {p}
    BY <1>2, <1>9 DEF ToSet
  <2>2. \A q \in ToSet(o) \ {p} : q \in ToSet(l)
    BY <1>1, <1>5, <1>8
  <2> QED BY <2>1, <2>2
<1>11. \A q \in ToSet(l) : /\ PlaceIn(o, q) \in 1..n /\ PlaceIn(o, q) # i
                           /\ PlaceIn(l, q) = IF PlaceIn(o, q) < i THEN PlaceIn(o, q) ELSE PlaceIn(o, q) - 1
  BY <1>1, <1>5, <1>8, <1>10
<1>12. \A q, r \in ToSet(l) : PlaceIn(l, q) <= PlaceIn(l, r) <=> PlaceIn(o, q) <= PlaceIn(o, r)
  BY <1>1, <1>11
<1> QED BY <1>7, <1>10, <1>12

-----------------------------------------------------------------------------
(* Types, and what ties the stages of a run to those of its listings.         *)

\* A StateAll listing of GitLab goes through the active projects first.
Passes == /\ pass => kind = "gitlab" /\ state # "active"
          /\ kind = "gitlab" /\ state = "archived" => pass

\* What the run waits for in each of its stages.
Staged == /\ stage = "idle" => pc = "idle"
          /\ stage = "list" => pc # "idle" /\ state = opts.state
          /\ stage = "relist" => pc # "idle" /\ state = "all"
          /\ stage \in {"work", "prune"} => pc = "returned" /\ state = "all"

Typed == /\ PruningTypeOK
         /\ order \in Lists /\ repos \in Seq(Entry)
         /\ kind # "forgejo" => ~skipMirrors
         /\ \A b \in disk \cup selected : b.wiki => kind = "gitlab"
         /\ Passes /\ Staged

LEMMA SeenPaths ==
  ASSUME NEW u \in Seq(Paths)
  PROVE  /\ Seen(u) \in Seq(Entry) /\ Len(Seen(u)) = Len(u) /\ DOMAIN Seen(u) = 1..Len(u)
         /\ \A i \in 1..Len(u) : Seen(u)[i] = [path |-> u[i], archived |-> u[i] \in arch]
<1>1. Len(u) \in Nat /\ DOMAIN u = 1..Len(u) /\ \A i \in 1..Len(u) : u[i] \in Paths
  OBVIOUS
<1>2. /\ DOMAIN Seen(u) = 1..Len(u)
      /\ \A i \in 1..Len(u) : Seen(u)[i] = [path |-> u[i], archived |-> u[i] \in arch]
  BY <1>1 DEF Seen
<1>3. \A i \in 1..Len(u) : Seen(u)[i] \in Entry
  <2>1. \A p \in Paths, b \in BOOLEAN : [path |-> p, archived |-> b] \in Entry
    BY DEF Entry
  <2>2. \A p : (p \in arch) \in BOOLEAN
    OBVIOUS
  <2> QED BY <1>1, <1>2, <2>1, <2>2
<1>4. Seen(u) \in [1..Len(u) -> Entry]
  BY <1>1, <1>3 DEF Seen
<1> QED BY <1>1, <1>2, <1>4

LEMMA KeptPaths ==
  ASSUME order \in Lists
  PROVE  LET K == {p \in Entries : Keeps(p)}
         IN  /\ K \in SUBSET ToSet(order) /\ Kept = Seen(Sorted(order, K))
             /\ Sorted(order, K) \in Seq(Paths) /\ Kept \in Seq(Entry)
<1> DEFINE K == {p \in Entries : Keeps(p)}
<1>1. K \in SUBSET ToSet(order)
  BY DEF Entries, Matching, Here
<1>2. Kept = Seen(Sorted(order, K))
  BY InOrderSorted DEF Kept
<1> HIDE DEF K
<1>3. Sorted(order, K) \in Seq(Paths)
  BY <1>1, SortedPlaces
<1> QED BY <1>1, <1>2, <1>3, SeenPaths DEF K

LEMMA TypedInit == PruningInit => Typed
<1> SUFFICES ASSUME PruningInit PROVE Typed
  OBVIOUS
<1> USE DEF PruningInit, Init
<1>1. order \in Lists
  <2>1. PICK S \in SUBSET Paths : order \in SetToSeqs(S)
    OBVIOUS
  <2>2. IsFiniteSet(S) /\ Cardinality(S) \in Nat
    BY Bounds, FS_Subset, FS_CardinalityType
  <2>3. /\ order \in [1..Cardinality(S) -> S]
        /\ \A i, j \in 1..Cardinality(S) : i # j => order[i] # order[j]
    BY <2>1 DEF SetToSeqs
  <2>4. order \in Seq(S) /\ Len(order) = Cardinality(S)
    BY <2>2, <2>3
  <2>5. order \in Seq(Paths)
    BY <2>2, <2>3
  <2> QED BY <2>3, <2>4, <2>5 DEF Lists
<1>2. ToSet(order) \subseteq Paths
  BY <1>1, ListDomain DEF ToSet
<1>3. repos \in Seq(Entry) /\ ToSet(repos) \subseteq Entry
  BY DEF ToSet
<1>4. TypeOK
  <2>1. budget \in 0..MaxEvents /\ page \in Nat \ {0}
    BY Bounds
  <2>2. arch \subseteq Here /\ steady \subseteq Here
    OBVIOUS
  <2>3. kind \in Kinds /\ skipMirrors \in BOOLEAN /\ pc = "idle" /\ state \in States
        /\ pass \in BOOLEAN /\ shrunk \in BOOLEAN /\ grown \in BOOLEAN
    BY DEF States
  <2> QED BY <1>2, <1>3, <2>1, <2>2, <2>3 DEF TypeOK
<1>5. disk \subseteq Backups /\ \A b \in disk : b.wiki => kind = "gitlab"
  OBVIOUS
<1> QED BY <1>1, <1>3, <1>4, <1>5 DEF Typed, PruningTypeOK, Passes, Staged, Stages, RunOptions, NoOptions,
           States

LEMMA BeginTyped == ASSUME Typed, Begin
                    PROVE  TypeOK' /\ Passes' /\ repos' \in Seq(Entry)
<1>1. repos' \in Seq(Entry) /\ ToSet(repos') \subseteq Entry
  BY DEF Begin, ToSet
<1>2. pass' \in BOOLEAN /\ page' \in Nat \ {0} /\ state' \in States /\ pc' = "fetch"
  BY DEF Begin
<1>3. Passes'
  BY DEF Begin, Passes, forge
<1> QED BY <1>1, <1>2, <1>3 DEF Typed, PruningTypeOK, TypeOK, Begin, forge, Here

LEMMA ListStepTyped == ASSUME Typed, ListStep
                       PROVE  /\ TypeOK' /\ Passes' /\ repos' \in Seq(Entry)
                              /\ pc' # "idle" /\ UNCHANGED <<forge, state, history>>
<1> USE DEF NextPage, NextPass, Finish, Fail
<1>1. repos' = <<>> \/ repos' = repos \o Kept
  BY DEF ListStep
<1>2. repos' \in Seq(Entry)
  <2>1. Kept \in Seq(Entry) /\ repos \in Seq(Entry)
    BY KeptPaths DEF Typed
  <2>2. \A a, b \in Seq(Entry) : a \o b \in Seq(Entry)
    OBVIOUS
  <2>3. repos \o Kept \in Seq(Entry) /\ <<>> \in Seq(Entry)
    BY <2>1, <2>2
  <2> HIDE DEF NextPage, NextPass, Finish, Fail
  <2> QED BY <1>1, <2>3, Zenon
<1>3. ToSet(repos') \subseteq Entry
  BY <1>2, ElementOfSeq DEF ToSet
<1>4. UNCHANGED <<forge, state, history>>
  BY DEF ListStep
<1>5. pc' \in {"fetch", "returned", "failed"} /\ page' \in Nat \ {0} /\ pass' \in BOOLEAN
  <2>1. page \in Nat \ {0} /\ pass \in BOOLEAN
    BY DEF Typed, PruningTypeOK, TypeOK
  <2>2. pc' = "fetch" \/ pc' = "returned" \/ pc' = "failed"
    BY DEF ListStep
  <2>3. page' = page + 1 \/ page' = 1 \/ page' = page
    BY DEF ListStep
  <2>4. pass' = pass \/ pass' = TRUE
    BY Zenon DEF ListStep
  <2> HIDE DEF NextPage, NextPass, Finish, Fail
  <2>5. page' \in Nat \ {0}
    BY <2>1, <2>3
  <2>6. pass' \in BOOLEAN
    BY <2>1, <2>4, Zenon
  <2> QED BY <2>2, <2>5, <2>6
<1>6. Passes'
  BY <1>4 DEF ListStep, Typed, Passes, forge
<1> QED BY <1>2, <1>3, <1>4, <1>5, <1>6 DEF Typed, PruningTypeOK, TypeOK, forge, history, Here

LEMMA ReportedTyped == ASSUME Typed
                       PROVE  /\ Reported \subseteq Backups
                              /\ \A b \in Reported : b.wiki => kind = "gitlab"
                              /\ \A b \in Reported : b.path \in Listed
                              /\ \A p : Repository(p) \in Reported <=> p \in Listed
                              /\ \A p : Wiki(p) \in Reported <=>
                                          p \in Listed /\ kind = "gitlab" /\ p \in Wikis \ barred
<1>1. Listed \subseteq Paths
  <2>1. \A i \in DOMAIN repos : repos[i] \in Entry
    BY ElementOfSeq DEF Typed
  <2> QED BY <2>1 DEF Listed, Entry
<1>2. Reported = {Repository(p) : p \in Listed}
                   \cup {Wiki(p) : p \in {q \in Listed : kind = "gitlab" /\ q \in Wikis \ barred}}
  BY DEF Reported, Listed
<1>3. \A p : Repository(p).path = p /\ Repository(p).wiki = FALSE /\ Wiki(p).path = p /\ Wiki(p).wiki = TRUE
  BY DEF Repository, Wiki
<1>4. \A p, q : Repository(p) # Wiki(q)
  BY <1>3
<1>5. \A p, q : (Repository(p) = Repository(q) => p = q) /\ (Wiki(p) = Wiki(q) => p = q)
  BY <1>3
<1>6. Reported \subseteq Backups
  BY <1>1, <1>2 DEF Backups
<1>7. \A b \in Reported : (b.wiki => kind = "gitlab") /\ b.path \in Listed
  BY <1>2, <1>3
<1>8. \A p : Repository(p) \in Reported <=> p \in Listed
  BY <1>2, <1>4, <1>5
<1>9. \A p : Wiki(p) \in Reported <=> p \in Listed /\ kind = "gitlab" /\ p \in Wikis \ barred
  BY <1>2, <1>4, <1>5
<1> QED BY <1>6, <1>7, <1>8, <1>9

\* What a change of the forge does to the list of its repositories.
LEMMA Created ==
  ASSUME Typed, NEW p \in Paths, Create(p)
  PROVE  /\ order' \in Lists /\ Here' = Here \cup {p} /\ p \notin Here /\ p \notin arch
         /\ \A q, r \in Here : PlaceIn(order', q) <= PlaceIn(order', r)
                                 <=> PlaceIn(order, q) <= PlaceIn(order, r)
<1>1. PICK i \in 1..Len(order) + 1 : order' = InsertAt(order, i, p)
  BY DEF Create
<1>2. p \notin ToSet(order) /\ order \in Lists
  BY DEF Create, Here, Typed
<1>3. /\ order' \in Lists /\ ToSet(order') = ToSet(order) \cup {p}
      /\ \A q, r \in ToSet(order) : PlaceIn(order', q) <= PlaceIn(order', r)
                                      <=> PlaceIn(order, q) <= PlaceIn(order, r)
  BY <1>1, <1>2, Inserted
<1> QED BY <1>2, <1>3 DEF Here, Typed, PruningTypeOK, TypeOK

LEMMA Deleted ==
  ASSUME Typed, NEW p \in Paths, Delete(p)
  PROVE  /\ order' \in Lists /\ Here' = Here \ {p}
         /\ \A q, r \in Here' : PlaceIn(order', q) <= PlaceIn(order', r)
                                  <=> PlaceIn(order, q) <= PlaceIn(order, r)
<1>1. p \in ToSet(order) /\ order \in Lists /\ order' = RemoveAt(order, PlaceIn(order, p))
  BY DEF Delete, Here, Typed, Place, PlaceIn
<1>2. /\ order' \in Lists /\ ToSet(order') = ToSet(order) \ {p}
      /\ \A q, r \in ToSet(order') : PlaceIn(order', q) <= PlaceIn(order', r)
                                      <=> PlaceIn(order, q) <= PlaceIn(order, r)
  BY <1>1, Removed
<1> QED BY <1>2 DEF Here

LEMMA ChangesTyped == ASSUME Typed, Changes PROVE Typed'
<1>1. PICK p \in Paths : Create(p) \/ Delete(p) \/ ToggleArchived(p)
  BY DEF Changes, ForgeChanges
<1>2. /\ order' \in Lists /\ ToSet(order') \subseteq Paths /\ arch' \subseteq Here'
      /\ steady' \subseteq Here' /\ lasting' \subseteq Here'
      /\ shrunk' \in BOOLEAN /\ grown' \in BOOLEAN
  <2>1. CASE Create(p)
    <3>1. order' \in Lists /\ Here' = Here \cup {p}
      BY <2>1, Created
    <3> QED BY <2>1, <3>1 DEF Create, Changes, Typed, PruningTypeOK, TypeOK, Here
  <2>2. CASE Delete(p)
    <3>1. order' \in Lists /\ Here' = Here \ {p}
      BY <2>2, Deleted
    <3> QED BY <2>2, <3>1 DEF Delete, Changes, Typed, PruningTypeOK, TypeOK, Here
  <2>3. CASE ToggleArchived(p)
    BY <2>3 DEF ToggleArchived, Changes, Typed, PruningTypeOK, TypeOK, Here
  <2> QED BY <1>1, <2>1, <2>2, <2>3
<1>3. budget' \in 0..MaxEvents
  BY <1>1, Bounds DEF Create, Delete, ToggleArchived, Event, Typed, PruningTypeOK, TypeOK
<1>4. UNCHANGED <<kind, skipMirrors, client, disk, barred, stage, opts, selected, stale, torn>>
  BY <1>1 DEF Create, Delete, ToggleArchived, Changes
<1> QED BY <1>2, <1>3, <1>4 DEF Typed, PruningTypeOK, TypeOK, Passes, Staged, client

LEMMA TypedNext == Typed /\ [PruningNext]_prunevars => Typed'
<1> SUFFICES ASSUME Typed, [PruningNext]_prunevars PROVE Typed'
  OBVIOUS
<1> USE DEF Typed, PruningTypeOK
<1>1. CASE Changes
  BY <1>1, ChangesTyped
<1>2. CASE SwitchSkipMirrors
  <2>1. budget' \in 0..MaxEvents /\ skipMirrors' \in BOOLEAN
    BY <1>2, Bounds DEF SwitchSkipMirrors, Event, TypeOK
  <2> QED BY <1>2, <2>1 DEF SwitchSkipMirrors, TypeOK, Passes, Staged, client, history, run, Here
<1>3. ASSUME NEW p \in Wikis, SwitchRights(p) PROVE Typed'
  <2>1. budget' \in 0..MaxEvents /\ barred' \subseteq Wikis
    BY <1>3, Bounds DEF SwitchRights, Event, TypeOK
  <2> QED BY <1>3, <2>1 DEF SwitchRights, TypeOK, Passes, Staged, client, history, Here
<1>4. CASE Start
  <2>1. TypeOK' /\ Passes' /\ repos' \in Seq(Entry)
    BY <1>4, BeginTyped DEF Start
  <2>2. UNCHANGED <<forge, disk, barred, torn>> /\ pc' = "fetch" /\ state' \in States
    BY <1>4 DEF Start, Begin
  <2>3. PICK b \in BOOLEAN : opts' = [state |-> state', prune |-> b]
    BY <1>4 DEF Start
  <2>4. opts' \in RunOptions /\ opts'.state = state'
    BY <2>2, <2>3 DEF RunOptions
  <2> QED BY <1>4, <2>1, <2>2, <2>4 DEF Start, Staged, forge, Here, Stages
<1>5. CASE Fetch
  <2>1. TypeOK' /\ Passes' /\ repos' \in Seq(Entry) /\ pc' # "idle" /\ UNCHANGED <<forge, state, history>>
    BY <1>5, ListStepTyped DEF Fetch
  <2> QED BY <1>5, <2>1 DEF Fetch, Staged, forge, history, run, Here
<1>6. CASE Relist
  <2>1. TypeOK' /\ Passes' /\ repos' \in Seq(Entry)
    BY <1>6, BeginTyped DEF Relist
  <2>2. UNCHANGED <<forge, disk, barred, torn, opts, stale, lasting>> /\ pc' = "fetch" /\ state' = "all"
    BY <1>6 DEF Relist, Begin
  <2>3. selected' \subseteq Backups /\ \A b \in selected' : b.wiki => kind = "gitlab"
    BY <1>6, ReportedTyped DEF Relist
  <2> QED BY <1>6, <2>1, <2>2, <2>3 DEF Relist, Staged, forge, Here, Stages
<1>7. CASE Scan
  <2>1. selected' \subseteq Backups /\ \A b \in selected' : b.wiki => kind = "gitlab"
    BY <1>7, ReportedTyped DEF Scan
  <2>2. stale' \subseteq disk /\ torn' \in BOOLEAN
    BY <1>7 DEF Scan, TypeOK
  <2> QED BY <1>7, <2>1, <2>2 DEF Scan, Staged, vars, forge, client, history, TypeOK, Passes, Stages, Here
<1>8. ASSUME Return, disk' \subseteq disk PROVE Typed'
  <2>1. repos' \in Seq(Entry) /\ ToSet(repos') \subseteq Entry
    BY <1>8 DEF Return, ToSet
  <2>2. TypeOK'
    <3>1. pc' = "idle" /\ state' = "all" /\ page' = 1 /\ steady' = {} /\ UNCHANGED forge
      BY <1>8, Zenon DEF Return
    <3>2. pass' = FALSE /\ shrunk' = FALSE /\ grown' = FALSE
      BY <1>8, Zenon DEF Return
    <3>3. TypeOK /\ UNCHANGED <<kind, skipMirrors, order, arch, budget>>
      BY <3>1 DEF forge
    <3>4. pass' \in BOOLEAN /\ shrunk' \in BOOLEAN /\ grown' \in BOOLEAN
      BY <3>2
    <3> HIDE DEF Typed, PruningTypeOK
    <3> QED BY <2>1, <3>1, <3>3, <3>4 DEF TypeOK, Here, States
  <2> QED BY <1>8, <2>1, <2>2 DEF Return, forge, Here, Passes, Staged, Stages, RunOptions, NoOptions, States
<1>9. CASE Abort
  BY <1>8, <1>9 DEF Abort
<1>10. CASE Sync
  <2>1. PICK done \in SUBSET {b \in selected : b.path \in Here} : disk' = disk \cup done
    BY <1>10 DEF Sync
  <2>2. disk' \subseteq Backups /\ stale' \subseteq disk' /\ \A b \in disk' : b.wiki => kind = "gitlab"
    BY <1>10, <2>1 DEF Sync
  <2> QED BY <1>10, <2>2 DEF Sync, Staged, vars, forge, client, history, TypeOK, Passes, Stages, Here
<1>11. CASE Prune
  <2>1. disk' \subseteq disk
    BY <1>11 DEF Prune
  <2> QED BY <1>8, <1>11, <2>1 DEF Prune
<1>12. CASE UNCHANGED prunevars
  BY <1>12 DEF prunevars, vars, forge, client, history, run, TypeOK, Passes, Staged, Here
<1> QED BY <1>1, <1>2, <1>3, <1>4, <1>5, <1>6, <1>7, <1>9, <1>10, <1>11, <1>12 DEF PruningNext

LEMMA TypedAlways == PruningSpec => []Typed
<1> QED BY TypedInit, TypedNext, PTL DEF PruningSpec

\* The variables stay in their ranges: the listing keeps its lists without repetition, and
\* what is stale is in the tree (Listing's client, and run.go's Run).
THEOREM TypeCorrect == PruningSpec => []PruningTypeOK
<1>1. Typed => PruningTypeOK
  BY DEF Typed
<1> QED BY <1>1, TypedAlways, PTL

-----------------------------------------------------------------------------
(* The pages of a list, and what a change of the forge does to them.          *)

\* the entries before the page that a listing is at, and what it keeps of that page
Before == (page - 1) * PageSize
Fresh == {p \in Entries : Keeps(p)}

LEMMA PageBounds == ASSUME Typed
                    PROVE  /\ Before \in Nat /\ PageSize \in Nat \ {0} /\ page \in Nat \ {0}
                           /\ page * PageSize = Before + PageSize
                           /\ page = 1 => Before = 0
<1>1. page \in Nat \ {0} /\ PageSize \in Nat \ {0}
  BY Bounds DEF Typed, PruningTypeOK, TypeOK
<1>2. \A m \in Nat \ {0}, n \in Nat \ {0} : (m - 1) * n \in Nat /\ m * n = (m - 1) * n + n
  OBVIOUS
<1>3. 0 * PageSize = 0
  BY <1>1
<1> QED BY <1>1, <1>2, <1>3 DEF Before

LEMMA MatchingRanks ==
  ASSUME Typed
  PROVE  /\ Matching \in SUBSET ToSet(order) /\ Matching \subseteq Here
         /\ IsFiniteSet(Matching) /\ Cardinality(Matching) \in Nat
         /\ \A p \in Matching : Rank(Matching, p) \in 1..Cardinality(Matching)
         /\ \A p \in Here : Rank(Matching, p) \in Nat
         /\ \A p, q \in Matching : Rank(Matching, p) < Rank(Matching, q) => PlaceIn(order, p) < PlaceIn(order, q)
<1>1. order \in Lists /\ Matching \in SUBSET ToSet(order)
  BY DEF Typed, Matching, Here
<1>2. IsFiniteSet(Matching) /\ Cardinality(Matching) \in Nat
  BY <1>1, ListFinite
<1>3. \A p : Rank(Matching, p) = RankIn(order, Matching, p)
  BY ForgeOrder
<1>4. \A p \in Here : Rank(Matching, p) \in Nat
  <2>1. \A p : {q \in Matching : PlaceIn(order, q) <= PlaceIn(order, p)} \in SUBSET ToSet(order)
    BY <1>1
  <2> QED BY <1>1, <1>3, <2>1, ListFinite DEF RankIn
<1> QED BY <1>1, <1>2, <1>3, <1>4, Ranks DEF Here

LEMMA PageEntries ==
  ASSUME Typed
  PROVE  /\ \A p \in Matching : p \in Entries <=> Rank(Matching, p) > Before
                                                    /\ Rank(Matching, p) <= page * PageSize
         /\ Entries \subseteq Matching /\ Fresh \subseteq Entries
<1>1. \A p \in Matching : Rank(Matching, p) \in Nat
  BY MatchingRanks
<1>2. Before \in Nat /\ PageSize \in Nat /\ page * PageSize = Before + PageSize
  BY PageBounds
<1>3. Entries = {p \in Matching : Rank(Matching, p) \in Before + 1..Before + PageSize}
  BY <1>2 DEF Entries, Before
<1> QED BY <1>1, <1>2, <1>3 DEF Fresh

LEMMA LastEntries == ASSUME Typed, LastPage
                     PROVE  \A p \in Matching : Rank(Matching, p) <= page * PageSize
<1>1. Cardinality(Matching) \in Nat /\ \A p \in Matching : Rank(Matching, p) \in 1..Cardinality(Matching)
  BY MatchingRanks
<1>2. Before \in Nat /\ PageSize \in Nat \ {0} /\ page * PageSize = Before + PageSize
  BY PageBounds
<1>3. Cardinality(Matching) <= Before + PageSize
  <2>1. CASE kind = "gitlab"
    BY <1>1, <1>2, <2>1 DEF LastPage, HasNext
  <2>2. CASE kind # "gitlab"
    <3>1. Entries = {p \in Matching : RankIn(order, Matching, p) \in Before + 1..Before + PageSize}
      BY <1>2, ForgeOrder DEF Entries, Before
    <3>2. order \in Lists /\ Matching \in SUBSET ToSet(order)
      BY MatchingRanks DEF Typed
    <3>3. Cardinality(Entries) < PageSize
      BY <2>2 DEF LastPage
    <3>4. Cardinality(Entries) \in Nat
      BY <3>1, <3>2, ListFinite
    <3>5. Cardinality(Matching) >= Before + PageSize => Cardinality(Entries) >= PageSize
      BY <1>2, <3>1, <3>2, FullPage
    <3> QED BY <1>1, <1>2, <3>3, <3>4, <3>5
  <2> QED BY <2>1, <2>2
<1> QED BY <1>1, <1>2, <1>3

\* A request leaves the list as it is.
LEMMA SameList ==
  ASSUME UNCHANGED <<kind, order, arch, state, pass>>
  PROVE  /\ \A p : Matches(p)' = Matches(p)
         /\ Matching' = Matching /\ Here' = Here
         /\ \A p : Rank(Matching, p)' = Rank(Matching, p)
         /\ \A p : WantsState(p \in arch)' = WantsState(p \in arch)
<1>1. \A p : Matches(p)' = Matches(p) /\ WantsState(p \in arch)' = WantsState(p \in arch)
  BY DEF Matches, WantsState
<1>2. Here' = Here
  BY DEF Here
<1>3. Matching' = Matching
  BY <1>1, <1>2 DEF Matching
<1>4. \A p : Place(p)' = Place(p)
  BY DEF Place
<1> QED BY <1>1, <1>2, <1>3, <1>4 DEF Rank

\* A new repository moves the others back, never forward.
LEMMA CreateShifts ==
  ASSUME Typed, NEW p \in Paths, Create(p)
  PROVE  /\ \A q \in Here : Matches(q)' = Matches(q) /\ Rank(Matching, q) <= Rank(Matching, q)'
                            /\ Rank(Matching, q) \in Nat /\ Rank(Matching, q)' \in Nat
         /\ Here \subseteq Here' /\ Here' \ Here = {p}
<1>1. /\ order' \in Lists /\ Here' = Here \cup {p} /\ p \notin Here
      /\ \A q, r \in Here : PlaceIn(order', q) <= PlaceIn(order', r)
                              <=> PlaceIn(order, q) <= PlaceIn(order, r)
  BY Created
<1>2. \A q : Matches(q)' = Matches(q)
  BY DEF Create, client, Matches, WantsState
<1>3. Matching \subseteq Matching' /\ Matching' \in SUBSET ToSet(order')
  BY <1>1, <1>2 DEF Matching, Here
<1>4. order \in Lists /\ Matching \in SUBSET ToSet(order)
  BY MatchingRanks DEF Typed
<1>5. ASSUME NEW q \in Here
      PROVE  /\ RankIn(order, Matching, q) <= RankIn(order', Matching', q)
             /\ RankIn(order, Matching, q) \in Nat /\ RankIn(order', Matching', q) \in Nat
  <2>1. \A r \in Matching : PlaceIn(order, r) <= PlaceIn(order, q) => PlaceIn(order', r) <= PlaceIn(order', q)
    BY <1>1 DEF Matching
  <2> QED BY <1>1, <1>3, <1>4, <2>1, RankGrows
<1>6. \A q : Rank(Matching, q) = RankIn(order, Matching, q) /\ Rank(Matching, q)' = RankIn(order', Matching', q)
  BY DEF Rank, RankIn, Place, PlaceIn
<1> QED BY <1>1, <1>2, <1>5, <1>6

\* One that is deleted moves them forward, never back.
LEMMA DeleteShifts ==
  ASSUME Typed, NEW p \in Paths, Delete(p)
  PROVE  /\ \A q \in Here' : Matches(q)' = Matches(q) /\ Rank(Matching, q)' <= Rank(Matching, q)
                             /\ Rank(Matching, q) \in Nat /\ Rank(Matching, q)' \in Nat
                             /\ (q \in arch)' = (q \in arch)
         /\ Here' = Here \ {p}
<1>1. /\ order' \in Lists /\ Here' = Here \ {p}
      /\ \A q, r \in Here' : PlaceIn(order', q) <= PlaceIn(order', r)
                               <=> PlaceIn(order, q) <= PlaceIn(order, r)
  BY Deleted
<1>2. \A q \in Here' : (q \in arch)' = (q \in arch)
  BY <1>1 DEF Delete
<1>3. \A q \in Here' : Matches(q)' = Matches(q)
  BY <1>2 DEF Delete, client, Matches, WantsState
<1>4. Matching' \subseteq Matching /\ Matching' \in SUBSET ToSet(order')
  BY <1>1, <1>3 DEF Matching, Here
<1>5. order \in Lists /\ Matching \in SUBSET ToSet(order)
  BY MatchingRanks DEF Typed
<1>6. ASSUME NEW q \in Here'
      PROVE  /\ RankIn(order', Matching', q) <= RankIn(order, Matching, q)
             /\ RankIn(order, Matching, q) \in Nat /\ RankIn(order', Matching', q) \in Nat
  <2>1. \A r \in Matching' : PlaceIn(order', r) <= PlaceIn(order', q) => PlaceIn(order, r) <= PlaceIn(order, q)
    BY <1>1 DEF Matching
  <2> QED BY <1>1, <1>4, <1>5, <2>1, RankGrows
<1>7. \A q : Rank(Matching, q) = RankIn(order, Matching, q) /\ Rank(Matching, q)' = RankIn(order', Matching', q)
  BY DEF Rank, RankIn, Place, PlaceIn
<1> QED BY <1>1, <1>2, <1>3, <1>6, <1>7

\* Archiving moves nothing in a list that the server does not filter.
LEMMA ToggleShifts ==
  ASSUME Typed, NEW p \in Paths, ToggleArchived(p), ~Filtered
  PROVE  /\ \A q : Matches(q)' = Matches(q) /\ Matches(q) /\ Rank(Matching, q)' = Rank(Matching, q)
         /\ Here' = Here /\ kind # "gitlab"
<1>1. kind \in Kinds
  BY DEF Typed, PruningTypeOK, TypeOK
<1>2. \A q : Matches(q)' = TRUE /\ Matches(q) = TRUE
  BY <1>1 DEF Filtered, ToggleArchived, client, Matches, WantsState, Kinds
<1>3. Here' = Here
  BY DEF ToggleArchived, Here
<1>4. Matching' = Matching
  BY <1>2, <1>3 DEF Matching
<1>5. \A q : Place(q)' = Place(q)
  BY DEF ToggleArchived, Place
<1> QED BY <1>2, <1>3, <1>4, <1>5 DEF Rank, Filtered

-----------------------------------------------------------------------------
(* What a listing has found, and what it has yet to come to.                  *)

Hidden(p) == skipMirrors /\ p \in Mirrors

\* what a listing through which nothing leaves its lists must find: what the caller wants
\* and did not change, and in a StateAll listing whatever has been there all the time
Owed(p) == /\ WantsState(p \in arch) /\ ~Hidden(p)
           /\ p \in steady \/ (state = "all" /\ (p \in lasting \/ ~grown))

\* a path on a page yet to come, and one on a page already read
Ahead(p) == \/ Matches(p) /\ Rank(Matching, p) > Before
            \/ kind = "gitlab" /\ ~pass /\ p \in arch
Behind(p) == \/ Matches(p) /\ Rank(Matching, p) <= Before
             \/ kind = "gitlab" /\ pass /\ p \notin arch

Found == pc \in {"fetch", "returned"} /\ ~shrunk =>
           \A p \in Here : Owed(p) => p \in Listed \/ (pc = "fetch" /\ Ahead(p))

Present == pc \in {"fetch", "returned"} /\ ~shrunk =>
             \A p \in Listed : p \in Here /\ ~Hidden(p)

Once == \A i, j \in 1..Len(repos) : repos[i].path = repos[j].path => i = j
Apart == pc \in {"fetch", "returned"} /\ ~grown =>
           Once /\ (pc = "fetch" => \A p \in Listed \cap Here : Behind(p))

Judged == stage \in {"work", "prune"} =>
            \A b \in stale : b.path \in lasting => torn \/ LeftOut(b)

LEMMA ListedAfter ==
  ASSUME Typed, repos' = repos \o Kept
  PROVE  /\ Listed' = Listed \cup Fresh /\ Fresh \subseteq Matching
         /\ Once /\ Listed \cap Fresh = {} => Once'
<1> DEFINE names == Sorted(order, Fresh)
           c == Cardinality(Fresh)
<1>1. /\ Fresh \in SUBSET ToSet(order) /\ Kept = Seen(names) /\ names \in Seq(Paths)
      /\ Kept \in Seq(Entry) /\ repos \in Seq(Entry) /\ order \in Lists /\ Fresh \subseteq Matching
  BY KeptPaths, PageEntries DEF Typed, Fresh
<1>2. /\ Len(names) = c /\ c \in Nat /\ \A k \in 1..c : names[k] \in Fresh
      /\ \A p \in Fresh : RankIn(order, Fresh, p) \in 1..c /\ names[RankIn(order, Fresh, p)] = p
      /\ \A j, k \in 1..c : names[j] = names[k] => j = k
  BY <1>1, SortedPlaces, Ranks
<1> HIDE DEF names, c
<1>3. Len(Kept) = c /\ \A k \in 1..c : Kept[k].path = names[k]
  <2>1. /\ Len(Kept) = Len(names)
        /\ \A k \in 1..Len(names) : Kept[k] = [path |-> names[k], archived |-> names[k] \in arch]
    BY <1>1, SeenPaths
  <2> QED BY <1>2, <2>1
<1> DEFINE m == Len(repos)
           r == repos'
<1>4. m \in Nat /\ Len(repos \o Kept) = m + c
      /\ \A k \in 1..m + c : (repos \o Kept)[k] = IF k <= m THEN repos[k] ELSE Kept[k - m]
  <2>1. /\ m \in Nat /\ Len(repos \o Kept) = m + Len(Kept)
        /\ \A k \in 1..m + Len(Kept) : (repos \o Kept)[k] = IF k <= m THEN repos[k] ELSE Kept[k - m]
    BY <1>1, ConcatProperties
  <2> QED BY <1>3, <2>1
<1>5. r \in Seq(Entry) /\ Len(r) = m + c /\ DOMAIN r = 1..m + c /\ DOMAIN repos = 1..m
  <2>1. r \in Seq(Entry) /\ Len(r) = m + c
    BY <1>1, <1>4
  <2> QED BY <1>1, <2>1
<1>6. \A k \in 1..m : k \in 1..m + c /\ r[k] = repos[k]
  BY <1>2, <1>4
<1>7. ASSUME NEW k \in 1..m + c, ~(k <= m) PROVE k - m \in 1..c /\ r[k].path = names[k - m]
  BY <1>2, <1>3, <1>4, <1>7
<1>8. \A k \in 1..c : m + k \in 1..m + c /\ r[m + k].path = names[k]
  <2> SUFFICES ASSUME NEW k \in 1..c PROVE m + k \in 1..m + c /\ r[m + k].path = names[k]
    OBVIOUS
  <2>1. m + k \in 1..m + c /\ ~(m + k <= m) /\ (m + k) - m = k
    BY <1>2, <1>4
  <2>2. r[m + k].path = names[(m + k) - m]
    BY <1>7, <2>1
  <2> QED BY <2>1, <2>2
<1>9. Listed' = {r[k].path : k \in 1..m + c} /\ Listed = {repos[k].path : k \in 1..m}
  BY <1>5 DEF Listed
<1> HIDE DEF r, m
<1>10. Listed' = Listed \cup Fresh
  <2>1. \A k \in 1..m + c : r[k].path \in Listed \cup Fresh
    BY <1>2, <1>4, <1>6, <1>7, <1>9
  <2>2. Listed \subseteq Listed'
    BY <1>6, <1>9
  <2>3. \A p \in Fresh : p \in Listed'
    BY <1>2, <1>8, <1>9
  <2> QED BY <1>9, <2>1, <2>2, <2>3
<1>11. ASSUME Once, Listed \cap Fresh = {} PROVE Once'
  <2>1. \A i, j \in 1..m : repos[i].path = repos[j].path => i = j
    BY <1>11 DEF Once, m
  <2>2. ASSUME NEW i \in 1..m + c, NEW j \in 1..m + c, r[i].path = r[j].path PROVE i = j
    <3>1. CASE i <= m /\ j <= m
      <4>1. i \in 1..m /\ j \in 1..m
        BY <1>2, <1>4, <3>1
      <4> QED BY <1>6, <2>1, <2>2, <4>1
    <3>2. CASE ~(i <= m) /\ ~(j <= m)
      <4>1. i - m = j - m
        BY <1>2, <1>7, <2>2, <3>2
      <4> QED BY <1>2, <1>4, <4>1
    <3>3. ASSUME NEW k \in 1..m + c, NEW l \in 1..m + c, k <= m, ~(l <= m) PROVE r[k].path # r[l].path
      <4>1. k \in 1..m
        BY <1>2, <1>4, <3>3
      <4>2. r[k].path \in Listed
        BY <1>6, <1>9, <4>1
      <4>3. r[l].path \in Fresh
        BY <1>2, <1>7, <3>3
      <4> QED BY <1>11, <4>2, <4>3
    <3> QED BY <2>2, <3>1, <3>2, <3>3
  <2> QED BY <1>5, <2>2 DEF Once, r
<1> QED BY <1>1, <1>10, <1>11

LEMMA FirstRank == ASSUME Typed, UNCHANGED order
                   PROVE  \A p \in Matching' : Rank(Matching, p)' \in Nat /\ Rank(Matching, p)' > 0
<1>1. order' \in Lists /\ Matching' \in SUBSET ToSet(order')
  BY DEF Typed, Matching, Here
<1>2. \A p : Rank(Matching, p)' = RankIn(order', Matching', p)
  BY DEF Rank, RankIn, Place, PlaceIn
<1>3. Cardinality(Matching') \in Nat
  BY <1>1, ListFinite
<1>4. \A p \in Matching' : RankIn(order', Matching', p) \in 1..Cardinality(Matching')
  BY <1>1, Ranks
<1> QED BY <1>2, <1>3, <1>4

LEMMA NothingFound == repos = <<>> => Listed = {} /\ Once
  BY DEF Listed, Once

LEMMA BeginFinds == ASSUME Typed, Begin PROVE Found' /\ Present' /\ Apart'
<1>1. UNCHANGED <<kind, order, arch, skipMirrors>> /\ page' = 1 /\ repos' = <<>> /\ pc' = "fetch"
      /\ pass' = (kind = "gitlab" /\ state' = "archived") /\ kind \in Kinds
  BY DEF Begin, forge, Typed, PruningTypeOK, TypeOK
<1>2. Listed' = {} /\ Once'
  BY <1>1 DEF Listed, Once
<1>3. Before' = 0
  <2>1. (1 - 1) * PageSize = 0
    BY Bounds
  <2> QED BY <1>1, <2>1 DEF Before
<1>4. ASSUME NEW p \in Here', WantsState(p \in arch)' PROVE Ahead(p)'
  <2>1. Matches(p)' \/ (kind' = "gitlab" /\ ~pass' /\ p \in arch')
    <3>1. CASE kind = "gitlab" /\ state' = "archived"
      <4>1. pass' = TRUE /\ p \in arch'
        BY <1>1, <1>4, <3>1 DEF WantsState
      <4> QED BY <1>1, <3>1, <4>1 DEF Matches
    <3>2. CASE kind = "gitlab" /\ state' # "archived"
      <4>1. pass' = FALSE
        BY <1>1, <3>2
      <4> QED BY <1>1, <3>2, <4>1 DEF Matches
    <3>3. CASE kind # "gitlab"
      BY <1>1, <1>4, <3>3 DEF Matches, Kinds
    <3> QED BY <3>1, <3>2, <3>3
  <2>2. Matches(p)' => p \in Matching'
    BY DEF Matching
  <2> QED BY <1>1, <1>3, <2>1, <2>2, FirstRank DEF Ahead
<1>5. Found'
  BY <1>1, <1>4 DEF Found, Owed
<1> QED BY <1>2, <1>5 DEF Present, Apart

\* what a page keeps are what the listing is to find among its entries
LEMMA OwedKept == ASSUME Typed, NEW p \in Here, Owed(p) PROVE Keeps(p)
  BY DEF Owed, Keeps, Hidden, WantsState, Typed

LEMMA KeptShown == ASSUME Typed, NEW p, Keeps(p) PROVE ~Hidden(p)
  BY DEF Keeps, Hidden, Typed

LEMMA NextPageFinds == ASSUME Typed, Found, Present, Apart, NextPage, UNCHANGED run
                       PROVE  Found' /\ Present' /\ Apart'
<1>1. /\ UNCHANGED <<kind, order, arch, skipMirrors, pc, state, pass, steady, shrunk, grown, lasting>>
      /\ pc = "fetch" /\ page' = page + 1 /\ repos' = repos \o Kept
  BY DEF NextPage, forge, history, run
<1>2. /\ \A p : Matches(p)' = Matches(p) /\ Matching' = Matching /\ Here' = Here
      /\ \A p : Rank(Matching, p)' = Rank(Matching, p)
      /\ \A p : WantsState(p \in arch)' = WantsState(p \in arch)
  BY <1>1, SameList
<1>3. Listed' = Listed \cup Fresh /\ Fresh \subseteq Matching /\ (Once /\ Listed \cap Fresh = {} => Once')
  BY <1>1, ListedAfter
<1>4. Before' = Before + PageSize /\ Before \in Nat /\ PageSize \in Nat \ {0}
  <2>1. Before \in Nat /\ page * PageSize = Before + PageSize /\ page \in Nat \ {0} /\ PageSize \in Nat \ {0}
    BY PageBounds
  <2>2. page + 1 - 1 = page
    BY <2>1
  <2> QED BY <1>1, <2>1, <2>2 DEF Before
<1>5. \A p \in Matching : p \in Entries <=> Rank(Matching, p) > Before /\ Rank(Matching, p) <= Before'
  BY <1>4, PageEntries, PageBounds
<1>6. \A p \in Here : Rank(Matching, p) \in Nat
  BY MatchingRanks
<1>7. \A p : (Owed(p)' <=> Owed(p)) /\ (Hidden(p)' <=> Hidden(p))
  BY <1>1, <1>2 DEF Owed, Hidden
<1>8. Found'
  <2> SUFFICES ASSUME ~shrunk, NEW p \in Here, Owed(p) PROVE p \in Listed' \/ Ahead(p)'
    BY <1>1, <1>2, <1>7 DEF Found
  <2>1. p \in Listed \/ Ahead(p)
    BY <1>1 DEF Found
  <2>2. CASE p \in Matching /\ Rank(Matching, p) > Before
    <3>1. Keeps(p)
      BY OwedKept
    <3>2. p \in Fresh \/ Rank(Matching, p) > Before'
      BY <1>4, <1>5, <1>6, <2>2, <3>1 DEF Fresh
    <3> QED BY <1>2, <1>3, <2>2, <3>2 DEF Ahead, Matching
  <2>3. CASE kind = "gitlab" /\ ~pass /\ p \in arch
    BY <1>1, <2>3 DEF Ahead
  <2> QED BY <1>3, <2>1, <2>2, <2>3 DEF Ahead, Matching
<1>9. Present'
  <2>1. \A p \in Fresh : p \in Here /\ ~Hidden(p)
    BY <1>3, KeptShown, MatchingRanks DEF Fresh
  <2> QED BY <1>1, <1>2, <1>3, <1>7, <2>1 DEF Present
<1>10. ASSUME ~grown PROVE Once' /\ \A p \in Listed' \cap Here' : Behind(p)'
  <2>1. Once /\ \A p \in Listed \cap Here : Behind(p)
    BY <1>1, <1>10 DEF Apart
  <2>2. \A p \in Fresh : p \in Here /\ Matches(p) /\ Rank(Matching, p) > Before /\ Rank(Matching, p) <= Before'
    BY <1>3, <1>5, PageEntries, MatchingRanks DEF Matching
  <2>3. Listed \cap Fresh = {}
    <3> SUFFICES ASSUME NEW p \in Listed, p \in Fresh PROVE FALSE
      OBVIOUS
    <3>1. Behind(p) /\ Rank(Matching, p) \in Nat
      BY <1>6, <2>1, <2>2
    <3>2. ~(kind = "gitlab" /\ pass /\ p \notin arch)
      BY <2>2 DEF Matches
    <3> QED BY <1>4, <2>2, <3>1, <3>2 DEF Behind
  <2>4. \A p \in Listed \cap Here : Behind(p)'
    BY <1>1, <1>2, <1>4, <1>6, <2>1 DEF Behind
  <2>5. \A p \in Fresh : Behind(p)'
    BY <1>2, <2>2 DEF Behind
  <2> QED BY <1>2, <1>3, <2>1, <2>3, <2>4, <2>5
<1> QED BY <1>1, <1>8, <1>9, <1>10 DEF Apart

LEMMA NextPassFinds == ASSUME Typed, Found, Present, Apart, NextPass, UNCHANGED run
                       PROVE  Found' /\ Present' /\ Apart'
<1>1. /\ UNCHANGED <<kind, order, arch, skipMirrors, pc, state, steady, shrunk, grown, lasting>>
      /\ pc = "fetch" /\ page' = 1 /\ repos' = repos \o Kept /\ LastPage
      /\ kind = "gitlab" /\ state = "all" /\ ~pass /\ pass' = TRUE
  BY DEF NextPass, forge, history, run
<1>2. Here' = Here
  BY <1>1 DEF Here
<1>3. Listed' = Listed \cup Fresh /\ Fresh \subseteq Matching /\ (Once /\ Listed \cap Fresh = {} => Once')
  BY <1>1, ListedAfter
<1>4. Before' = 0
  <2>1. (1 - 1) * PageSize = 0
    BY Bounds
  <2> QED BY <1>1, <2>1 DEF Before
<1>5. \A p \in Matching : p \in Entries <=> Rank(Matching, p) > Before
  BY <1>1, LastEntries, PageEntries
<1>6. \A p \in Here : Rank(Matching, p) \in Nat
  BY MatchingRanks
<1>7. \A p : (Owed(p)' <=> Owed(p)) /\ (Hidden(p)' <=> Hidden(p))
  BY <1>1 DEF Owed, Hidden, WantsState
<1>8. \A p \in Here : (p \in Matching <=> p \notin arch) /\ (p \in Matching' <=> p \in arch)
  <2>1. pass = FALSE
    BY <1>1 DEF Typed, PruningTypeOK, TypeOK
  <2>2. \A p : Matches(p) = ((p \in arch) = FALSE)
    BY <1>1, <2>1 DEF Matches
  <2>3. \A p : Matches(p)' = ((p \in arch) = TRUE)
    BY <1>1 DEF Matches
  <2>4. \A p : (((p \in arch) = FALSE) <=> p \notin arch) /\ (((p \in arch) = TRUE) <=> p \in arch)
    BY Truth, Zenon
  <2>5. \A p : (Matches(p) <=> p \notin arch) /\ (Matches(p)' <=> p \in arch)
    BY <2>2, <2>3, <2>4, Zenon
  <2> QED BY <1>2, <2>5 DEF Matching
<1>9. Found'
  <2> SUFFICES ASSUME ~shrunk, NEW p \in Here, Owed(p) PROVE p \in Listed' \/ Ahead(p)'
    BY <1>1, <1>2, <1>7 DEF Found
  <2>1. p \in Listed \/ Ahead(p)
    BY <1>1 DEF Found
  <2>2. CASE p \in Matching /\ Rank(Matching, p) > Before
    <3>1. Keeps(p)
      BY OwedKept
    <3> QED BY <1>3, <1>5, <2>2, <3>1 DEF Fresh
  <2>3. CASE p \in arch
    <3>1. p \in Matching' /\ Rank(Matching, p)' > 0
      BY <1>1, <1>8, <2>3, FirstRank
    <3> QED BY <1>4, <3>1 DEF Ahead, Matching
  <2> QED BY <1>3, <2>1, <2>2, <2>3 DEF Ahead, Matching
<1>10. Present'
  <2>1. \A p \in Fresh : p \in Here /\ ~Hidden(p)
    BY <1>3, KeptShown, MatchingRanks DEF Fresh
  <2> QED BY <1>1, <1>2, <1>3, <1>7, <2>1 DEF Present
<1>11. ASSUME ~grown PROVE Once' /\ \A p \in Listed' \cap Here' : Behind(p)'
  <2>1. Once /\ \A p \in Listed \cap Here : Behind(p)
    BY <1>1, <1>11 DEF Apart
  <2>2. \A p \in Fresh : p \in Here /\ p \notin arch /\ Rank(Matching, p) > Before
    BY <1>3, <1>5, <1>8, PageEntries, MatchingRanks
  <2>3. Listed \cap Fresh = {}
    <3> SUFFICES ASSUME NEW p \in Listed, p \in Fresh PROVE FALSE
      OBVIOUS
    <3>1. Behind(p) /\ Rank(Matching, p) \in Nat /\ Before \in Nat
      BY <1>6, <2>1, <2>2, PageBounds
    <3> QED BY <1>1, <2>2, <3>1 DEF Behind
  <2>4. \A p \in Listed \cap Here : p \notin arch
    BY <1>1, <1>8, <2>1 DEF Behind, Matching
  <2> QED BY <1>1, <1>2, <1>3, <2>1, <2>2, <2>3, <2>4 DEF Behind
<1> QED BY <1>1, <1>9, <1>10, <1>11 DEF Apart

LEMMA FinishFinds == ASSUME Typed, Found, Present, Apart, Finish, UNCHANGED run
                     PROVE  Found' /\ Present' /\ Apart'
<1>1. /\ UNCHANGED <<kind, order, arch, skipMirrors, state, pass, page, steady, shrunk, grown, lasting>>
      /\ pc = "fetch" /\ pc' = "returned" /\ repos' = repos \o Kept /\ LastPage
      /\ ~(kind = "gitlab" /\ state = "all" /\ ~pass)
  BY DEF Finish, forge, history, run
<1>2. Here' = Here
  BY <1>1 DEF Here
<1>3. Listed' = Listed \cup Fresh /\ Fresh \subseteq Matching /\ (Once /\ Listed \cap Fresh = {} => Once')
  BY <1>1, ListedAfter
<1>4. \A p \in Matching : p \in Entries <=> Rank(Matching, p) > Before
  BY <1>1, LastEntries, PageEntries
<1>5. \A p : (Owed(p)' <=> Owed(p)) /\ (Hidden(p)' <=> Hidden(p))
  BY <1>1 DEF Owed, Hidden, WantsState
<1>6. Found'
  <2> SUFFICES ASSUME ~shrunk, NEW p \in Here, Owed(p) PROVE p \in Listed'
    BY <1>1, <1>2, <1>5 DEF Found
  <2>1. p \in Listed \/ Ahead(p)
    BY <1>1 DEF Found
  <2>2. CASE p \in Matching /\ Rank(Matching, p) > Before
    <3>1. Keeps(p)
      BY OwedKept
    <3> QED BY <1>3, <1>4, <2>2, <3>1 DEF Fresh
  <2>3. ~(kind = "gitlab" /\ ~pass /\ p \in arch)
    BY <1>1 DEF Owed, WantsState, Typed, Passes, PruningTypeOK, TypeOK, States
  <2> QED BY <1>3, <2>1, <2>2, <2>3 DEF Ahead, Matching
<1>7. Present'
  <2>1. \A p \in Fresh : p \in Here /\ ~Hidden(p)
    BY <1>3, KeptShown, MatchingRanks DEF Fresh
  <2> QED BY <1>1, <1>2, <1>3, <1>5, <2>1 DEF Present
<1>8. ASSUME ~grown PROVE Once'
  <2>1. Once /\ \A p \in Listed \cap Here : Behind(p)
    BY <1>1, <1>8 DEF Apart
  <2>2. Listed \cap Fresh = {}
    <3> SUFFICES ASSUME NEW p \in Listed, p \in Fresh PROVE FALSE
      OBVIOUS
    <3>1. p \in Matching /\ p \in Here /\ Rank(Matching, p) > Before
      BY <1>3, <1>4, PageEntries, MatchingRanks
    <3>2. Behind(p) /\ Rank(Matching, p) \in Nat /\ Before \in Nat
      BY <2>1, <3>1, PageBounds, MatchingRanks
    <3>3. ~(kind = "gitlab" /\ pass /\ p \notin arch)
      BY <3>1 DEF Matching, Matches
    <3> QED BY <3>1, <3>2, <3>3 DEF Behind
  <2> QED BY <1>3, <2>1, <2>2
<1> QED BY <1>1, <1>6, <1>7, <1>8 DEF Apart

LEMMA ChangesFind == ASSUME Typed, Found, Present, Apart, Changes
                     PROVE  Found' /\ Present' /\ Apart'
<1>1. PICK p \in Paths : Create(p) \/ Delete(p) \/ ToggleArchived(p)
  BY DEF Changes, ForgeChanges
<1>2. UNCHANGED <<kind, skipMirrors, pc, state, pass, page, repos>>
  BY <1>1 DEF Create, Delete, ToggleArchived, client
<1>3. Listed' = Listed /\ (Once' <=> Once) /\ Before' = Before /\ lasting' \subseteq lasting
      /\ (\A q : Hidden(q)' <=> Hidden(q)) /\ Before \in Nat
  BY <1>2, PageBounds DEF Listed, Once, Before, Hidden, Changes
<1>4. CASE Create(p)
  <2>1. /\ \A q \in Here : Matches(q)' = Matches(q) /\ Rank(Matching, q) <= Rank(Matching, q)'
                           /\ Rank(Matching, q) \in Nat /\ Rank(Matching, q)' \in Nat
        /\ Here \subseteq Here' /\ Here' \ Here = {p}
    BY <1>4, CreateShifts
  <2>2. grown' = TRUE /\ UNCHANGED <<arch, steady, shrunk>>
    BY <1>4 DEF Create
  <2>3. steady \subseteq Here /\ lasting \subseteq Here
    BY DEF Typed, PruningTypeOK, TypeOK
  <2>4. \A q : WantsState(q \in arch)' <=> WantsState(q \in arch)
    BY <1>2, <2>2 DEF WantsState
  <2>5. ASSUME NEW q \in Here', Owed(q)' PROVE q \in Here /\ Owed(q)
    BY <1>2, <1>3, <2>2, <2>3, <2>4, <2>5 DEF Owed
  <2>6. \A q \in Here : Ahead(q) => Ahead(q)'
    BY <1>2, <1>3, <2>1, <2>2 DEF Ahead
  <2>7. Found'
    BY <1>2, <1>3, <2>2, <2>5, <2>6 DEF Found
  <2>8. Present'
    BY <1>2, <1>3, <2>1, <2>2 DEF Present
  <2> QED BY <2>2, <2>7, <2>8 DEF Apart
<1>5. CASE Delete(p)
  <2>1. /\ \A q \in Here' : Matches(q)' = Matches(q) /\ Rank(Matching, q)' <= Rank(Matching, q)
                            /\ Rank(Matching, q) \in Nat /\ Rank(Matching, q)' \in Nat
                            /\ (q \in arch)' = (q \in arch)
        /\ Here' = Here \ {p}
    BY <1>5, DeleteShifts
  <2>2. shrunk' = TRUE /\ grown' = grown
    BY <1>5 DEF Delete
  <2>3. \A q \in Here' : Behind(q) => Behind(q)'
    BY <1>2, <1>3, <2>1 DEF Behind
  <2>4. Apart'
    BY <1>2, <1>3, <2>1, <2>2, <2>3 DEF Apart
  <2> QED BY <2>2, <2>4 DEF Found, Present
<1>6. CASE ToggleArchived(p)
  <2>1. CASE Filtered
    BY <1>6, <2>1 DEF ToggleArchived, Found, Present, Apart
  <2>2. CASE ~Filtered
    <3>1. /\ \A q : Matches(q)' = Matches(q) /\ Matches(q) /\ Rank(Matching, q)' = Rank(Matching, q)
          /\ Here' = Here /\ kind # "gitlab"
      BY <1>6, <2>2, ToggleShifts
    <3>2. grown' = grown /\ shrunk' = shrunk /\ steady' = steady \ {p}
          /\ \A q : q # p => (q \in arch)' = (q \in arch)
      BY <1>6, <2>2 DEF ToggleArchived, Typed, PruningTypeOK, TypeOK
    <3>3. ASSUME NEW q \in Here, Owed(q)' PROVE Owed(q)
      <4>1. CASE state = "all" /\ (q \in lasting' \/ ~grown')
        BY <1>2, <1>3, <3>2, <3>3, <4>1 DEF Owed, WantsState
      <4>2. CASE q \in steady'
        <5>1. q # p /\ q \in steady /\ (q \in arch' <=> q \in arch)
          BY <3>2, <4>2
        <5> QED BY <1>2, <1>3, <3>3, <5>1 DEF Owed, WantsState
      <4> QED BY <1>2, <3>3, <4>1, <4>2 DEF Owed
    <3>4. \A q : (Ahead(q) => Ahead(q)') /\ (Behind(q) => Behind(q)')
      BY <1>2, <1>3, <3>1 DEF Ahead, Behind
    <3>5. Found'
      BY <1>2, <1>3, <3>1, <3>2, <3>3, <3>4 DEF Found
    <3> QED BY <1>2, <1>3, <3>1, <3>2, <3>4, <3>5 DEF Present, Apart
  <2> QED BY <2>1, <2>2
<1> QED BY <1>1, <1>4, <1>5, <1>6

\* What a StateAll listing has when it returns, seen from the tree: the backups of what it
\* lists are reported, and nothing else.
LEMMA ReportedBackups ==
  ASSUME Typed, NEW b \in disk
  PROVE  b \in Reported <=> b.path \in Listed /\ (b.wiki => b.path \notin barred)
<1>1. \/ \E p \in Paths : b = Repository(p)
      \/ \E p \in Wikis : b = Wiki(p)
  BY DEF Typed, PruningTypeOK, Backups
<1>2. \A p : Repository(p).path = p /\ Repository(p).wiki = FALSE /\ Wiki(p).path = p /\ Wiki(p).wiki = TRUE
  BY DEF Repository, Wiki
<1>3. CASE \E p \in Paths : b = Repository(p)
  BY <1>2, <1>3, ReportedTyped
<1>4. CASE \E p \in Wikis : b = Wiki(p)
  <2>1. PICK p \in Wikis : b = Wiki(p)
    BY <1>4
  <2>2. kind = "gitlab" /\ b.path = p /\ b.wiki = TRUE
    BY <1>2, <2>1 DEF Typed
  <2> QED BY <2>1, <2>2, ReportedTyped
<1> QED BY <1>1, <1>3, <1>4

LEMMA ScanJudges == ASSUME Typed, Found, Present, Scan PROVE Judged' /\ StaleIsExact'
<1>1. /\ pc = "returned" /\ state = "all" /\ stale' = disk \ Reported /\ torn' = shrunk
      /\ UNCHANGED <<vars, disk, barred, lasting>> /\ stage' = "work"
  BY DEF Scan, Typed, Staged
<1>2. UNCHANGED <<kind, skipMirrors, order, shrunk, grown>>
  BY <1>1 DEF vars, forge, history
<1>3. \A b : LeftOut(b)' <=> LeftOut(b)
  BY <1>1, <1>2 DEF LeftOut
<1>4. \A b \in disk : (b.wiki => kind = "gitlab") /\ (kind = "gitlab" => ~skipMirrors)
  BY DEF Typed
<1>5. \A b \in disk : LeftOut(b) <=> (b.wiki /\ b.path \in barred) \/ Hidden(b.path)
  BY <1>4 DEF LeftOut, Hidden
<1>6. ASSUME ~shrunk, NEW p \in Here, p \in lasting \/ ~grown, ~Hidden(p) PROVE p \in Listed
  <2>1. Owed(p)
    BY <1>1, <1>6 DEF Owed, WantsState
  <2> QED BY <1>1, <1>6, <2>1 DEF Found
<1>7. ASSUME NEW b \in stale', b.path \in lasting, ~shrunk PROVE LeftOut(b)
  <2>1. b \in disk /\ b \notin Reported /\ b.path \in Here
    BY <1>1, <1>7 DEF Typed, PruningTypeOK
  <2>2. b.path \notin Listed \/ (b.wiki /\ b.path \in barred)
    BY <2>1, ReportedBackups
  <2> QED BY <1>5, <1>6, <1>7, <2>1, <2>2
<1>8. Judged'
  BY <1>1, <1>3, <1>7 DEF Judged
<1>9. ASSUME ~shrunk, ~grown, NEW b \in disk
      PROVE  b \notin Reported <=> b.path \notin Here \/ LeftOut(b)
  <2>1. b.path \in Listed <=> b.path \in Here /\ ~Hidden(b.path)
    BY <1>1, <1>6, <1>9 DEF Present
  <2>2. b \in Reported <=> b.path \in Listed /\ (b.wiki => b.path \notin barred)
    BY ReportedBackups
  <2> QED BY <1>5, <2>1, <2>2
<1>10. Here' = Here
  BY <1>2 DEF Here
<1>11. StaleIsExact'
  BY <1>1, <1>2, <1>3, <1>9, <1>10 DEF StaleIsExact
<1> QED BY <1>8, <1>11

-----------------------------------------------------------------------------
(* The whole of it, for every step of a run.                                  *)

Judging == Typed /\ Found /\ Present /\ Apart /\ Judged /\ StaleIsExact

LEMMA SameListing ==
  ASSUME UNCHANGED <<kind, skipMirrors, order, arch, pc, state, pass, page, repos>>,
         UNCHANGED <<steady, shrunk, grown, lasting>>, Found, Present, Apart
  PROVE  Found' /\ Present' /\ Apart'
<1>1. /\ \A p : Matches(p)' = Matches(p) /\ Matching' = Matching /\ Here' = Here
      /\ \A p : Rank(Matching, p)' = Rank(Matching, p)
      /\ \A p : WantsState(p \in arch)' = WantsState(p \in arch)
  BY SameList
<1>2. \A p : (Owed(p)' <=> Owed(p)) /\ (Hidden(p)' <=> Hidden(p))
  BY <1>1 DEF Owed, Hidden
<1>3. \A p : (Ahead(p)' <=> Ahead(p)) /\ (Behind(p)' <=> Behind(p))
  BY <1>1 DEF Ahead, Behind, Before
<1>4. Listed' = Listed /\ (Once' <=> Once)
  BY DEF Listed, Once
<1> QED BY <1>1, <1>2, <1>3, <1>4 DEF Found, Present, Apart

LEMMA SameVerdict ==
  ASSUME Judging, UNCHANGED <<kind, skipMirrors, order, barred, disk, stage, stale, torn, lasting, shrunk, grown>>
  PROVE  Judged' /\ StaleIsExact'
<1>1. (\A b : LeftOut(b)' <=> LeftOut(b)) /\ Here' = Here
  BY DEF LeftOut, Here
<1> QED BY <1>1 DEF Judging, Judged, StaleIsExact

LEMMA JudgingInit == PruningInit => Judging
<1> SUFFICES ASSUME PruningInit PROVE Judging
  OBVIOUS
<1>1. pc = "idle" /\ stage = "idle"
  BY DEF PruningInit, Init
<1> QED BY <1>1, TypedInit DEF Judging, Found, Present, Apart, Judged, StaleIsExact

LEMMA ChangesJudge == ASSUME Judging, Changes PROVE Judged' /\ StaleIsExact'
<1>1. PICK p \in Paths : Create(p) \/ Delete(p) \/ ToggleArchived(p)
  BY DEF Changes, ForgeChanges
<1>2. UNCHANGED <<skipMirrors, disk, barred, stage, stale, torn>> /\ lasting' \subseteq lasting
  BY <1>1 DEF Create, Delete, ToggleArchived, Changes
<1>3. \A b : LeftOut(b)' <=> LeftOut(b)
  BY <1>2 DEF LeftOut
<1>4. Judged'
  BY <1>2, <1>3 DEF Judging, Judged
<1>5. StaleIsExact'
  <2>1. CASE Create(p)
    BY <2>1 DEF Create, StaleIsExact
  <2>2. CASE Delete(p)
    BY <2>2 DEF Delete, StaleIsExact
  <2>3. CASE ToggleArchived(p)
    <3>1. Here' = Here /\ (shrunk => shrunk') /\ (grown => grown')
      BY <2>3 DEF ToggleArchived, Here
    <3> QED BY <1>2, <1>3, <3>1 DEF Judging, StaleIsExact
  <2> QED BY <1>1, <2>1, <2>2, <2>3
<1> QED BY <1>4, <1>5

LEMMA JudgingNext == Judging /\ [PruningNext]_prunevars => Judging'
<1> SUFFICES ASSUME Judging, [PruningNext]_prunevars PROVE Judging'
  OBVIOUS
<1>1. Typed /\ Typed' /\ Found /\ Present /\ Apart
  BY TypedNext DEF Judging
<1> DEFINE Rest == Found' /\ Present' /\ Apart' /\ Judged' /\ StaleIsExact'
<1> SUFFICES Rest
  BY <1>1 DEF Judging
<1>2. CASE Changes
  BY <1>1, <1>2, ChangesFind, ChangesJudge
<1>3. ASSUME pc' = "idle", stage' = "idle" PROVE Rest
  BY <1>3 DEF Found, Present, Apart, Judged, StaleIsExact
<1>4. CASE SwitchSkipMirrors
  BY <1>1, <1>3, <1>4 DEF SwitchSkipMirrors, Typed, Staged, client, run
<1>5. ASSUME NEW p \in Wikis, SwitchRights(p) PROVE Rest
  BY <1>1, <1>3, <1>5 DEF SwitchRights, Typed, Staged, client
<1>6. ASSUME Begin, stage' \in {"list", "relist"} PROVE Rest
  BY <1>1, <1>6, BeginFinds DEF Judged, StaleIsExact
<1>7. CASE Start
  BY <1>6, <1>7 DEF Start
<1>8. CASE Relist
  BY <1>6, <1>8 DEF Relist
<1>9. CASE Fetch
  <2>1. stage' \in {"list", "relist"} /\ ListStep /\ UNCHANGED run
    BY <1>9 DEF Fetch, run
  <2>2. Judged' /\ StaleIsExact'
    BY <2>1 DEF Judged, StaleIsExact
  <2>3. CASE NextPage
    BY <1>1, <2>1, <2>2, <2>3, NextPageFinds
  <2>4. CASE NextPass
    BY <1>1, <2>1, <2>2, <2>4, NextPassFinds
  <2>5. CASE Finish
    BY <1>1, <2>1, <2>2, <2>5, FinishFinds
  <2>6. CASE Fail
    BY <2>2, <2>6 DEF Fail, Found, Present, Apart
  <2> QED BY <2>1, <2>3, <2>4, <2>5, <2>6 DEF ListStep
<1>10. ASSUME UNCHANGED <<vars, lasting>> PROVE Found' /\ Present' /\ Apart'
  BY <1>1, <1>10, SameListing DEF vars, forge, client, history
<1>11. CASE Scan
  <2>1. UNCHANGED <<vars, lasting>>
    BY <1>11 DEF Scan
  <2> QED BY <1>1, <1>10, <1>11, <2>1, ScanJudges
<1>12. CASE Abort
  BY <1>3, <1>12 DEF Abort, Return
<1>13. CASE Sync
  <2>1. UNCHANGED <<vars, barred, stale, lasting, torn>> /\ stage = "work" /\ stage' = "prune"
    BY <1>13 DEF Sync
  <2>2. \A b : LeftOut(b)' <=> LeftOut(b)
    BY <2>1 DEF LeftOut, vars, forge
  <2>3. Judged' /\ StaleIsExact'
    BY <2>1, <2>2 DEF Judging, Judged, StaleIsExact
  <2> QED BY <1>10, <2>1, <2>3
<1>14. CASE Prune
  BY <1>3, <1>14 DEF Prune, Return
<1>15. CASE UNCHANGED prunevars
  <2>1. UNCHANGED <<vars, lasting, barred, disk, stage, stale, torn>>
    BY <1>15 DEF prunevars, run
  <2> QED BY <1>10, <2>1, SameVerdict DEF vars, forge, history
<1> QED BY <1>2, <1>4, <1>5, <1>7, <1>8, <1>9, <1>11, <1>12, <1>13, <1>14, <1>15 DEF PruningNext

LEMMA JudgingAlways == PruningSpec => []Judging
<1> QED BY JudgingInit, JudgingNext, PTL DEF PruningSpec

\* As long as nothing leaves the lists that ListRepos pages through (forgejo.go, gitlab.go
\* and github.go), it returns all that its caller asked for and that did not change: for
\* any repositories, any page size and any number of changes.
THEOREM NothingMissed == PruningSpec => []OnlyDeletionsHide
<1>1. Judging => OnlyDeletionsHide
  <2> SUFFICES ASSUME Judging, pc = "returned", ~shrunk, NEW p \in Wanted PROVE p \in Listed
    BY DEF OnlyDeletionsHide
  <2>1. p \in Here /\ Owed(p)
    BY DEF Wanted, Owed, Hidden, Judging, Typed, PruningTypeOK, TypeOK
  <2> QED BY <2>1 DEF Judging, Found
<1> QED BY <1>1, JudgingAlways, PTL

\* As long as nothing enters them, it returns no repository twice, which would be two workers
\* on one mirror.
THEOREM NothingTwice == PruningSpec => []OnlyCreationsRepeat
<1>1. Judging => OnlyCreationsRepeat
  <2> SUFFICES ASSUME Judging, pc = "returned", ~grown
               PROVE  IsInjective([i \in DOMAIN repos |-> repos[i].path])
    BY DEF OnlyCreationsRepeat
  <2>1. Once
    BY DEF Judging, Apart
  <2>2. DOMAIN repos = 1..Len(repos)
    BY DEF Judging, Typed
  <2> QED BY <2>1, <2>2 DEF Once, IsInjective
<1> QED BY <1>1, JudgingAlways, PTL

\* What staleMirrors (run.go) returns is what is gone from the forge or left out, no more and
\* no less, if the lists of the StateAll listing stayed as they were.
THEOREM StaleMeansGone == PruningSpec => []StaleIsExact
<1>1. Judging => StaleIsExact
  BY DEF Judging
<1> QED BY <1>1, JudgingAlways, PTL

\* prune (run.go) spares the backup of a repository that was on the forge throughout the run,
\* unless one of the three reasons that PruneSpares names holds.
THEOREM PruningSpares == PruningSpec => PruneSpares
<1>1. Judging /\ [PruningNext]_prunevars
        => [\A b \in disk \ disk' : b.path \in lasting => torn \/ LeftOut(b)]_prunevars
  <2> SUFFICES ASSUME Judging, PruningNext, NEW b \in disk \ disk', b.path \in lasting
               PROVE  torn \/ LeftOut(b)
    OBVIOUS
  <2>1. CASE Prune
    <3>1. PICK gone \in SUBSET stale : disk' = disk \ (IF opts.prune THEN gone ELSE {})
      BY <2>1 DEF Prune
    <3>2. b \in stale /\ stage = "prune"
      BY <2>1, <3>1 DEF Prune
    <3> QED BY <3>2 DEF Judging, Judged
  <2>2. ASSUME disk \subseteq disk' PROVE FALSE
    BY <2>2
  <2>3. CASE Changes \/ SwitchSkipMirrors \/ Fetch \/ \E p \in Wikis : SwitchRights(p)
    BY <2>2, <2>3 DEF Changes, SwitchSkipMirrors, SwitchRights, Fetch, run
  <2>4. CASE Start \/ Relist \/ Scan \/ Abort \/ Sync
    BY <2>2, <2>4 DEF Start, Relist, Scan, Abort, Sync
  <2> QED BY <2>1, <2>3, <2>4 DEF PruningNext
<1> QED BY <1>1, JudgingAlways, PTL DEF PruningSpec, PruneSpares

-----------------------------------------------------------------------------
(* A listing of a forge that stays as it is.                                  *)

Quiet == steady = Here /\ ~shrunk /\ ~grown

\* the wanted paths on the pages already read, and what an earlier pass has listed
Active == {p \in Wanted : p \notin arch}
Done == {p \in Wanted \cap Matching : Rank(Matching, p) <= Before}
Earlier == IF kind = "gitlab" /\ state = "all" /\ pass THEN InOrder(Active) ELSE <<>>

Exact == Quiet => /\ pc = "fetch" => repos = Seen(Earlier \o InOrder(Done))
                  /\ pc = "returned" => repos = Reference

LEMMA SeenJoins ==
  ASSUME NEW u \in Seq(Paths), NEW v \in Seq(Paths)
  PROVE  Seen(u \o v) = Seen(u) \o Seen(v)
<1> DEFINE m == Len(u)
           n == Len(v)
           w == u \o v
           sw == Seen(w)
           su == Seen(u)
           sv == Seen(v)
<1>1. /\ m \in Nat /\ n \in Nat /\ w \in Seq(Paths) /\ Len(w) = m + n
      /\ \A k \in 1..m + n : w[k] = IF k <= m THEN u[k] ELSE v[k - m]
  BY ConcatProperties
<1> HIDE DEF w
<1>2. /\ sw \in Seq(Entry) /\ Len(sw) = m + n
      /\ \A k \in 1..m + n : sw[k] = [path |-> w[k], archived |-> w[k] \in arch]
  <2>1. /\ sw \in Seq(Entry) /\ Len(sw) = Len(w)
        /\ \A k \in 1..Len(w) : sw[k] = [path |-> w[k], archived |-> w[k] \in arch]
    BY <1>1, SeenPaths
  <2> QED BY <1>1, <2>1
<1>3. /\ su \in Seq(Entry) /\ Len(su) = m /\ sv \in Seq(Entry) /\ Len(sv) = n
      /\ \A k \in 1..m : su[k] = [path |-> u[k], archived |-> u[k] \in arch]
      /\ \A k \in 1..n : sv[k] = [path |-> v[k], archived |-> v[k] \in arch]
  BY SeenPaths
<1> HIDE DEF m, n, sw, su, sv
<1>4. /\ su \o sv \in Seq(Entry) /\ Len(su \o sv) = m + n
      /\ \A k \in 1..m + n : (su \o sv)[k] = IF k <= m THEN su[k] ELSE sv[k - m]
  <2>1. /\ su \o sv \in Seq(Entry) /\ Len(su \o sv) = Len(su) + Len(sv)
        /\ \A k \in 1..Len(su) + Len(sv) : (su \o sv)[k] = IF k <= Len(su) THEN su[k] ELSE sv[k - Len(su)]
    BY <1>3, ConcatProperties
  <2> QED BY <1>3, <2>1
<1>5. ASSUME NEW k \in 1..m + n PROVE sw[k] = (su \o sv)[k]
  <2>1. CASE k <= m
    <3>1. k \in 1..m
      BY <1>1, <2>1
    <3>2. w[k] = u[k] /\ (su \o sv)[k] = su[k]
      BY <1>1, <1>4, <2>1
    <3>3. sw[k] = [path |-> u[k], archived |-> u[k] \in arch]
      BY <1>2, <3>2
    <3> QED BY <1>3, <3>1, <3>2, <3>3
  <2>2. CASE ~(k <= m)
    <3>1. k - m \in 1..n
      BY <1>1, <2>2
    <3>2. w[k] = v[k - m] /\ (su \o sv)[k] = sv[k - m]
      BY <1>1, <1>4, <2>2
    <3>3. sw[k] = [path |-> v[k - m], archived |-> v[k - m] \in arch]
      BY <1>2, <3>2
    <3> QED BY <1>3, <3>1, <3>2, <3>3
  <2> QED BY <2>1, <2>2
<1>6. sw = su \o sv
  BY <1>2, <1>4, <1>5, SeqEqual
<1> QED BY <1>6 DEF sw, su, sv, w

LEMMA NoneInOrder == ASSUME order \in Lists PROVE InOrder({}) = <<>>
<1>1. Len(Sorted(order, {})) = 0 /\ Sorted(order, {}) \in Seq(Paths)
  BY SortedPlaces, FS_EmptySet
<1> QED BY <1>1, InOrderSorted

LEMMA OrderedPaths == ASSUME Typed, NEW S \in SUBSET Here PROVE InOrder(S) \in Seq(Paths)
  BY InOrderSorted, SortedPlaces DEF Typed, Here

\* In a quiet listing a page's client keeps exactly what is wanted of it.
LEMMA QuietKeeps == ASSUME Typed, steady = Here
                    PROVE  /\ \A p \in Matching : Keeps(p) <=> p \in Wanted
                           /\ Wanted \subseteq Here /\ Done \subseteq Here
                           /\ kind # "gitlab" => Wanted \subseteq Matching
<1>1. Wanted \subseteq Here /\ Done \subseteq Here
  BY DEF Wanted, Done
<1>2. kind \in Kinds /\ pass \in BOOLEAN /\ state \in States
  BY DEF Typed, PruningTypeOK, TypeOK
<1>3. ASSUME NEW p \in Matching PROVE Keeps(p) <=> p \in Wanted
  <2>1. p \in Here /\ Matches(p)
    BY DEF Matching
  <2>2. CASE kind = "forgejo"
    BY <2>1, <2>2 DEF Keeps, Wanted, Matches
  <2>3. CASE kind = "github"
    BY <2>1, <2>3 DEF Keeps, Wanted, Matches, Typed
  <2>4. CASE kind = "gitlab"
    <3>1. ~skipMirrors /\ Keeps(p)
      BY <2>4 DEF Keeps, Typed
    <3>2. (p \in arch) = pass
      BY <2>1, <2>4 DEF Matches
    <3>3. WantsState(p \in arch)
      <4>1. (pass => state # "active") /\ (state = "archived" => pass)
        BY <2>4 DEF Typed, Passes
      <4>2. p \in arch <=> pass
        BY <1>2, <3>2
      <4> QED BY <1>2, <4>1, <4>2 DEF WantsState, States
    <3> QED BY <2>1, <3>1, <3>3 DEF Wanted
  <2> QED BY <1>2, <2>2, <2>3, <2>4 DEF Kinds
<1>4. ASSUME kind # "gitlab", NEW p \in Wanted PROVE p \in Matching
  BY <1>1, <1>2, <1>4 DEF Wanted, Matching, Matches, Kinds
<1> QED BY <1>1, <1>3, <1>4

\* A page adds its part to the sequence of what the listing has.
LEMMA PageJoins ==
  ASSUME Typed, steady = Here, repos = Seen(Earlier \o InOrder(Done))
  PROVE  /\ repos \o Kept = Seen(Earlier \o InOrder(Done \cup Fresh))
         /\ Done \cup Fresh = {p \in Wanted \cap Matching : Rank(Matching, p) <= page * PageSize}
<1>1. order \in Lists /\ Done \in SUBSET ToSet(order) /\ Fresh \in SUBSET ToSet(order)
  BY QuietKeeps, KeptPaths DEF Typed, Done, Fresh, Here
<1>2. Before \in Nat /\ page * PageSize = Before + PageSize /\ PageSize \in Nat
  BY PageBounds
<1>3. \A p \in Matching : Rank(Matching, p) \in Nat
  BY MatchingRanks
<1>4. Fresh = {p \in Wanted \cap Matching : Rank(Matching, p) > Before
                                              /\ Rank(Matching, p) <= page * PageSize}
  BY PageEntries, QuietKeeps DEF Fresh
<1>5. Done \cup Fresh = {p \in Wanted \cap Matching : Rank(Matching, p) <= page * PageSize}
  BY <1>2, <1>3, <1>4 DEF Done
<1>6. \A p \in Done, q \in Fresh : PlaceIn(order, p) < PlaceIn(order, q)
  <2> SUFFICES ASSUME NEW p \in Done, NEW q \in Fresh PROVE PlaceIn(order, p) < PlaceIn(order, q)
    OBVIOUS
  <2>1. p \in Matching /\ q \in Matching /\ Rank(Matching, p) < Rank(Matching, q)
    BY <1>2, <1>3, <1>4 DEF Done
  <2> QED BY <2>1, MatchingRanks
<1>7. InOrder(Done \cup Fresh) = InOrder(Done) \o InOrder(Fresh)
  BY <1>1, <1>6, SortedUnion, InOrderSorted
<1>8. /\ Earlier \in Seq(Paths) /\ InOrder(Done) \in Seq(Paths) /\ InOrder(Fresh) \in Seq(Paths)
  <2>1. Active \in SUBSET Here
    BY QuietKeeps DEF Active
  <2> QED BY <1>1, <2>1, OrderedPaths DEF Earlier, Here
<1>9. Kept = Seen(InOrder(Fresh))
  BY DEF Kept, Fresh
<1> DEFINE e == Earlier
           d == InOrder(Done)
           f == InOrder(Fresh)
<1> HIDE DEF e, d, f
<1>10. \A x, y, z \in Seq(Paths) : Seen(x \o y) \o Seen(z) = Seen(x \o (y \o z))
  <2> SUFFICES ASSUME NEW x \in Seq(Paths), NEW y \in Seq(Paths), NEW z \in Seq(Paths)
               PROVE  Seen(x \o y) \o Seen(z) = Seen(x \o (y \o z))
    OBVIOUS
  <2>1. x \o y \in Seq(Paths) /\ (x \o y) \o z = x \o (y \o z)
    BY ConcatProperties, ConcatAssociative
  <2>2. Seen((x \o y) \o z) = Seen(x \o y) \o Seen(z)
    BY <2>1, SeenJoins
  <2> QED BY <2>1, <2>2
<1>11. Seen(e \o d) \o Seen(f) = Seen(e \o (d \o f))
  BY <1>8, <1>10 DEF e, d, f
<1> QED BY <1>5, <1>7, <1>9, <1>11 DEF e, d, f

\* What the last page of a pass completes.
LEMMA PassComplete ==
  ASSUME Typed, steady = Here, LastPage
  PROVE  {p \in Wanted \cap Matching : Rank(Matching, p) <= page * PageSize} = Wanted \cap Matching
  BY LastEntries

LEMMA ReferenceParts ==
  Reference = Seen(IF kind = "gitlab" THEN InOrder(Active) \o InOrder({p \in Wanted : p \in arch})
                                      ELSE InOrder(Wanted))
<1>1. \A p : (((p \in arch) = FALSE) <=> p \notin arch) /\ (((p \in arch) = TRUE) <=> p \in arch)
  BY Truth, Zenon
<1>2. {p \in Wanted : (p \in arch) = FALSE} = Active /\ {p \in Wanted : (p \in arch) = TRUE} = {p \in Wanted : p \in arch}
  BY <1>1, Zenon DEF Active
<1> QED BY <1>2 DEF Reference

LEMMA ExactBegin == ASSUME Typed, Begin PROVE Exact'
<1>1. /\ UNCHANGED <<kind, order>> /\ page' = 1 /\ repos' = <<>> /\ pc' = "fetch"
      /\ pass' = (kind = "gitlab" /\ state' = "archived")
  BY DEF Begin, forge
<1>2. Before' = 0
  <2>1. (1 - 1) * PageSize = 0
    BY Bounds
  <2> QED BY <1>1, <2>1 DEF Before
<1>3. Done' = {}
  <2>1. \A p \in Matching' : Rank(Matching, p)' \in Nat /\ Rank(Matching, p)' > 0
    BY <1>1, FirstRank
  <2> QED BY <1>2, <2>1 DEF Done
<1>4. Earlier' = <<>>
  BY <1>1 DEF Earlier
<1>5. InOrder(Done)' = <<>>
  <2>1. order \in Lists
    BY DEF Typed
  <2>2. InOrder({}) = <<>>
    BY <2>1, NoneInOrder
  <2>3. InOrder({})' = InOrder({})
    BY <1>1 DEF InOrder, Rank, Place
  <2>4. InOrder(Done)' = InOrder({})'
    BY <1>3
  <2> QED BY <2>2, <2>3, <2>4
<1>6. Seen(<<>> \o <<>>)' = <<>>
  <2>1. <<>> \o <<>> = <<>> /\ DOMAIN (<<>>) = {}
    BY EmptySeq
  <2> QED BY <2>1 DEF Seen
<1> QED BY <1>1, <1>4, <1>5, <1>6 DEF Exact

\* A request leaves what is quiet, wanted and in order as it is.
LEMMA SameQuiet ==
  ASSUME UNCHANGED <<kind, skipMirrors, order, arch, state, steady, shrunk, grown>>
  PROVE  /\ Wanted' = Wanted /\ Active' = Active /\ (Quiet' <=> Quiet) /\ Reference' = Reference
         /\ \A S : InOrder(S)' = InOrder(S)
         /\ \A u : Seen(u)' = Seen(u)
<1>1. Wanted' = Wanted /\ (Quiet' <=> Quiet)
  BY DEF Wanted, WantsState, Quiet, Here
<1>2. Active' = Active
  BY <1>1 DEF Active
<1>3. \A S : InOrder(S)' = InOrder(S)
  BY DEF InOrder, Rank, Place
<1>4. \A u : Seen(u)' = Seen(u)
  BY DEF Seen
<1>5. {p \in Wanted : p \in arch}' = {p \in Wanted : p \in arch}
  BY <1>1
<1>6. Reference' = Reference
  BY <1>1, <1>3, <1>4 DEF Reference
<1> QED BY <1>1, <1>2, <1>3, <1>4, <1>6

LEMMA ExactNextPage == ASSUME Typed, Exact, NextPage PROVE Exact'
<1>1. /\ UNCHANGED <<kind, skipMirrors, order, arch, state, pass, steady, shrunk, grown>>
      /\ pc = "fetch" /\ pc' = "fetch" /\ page' = page + 1 /\ repos' = repos \o Kept
  BY DEF NextPage, forge, history
<1>2. /\ Wanted' = Wanted /\ Active' = Active /\ (Quiet' <=> Quiet)
      /\ \A S : InOrder(S)' = InOrder(S)
      /\ \A u : Seen(u)' = Seen(u)
  BY <1>1, SameQuiet
<1>3. Matching' = Matching /\ \A p : Rank(Matching, p)' = Rank(Matching, p)
  BY <1>1, SameList
<1> SUFFICES ASSUME Quiet PROVE repos' = Seen(Earlier \o InOrder(Done))'
  BY <1>1, <1>2 DEF Exact
<1>4. repos \o Kept = Seen(Earlier \o InOrder(Done \cup Fresh))
      /\ Done \cup Fresh = {p \in Wanted \cap Matching : Rank(Matching, p) <= page * PageSize}
  BY <1>1, PageJoins DEF Exact, Quiet
<1>5. Before' = page * PageSize
  <2>1. page \in Nat /\ page + 1 - 1 = page
    BY PageBounds
  <2> QED BY <1>1, <2>1 DEF Before
<1>6. Done' = Done \cup Fresh
  BY <1>2, <1>3, <1>4, <1>5 DEF Done
<1>7. Earlier' = Earlier
  BY <1>1, <1>2 DEF Earlier
<1>8. InOrder(Done)' = InOrder(Done \cup Fresh)
  BY <1>2, <1>6
<1> QED BY <1>1, <1>2, <1>4, <1>7, <1>8

LEMMA ExactNextPass == ASSUME Typed, Exact, NextPass PROVE Exact'
<1>1. /\ UNCHANGED <<kind, skipMirrors, order, arch, state, steady, shrunk, grown>>
      /\ pc = "fetch" /\ pc' = "fetch" /\ page' = 1 /\ repos' = repos \o Kept /\ LastPage
      /\ kind = "gitlab" /\ state = "all" /\ ~pass /\ pass' = TRUE
  BY DEF NextPass, forge, history
<1>2. /\ Wanted' = Wanted /\ Active' = Active /\ (Quiet' <=> Quiet)
      /\ \A S : InOrder(S)' = InOrder(S)
      /\ \A u : Seen(u)' = Seen(u)
  BY <1>1, SameQuiet
<1> SUFFICES ASSUME Quiet PROVE repos' = Seen(Earlier \o InOrder(Done))'
  BY <1>1, <1>2 DEF Exact
<1>3. repos \o Kept = Seen(Earlier \o InOrder(Done \cup Fresh)) /\ Done \cup Fresh = Wanted \cap Matching
  BY <1>1, PageJoins, PassComplete DEF Exact, Quiet
<1>4. Wanted \cap Matching = Active
  <2>1. \A p \in Here : (p \in arch) = pass <=> p \notin arch
    <3>1. pass = FALSE
      BY <1>1 DEF Typed, PruningTypeOK, TypeOK
    <3> QED BY <3>1, Truth, Zenon
  <2>2. \A p \in Here : Matches(p) <=> p \notin arch
    BY <1>1, <2>1 DEF Matches
  <2>3. Wanted \subseteq Here
    BY QuietKeeps DEF Quiet
  <2> QED BY <2>2, <2>3 DEF Active, Matching
<1>5. Active \in SUBSET Here
  BY QuietKeeps DEF Active, Quiet
<1>6. InOrder(Active) \in Seq(Paths)
  BY <1>5, OrderedPaths
<1>7. Earlier = <<>> /\ Earlier' = InOrder(Active)
  BY <1>1, <1>2 DEF Earlier
<1>8. InOrder(Done)' = <<>>
  <2>1. Before' = 0
    <3>1. (1 - 1) * PageSize = 0
      BY Bounds
    <3> QED BY <1>1, <3>1 DEF Before
  <2>2. Done' = {}
    <3>1. \A p \in Matching' : Rank(Matching, p)' \in Nat /\ Rank(Matching, p)' > 0
      BY <1>1, FirstRank
    <3> QED BY <2>1, <3>1 DEF Done
  <2>3. InOrder({}) = <<>>
    BY NoneInOrder DEF Typed
  <2> QED BY <1>2, <2>2, <2>3
<1>9. <<>> \o InOrder(Active) = InOrder(Active) \o <<>>
  BY <1>6, ConcatEmptySeq
<1> QED BY <1>1, <1>2, <1>3, <1>4, <1>7, <1>8, <1>9

LEMMA ExactFinish == ASSUME Typed, Exact, Finish PROVE Exact'
<1>1. /\ UNCHANGED <<kind, skipMirrors, order, arch, state, pass, page, steady, shrunk, grown>>
      /\ pc = "fetch" /\ pc' = "returned" /\ repos' = repos \o Kept /\ LastPage
      /\ ~(kind = "gitlab" /\ state = "all" /\ ~pass)
  BY DEF Finish, forge, history
<1>2. Reference' = Reference /\ (Quiet' <=> Quiet)
  BY <1>1, SameQuiet
<1> SUFFICES ASSUME Quiet PROVE repos' = Reference
  BY <1>1, <1>2 DEF Exact
<1>3. repos \o Kept = Seen(Earlier \o InOrder(Done \cup Fresh)) /\ Done \cup Fresh = Wanted \cap Matching
  BY <1>1, PageJoins, PassComplete DEF Exact, Quiet
<1> DEFINE Archived == {p \in Wanted : p \in arch}
<1>4. Wanted \in SUBSET Here /\ Active \in SUBSET Here /\ (kind # "gitlab" => Wanted \cap Matching = Wanted)
  BY QuietKeeps DEF Active, Quiet
<1>5. /\ InOrder(Wanted) \in Seq(Paths) /\ InOrder(Active) \in Seq(Paths) /\ InOrder({}) = <<>>
      /\ InOrder(Archived) \in Seq(Paths)
  BY <1>4, OrderedPaths, NoneInOrder DEF Typed
<1>6. CASE kind # "gitlab"
  <2>1. Earlier = <<>> /\ <<>> \o InOrder(Wanted) = InOrder(Wanted)
    BY <1>5, <1>6, ConcatEmptySeq DEF Earlier
  <2> QED BY <1>1, <1>3, <1>4, <1>6, <2>1, ReferenceParts
<1>7. CASE kind = "gitlab" /\ pass
  <2>1. pass = TRUE /\ state # "active" /\ state \in States
    BY <1>7 DEF Typed, PruningTypeOK, TypeOK, Passes
  <2>2. Wanted \cap Matching = Archived
    <3>1. \A p \in Here : (p \in arch) = pass <=> p \in arch
      BY <2>1
    <3>2. \A p \in Here : Matches(p) <=> p \in arch
      BY <1>7, <3>1 DEF Matches
    <3> QED BY <1>4, <3>2 DEF Matching
  <2>3. Earlier = InOrder(Active)
    <3>1. CASE state = "all"
      BY <1>7, <3>1 DEF Earlier
    <3>2. CASE state = "archived"
      <4>1. Active = {}
        BY <3>2 DEF Active, Wanted, WantsState
      <4>2. Earlier = <<>>
        BY <3>2 DEF Earlier
      <4> QED BY <1>5, <4>1, <4>2
    <3> QED BY <2>1, <3>1, <3>2 DEF States
  <2> QED BY <1>1, <1>3, <1>7, <2>2, <2>3, ReferenceParts
<1>8. CASE kind = "gitlab" /\ ~pass
  <2>1. pass = FALSE /\ state = "active"
    BY <1>1, <1>8 DEF Typed, PruningTypeOK, TypeOK, Passes, States
  <2>2. Wanted \cap Matching = Active
    <3>1. \A p \in Here : (p \in arch) = pass <=> p \notin arch
      BY <2>1, Truth, Zenon
    <3>2. \A p \in Here : Matches(p) <=> p \notin arch
      BY <1>8, <3>1 DEF Matches
    <3> QED BY <1>4, <3>2 DEF Matching, Active
  <2>3. Archived = {}
    BY <2>1 DEF Wanted, WantsState
  <2>4. Earlier = <<>>
    BY <1>8 DEF Earlier
  <2>5. <<>> \o InOrder(Active) = InOrder(Active) \o <<>>
    BY <1>5, ConcatEmptySeq
  <2> QED BY <1>1, <1>3, <1>5, <1>8, <2>2, <2>3, <2>4, <2>5, ReferenceParts
<1> QED BY <1>6, <1>7, <1>8

LEMMA ExactSame == ASSUME UNCHANGED <<vars>>, Exact PROVE Exact'
<1>1. /\ UNCHANGED <<kind, skipMirrors, order, arch, state, pass, page, pc, repos, steady, shrunk, grown>>
  BY DEF vars, forge, client, history
<1>2. /\ Wanted' = Wanted /\ Active' = Active /\ (Quiet' <=> Quiet) /\ Reference' = Reference
      /\ \A S : InOrder(S)' = InOrder(S)
      /\ \A u : Seen(u)' = Seen(u)
  BY <1>1, SameQuiet
<1>3. Matching' = Matching /\ \A p : Rank(Matching, p)' = Rank(Matching, p)
  BY <1>1, SameList
<1>4. Done' = Done
  BY <1>1, <1>2, <1>3 DEF Done, Before
<1>5. Earlier' = Earlier /\ InOrder(Done)' = InOrder(Done)
  BY <1>1, <1>2, <1>4 DEF Earlier
<1> QED BY <1>1, <1>2, <1>5 DEF Exact

LEMMA ExactNext == Judging /\ Exact /\ [PruningNext]_prunevars => Exact'
<1> SUFFICES ASSUME Typed, Exact, [PruningNext]_prunevars PROVE Exact'
  BY DEF Judging
<1>1. ASSUME ~Quiet' PROVE Exact'
  BY <1>1 DEF Exact
<1>2. CASE Changes
  <2>1. PICK p \in Paths : Create(p) \/ Delete(p) \/ ToggleArchived(p)
    BY <1>2 DEF Changes, ForgeChanges
  <2>2. CASE Create(p) \/ Delete(p)
    BY <1>1, <2>2 DEF Create, Delete, Quiet
  <2>3. CASE ToggleArchived(p)
    <3>1. p \in Here' /\ p \notin steady'
      BY <2>3 DEF ToggleArchived, Here
    <3> QED BY <1>1, <3>1 DEF Quiet
  <2> QED BY <2>1, <2>2, <2>3
<1>3. ASSUME pc' \in {"idle", "failed"} PROVE Exact'
  BY <1>3 DEF Exact
<1>4. CASE SwitchSkipMirrors \/ \E p \in Wikis : SwitchRights(p)
  BY <1>3, <1>4 DEF SwitchSkipMirrors, SwitchRights, Typed, Staged, client
<1>5. CASE Start \/ Relist
  BY <1>5, ExactBegin DEF Start, Relist
<1>6. CASE Fetch
  <2>1. CASE Fail
    BY <1>3, <2>1 DEF Fail
  <2> QED BY <1>6, <2>1, ExactNextPage, ExactNextPass, ExactFinish DEF Fetch, ListStep
<1>7. CASE Abort \/ Prune
  BY <1>3, <1>7 DEF Abort, Prune, Return
<1>8. CASE Scan \/ Sync \/ UNCHANGED prunevars
  <2>1. UNCHANGED vars
    BY <1>8 DEF Scan, Sync, prunevars
  <2> QED BY <2>1, ExactSame
<1> QED BY <1>2, <1>4, <1>5, <1>6, <1>7, <1>8 DEF PruningNext

\* A listing of a forge that stays as it is returns exactly what its caller asked for, in the
\* server's order and with the flags it has there, GitLab's active projects before the
\* archived ones: no page is read twice, and none is left out.
THEOREM QuietListing == PruningSpec => []QuietIsExact
<1>1. PruningInit => Exact
  BY DEF PruningInit, Init, Exact
<1>2. PruningSpec => []Exact
  BY <1>1, JudgingAlways, ExactNext, PTL DEF PruningSpec
<1>3. Exact => QuietIsExact
  BY DEF Exact, QuietIsExact, Quiet
<1> QED BY <1>2, <1>3, PTL
=============================================================================
