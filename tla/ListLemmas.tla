------------------------------ MODULE ListLemmas ------------------------------
(* What a sequence has where, once an element has been put into it or taken    *)
(* out, and what an enumeration of a finite set is.                            *)
EXTENDS Naturals, Integers, FiniteSets, Sequences, SequencesExt, FiniteSetTheorems,
        SequenceTheorems, TLAPS

\* The two halves of a sequence.
LEMMA Pieces ==
  ASSUME NEW S, NEW o \in Seq(S), NEW i \in 1..Len(o) + 1
  PROVE  /\ SubSeq(o, 1, i - 1) \in Seq(S) /\ Len(SubSeq(o, 1, i - 1)) = i - 1
         /\ SubSeq(o, i, Len(o)) \in Seq(S) /\ Len(SubSeq(o, i, Len(o))) = Len(o) - i + 1
         /\ \A k \in 1..i - 1 : SubSeq(o, 1, i - 1)[k] = o[k]
         /\ \A k \in 1..Len(o) - i + 1 : SubSeq(o, i, Len(o))[k] = o[i + k - 1]
<1> DEFINE n == Len(o)
           u == SubSeq(o, 1, i - 1)
           v == SubSeq(o, i, n)
<1>1. n \in Nat /\ i \in 1..n + 1 /\ \A k \in 1..n : o[k] \in S
  BY ElementOfSeq
<1> HIDE DEF n
<1>2. /\ u \in Seq(S) /\ Len(u) = IF 1 <= i - 1 THEN i - 1 - 1 + 1 ELSE 0
      /\ \A k \in 1..i - 1 - 1 + 1 : u[k] = o[1 + k - 1]
  <2>1. 1 \in Int /\ i - 1 \in Int /\ \A k \in 1..i - 1 : o[k] \in S
    BY <1>1
  <2> QED BY <2>1, SubSeqProperties
<1>3. /\ v \in Seq(S) /\ Len(v) = IF i <= n THEN n - i + 1 ELSE 0
      /\ \A k \in 1..n - i + 1 : v[k] = o[i + k - 1]
  <2>1. i \in Int /\ n \in Int /\ \A k \in i..n : o[k] \in S
    BY <1>1
  <2> QED BY <2>1, SubSeqProperties
<1> HIDE DEF u, v
<1>4. Len(u) = i - 1 /\ Len(v) = n - i + 1
  BY <1>1, <1>2, <1>3
<1>5. \A k \in 1..i - 1 : u[k] = o[k]
  BY <1>1, <1>2
<1> QED BY <1>2, <1>3, <1>4, <1>5 DEF u, v, n

\* What a concatenation has where.
LEMMA Glued ==
  ASSUME NEW S
  PROVE  \A u, v \in Seq(S) : \A n \in Nat : n = Len(u) + Len(v) =>
           /\ u \o v \in Seq(S) /\ Len(u \o v) = n
           /\ \A k \in 1..n : (u \o v)[k] = IF k <= Len(u) THEN u[k] ELSE v[k - Len(u)]
<1> SUFFICES ASSUME NEW u \in Seq(S), NEW v \in Seq(S)
             PROVE  /\ u \o v \in Seq(S) /\ Len(u \o v) = Len(u) + Len(v)
                    /\ \A k \in 1..Len(u) + Len(v) :
                         (u \o v)[k] = IF k <= Len(u) THEN u[k] ELSE v[k - Len(u)]
  OBVIOUS
<1> QED BY ConcatProperties

\* An element put in front of the one at i.
LEMMA InsertPlaces ==
  ASSUME NEW S, NEW o \in Seq(S), NEW p \in S, NEW i \in 1..Len(o) + 1
  PROVE  /\ InsertAt(o, i, p) \in Seq(S) /\ Len(InsertAt(o, i, p)) = Len(o) + 1
         /\ \A k \in 1..Len(o) + 1 :
              InsertAt(o, i, p)[k] = IF k < i THEN o[k] ELSE IF k = i THEN p ELSE o[k - 1]
<1> DEFINE n == Len(o)
           u == SubSeq(o, 1, i - 1)
           v == SubSeq(o, i, n)
           w == u \o <<p>>
<1>1. n \in Nat /\ i \in 1..n + 1
  OBVIOUS
<1>2. /\ u \in Seq(S) /\ Len(u) = i - 1 /\ v \in Seq(S) /\ Len(v) = n - i + 1
      /\ \A k \in 1..i - 1 : u[k] = o[k]
      /\ \A k \in 1..n - i + 1 : v[k] = o[i + k - 1]
  BY Pieces
<1> HIDE DEF u, v, n
<1>3. <<p>> \in Seq(S) /\ Len(<<p>>) = 1 /\ <<p>>[1] = p
  OBVIOUS
<1>4. /\ w \in Seq(S) /\ Len(w) = i
      /\ \A k \in 1..i : w[k] = IF k <= Len(u) THEN u[k] ELSE <<p>>[k - Len(u)]
  <2>1. i = Len(u) + Len(<<p>>) /\ i \in Nat
    BY <1>1, <1>2, <1>3
  <2>2. \A x, y \in Seq(S) : \A m \in Nat : m = Len(x) + Len(y) =>
          /\ x \o y \in Seq(S) /\ Len(x \o y) = m
          /\ \A k \in 1..m : (x \o y)[k] = IF k <= Len(x) THEN x[k] ELSE y[k - Len(x)]
    BY Glued
  <2> QED BY <1>2, <1>3, <2>1, <2>2
<1>5. \A k \in 1..i - 1 : w[k] = o[k]
  BY <1>1, <1>2, <1>4
<1>6. w[i] = p
  <2>1. i \in 1..i /\ ~(i <= i - 1) /\ i - (i - 1) = 1
    BY <1>1
  <2> QED BY <1>2, <1>3, <1>4, <2>1
<1> HIDE DEF w
<1>7. /\ w \o v \in Seq(S) /\ Len(w \o v) = n + 1
      /\ \A k \in 1..n + 1 : (w \o v)[k] = IF k <= Len(w) THEN w[k] ELSE v[k - Len(w)]
  <2>1. n + 1 = Len(w) + Len(v) /\ n + 1 \in Nat
    BY <1>1, <1>2, <1>4
  <2>2. \A x, y \in Seq(S) : \A m \in Nat : m = Len(x) + Len(y) =>
          /\ x \o y \in Seq(S) /\ Len(x \o y) = m
          /\ \A k \in 1..m : (x \o y)[k] = IF k <= Len(x) THEN x[k] ELSE y[k - Len(x)]
    BY Glued
  <2> QED BY <1>2, <1>4, <2>1, <2>2
<1>8. ASSUME NEW k \in 1..n + 1, k < i PROVE (w \o v)[k] = o[k]
  <2>1. k \in 1..i - 1 /\ k <= i
    BY <1>1, <1>8
  <2> QED BY <1>4, <1>5, <1>7, <2>1
<1>9. ASSUME NEW k \in 1..n + 1, k > i PROVE (w \o v)[k] = o[k - 1]
  <2>1. k - i \in 1..n - i + 1 /\ i + (k - i) - 1 = k - 1 /\ ~(k <= i)
    BY <1>1, <1>9
  <2>2. v[k - i] = o[i + (k - i) - 1]
    BY <1>2, <2>1
  <2>3. (w \o v)[k] = v[k - i]
    BY <1>4, <1>7, <2>1
  <2> QED BY <2>1, <2>2, <2>3
<1>10. InsertAt(o, i, p) = w \o v
  BY DEF InsertAt, w, u, v, n
<1>11. (w \o v)[i] = p
  <2>1. i \in 1..n + 1 /\ i <= i
    BY <1>1
  <2> QED BY <1>4, <1>6, <1>7, <2>1
<1>12. \A k \in 1..n + 1 : (w \o v)[k] = IF k < i THEN o[k] ELSE IF k = i THEN p ELSE o[k - 1]
  <2>1. \A k \in 1..n + 1 : k < i \/ k = i \/ k > i
    BY <1>1
  <2>2. \A k \in 1..n + 1 : k > i => ~(k < i) /\ k # i
    BY <1>1
  <2> QED BY <1>8, <1>9, <1>11, <2>1, <2>2
<1> QED BY <1>7, <1>10, <1>12 DEF n

\* The one at i taken out.
LEMMA RemovePlaces ==
  ASSUME NEW S, NEW o \in Seq(S), NEW i \in 1..Len(o)
  PROVE  /\ RemoveAt(o, i) \in Seq(S) /\ Len(RemoveAt(o, i)) = Len(o) - 1
         /\ \A k \in 1..Len(o) - 1 : RemoveAt(o, i)[k] = IF k < i THEN o[k] ELSE o[k + 1]
<1> DEFINE n == Len(o)
           u == SubSeq(o, 1, i - 1)
           v == SubSeq(o, i + 1, n)
<1>1. n \in Nat /\ i \in 1..n /\ i \in 1..n + 1 /\ i + 1 \in 1..n + 1
  OBVIOUS
<1>2. u \in Seq(S) /\ Len(u) = i - 1 /\ \A k \in 1..i - 1 : u[k] = o[k]
  BY <1>1, Pieces
<1>3. /\ v \in Seq(S) /\ Len(v) = n - (i + 1) + 1
      /\ \A k \in 1..n - (i + 1) + 1 : v[k] = o[i + 1 + k - 1]
  BY <1>1, Pieces
<1> HIDE DEF u, v, n
<1>4. /\ u \o v \in Seq(S) /\ Len(u \o v) = n - 1
      /\ \A k \in 1..n - 1 : (u \o v)[k] = IF k <= Len(u) THEN u[k] ELSE v[k - Len(u)]
  <2>1. n - 1 = Len(u) + Len(v) /\ n - 1 \in Nat
    BY <1>1, <1>2, <1>3
  <2>2. \A x, y \in Seq(S) : \A m \in Nat : m = Len(x) + Len(y) =>
          /\ x \o y \in Seq(S) /\ Len(x \o y) = m
          /\ \A k \in 1..m : (x \o y)[k] = IF k <= Len(x) THEN x[k] ELSE y[k - Len(x)]
    BY Glued
  <2> QED BY <1>2, <1>3, <2>1, <2>2
<1>5. ASSUME NEW k \in 1..n - 1, k < i PROVE (u \o v)[k] = o[k]
  <2>1. k \in 1..i - 1 /\ k <= i - 1
    BY <1>1, <1>5
  <2> QED BY <1>2, <1>4, <2>1
<1>6. ASSUME NEW k \in 1..n - 1, ~(k < i) PROVE (u \o v)[k] = o[k + 1]
  <2>1. /\ k - (i - 1) \in 1..n - (i + 1) + 1 /\ i + 1 + (k - (i - 1)) - 1 = k + 1
        /\ ~(k <= i - 1)
    BY <1>1, <1>6
  <2>2. v[k - (i - 1)] = o[i + 1 + (k - (i - 1)) - 1]
    BY <1>3, <2>1
  <2>3. (u \o v)[k] = v[k - (i - 1)]
    BY <1>2, <1>4, <2>1
  <2> QED BY <2>1, <2>2, <2>3
<1>7. RemoveAt(o, i) = u \o v
  BY DEF RemoveAt, u, v, n
<1>8. \A k \in 1..n - 1 : (u \o v)[k] = IF k < i THEN o[k] ELSE o[k + 1]
  BY <1>5, <1>6
<1> QED BY <1>4, <1>7, <1>8 DEF n
LEMMA Enumerated ==
  ASSUME NEW S, IsFiniteSet(S), NEW o \in SetToSeqs(S)
  PROVE  /\ o \in Seq(S) /\ Len(o) = Cardinality(S)
         /\ \A i, j \in 1..Cardinality(S) : i # j => o[i] # o[j]
<1>1. Cardinality(S) \in Nat
  BY FS_CardinalityType
<1>2. o \in [1..Cardinality(S) -> S] /\ \A i, j \in 1..Cardinality(S) : i # j => o[i] # o[j]
  BY DEF SetToSeqs
<1> QED BY <1>1, <1>2

\* Putting an element in moves no other to the front, and taking one out removes no other.
LEMMA InsertKeeps ==
  ASSUME NEW S, NEW o \in Seq(S), NEW p \in S, NEW i \in 1..Len(o) + 1
  PROVE  /\ InsertAt(o, i, p) \in Seq(S)
         /\ \A k \in 1..Len(o) :
              \E j \in 1..Len(InsertAt(o, i, p)) : j >= k /\ InsertAt(o, i, p)[j] = o[k]
<1> DEFINE n == Len(o)
           w == InsertAt(o, i, p)
<1>1. n \in Nat /\ i \in 1..n + 1
  OBVIOUS
<1>2. /\ w \in Seq(S) /\ Len(w) = n + 1
      /\ \A k \in 1..n + 1 : w[k] = IF k < i THEN o[k] ELSE IF k = i THEN p ELSE o[k - 1]
  BY InsertPlaces
<1> HIDE DEF n, w
<1>3. ASSUME NEW k \in 1..n PROVE \E j \in 1..Len(w) : j >= k /\ w[j] = o[k]
  <2>1. CASE k < i
    <3>1. k \in 1..n + 1 /\ w[k] = o[k]
      BY <1>1, <1>2, <2>1
    <3> QED BY <1>2, <3>1
  <2>2. CASE ~(k < i)
    <3>1. k + 1 \in 1..n + 1 /\ ~(k + 1 < i) /\ k + 1 # i /\ (k + 1) - 1 = k /\ k + 1 >= k
      BY <1>1, <2>2
    <3>2. w[k + 1] = o[k]
      BY <1>2, <3>1
    <3> QED BY <1>2, <3>1, <3>2
  <2> QED BY <2>1, <2>2
<1> QED BY <1>2, <1>3 DEF n, w

LEMMA RemoveKeeps ==
  ASSUME NEW S, NEW o \in Seq(S), NEW i \in 1..Len(o)
  PROVE  /\ RemoveAt(o, i) \in Seq(S)
         /\ \A k \in 1..Len(o) : k # i => \E j \in 1..Len(RemoveAt(o, i)) : RemoveAt(o, i)[j] = o[k]
<1> DEFINE n == Len(o)
           w == RemoveAt(o, i)
<1>1. n \in Nat /\ i \in 1..n
  OBVIOUS
<1>2. /\ w \in Seq(S) /\ Len(w) = n - 1
      /\ \A k \in 1..n - 1 : w[k] = IF k < i THEN o[k] ELSE o[k + 1]
  BY RemovePlaces
<1> HIDE DEF n, w
<1>3. ASSUME NEW k \in 1..n, k # i PROVE \E j \in 1..Len(w) : w[j] = o[k]
  <2>1. CASE k < i
    <3>1. k \in 1..n - 1 /\ w[k] = o[k]
      BY <1>1, <1>2, <2>1
    <3> QED BY <1>2, <3>1
  <2>2. CASE ~(k < i)
    <3>1. k - 1 \in 1..n - 1 /\ ~(k - 1 < i) /\ (k - 1) + 1 = k
      BY <1>1, <1>3, <2>2
    <3>2. w[k - 1] = o[k]
      BY <1>2, <3>1
    <3> QED BY <1>2, <3>1, <3>2
  <2> QED BY <2>1, <2>2
<1> QED BY <1>2, <1>3 DEF n, w
=============================================================================
