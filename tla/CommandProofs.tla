----------------------------- MODULE CommandProofs ------------------------------
(* Theorems about Command for any forges, repositories, calls and number of   *)
(* changes.                                                                   *)
EXTENDS Command, SequenceTheorems, TLAPS

Name == Seq(Text)
Path == Seq(Name)

-----------------------------------------------------------------------------
(* Paths, place by place. *)

LEMMA SameAppended ==
  ASSUME NEW x \in Name, NEW y \in Name, NEW d \in Text, NEW e \in Text,
         Append(x, d) = Append(y, e)
  PROVE  x = y /\ d = e
<1>1. x \in Seq(Text) /\ y \in Seq(Text)
  BY DEF Name
<1> QED BY <1>1, AppendInjective

LEMMA SameJoined ==
  ASSUME NEW a \in Path, NEW u \in Path, NEW v \in Path
  PROVE  (a \o u) \o v = a \o (u \o v)
  BY ConcatAssociative DEF Path

LEMMA PrefixPlaces ==
  ASSUME NEW s \in Path, NEW t \in Path
  PROVE  IsPrefix(s, t) <=> Len(s) <= Len(t) /\ \A k \in 1..Len(s) : s[k] = t[k]
<1>1. Len(s) \in Nat /\ Len(t) \in Nat
  OBVIOUS
<1>2. SubSeq(s, 1, Len(s)) = s
  BY SubSeqFull DEF Path
<1>3. ASSUME Len(s) <= Len(t)
      PROVE  /\ SubSeq(t, 1, Len(s)) \in Path /\ Len(SubSeq(t, 1, Len(s))) = Len(s)
             /\ \A k \in 1..Len(s) : SubSeq(t, 1, Len(s))[k] = t[k]
  <2>1. \A k \in 1..Len(s) : t[k] \in Name
    BY <1>1, <1>3, ElementOfSeq DEF Path
  <2> DEFINE u == SubSeq(t, 1, Len(s))
  <2>2. /\ u \in Seq(Name) /\ Len(u) = IF 1 <= Len(s) THEN Len(s) - 1 + 1 ELSE 0
        /\ \A k \in 1..Len(s) - 1 + 1 : u[k] = t[1 + k - 1]
    BY <1>1, <2>1, SubSeqProperties
  <2> HIDE DEF u
  <2>3. \A k \in 1..Len(s) : u[k] = t[k]
    BY <1>1, <2>2
  <2>4. Len(u) = Len(s)
    BY <1>1, <2>2
  <2> QED BY <2>2, <2>3, <2>4 DEF u, Path
<1>4. ASSUME Len(s) <= Len(t)
      PROVE  SubSeq(t, 1, Len(s)) = s <=> \A k \in 1..Len(s) : s[k] = t[k]
  <2> DEFINE u == SubSeq(t, 1, Len(s))
  <2>1. u \in Path /\ Len(u) = Len(s) /\ \A k \in 1..Len(s) : u[k] = t[k]
    BY <1>3, <1>4
  <2> HIDE DEF u
  <2>2. ASSUME \A k \in 1..Len(s) : s[k] = t[k] PROVE u = s
    BY <2>1, <2>2, SeqEqual DEF Path
  <2> QED BY <2>1, <2>2 DEF u
<1> QED BY <1>2, <1>4 DEF IsPrefix

LEMMA NamedPlaces ==
  ASSUME NEW p \in Path, p # <<>>, NEW ext \in Text
  PROVE  /\ Named(p, ext) \in Path /\ Named(p, ext) # <<>> /\ Len(Named(p, ext)) = Len(p)
         /\ \A k \in 1..Len(p) - 1 : Named(p, ext)[k] = p[k]
         /\ Named(p, ext)[Len(p)] = Append(p[Len(p)], ext)
<1> DEFINE n == Len(p)
           last == Append(p[n], ext)
           u == SubSeq(p, 1, n - 1)
<1>1. n \in Nat \ {0} /\ \A k \in 1..n : p[k] \in Name
  BY EmptySeq, ElementOfSeq DEF Path
<1>2. last \in Name
  <2>1. p[n] \in Seq(Text)
    BY <1>1 DEF Name
  <2> QED BY <2>1, AppendProperties DEF Name
<1>3. /\ u \in Seq(Name) /\ Len(u) = IF 1 <= n - 1 THEN n - 1 - 1 + 1 ELSE 0
      /\ \A k \in 1..n - 1 - 1 + 1 : u[k] = p[1 + k - 1]
  BY <1>1, SubSeqProperties
<1> HIDE DEF u
<1>4. u \in Seq(Name) /\ Len(u) = n - 1 /\ \A k \in 1..n - 1 : u[k] = p[k]
  <2>1. u \in Seq(Name)
    BY <1>3
  <2>2. Len(u) = n - 1
    <3>1. n \in Nat \ {0}
      BY <1>1
    <3> HIDE DEF n
    <3>2. n = 1 \/ (1 <= n - 1 /\ n - 1 - 1 + 1 = n - 1)
      BY <3>1
    <3>3. n = 1 => n - 1 = 0 /\ ~(1 <= n - 1)
      OBVIOUS
    <3> QED BY <1>3, <3>2, <3>3
  <2>3. \A k \in 1..n - 1 : u[k] = p[k]
    BY <1>1, <1>3
  <2> QED BY <2>1, <2>2, <2>3
<1> HIDE DEF last
<1>5. <<last>> \in Seq(Name) /\ Len(<<last>>) = 1 /\ <<last>>[1] = last
  BY <1>2
<1>6. /\ u \o <<last>> \in Seq(Name) /\ Len(u \o <<last>>) = Len(u) + Len(<<last>>)
      /\ \A k \in 1..Len(u) + Len(<<last>>) :
           (u \o <<last>>)[k] = IF k <= Len(u) THEN u[k] ELSE <<last>>[k - Len(u)]
  BY <1>4, <1>5, ConcatProperties
<1>7. Named(p, ext) = u \o <<last>>
  BY DEF Named, Front, Last, u, last
<1>8. Len(u \o <<last>>) = n /\ \A k \in 1..n - 1 : (u \o <<last>>)[k] = p[k]
  BY <1>1, <1>4, <1>5, <1>6
<1>9. (u \o <<last>>)[n] = last
  <2>1. n \in 1..Len(u) + Len(<<last>>) /\ ~(n <= Len(u)) /\ n - Len(u) = 1
    BY <1>1, <1>4, <1>5
  <2> QED BY <1>5, <1>6, <2>1
<1>10. u \o <<last>> # <<>>
  BY <1>1, <1>8
<1> QED BY <1>6, <1>7, <1>8, <1>9, <1>10 DEF Path, last

LEMMA JoinedPlaces ==
  ASSUME NEW a \in Path, NEW u \in Path
  PROVE  /\ a \o u \in Path /\ Len(a \o u) = Len(a) + Len(u)
         /\ \A k \in 1..Len(a) : (a \o u)[k] = a[k]
         /\ \A k \in 1..Len(u) : (a \o u)[Len(a) + k] = u[k]
<1>1. Len(a) \in Nat /\ Len(u) \in Nat
  OBVIOUS
<1>2. /\ a \o u \in Seq(Name) /\ Len(a \o u) = Len(a) + Len(u)
      /\ \A k \in 1..Len(a) + Len(u) : (a \o u)[k] = IF k <= Len(a) THEN a[k] ELSE u[k - Len(a)]
  BY ConcatProperties DEF Path
<1>3. \A k \in 1..Len(u) : /\ Len(a) + k \in 1..Len(a) + Len(u)
                           /\ ~(Len(a) + k <= Len(a)) /\ (Len(a) + k) - Len(a) = k
  BY <1>1
<1>4. \A k \in 1..Len(a) : k \in 1..Len(a) + Len(u)
  BY <1>1
<1> QED BY <1>1, <1>2, <1>3, <1>4 DEF Path

-----------------------------------------------------------------------------
(* Where the copies of a repository lie, and that no two lie in one place. *)

Exts == {"git", "tar.gz", "metadata"}
ArchiveRoot(f) == <<<<"archive">>>> \o Names[f]
Roots(f) == {Names[f], ArchiveRoot(f)}
AssetRest == <<<<"releases">>, Tag, <<"assets">>, Asset>>
Rest(p, ext) == IF ext = "metadata" THEN Named(p, ext) \o AssetRest ELSE Named(p, ext)

LEMMA HostedPaths ==
  ASSUME NEW f \in Forges, NEW p \in Hosted[f]
  PROVE  /\ p \in Path /\ p # <<>> /\ Len(p) \in Nat \ {0}
         /\ \A k \in 1..Len(p) : p[k] \in Name /\ p[k] # <<>> /\ ~HasSuffix(p[k], "git")
<1>1. p \in Seq(Name)
  BY CommandAssumption DEF Name
<1>2. p # <<>> /\ \A k \in DOMAIN p : p[k] # <<>> /\ ~HasSuffix(p[k], "git")
  BY PathsApart
<1>3. DOMAIN p = 1..Len(p) /\ \A k \in 1..Len(p) : p[k] \in Name
  BY <1>1, ElementOfSeq
<1>4. Len(p) \in Nat \ {0}
  BY <1>1, <1>2, EmptySeq
<1> QED BY <1>1, <1>2, <1>3, <1>4 DEF Path

LEMMA RootPaths ==
  ASSUME NEW f \in Forges
  PROVE  /\ Names[f] \in Path /\ ArchiveRoot(f) \in Path /\ Len(Names[f]) \in Nat \ {0}
         /\ Names[f][1] # <<"archive">> /\ ArchiveRoot(f)[1] = <<"archive">>
         /\ Len(ArchiveRoot(f)) = Len(Names[f]) + 1
         /\ \A k \in 1..Len(Names[f]) : ArchiveRoot(f)[k + 1] = Names[f][k]
<1> DEFINE first == <<<<"archive">>>>
<1>1. Names[f] \in Seq(Name) /\ Names[f] # <<>> /\ Names[f][1] # <<"archive">>
  BY CommandAssumption, NamesApart DEF Forges, Name
<1>2. Len(Names[f]) \in Nat \ {0}
  BY <1>1, EmptySeq
<1>3. first \in Path /\ Len(first) = 1 /\ first[1] = <<"archive">>
  <2>1. <<"archive">> \in Name
    BY DEF Name, Text
  <2> QED BY <2>1 DEF Path
<1> HIDE DEF first
<1>4. /\ first \o Names[f] \in Path /\ Len(first \o Names[f]) = Len(first) + Len(Names[f])
      /\ \A k \in 1..Len(first) : (first \o Names[f])[k] = first[k]
      /\ \A k \in 1..Len(Names[f]) : (first \o Names[f])[Len(first) + k] = Names[f][k]
  BY <1>1, <1>3, JoinedPlaces DEF Path
<1>5. ArchiveRoot(f) = first \o Names[f]
  BY DEF ArchiveRoot, first
<1>6. \A k \in 1..Len(Names[f]) : 1 + k = k + 1
  BY <1>2
<1> QED BY <1>1, <1>2, <1>3, <1>4, <1>5, <1>6 DEF Path

LEMMA AssetRestPath == AssetRest \in Path /\ Len(AssetRest) = 4
<1>1. <<"releases">> \in Name /\ Tag \in Name /\ <<"assets">> \in Name /\ Asset \in Name
  BY CommandAssumption DEF Name, Text
<1> QED BY <1>1 DEF AssetRest, Path

\* The names of a repository's path come first, the last of them with the extension.
LEMMA RestPlaces ==
  ASSUME NEW p \in Path, p # <<>>, NEW ext \in Exts
  PROVE  /\ Rest(p, ext) \in Path
         /\ Len(Rest(p, ext)) = IF ext = "metadata" THEN Len(p) + 4 ELSE Len(p)
         /\ \A k \in 1..Len(p) - 1 : Rest(p, ext)[k] = p[k]
         /\ Rest(p, ext)[Len(p)] = Append(p[Len(p)], ext)
<1>1. /\ Named(p, ext) \in Path /\ Named(p, ext) # <<>> /\ Len(Named(p, ext)) = Len(p)
      /\ \A k \in 1..Len(p) - 1 : Named(p, ext)[k] = p[k]
      /\ Named(p, ext)[Len(p)] = Append(p[Len(p)], ext)
  BY NamedPlaces DEF Exts, Text
<1>2. CASE ext # "metadata"
  BY <1>1, <1>2 DEF Rest
<1>3. CASE ext = "metadata"
  <2>1. Len(p) \in Nat \ {0}
    BY EmptySeq DEF Path
  <2> DEFINE u == Named(p, ext)
  <2> HIDE DEF u
  <2>2. u \in Path /\ Len(u) = Len(p)
    BY <1>1 DEF u
  <2>3. /\ u \o AssetRest \in Path /\ Len(u \o AssetRest) = Len(u) + Len(AssetRest)
        /\ \A k \in 1..Len(u) : (u \o AssetRest)[k] = u[k]
    BY <2>2, AssetRestPath, JoinedPlaces
  <2>4. Len(u \o AssetRest) = Len(p) + 4
    BY <2>2, <2>3, AssetRestPath
  <2>5. Rest(p, ext) = u \o AssetRest
    BY <1>3 DEF Rest, u
  <2>6. Len(p) \in 1..Len(p) /\ \A k \in 1..Len(p) - 1 : k \in 1..Len(p)
    BY <2>1
  <2>7. \A k \in 1..Len(p) : (u \o AssetRest)[k] = Named(p, ext)[k]
    BY <2>2, <2>3 DEF u
  <2> QED BY <1>1, <1>3, <2>3, <2>4, <2>5, <2>6, <2>7
<1> QED BY <1>2, <1>3

LEMMA NamesMeet ==
  ASSUME NEW f \in Forges, NEW g \in Forges,
         \A k \in 1..Len(Names[f]) : k <= Len(Names[g]) => Names[f][k] = Names[g][k]
  PROVE  f = g
<1> SUFFICES ASSUME f # g PROVE FALSE
  OBVIOUS
<1>1. Names[f] \in Path /\ Names[g] \in Path /\ Len(Names[f]) \in Nat /\ Len(Names[g]) \in Nat
  BY RootPaths
<1>2. CASE Len(Names[f]) <= Len(Names[g])
  <2>1. \A k \in 1..Len(Names[f]) : Names[f][k] = Names[g][k]
    BY <1>1, <1>2
  <2>2. IsPrefix(Names[f], Names[g])
    BY <1>1, <1>2, <2>1, PrefixPlaces
  <2> QED BY <2>2, NamesApart
<1>3. CASE Len(Names[g]) <= Len(Names[f])
  <2>1. \A k \in 1..Len(Names[g]) : Names[g][k] = Names[f][k]
    BY <1>1, <1>3
  <2>2. IsPrefix(Names[g], Names[f])
    BY <1>1, <1>3, <2>1, PrefixPlaces
  <2> QED BY <2>2, NamesApart
<1> QED BY <1>1, <1>2, <1>3

\* What lies below a root of one forge lies below no other root.
LEMMA RootsApart ==
  ASSUME NEW f \in Forges, NEW g \in Forges, NEW a \in Roots(f), NEW b \in Roots(g),
         NEW u \in Path, NEW v \in Path, IsPrefix(a \o u, b \o v)
  PROVE  f = g /\ a = b /\ IsPrefix(u, v)
<1> DEFINE m == Len(Names[f])
           n == Len(Names[g])
<1>1. /\ a \in Path /\ b \in Path /\ Len(a) \in Nat /\ Len(b) \in Nat
      /\ Len(u) \in Nat /\ Len(v) \in Nat /\ m \in Nat \ {0} /\ n \in Nat \ {0}
  BY RootPaths DEF Roots, Path
<1>2. /\ a \o u \in Path /\ Len(a \o u) = Len(a) + Len(u)
      /\ \A k \in 1..Len(a) : (a \o u)[k] = a[k]
      /\ \A k \in 1..Len(u) : (a \o u)[Len(a) + k] = u[k]
  BY <1>1, JoinedPlaces
<1>3. /\ b \o v \in Path /\ Len(b \o v) = Len(b) + Len(v)
      /\ \A k \in 1..Len(b) : (b \o v)[k] = b[k]
      /\ \A k \in 1..Len(v) : (b \o v)[Len(b) + k] = v[k]
  BY <1>1, JoinedPlaces
<1>4. /\ Len(a) + Len(u) <= Len(b) + Len(v)
      /\ \A k \in 1..Len(a) + Len(u) : (a \o u)[k] = (b \o v)[k]
  <2> DEFINE s == a \o u
             t == b \o v
  <2>1. s \in Path /\ t \in Path /\ IsPrefix(s, t)
    BY <1>2, <1>3
  <2>2. Len(s) = Len(a) + Len(u) /\ Len(t) = Len(b) + Len(v)
    BY <1>2, <1>3
  <2> HIDE DEF s, t
  <2>3. Len(s) <= Len(t) /\ \A k \in 1..Len(s) : s[k] = t[k]
    BY <2>1, PrefixPlaces
  <2> QED BY <2>2, <2>3 DEF s, t
<1>5. \A k \in 1..Len(a) : k <= Len(b) => a[k] = b[k]
  <2> SUFFICES ASSUME NEW k \in 1..Len(a), k <= Len(b) PROVE a[k] = b[k]
    OBVIOUS
  <2>1. k \in 1..Len(a) + Len(u) /\ k \in 1..Len(b)
    BY <1>1
  <2> QED BY <1>2, <1>3, <1>4, <2>1
<1>6. /\ Names[f][1] # <<"archive">> /\ ArchiveRoot(f)[1] = <<"archive">>
      /\ Len(ArchiveRoot(f)) = m + 1 /\ \A k \in 1..m : ArchiveRoot(f)[k + 1] = Names[f][k]
      /\ Names[g][1] # <<"archive">> /\ ArchiveRoot(g)[1] = <<"archive">>
      /\ Len(ArchiveRoot(g)) = n + 1 /\ \A k \in 1..n : ArchiveRoot(g)[k + 1] = Names[g][k]
  BY RootPaths
<1>7. f = g /\ a = b
  <2>1. a[1] = b[1]
    <3>1. 1 \in 1..Len(a) /\ 1 <= Len(b)
      BY <1>1, <1>6 DEF Roots
    <3> QED BY <1>5, <3>1
  <2>2. CASE a = Names[f] /\ b = Names[g]
    <3>1. f = g
      BY <1>5, <2>2, NamesMeet
    <3> QED BY <2>2, <3>1
  <2>3. CASE a = ArchiveRoot(f) /\ b = ArchiveRoot(g)
    <3>1. ASSUME NEW k \in 1..m, k <= n PROVE Names[f][k] = Names[g][k]
      <4>1. k + 1 \in 1..Len(a) /\ k + 1 <= Len(b) /\ k \in 1..n
        BY <1>1, <1>6, <2>3, <3>1
      <4>2. a[k + 1] = b[k + 1]
        BY <1>5, <4>1
      <4> QED BY <1>6, <2>3, <4>1, <4>2
    <3>2. f = g
      BY <3>1, NamesMeet
    <3> QED BY <2>3, <3>2
  <2> QED BY <1>6, <2>1, <2>2, <2>3 DEF Roots
<1>8. Len(u) <= Len(v) /\ \A k \in 1..Len(u) : u[k] = v[k]
  <2>1. Len(u) <= Len(v)
    BY <1>1, <1>4, <1>7
  <2>2. ASSUME NEW k \in 1..Len(u) PROVE u[k] = v[k]
    <3>1. Len(a) + k \in 1..Len(a) + Len(u) /\ k \in 1..Len(v)
      BY <1>1, <2>1
    <3>2. (a \o u)[Len(a) + k] = (b \o v)[Len(b) + k]
      BY <1>4, <1>7, <3>1
    <3> QED BY <1>2, <1>3, <3>1, <3>2
  <2> QED BY <2>1, <2>2
<1> QED BY <1>7, <1>8, PrefixPlaces

\* A mirror lies neither below a repository's own copies nor above them, the metadata aside.
LEMMA GitApart ==
  ASSUME NEW f \in Forges, NEW q \in Hosted[f], NEW ext \in Exts,
         NEW p \in Path, p # <<>>, Last(p) # <<>>, IsPrefix(Named(p, "git"), Rest(q, ext))
  PROVE  \/ ext = "git" /\ p = q
         \/ ext = "metadata" /\ Len(p) > Len(q)
<1> DEFINE n == Len(p)
           m == Len(q)
<1>1. /\ q \in Path /\ q # <<>> /\ m \in Nat \ {0}
      /\ \A k \in 1..m : q[k] \in Name /\ q[k] # <<>> /\ ~HasSuffix(q[k], "git")
  BY HostedPaths
<1>2. n \in Nat \ {0} /\ p[n] \in Name /\ p[n] # <<>>
  BY EmptySeq, ElementOfSeq DEF Path, Last
<1>3. /\ Named(p, "git") \in Path /\ Len(Named(p, "git")) = n
      /\ \A k \in 1..n - 1 : Named(p, "git")[k] = p[k]
      /\ Named(p, "git")[n] = Append(p[n], "git")
  BY NamedPlaces DEF Text
<1>4. /\ Rest(q, ext) \in Path
      /\ Len(Rest(q, ext)) = IF ext = "metadata" THEN m + 4 ELSE m
      /\ \A k \in 1..m - 1 : Rest(q, ext)[k] = q[k]
      /\ Rest(q, ext)[m] = Append(q[m], ext)
  BY <1>1, RestPlaces
<1>5. /\ n <= Len(Rest(q, ext))
      /\ \A k \in 1..n : Named(p, "git")[k] = Rest(q, ext)[k]
  BY <1>3, <1>4, PrefixPlaces
<1>6. HasSuffix(Append(p[n], "git"), "git")
  <2>1. "git" \in Text
    BY DEF Text
  <2>2. Len(Append(p[n], "git")) = Len(p[n]) + 1 /\ Append(p[n], "git")[Len(p[n]) + 1] = "git"
    BY <1>2, <2>1, AppendProperties DEF Name
  <2>3. Len(p[n]) \in Nat \ {0}
    BY <1>2, EmptySeq DEF Name
  <2> QED BY <2>2, <2>3 DEF HasSuffix, Last
<1> HIDE DEF n, m
<1>7. ~(n < m)
  <2> SUFFICES ASSUME n < m PROVE FALSE
    OBVIOUS
  <2>1. n \in 1..m - 1 /\ n \in 1..m /\ n \in 1..n
    BY <1>1, <1>2
  <2>2. Append(p[n], "git") = q[n]
    BY <1>3, <1>4, <1>5, <2>1
  <2> QED BY <1>1, <1>6, <2>1, <2>2
<1>8. CASE n = m
  <2>1. n \in 1..n
    BY <1>2
  <2>2. Append(p[n], "git") = Append(q[n], ext)
    BY <1>3, <1>4, <1>5, <1>8, <2>1
  <2>3. q[n] \in Name /\ ext \in Text /\ "git" \in Text
    BY <1>1, <1>8, <2>1 DEF Exts, Text
  <2>4. p[n] = q[n] /\ "git" = ext
    BY <1>2, <1>8, <2>2, <2>3, SameAppended
  <2>5. ASSUME NEW k \in 1..n PROVE p[k] = q[k]
    <3>1. CASE k = n
      BY <2>4, <3>1
    <3>2. CASE k # n
      <4>1. k \in 1..n - 1 /\ k \in 1..m - 1
        BY <1>2, <1>8, <3>2
      <4> QED BY <1>3, <1>4, <1>5, <4>1
    <3> QED BY <3>1, <3>2
  <2>6. p = q
    BY <1>1, <1>8, <2>5, SeqEqual DEF Path, n, m
  <2> QED BY <2>4, <2>6
<1>9. CASE n > m
  <2>1. ext = "metadata"
    BY <1>1, <1>2, <1>4, <1>5, <1>9
  <2> QED BY <1>9, <2>1 DEF n, m
<1> QED BY <1>1, <1>2, <1>7, <1>8, <1>9

\* Two copies in one place below one root are copies of one repository.
LEMMA SameNamed ==
  ASSUME NEW p \in Path, p # <<>>, NEW q \in Path, q # <<>>, NEW d \in Text, NEW e \in Text,
         Named(p, d) = Named(q, e)
  PROVE  p = q /\ d = e
<1> DEFINE n == Len(p)
<1>1. n \in Nat \ {0} /\ Len(q) \in Nat \ {0} /\ p[n] \in Name /\ q[Len(q)] \in Name
  BY EmptySeq, ElementOfSeq DEF Path
<1>2. /\ Named(p, d) \in Path /\ Len(Named(p, d)) = n
      /\ \A k \in 1..n - 1 : Named(p, d)[k] = p[k]
      /\ Named(p, d)[n] = Append(p[n], d)
  BY NamedPlaces
<1>3. /\ Len(Named(q, e)) = Len(q)
      /\ \A k \in 1..Len(q) - 1 : Named(q, e)[k] = q[k]
      /\ Named(q, e)[Len(q)] = Append(q[Len(q)], e)
  BY NamedPlaces
<1>4. Len(q) = n
  BY <1>2, <1>3
<1> HIDE DEF n
<1>5. Append(p[n], d) = Append(q[n], e)
  BY <1>2, <1>3, <1>4
<1>6. p[n] = q[n] /\ d = e
  BY <1>1, <1>4, <1>5, SameAppended
<1>7. \A k \in 1..n : p[k] = q[k]
  <2> SUFFICES ASSUME NEW k \in 1..n PROVE p[k] = q[k]
    OBVIOUS
  <2>1. CASE k = n
    BY <1>6, <2>1
  <2>2. CASE k # n
    <3>1. k \in 1..n - 1
      BY <1>1, <2>2
    <3> QED BY <1>2, <1>3, <1>4, <3>1
  <2> QED BY <2>1, <2>2
<1>8. p = q
  BY <1>4, <1>7, SeqEqual DEF Path, n
<1> QED BY <1>6, <1>8

\* The metadata of one repository is not where another one's mirror or archive is.
LEMMA MetadataApart ==
  ASSUME NEW f \in Forges, NEW p \in Hosted[f], NEW q \in Hosted[f], NEW ext \in Exts,
         ext # "metadata"
  PROVE  Rest(p, "metadata") # Rest(q, ext)
<1> SUFFICES ASSUME Rest(p, "metadata") = Rest(q, ext) PROVE FALSE
  OBVIOUS
<1> DEFINE n == Len(p)
           m == Len(q)
<1>1. p \in Path /\ p # <<>> /\ n \in Nat \ {0} /\ q \in Path /\ q # <<>> /\ m \in Nat \ {0}
  BY HostedPaths
<1>2. /\ Len(Rest(q, ext)) = m /\ \A k \in 1..m - 1 : Rest(q, ext)[k] = q[k]
  BY <1>1, RestPlaces
<1>3. /\ Len(Rest(p, "metadata")) = n + 4
      /\ \A k \in 1..n - 1 : Rest(p, "metadata")[k] = p[k]
      /\ Rest(p, "metadata")[n] = Append(p[n], "metadata")
  BY <1>1, RestPlaces DEF Exts
<1>4. /\ Named(p, "metadata") \in Path /\ Len(Named(p, "metadata")) = n
      /\ \A k \in 1..n - 1 : Named(p, "metadata")[k] = p[k]
      /\ Named(p, "metadata")[n] = Append(p[n], "metadata")
  BY <1>1, NamedPlaces DEF Text
<1> HIDE DEF n, m
<1>5. m = n + 4
  BY <1>1, <1>2, <1>3
<1>6. \A k \in 1..n : Named(p, "metadata")[k] = q[k]
  <2> SUFFICES ASSUME NEW k \in 1..n PROVE Named(p, "metadata")[k] = q[k]
    OBVIOUS
  <2>1. k \in 1..m - 1 /\ (k = n \/ k \in 1..n - 1)
    BY <1>1, <1>5
  <2> QED BY <1>2, <1>3, <1>4, <2>1
<1>7. n <= Len(q)
  BY <1>1, <1>5 DEF m
<1>8. IsPrefix(Named(p, "metadata"), q)
  BY <1>1, <1>4, <1>6, <1>7, PrefixPlaces
<1> QED BY <1>8, PathsApart

LEMMA RestApart ==
  ASSUME NEW f \in Forges, NEW p \in Hosted[f], NEW q \in Hosted[f],
         NEW d \in Exts, NEW e \in Exts, Rest(p, d) = Rest(q, e)
  PROVE  p = q /\ d = e
<1>1. p \in Path /\ p # <<>> /\ q \in Path /\ q # <<>> /\ d \in Text /\ e \in Text
  BY HostedPaths DEF Exts, Text
<1>2. CASE d # "metadata" /\ e # "metadata"
  BY <1>1, <1>2, SameNamed DEF Rest
<1>3. CASE d = "metadata" /\ e = "metadata"
  <2>1. Named(p, d) \in Path /\ Named(q, e) \in Path /\ AssetRest \in Path
    BY <1>1, NamedPlaces, AssetRestPath
  <2>2. Named(p, d) \o AssetRest = Named(q, e) \o AssetRest
    BY <1>3 DEF Rest
  <2>3. Named(p, d) = Named(q, e)
    BY <2>1, <2>2, ConcatSimplifications DEF Path
  <2> QED BY <1>1, <2>3, SameNamed
<1> QED BY <1>2, <1>3, MetadataApart

\* A node of the tree that is a copy of a repository, in one of its places.
Node(f, p, root, ext) ==
  [at |-> root \o Rest(p, ext), dir |-> ext = "git", of |-> [forge |-> f, path |-> p]]
IsCopy(n, f, p) ==
  \E root \in Roots(f), ext \in Exts : /\ root = Names[f] \/ ext = "tar.gz"
                                       /\ n = Node(f, p, root, ext)

LEMMA ArchiveDirs ==
  ASSUME NEW f \in Forges PROVE ArchiveDir(f) = IF call.beside THEN Names[f] ELSE ArchiveRoot(f)
<1>1. <<>> \o Names[f] = Names[f]
  BY RootPaths, ConcatEmptySeq DEF Path
<1> QED BY <1>1 DEF ArchiveDir, ArchiveRoot

LEMMA CopyPlaces ==
  ASSUME NEW f \in Forges, NEW p \in Hosted[f]
  PROVE  /\ mirrorPath(Dest(f), p) = Names[f] \o Rest(p, "git")
         /\ archivePath(ArchiveDir(f), p) = ArchiveDir(f) \o Rest(p, "tar.gz")
         /\ AssetPath(Dest(f), p, Tag, Asset) = Names[f] \o Rest(p, "metadata")
<1>1. p \in Path /\ p # <<>> /\ Names[f] \in Path
  BY HostedPaths, RootPaths
<1>2. Named(p, "metadata") \in Path /\ AssetRest \in Path
  BY <1>1, NamedPlaces, AssetRestPath DEF Text
<1>3. (Names[f] \o Named(p, "metadata")) \o AssetRest = Names[f] \o (Named(p, "metadata") \o AssetRest)
  BY <1>1, <1>2, SameJoined
<1> QED BY <1>3 DEF mirrorPath, archivePath, AssetPath, metadataDir, Dest, Rest, AssetRest

LEMMA CopiesAre ==
  ASSUME NEW f \in Forges, NEW p \in Hosted[f], NEW s
  PROVE  Copies(f, p, s) = {n \in {Node(f, p, Names[f], "git")} : ~Scratch(s)}
                             \cup {n \in {Node(f, p, ArchiveDir(f), "tar.gz")} : WantsArchive(s)}
                             \cup {n \in {Node(f, p, Names[f], "metadata")} : call.releases}
<1> DEFINE mirror == mirrorPath(Dest(f), p)
           archive == archivePath(ArchiveDir(f), p)
           asset == AssetPath(Dest(f), p, Tag, Asset)
<1>1. Node(f, p, Names[f], "git") = [at |-> mirror, dir |-> TRUE, of |-> [forge |-> f, path |-> p]]
  BY CopyPlaces DEF Node
<1>2. Node(f, p, ArchiveDir(f), "tar.gz")
        = [at |-> archive, dir |-> FALSE, of |-> [forge |-> f, path |-> p]]
  BY CopyPlaces DEF Node
<1>3. Node(f, p, Names[f], "metadata")
        = [at |-> asset, dir |-> FALSE, of |-> [forge |-> f, path |-> p]]
  BY CopyPlaces DEF Node
<1> QED BY <1>1, <1>2, <1>3, Zenon DEF Copies

LEMMA CopiesPlaced ==
  ASSUME NEW f \in Forges, NEW p \in Hosted[f], NEW s, NEW n \in Copies(f, p, s)
  PROVE  IsCopy(n, f, p)
<1>1. \/ n = Node(f, p, Names[f], "git")
      \/ n = Node(f, p, ArchiveDir(f), "tar.gz")
      \/ n = Node(f, p, Names[f], "metadata")
  BY CopiesAre
<1>2. ArchiveDir(f) \in Roots(f) /\ Names[f] \in Roots(f)
  BY ArchiveDirs DEF Roots
<1> QED BY <1>1, <1>2 DEF IsCopy, Exts

LEMMA CopyPath ==
  ASSUME NEW f \in Forges, NEW p \in Hosted[f], NEW n, IsCopy(n, f, p)
  PROVE  n.at \in Path /\ n.dir \in BOOLEAN /\ n.of = [forge |-> f, path |-> p]
<1>1. PICK root \in Roots(f), ext \in Exts : n = Node(f, p, root, ext)
  BY DEF IsCopy
<1>2. root \in Path /\ Rest(p, ext) \in Path
  BY HostedPaths, RootPaths, RestPlaces DEF Roots
<1>3. root \o Rest(p, ext) \in Path
  BY <1>2, JoinedPlaces
<1>4. (ext = "git") \in BOOLEAN
  OBVIOUS
<1> QED BY <1>1, <1>3, <1>4 DEF Node

LEMMA IsPrefixSelf == ASSUME NEW s \in Path PROVE IsPrefix(s, s)
  BY PrefixPlaces DEF Path

LEMMA OneCopyPerPlace ==
  ASSUME NEW f \in Forges, NEW p \in Hosted[f], NEW g \in Forges, NEW q \in Hosted[g],
         NEW m, NEW n, IsCopy(m, f, p), IsCopy(n, g, q), m.at = n.at
  PROVE  m = n /\ f = g /\ p = q
<1>1. PICK a \in Roots(f), d \in Exts : m = Node(f, p, a, d)
  BY DEF IsCopy
<1>2. PICK b \in Roots(g), e \in Exts : n = Node(g, q, b, e)
  BY DEF IsCopy
<1>3. a \in Path /\ b \in Path /\ Rest(p, d) \in Path /\ Rest(q, e) \in Path
  BY HostedPaths, RootPaths, RestPlaces DEF Roots
<1>4. a \o Rest(p, d) = b \o Rest(q, e)
  BY <1>1, <1>2 DEF Node
<1>5. IsPrefix(a \o Rest(p, d), b \o Rest(q, e))
  <2>1. a \o Rest(p, d) \in Path
    BY <1>3, JoinedPlaces
  <2> QED BY <1>4, <2>1, IsPrefixSelf
<1>6. f = g /\ a = b
  BY <1>3, <1>5, RootsApart
<1>7. Rest(p, d) = Rest(q, e)
  BY <1>3, <1>4, <1>6, ConcatSimplifications DEF Path
<1>8. p = q /\ d = e
  BY <1>6, <1>7, RestApart
<1> QED BY <1>1, <1>2, <1>6, <1>8

-----------------------------------------------------------------------------
(* Types. *)

AtForge == {"list", "preview", "relist", "scan", "work", "prune", "ran"}
Stages == AtForge \cup {"idle", "resolve", "prompt", "stat", "write", "flags", "load", "next", "exit"}

\* The stages, and what a call carries through them.
Control == /\ stage \in Stages /\ config \in Files /\ budget \in 0..MaxEvents
           /\ call \in Calls \cup {NoCall} /\ (call = NoCall <=> stage = "idle")
           /\ prune \in BOOLEAN /\ clean \in BOOLEAN
           /\ loaded \in 0..Len(Names) /\ at \in 0..loaded /\ (stage \in AtForge => at \in 1..loaded)
           /\ contacted \subseteq 1..loaded
           /\ outcome \in {"none", "ok", "error"} /\ (outcome # "none" <=> stage = "exit")

LEMMA NamesLength == Len(Names) \in Nat /\ Forges = 1..Len(Names) /\ MaxEvents \in Nat
  BY CommandAssumption DEF Forges

LEMMA CallsAre == ASSUME NEW c \in Calls PROVE c \in CallType /\ c # NoCall
<1>1. c \in CallType
  BY CommandAssumption
<1>2. c.cmd \in {"run", "list", "init"} /\ NoCall.cmd = "none"
  BY <1>1 DEF CallType, NoCall
<1> QED BY <1>1, <1>2

LEMMA InitControl == Init => Control
<1> SUFFICES ASSUME Init PROVE Control
  OBVIOUS
<1>1. config \in Files
  BY DEF Init, Files, Layers
<1>2. MaxEvents \in Nat
  BY NamesLength
<1>3. call = NoCall /\ NoCall \in Calls \cup {NoCall} /\ stage = "idle"
  BY DEF Init
<1>4. stage \in Stages /\ ~(stage \in AtForge)
  BY <1>3 DEF Stages, AtForge
<1>5. prune = FALSE /\ clean = TRUE /\ loaded = 0 /\ at = 0 /\ contacted = {} /\ outcome = "none"
  BY DEF Init
<1>6. budget \in 0..MaxEvents /\ 0 \in 0..Len(Names) /\ 0 \in 0..0
  BY <1>2, NamesLength DEF Init
<1> QED BY <1>1, <1>3, <1>4, <1>5, <1>6 DEF Control

LEMMA GoneControl == Control /\ Gone => Control'
<1> SUFFICES ASSUME Control, Gone PROVE Control'
  OBVIOUS
<1>1. /\ stage' = "idle" /\ call' = NoCall /\ prune' = FALSE /\ clean' = TRUE /\ loaded' = 0
      /\ at' = 0 /\ contacted' = {} /\ outcome' = "none" /\ config' = config /\ budget' = budget
  BY DEF Gone, world
<1>2. stage' \in Stages /\ ~(stage' \in AtForge)
  BY <1>1 DEF Stages, AtForge
<1>3. 0 \in 0..Len(Names) /\ 0 \in 0..0
  BY NamesLength
<1> QED BY <1>1, <1>2, <1>3 DEF Control

LEMMA ControlKept == Control /\ [Next]_vars => Control'
<1> SUFFICES ASSUME Control, [Next]_vars PROVE Control'
  OBVIOUS
<1> USE DEF Control
<1>1. CASE UNCHANGED vars
  BY <1>1 DEF vars, world, front, turn
<1>2. ASSUME NEW f \in Forges, NEW p \in Hosted[f], Change(f, p) PROVE Control'
  BY <1>2, NamesLength DEF Change, Event, front
<1>3. CASE Save
  <2>1. config' \in Files
    BY <1>3 DEF Save, Files
  <2> QED BY <1>3, <2>1, NamesLength DEF Save, Event, front, turn
<1>4. CASE Crash
  BY <1>4, GoneControl DEF Crash
<1>5. CASE Return
  BY <1>5, GoneControl DEF Return
<1>6. ASSUME NEW c \in Calls, Invoke(c) PROVE Control'
  BY <1>6, CallsAre DEF Stages, AtForge, Invoke, Goto, turn
<1>7. CASE Resolve
  BY <1>7 DEF Stages, AtForge, Resolve, Goto, Exit, world, front, turn
<1>8. CASE Answer
  BY <1>8 DEF Stages, AtForge, Answer, Goto, Exit, world, front, turn
<1>9. CASE Stat
  BY <1>9 DEF Stages, AtForge, Stat, Goto, Exit, world, front, turn
<1>10. CASE Write
  BY <1>10 DEF Stages, AtForge, Write, Exit, front, turn, Files, Layers
<1>11. CASE Flags
  <2>1. prune' \in BOOLEAN
    BY <1>11 DEF Flags, Resolved
  <2> QED BY <1>11, <2>1 DEF Stages, AtForge, Flags, Goto, world, turn
<1>12. CASE Load
  BY <1>12, NamesLength DEF Stages, AtForge, Load, Goto, Exit, world, turn
<1>13. CASE NextForge
  <2>1. at' \in 1..loaded
    BY <1>13 DEF NextForge, After
  <2>2. contacted' \subseteq 1..loaded
    BY <1>13, <2>1 DEF NextForge
  <2> QED BY <1>13, <2>1, <2>2 DEF Stages, AtForge, NextForge, Between, Goto, world
<1>14. CASE Finish
  BY <1>14 DEF Stages, AtForge, Finish, Between, Exit, world, front
<1>15. CASE List
  <2>1. stage' \in {"next", "preview", "scan", "relist"} /\ outcome' = outcome
    BY <1>15 DEF List, Goto
  <2> QED BY <1>15, <2>1 DEF Stages, AtForge, List, world, front
<1>16. CASE Relist
  BY <1>16 DEF Stages, AtForge, Relist, Goto, world, front
<1>17. CASE Fail
  BY <1>17 DEF Stages, AtForge, Fail, Exit, world, front
<1>18. CASE Preview
  BY <1>18 DEF Stages, AtForge, Preview, Goto, world, front
<1>19. CASE PreviewPrune
  BY <1>19 DEF Stages, AtForge, PreviewPrune, Goto, world, front
<1>20. CASE Scan
  BY <1>20 DEF Stages, AtForge, Scan, Goto, world, front
<1>21. CASE Work
  <2>1. clean' \in BOOLEAN
    BY <1>21 DEF Work
  <2> QED BY <1>21, <2>1 DEF Stages, AtForge, Work, Goto
<1>22. CASE Prune
  <2>1. clean' \in BOOLEAN
    BY <1>22 DEF Prune
  <2> QED BY <1>22, <2>1 DEF Stages, AtForge, Prune, Goto
<1> QED BY <1>1, <1>2, <1>3, <1>4, <1>5, <1>6, <1>7, <1>8, <1>9, <1>10, <1>11, <1>12, <1>13,
           <1>14, <1>15, <1>16, <1>17, <1>18, <1>19, <1>20, <1>21, <1>22 DEF Next

-----------------------------------------------------------------------------
(* What a call has found out before it comes to the forges. *)

Unloaded == {"idle", "resolve", "prompt", "stat", "write", "flags", "load"}

\* TokensFirst, and why: a forge's turn comes only after every token was there.
Tokened == /\ contacted # {} \/ stage \in AtForge \cup {"next"} => lacking = {}
           /\ stage \in Unloaded => contacted = {}

\* The file config init is about to write is none of the user's, or they know.
UserFile == stage = "write" /\ config.what = "mine" => Forced \/ saved

\* Pruning was asked for by a layer that no stronger one denies.
Asked == call.prune # "no" /\ (call.prune = "unset" => call.env # "no")
Layered == (prune => Asked) /\ (stage \in Unloaded \ {"load"} => ~prune)

Begun == Tokened /\ UserFile /\ Layered

LEMMA InitBegun == Init => Begun
  BY DEF Init, Begun, Tokened, UserFile, Layered, AtForge

LEMMA BegunKept == Begun /\ [Next]_vars => Begun'
<1> SUFFICES ASSUME Begun, [Next]_vars PROVE Begun'
  OBVIOUS
<1> USE DEF Begun, Tokened, UserFile, Layered, Asked, Forced
<1>1. CASE UNCHANGED vars
  BY <1>1 DEF vars, world, front, history
<1>2. ASSUME NEW f \in Forges, NEW p \in Hosted[f], Change(f, p) PROVE Begun'
  BY <1>2 DEF Change, front
<1>3. CASE Save
  BY <1>3 DEF Save, front
<1>4. CASE Gone
  <2>1. stage' = "idle" /\ contacted' = {} /\ prune' = FALSE /\ lacking' = {}
    BY <1>4 DEF Gone
  <2> QED BY <2>1
<1>5. ASSUME NEW c \in Calls, Invoke(c) PROVE Begun'
  <2>1. stage = "idle" /\ stage' \in {"stat", "resolve"} /\ UNCHANGED <<contacted, prune, lacking>>
    BY <1>5 DEF Invoke, Goto
  <2> QED BY <2>1 DEF Unloaded, AtForge
<1>6. CASE Resolve
  BY <1>6 DEF Resolve, Goto, Exit, front, history, Unloaded, AtForge
<1>7. CASE Answer
  BY <1>7 DEF Answer, Goto, Exit, front, history, Unloaded, AtForge
<1>8. CASE Stat
  <2>1. /\ stage = "stat" /\ stage' \in {"write", "exit"} /\ UNCHANGED <<config, call, contacted, prune, lacking, saved>>
        /\ stage' = "write" => Forced \/ config.what = "none"
    BY <1>8 DEF Stat, Goto, Exit, world, front, history
  <2> QED BY <2>1 DEF Unloaded, AtForge
<1>9. CASE Write
  BY <1>9 DEF Write, Exit, front, history, Unloaded, AtForge
<1>10. CASE Flags
  BY <1>10 DEF Flags, Goto, Resolved, history, Unloaded, AtForge
<1>11. CASE Load
  <2>1. /\ stage = "load" /\ stage' \in {"next", "exit"} /\ UNCHANGED <<contacted, prune, call>>
        /\ stage' = "next" => lacking' = {}
    <3>1. PICK works \in SUBSET {"command", "env"} :
            lacking' = IF config.what = "mine" THEN {f \in Forges : ~HasToken(Tokens[f], works)} ELSE {}
      BY <1>11 DEF Load
    <3> QED BY <1>11, <3>1 DEF Load, Goto, Exit
  <2> QED BY <2>1 DEF Unloaded, AtForge
<1>12. CASE NextForge
  BY <1>12 DEF NextForge, Between, Goto, world, Unloaded, AtForge
<1>13. CASE Finish
  BY <1>13 DEF Finish, Between, Exit, front, Unloaded, AtForge
<1>14. CASE List
  <2>1. /\ stage = "list" /\ stage' \in {"next", "preview", "scan", "relist"}
        /\ UNCHANGED <<call, prune, lacking>>
    BY <1>14 DEF List, Goto, front, history
  <2> QED BY <1>14, <2>1 DEF List, front, Unloaded, AtForge
<1>15. CASE Relist
  BY <1>15 DEF Relist, Goto, front, history, Unloaded, AtForge
<1>16. CASE Fail
  BY <1>16 DEF Fail, Exit, front, history, Unloaded, AtForge
<1>17. CASE Preview
  BY <1>17 DEF Preview, Goto, front, Unloaded, AtForge
<1>18. CASE PreviewPrune
  BY <1>18 DEF PreviewPrune, Goto, front, Unloaded, AtForge
<1>19. CASE Scan
  BY <1>19 DEF Scan, Goto, front, history, Unloaded, AtForge
<1>20. CASE Work
  BY <1>20 DEF Work, Goto, history, Unloaded, AtForge
<1>21. CASE Prune
  BY <1>21 DEF Prune, Goto, history, Unloaded, AtForge
<1> QED BY <1>1, <1>2, <1>3, <1>4, <1>5, <1>6, <1>7, <1>8, <1>9, <1>10, <1>11, <1>12, <1>13,
           <1>14, <1>15, <1>16, <1>17, <1>18, <1>19, <1>20, <1>21 DEF Next, Crash, Return

\* What a call knows when it comes to the forges is inductive by itself.
THEOREM BegunAlways == Spec => []Begun
  BY InitBegun, BegunKept, PTL DEF Spec

\* No forge is sent a request while a token of the file is missing, whatever the tokens'
\* sources and the forges selected.
THEOREM TokensComeFirst == Spec => []TokensFirst
<1>1. Begun => TokensFirst
  BY DEF Begun, Tokened, TokensFirst
<1> QED BY <1>1, BegunAlways, PTL

\* A configuration the user wrote is replaced only if they said --force, or saved it
\* between config init's look and its write.
THEOREM UserFileKept == Spec => UserConfigKept
<1>1. Begun /\ [Next]_vars => [config.what = "mine" /\ config'.what # "mine" => Forced \/ saved]_vars
  <2> SUFFICES ASSUME Begun, Next, config.what = "mine", config'.what # "mine"
               PROVE  Forced \/ saved
    BY DEF vars
  <2>1. config' # config
    OBVIOUS
  <2>2. CASE Save
    BY <2>2 DEF Save
  <2>3. CASE Write
    BY <2>3 DEF Write, Begun, UserFile
  <2> QED BY <2>1, <2>2, <2>3
          DEF Next, Change, Crash, Return, Gone, Invoke, Resolve, Answer, Stat, Flags, Load, NextForge,
              Finish, List, Relist, Fail, Preview, PreviewPrune, Scan, Work, Prune, world
<1> QED BY <1>1, BegunAlways, PTL DEF Spec, UserConfigKept

-----------------------------------------------------------------------------
(* What a tree reads as. *)

\* the paths a tree can read as
Readable == {p \in Path : p # <<>> /\ Last(p) # <<>>}

LEMMA FrontPlaces ==
  ASSUME NEW S, NEW s \in Seq(S), s # <<>>
  PROVE  /\ Front(s) \in Seq(S) /\ Len(Front(s)) = Len(s) - 1 /\ Last(s) \in S
         /\ \A k \in 1..Len(s) - 1 : Front(s)[k] = s[k]
<1> DEFINE n == Len(s)
           u == SubSeq(s, 1, n - 1)
<1>1. n \in Nat \ {0} /\ \A k \in 1..n : s[k] \in S
  BY EmptySeq, ElementOfSeq
<1> HIDE DEF n
<1>2. 1 \in Int /\ n - 1 \in Int /\ \A k \in 1..n - 1 : s[k] \in S
  BY <1>1
<1>3. /\ u \in Seq(S) /\ Len(u) = IF 1 <= n - 1 THEN n - 1 - 1 + 1 ELSE 0
      /\ \A k \in 1..n - 1 - 1 + 1 : u[k] = s[1 + k - 1]
  BY <1>2, SubSeqProperties
<1> HIDE DEF u
<1>4. Len(u) = n - 1
  <2>1. n = 1 \/ (1 <= n - 1 /\ n - 1 - 1 + 1 = n - 1)
    BY <1>1
  <2>2. n = 1 => n - 1 = 0 /\ ~(1 <= n - 1)
    OBVIOUS
  <2> QED BY <1>3, <2>1, <2>2
<1>5. \A k \in 1..n - 1 : u[k] = s[k]
  BY <1>1, <1>3
<1>6. Last(s) \in S
  BY <1>1 DEF Last, n
<1> QED BY <1>3, <1>4, <1>5, <1>6 DEF Front, u, n

LEMMA EntriesAre ==
  ASSUME NEW tree, \A n \in tree : n.at \in Path, NEW e \in Entries(tree)
  PROVE  e.at \in Path
<1>1. CASE e \in {[at |-> n.at, dir |-> n.dir] : n \in tree}
  BY <1>1
<1>2. CASE e \in UNION {{[at |-> SubSeq(n.at, 1, k), dir |-> TRUE] : k \in 1..Len(n.at) - 1} : n \in tree}
  <2>1. PICK n \in tree : \E k \in 1..Len(n.at) - 1 : e.at = SubSeq(n.at, 1, k)
    BY <1>2
  <2> PICK k \in 1..Len(n.at) - 1 : e.at = SubSeq(n.at, 1, k)
    BY <2>1
  <2>2. n.at \in Seq(Name) /\ k \in Int /\ Len(n.at) \in Nat /\ \A i \in 1..k : n.at[i] \in Name
    BY <2>1, ElementOfSeq DEF Path
  <2>3. SubSeq(n.at, 1, k) \in Seq(Name)
    BY <2>2, SubSeqProperties
  <2> QED BY <2>3 DEF Path
<1> QED BY <1>1, <1>2 DEF Entries

\* What is left of the place of a mirror or an archive is a path.
LEMMA TrimmedIsReadable ==
  ASSUME NEW root \in Path, NEW a \in Path, Below(root, a), NEW ext, HasSuffix(Last(a), ext)
  PROVE  TrimSuffix(SubSeq(a, Len(root) + 1, Len(a))) \in Readable
<1> DEFINE m == Len(root)
           n == Len(a)
           r == SubSeq(a, m + 1, n)
<1>1. m \in Nat /\ n \in Nat /\ \A k \in 1..n : a[k] \in Name
  BY ElementOfSeq DEF Path
<1>2. m < n
  <2>1. m <= n /\ \A k \in 1..m : root[k] = a[k]
    BY PrefixPlaces DEF Below, IsStrictPrefix
  <2>2. ASSUME m = n PROVE FALSE
    <3>1. root = a
      BY <2>1, <2>2, SeqEqual DEF Path
    <3> QED BY <3>1 DEF Below, IsStrictPrefix
  <2> QED BY <1>1, <2>1, <2>2
<1> HIDE DEF m, n
<1>3. /\ r \in Seq(Name) /\ Len(r) = IF m + 1 <= n THEN n - (m + 1) + 1 ELSE 0
      /\ \A k \in 1..n - (m + 1) + 1 : r[k] = a[m + 1 + k - 1]
  <2>1. m + 1 \in Int /\ n \in Int /\ \A k \in m + 1..n : a[k] \in Name
    BY <1>1
  <2> QED BY <2>1, SubSeqProperties
<1> HIDE DEF r
<1>4. Len(r) = n - m /\ n - m \in Nat \ {0} /\ r[n - m] = a[n]
  <2>1. m + 1 <= n /\ n - (m + 1) + 1 = n - m /\ n - m \in 1..n - m /\ m + 1 + (n - m) - 1 = n
    BY <1>1, <1>2
  <2> QED BY <1>3, <2>1
<1>5. r # <<>> /\ Last(r) = Last(a)
  BY <1>3, <1>4 DEF Last, n
<1>6. Front(r) \in Seq(Name) /\ Last(r) \in Name
  BY <1>3, <1>5, FrontPlaces
<1> DEFINE name == Front(Last(r))
<1>7. name \in Name /\ name # <<>>
  <2>1. Last(r) \in Seq(Text) /\ Len(Last(r)) > 1
    BY <1>5, <1>6 DEF HasSuffix, Name
  <2>2. Last(r) # <<>>
    BY <2>1
  <2>3. name \in Seq(Text) /\ Len(name) = Len(Last(r)) - 1
    BY <2>1, <2>2, FrontPlaces
  <2>4. Len(name) # 0
    <3> DEFINE l == Len(Last(r))
    <3>1. l \in Nat /\ l > 1
      BY <2>1, LenProperties
    <3>2. Len(name) = l - 1
      BY <2>3
    <3> HIDE DEF l, name, r
    <3> QED BY <3>1, <3>2
  <2> QED BY <2>3, <2>4 DEF Name
<1> HIDE DEF name
<1>8. /\ Front(r) \o <<name>> \in Seq(Name) /\ Len(Front(r) \o <<name>>) = Len(Front(r)) + 1
      /\ (Front(r) \o <<name>>)[Len(Front(r)) + 1] = name
  <2>1. Append(Front(r), name) = Front(r) \o <<name>>
    BY <1>6, <1>7, AppendIsConcat
  <2> QED BY <1>6, <1>7, <2>1, AppendProperties
<1>9. TrimSuffix(r) = Front(r) \o <<name>>
  BY DEF TrimSuffix, name
<1>10. Last(TrimSuffix(r)) = name /\ TrimSuffix(r) # <<>>
  <2>1. Len(Front(r)) \in Nat
    BY <1>6
  <2> QED BY <1>8, <1>9, <2>1 DEF Last
<1> QED BY <1>7, <1>8, <1>9, <1>10 DEF Readable, Path, r, m, n

LEMMA OnDiskIsReadable ==
  ASSUME NEW tree, \A n \in tree : n.at \in Path, NEW root \in Path, NEW ext, NEW dir
  PROVE  onDiskPaths(tree, root, ext, dir) \subseteq Readable
<1> SUFFICES ASSUME NEW p \in onDiskPaths(tree, root, ext, dir) PROVE p \in Readable
  OBVIOUS
<1>1. PICK e \in Entries(tree) : /\ Below(root, e.at) /\ HasSuffix(Last(e.at), ext)
                                 /\ p = TrimSuffix(SubSeq(e.at, Len(root) + 1, Len(e.at)))
  BY DEF onDiskPaths
<1> QED BY <1>1, EntriesAre, TrimmedIsReadable

LEMMA StaleIsReadable ==
  ASSUME NEW tree, \A n \in tree : n.at \in Path, NEW f \in Forges, NEW wanted
  PROVE  /\ staleMirrors(tree, Dest(f), ArchiveDir(f), wanted) \subseteq Readable
         /\ staleMirrors(tree, Dest(f), ArchiveDir(f), wanted) \cap wanted = {}
<1>1. Dest(f) \in Path /\ ArchiveDir(f) \in Path
  BY RootPaths, ArchiveDirs DEF Dest
<1> QED BY <1>1, OnDiskIsReadable DEF staleMirrors

-----------------------------------------------------------------------------
(* The tree, the listings and the history. *)

\* Every node of the tree is a copy of a repository, where the layout puts it.
Placed == \A n \in disk : \E f \in Forges : \E p \in Hosted[f] : IsCopy(n, f, p)

\* What a forge's turn works with.
Turned == /\ \A r \in listed : r.path \in Paths /\ r.status \in Statuses \ {"gone"}
          /\ canonical \subseteq Paths
          /\ stale \subseteq Readable /\ stale \cap canonical = {}
          /\ stage \in {"work", "prune", "ran"} \/ stale = {}
          /\ lines \in LinesType /\ plan = [f \in Forges |-> plan[f]]
          /\ \A f \in Forges : plan[f].lines \in LinesType

\* The forges, and what is remembered of them.
Remembered == /\ forge = [f \in Forges |-> forge[f]] /\ steady = [f \in Forges |-> steady[f]]
              /\ \A f \in Forges : forge[f] \in [Hosted[f] -> Statuses] /\ steady[f] \subseteq Hosted[f]
              /\ quiet \subseteq Forges /\ lacking \subseteq Forges /\ saved \in BOOLEAN

LEMMA InitRemembered == Init => Remembered
<1> SUFFICES ASSUME Init PROVE Remembered
  OBVIOUS
<1>1. PICK s \in [Forges -> UNION {[Hosted[f] -> Statuses] : f \in Forges}] :
         forge = s /\ \A f \in Forges : DOMAIN s[f] = Hosted[f]
  BY DEF Init
<1>2. ASSUME NEW f \in Forges PROVE s[f] \in [Hosted[f] -> Statuses]
  <2>1. PICK g \in Forges : s[f] \in [Hosted[g] -> Statuses]
    BY <1>1
  <2> QED BY <1>1, <2>1
<1>3. forge = [f \in Forges |-> forge[f]]
  BY <1>1
<1> QED BY <1>1, <1>2, <1>3 DEF Init, Remembered

LEMMA AtIsForge == Control /\ stage \in AtForge => at \in Forges
  BY NamesLength DEF Control

LEMMA NextIsForge == ASSUME Control, NextForge PROVE at' \in Forges
<1>1. at' \in at + 1..loaded
  BY DEF NextForge, After
<1> QED BY <1>1, NamesLength DEF Control

LEMMA RememberedKept == Remembered /\ Control /\ [Next]_vars => Remembered'
<1> SUFFICES ASSUME Remembered, Control, [Next]_vars PROVE Remembered'
  OBVIOUS
<1> USE DEF Remembered
<1>1. CASE UNCHANGED <<forge, steady, quiet, lacking, saved>>
  BY <1>1
<1>2. ASSUME NEW f \in Forges, NEW p \in Hosted[f], Change(f, p) PROVE Remembered'
  <2>1. PICK s \in Statuses : forge' = [forge EXCEPT ![f][p] = s]
    BY <1>2 DEF Change
  <2>2. /\ steady' = [steady EXCEPT ![f] = @ \ {p}] /\ quiet' = quiet \ {f}
        /\ lacking' = lacking /\ saved' = saved
    BY <1>2 DEF Change
  <2> QED BY <2>1, <2>2
<1>3. CASE Save
  BY <1>3 DEF Save
<1>4. CASE Crash
  <2>1. /\ steady' = [g \in Forges |-> {}] /\ lacking' = {} /\ saved' = FALSE
        /\ forge' = forge /\ quiet' = quiet \ {at}
    BY <1>4 DEF Crash, Gone, world
  <2> QED BY <2>1
<1>5. CASE Return
  <2>1. /\ steady' = [g \in Forges |-> {}] /\ lacking' = {} /\ saved' = FALSE
        /\ forge' = forge /\ quiet' = quiet
    BY <1>5 DEF Return, Gone, world
  <2> QED BY <2>1
<1>6. ASSUME NEW c \in Calls, Invoke(c) PROVE Remembered'
  <2>1. steady' = [g \in Forges |-> Hosted[g]] /\ UNCHANGED <<forge, quiet, lacking, saved>>
    BY <1>6 DEF Invoke
  <2> QED BY <2>1
<1>7. CASE Load
  <2>1. lacking' \subseteq Forges
    BY <1>7 DEF Load
  <2>2. UNCHANGED <<forge, steady, quiet, saved>>
    BY <1>7 DEF Load, world
  <2> QED BY <2>1, <2>2
<1>8. CASE Finish
  <2>1. quiet' \subseteq quiet /\ UNCHANGED <<forge, steady, lacking, saved>>
    BY <1>8 DEF Finish, Spend, world
  <2> QED BY <2>1
<1>9. CASE NextForge
  <2>1. quiet' \subseteq quiet \cup {at'} /\ UNCHANGED <<forge, steady, lacking, saved>>
    BY <1>9 DEF NextForge, Spend, world
  <2>2. at' \in Forges
    BY <1>9, NextIsForge
  <2> QED BY <2>1, <2>2
<1>10. CASE \/ UNCHANGED vars \/ Resolve \/ Answer \/ Stat \/ Write \/ Flags \/ List \/ Relist \/ Fail
            \/ Preview \/ PreviewPrune \/ Scan \/ Work \/ Prune
  <2>1. UNCHANGED <<forge, steady, quiet, lacking, saved>>
    BY <1>10 DEF vars, world, history, Resolve, Answer, Stat, Write, Flags, List, Relist, Fail, Preview,
                 PreviewPrune, Scan, Work, Prune
  <2> QED BY <1>1, <2>1
<1> QED BY <1>2, <1>3, <1>4, <1>5, <1>6, <1>7, <1>8, <1>9, <1>10 DEF Next

-----------------------------------------------------------------------------
(* The listing that is being read. *)

\* Every moment of it has what has not changed since the call began; nothing has left the
\* list of a quiet forge, nor that of one whose turn is still to come.
Read == /\ seen # {} <=> stage \in {"list", "relist"}
        /\ \A m \in seen : m \in [Hosted[at] -> Statuses]
        /\ \A m \in seen : \A p \in steady[at] : m[p] = forge[at][p]
        /\ at \in quiet => \A m \in seen : m = forge[at]
        /\ torn \subseteq {"list", "relist"} \X Forges
        /\ \A x \in torn : x[2] \notin quiet /\ x[2] <= at

LEMMA InitRead == Init => Read
  BY DEF Init, Read

LEMMA ReadKept == Read /\ Remembered /\ Control /\ [Next]_vars => Read'
<1> SUFFICES ASSUME Read, Remembered, Control, [Next]_vars PROVE Read'
  OBVIOUS
<1> DEFINE reading == {"list", "relist"}
<1>0. at \in Nat /\ Forges \subseteq Nat
  BY NamesLength DEF Control
<1>1. ASSUME UNCHANGED <<forge, steady, at, torn>>, quiet' \subseteq quiet,
             \/ seen' = seen /\ (stage' \in reading <=> stage \in reading)
             \/ seen' = {} /\ stage' \notin reading
             \/ seen' = {forge[at]} /\ stage' \in reading /\ at \in Forges
      PROVE  Read'
  <2>1. \A m \in seen' : m \in seen \/ (m = forge[at] /\ at \in Forges)
    BY <1>1
  <2>2. seen' # {} <=> stage' \in reading
    BY <1>1 DEF Read
  <2>3. \A m \in seen' : m \in [Hosted[at] -> Statuses] /\ \A p \in steady[at] : m[p] = forge[at][p]
    BY <2>1 DEF Read, Remembered
  <2>4. at \in quiet => \A m \in seen' : m = forge[at]
    BY <2>1 DEF Read
  <2> QED BY <1>1, <2>2, <2>3, <2>4 DEF Read
<1>2. ASSUME NEW f \in Forges, NEW p \in Hosted[f], Change(f, p) PROVE Read'
  <2>1. PICK s \in Statuses :
          /\ forge' = [forge EXCEPT ![f][p] = s]
          /\ torn' = IF Reading(f) /\ Leaves(forge[f][p], s) THEN torn \cup {<<stage, f>>} ELSE torn
    BY <1>2 DEF Change
  <2>2. /\ seen' = IF Reading(f) THEN seen \cup {forge'[f]} ELSE seen
        /\ steady' = [steady EXCEPT ![f] = @ \ {p}] /\ quiet' = quiet \ {f}
        /\ UNCHANGED <<stage, at>>
    BY <1>2 DEF Change
  <2>3. /\ \A g \in Forges : g # f => forge'[g] = forge[g] /\ steady'[g] = steady[g]
        /\ forge'[f] \in [Hosted[f] -> Statuses] /\ steady'[f] = steady[f] \ {p}
        /\ \A q \in Hosted[f] \ {p} : forge'[f][q] = forge[f][q]
    BY <2>1, <2>2 DEF Remembered
  <2>4. torn' \subseteq reading \X Forges /\ \A x \in torn' : x[2] \notin quiet' /\ x[2] <= at'
    BY <1>0, <2>1, <2>2 DEF Read, Reading
  <2>5. seen' # {} <=> stage' \in reading
    BY <2>2 DEF Read, Reading
  <2>6. CASE stage \notin reading
    BY <2>2, <2>4, <2>5, <2>6 DEF Read, Reading
  <2>7. CASE stage \in reading /\ f # at
    <3>1. at \in Forges
      BY <2>7, AtIsForge DEF AtForge
    <3> QED BY <2>2, <2>3, <2>4, <2>5, <2>7, <3>1 DEF Read, Reading
  <2>8. CASE stage \in reading /\ f = at
    <3>1. seen' = seen \cup {forge'[at]} /\ at \notin quiet'
      BY <2>2, <2>8 DEF Reading
    <3>2. \A m \in seen' : m \in [Hosted[at] -> Statuses]
      BY <2>3, <2>8, <3>1 DEF Read
    <3>3. \A m \in seen' : \A q \in steady'[at] : m[q] = forge'[at][q]
      <4>1. \A q \in steady'[at] : q \in steady[at] /\ q \in Hosted[at] \ {p}
        BY <2>3, <2>8 DEF Remembered
      <4> QED BY <2>3, <2>8, <3>1, <4>1 DEF Read
    <3> QED BY <2>2, <2>4, <2>5, <3>1, <3>2, <3>3 DEF Read
  <2> QED BY <2>6, <2>7, <2>8
<1>3. CASE Gone
  <2>1. seen' = {} /\ torn' = {} /\ stage' = "idle"
    BY <1>3 DEF Gone
  <2> QED BY <2>1 DEF Read
<1>4. ASSUME NEW c \in Calls, Invoke(c) PROVE Read'
  <2>1. /\ stage = "idle" /\ stage' \in {"stat", "resolve"} /\ UNCHANGED <<forge, at, seen, quiet, torn>>
    BY <1>4 DEF Invoke, Goto, turn
  <2>2. seen = {}
    BY <2>1 DEF Read
  <2> QED BY <2>1, <2>2 DEF Read
<1>5. CASE NextForge
  <2>1. /\ at' \in Forges /\ at' > at /\ seen' = {forge[at']} /\ stage' = "list"
        /\ UNCHANGED <<forge, steady, torn>> /\ quiet' \subseteq quiet \cup {at'}
    <3>1. at' \in After
      BY <1>5 DEF NextForge
    <3>2. at' > at
      BY <1>0, <3>1 DEF After
    <3> QED BY <1>5, <3>2, NextIsForge DEF NextForge, Goto, Spend, world
  <2>2. \A x \in torn : x[2] \in Nat /\ x[2] <= at /\ x[2] \notin quiet
    BY <1>0 DEF Read
  <2>3. \A x \in torn' : x[2] \notin quiet' /\ x[2] <= at'
    BY <1>0, <2>1, <2>2
  <2> QED BY <2>1, <2>3 DEF Read, Remembered
<1>6. CASE Finish
  <2>1. /\ stage \notin reading /\ stage' \notin reading /\ quiet' \subseteq quiet
        /\ UNCHANGED <<forge, steady, at, torn, seen>>
    BY <1>6 DEF Finish, Between, Exit, Spend, world
  <2> QED BY <1>1, <2>1
<1>7. CASE List \/ Preview
  <2>1. /\ at \in Forges /\ UNCHANGED <<forge, steady, at, torn, quiet>>
        /\ seen' = IF stage' = "relist" THEN {forge[at]} ELSE {}
    BY <1>7, AtIsForge DEF List, Preview, AtForge, world, history
  <2>2. stage' # "list"
    BY <1>7 DEF List, Preview, Goto
  <2> QED BY <1>1, <2>1, <2>2
<1>8. CASE Relist \/ Fail
  <2>1. /\ seen' = {} /\ stage' \notin reading /\ UNCHANGED <<forge, steady, at, torn, quiet>>
    BY <1>8 DEF Relist, Fail, Goto, Exit, world, history
  <2> QED BY <1>1, <2>1
<1>9. CASE \/ UNCHANGED vars \/ Save \/ Resolve \/ Answer \/ Stat \/ Write \/ Flags \/ Load
           \/ PreviewPrune \/ Scan \/ Work \/ Prune
  <2>1. /\ UNCHANGED <<forge, steady, at, seen, torn, quiet>>
        /\ stage' \in reading <=> stage \in reading
    BY <1>9 DEF vars, world, turn, history, Save, Resolve, Answer, Stat, Write, Flags, Load,
                PreviewPrune, Scan, Work, Prune, Goto, Exit
  <2> QED BY <1>1, <2>1
<1> QED BY <1>2, <1>3, <1>4, <1>5, <1>6, <1>7, <1>8, <1>9 DEF Next, Crash, Return

\* What a listing says of what has not changed: that it is there, unless something has left
\* the list meanwhile, and as it is.
LEMMA SometimesAre ==
  ASSUME NEW r \in Sometimes
  PROVE  r.path \in Hosted[at] /\ r.status \in Statuses \ {"gone"} /\ \E m \in seen : m[r.path] = r.status
  BY DEF Sometimes

LEMMA SometimesSteady ==
  ASSUME Read, NEW r \in Sometimes, r.path \in steady[at]
  PROVE  r = [path |-> r.path, status |-> forge[at][r.path]]
<1>1. r.status = forge[at][r.path]
  BY SometimesAre DEF Read
<1>2. r = [path |-> r.path, status |-> r.status]
  BY DEF Sometimes
<1> QED BY <1>1, <1>2

LEMMA SteadyAlways ==
  ASSUME Read, Remembered, at \in Forges, NEW p \in steady[at], NEW S, forge[at][p] \in S
  PROVE  p \in Always(S)
  BY DEF Read, Remembered, Always

LEMMA InitTurned == Init => Turned
  BY DEF Init, Turned, NoLines, NoPlan, LinesType, PathSets

LEMMA PathsAre == Paths \subseteq Path /\ PathSets = SUBSET Path
<1>1. ASSUME NEW f \in Forges, NEW p \in Hosted[f] PROVE p \in Path
  BY HostedPaths
<1> QED BY <1>1 DEF Paths, PathSets, Path, Name

\* The lines of a dry run, and of a run, name paths of the listing.
LEMMA AnnouncedType == Turned => Announced \in LinesType
<1> SUFFICES ASSUME Turned PROVE Announced \in LinesType
  OBVIOUS
<1>1. ASSUME NEW R, R \subseteq listed PROVE PathsOf(R) \in PathSets
  BY <1>1, PathsAre DEF PathsOf, Turned
<1>2. PathsOf({r \in Todo : Clones(r)}) \in PathSets
  BY <1>1 DEF Todo
<1>3. PathsOf({r \in Todo : ~Clones(r)}) \in PathSets
  BY <1>1 DEF Todo
<1>4. PathsOf(listed \ Todo) \in PathSets
  BY <1>1 DEF Todo
<1>5. PathsOf({r \in Todo : WantsArchive(r.status)}) \in PathSets
  BY <1>1 DEF Todo
<1>6. {} \in PathSets
  BY DEF PathSets
<1> QED BY <1>2, <1>3, <1>4, <1>5, <1>6 DEF Announced, LinesType

LEMMA DidType == ASSUME Turned, NEW done \in SUBSET Todo PROVE Did(done) \in LinesType
<1>1. ASSUME NEW R, R \subseteq listed PROVE PathsOf(R) \in PathSets
  BY <1>1, PathsAre DEF PathsOf, Turned
<1> DEFINE dirs(r) == {n.at : n \in {c \in Copies(at, r.path, r.status) : c.dir}}
           files(r) == {n.at : n \in {c \in Copies(at, r.path, r.status) : ~c.dir}}
           updated == {r \in done : \E n \in disk : n.at \in dirs(r)}
           archived == {r \in done : archivePath(ArchiveDir(at), r.path) \in files(r)}
<1>2. PathsOf(done \ updated) \in PathSets /\ PathsOf(updated) \in PathSets
  BY <1>1 DEF Todo
<1>3. PathsOf(listed \ Todo) \in PathSets /\ PathsOf(archived) \in PathSets
  BY <1>1 DEF Todo
<1>4. {} \in PathSets
  BY DEF PathSets
<1>5. Did(done) = [clone |-> PathsOf(done \ updated), update |-> PathsOf(updated),
                  skip |-> PathsOf(listed \ Todo), archive |-> PathsOf(archived), prune |-> {}]
  BY DEF Did
<1> HIDE DEF updated, archived
<1> QED BY <1>2, <1>3, <1>4, <1>5 DEF LinesType

LEMMA DiskPaths == Placed => \A n \in disk : n.at \in Path
  BY CopyPath DEF Placed

LEMMA PlansType ==
  ASSUME Turned, NEW f \in Forges, NEW new, new.lines \in LinesType,
         plan' = [plan EXCEPT ![f] = new]
  PROVE  plan' = [g \in Forges |-> plan'[g]] /\ \A g \in Forges : plan'[g].lines \in LinesType
<1>1. plan = [g \in Forges |-> plan[g]] /\ \A g \in Forges : plan[g].lines \in LinesType
  BY DEF Turned
<1> HIDE DEF Turned
<1>2. \A g \in Forges : plan'[g] = IF g = f THEN new ELSE plan[g]
  BY <1>1
<1> QED BY <1>1, <1>2

LEMMA NothingSaid == NoPlan.lines \in LinesType /\ NoLines \in LinesType
  BY DEF NoPlan, NoLines, LinesType, PathSets

LEMMA PrunedLines ==
  ASSUME NEW l \in LinesType, NEW gone \in SUBSET Path
  PROVE  [l EXCEPT !.prune = gone] \in LinesType
  BY PathsAre DEF LinesType

LEMMA TurnedKept == Turned /\ Placed /\ Control /\ [Next]_vars => Turned'
<1> SUFFICES ASSUME Turned, Placed, Control, [Next]_vars PROVE Turned'
  OBVIOUS
<1>1. ASSUME UNCHANGED <<listed, canonical, stale, lines, plan>>,
             stage' = stage \/ stage \notin {"work", "prune", "ran"}
      PROVE  Turned'
  BY <1>1 DEF Turned
<1>2. CASE Crash \/ Return
  <2>1. /\ listed' = {} /\ canonical' = {} /\ stale' = {} /\ lines' = NoLines
        /\ \/ plan' = [f \in Forges |-> IF f = at THEN NoPlan ELSE plan[f]]
           \/ plan' = plan
    BY <1>2 DEF Crash, Return, Gone
  <2>2. plan' = [f \in Forges |-> plan'[f]] /\ \A f \in Forges : plan'[f].lines \in LinesType
    BY <2>1, NothingSaid DEF Turned
  <2> QED BY <2>1, <2>2, NothingSaid DEF Turned
<1>3. CASE NextForge \/ Finish
  <2>1. listed' = {} /\ canonical' = {} /\ stale' = {} /\ lines' = NoLines
    BY <1>3 DEF NextForge, Finish, NextTurn
  <2>2. plan' = [f \in Forges |-> plan'[f]] /\ \A f \in Forges : plan'[f].lines \in LinesType
    <3>1. CASE plan' = plan
      BY <3>1 DEF Turned
    <3>2. CASE stage = "ran" /\ plan' = [plan EXCEPT ![at] = NoPlan]
      <4>1. at \in Forges
        BY <3>2, AtIsForge DEF AtForge
      <4> QED BY <3>2, <4>1, NothingSaid, PlansType
    <3>3. CASE at' \in Forges /\ plan' = [plan EXCEPT ![at'] = NoPlan]
      BY <3>3, NothingSaid, PlansType
    <3> QED BY <1>3, <3>1, <3>2, <3>3, NextIsForge DEF NextForge, Finish, Spend
  <2> QED BY <2>1, <2>2, NothingSaid DEF Turned
<1>4. CASE List
  <2>1. at \in Forges
    BY <1>4, AtIsForge DEF List, AtForge
  <2>2. /\ listed' \subseteq Sometimes /\ UNCHANGED <<stale, lines, plan>> /\ stale = {}
        /\ canonical' \subseteq PathsOf(listed')
    BY <1>4 DEF List, history, Turned
  <2>3. \A r \in listed' : r.path \in Paths /\ r.status \in Statuses \ {"gone"}
    BY <2>1, <2>2, SometimesAre DEF Paths
  <2>4. canonical' \subseteq Paths
    BY <2>2, <2>3 DEF PathsOf
  <2> QED BY <2>2, <2>3, <2>4 DEF Turned
<1>5. CASE Relist
  <2>1. at \in Forges
    BY <1>5, AtIsForge DEF Relist, AtForge
  <2>2. canonical' \subseteq PathsOf(Sometimes) /\ stale = {} /\ UNCHANGED <<listed, stale, lines, plan>>
    BY <1>5 DEF Relist, Turned, history
  <2>3. canonical' \subseteq Paths
    BY <2>1, <2>2, SometimesAre DEF PathsOf, Paths
  <2> QED BY <2>2, <2>3 DEF Turned
<1>6. CASE Preview \/ PreviewPrune
  <2>1. at \in Forges /\ stale = {}
    BY <1>6, AtIsForge DEF Preview, PreviewPrune, AtForge, Turned
  <2>2. lines' \in LinesType /\ UNCHANGED <<listed, canonical, stale>>
    <3>1. CASE Preview
      BY <3>1, AnnouncedType DEF Preview
    <3>2. CASE PreviewPrune
      <4>1. staleMirrors(disk, Dest(at), ArchiveDir(at), canonical) \in SUBSET Path
        BY <2>1, DiskPaths, StaleIsReadable DEF Readable
      <4> QED BY <3>2, <4>1, PrunedLines DEF PreviewPrune, Turned
    <3> QED BY <1>6, <3>1, <3>2
  <2>3. plan' = [f \in Forges |-> plan'[f]] /\ \A f \in Forges : plan'[f].lines \in LinesType
    <3>1. \/ plan' = plan
          \/ plan' = [plan EXCEPT ![at] = [call |-> [call EXCEPT !.dry = FALSE],
                                           prune |-> prune, lines |-> lines']]
      BY <1>6 DEF Preview, PreviewPrune, Foretell
    <3> QED BY <2>1, <2>2, <3>1, PlansType DEF Turned
  <2> QED BY <2>1, <2>2, <2>3 DEF Turned
<1>7. CASE Scan
  <2>1. at \in Forges
    BY <1>7, AtIsForge DEF Scan, AtForge
  <2>2. stale' \subseteq Readable /\ stale' \cap canonical = {}
    BY <1>7, <2>1, DiskPaths, StaleIsReadable DEF Scan
  <2>3. stage' = "work" /\ UNCHANGED <<listed, canonical, lines, plan>>
    BY <1>7 DEF Scan, Goto, history
  <2> QED BY <2>2, <2>3 DEF Turned
<1>8. CASE Work
  <2>1. PICK done \in SUBSET {r \in Todo : r.path \in There} : lines' = Did(done)
    BY <1>8 DEF Work
  <2>2. lines' \in LinesType
    BY <2>1, DidType
  <2>3. stage' = "prune" /\ UNCHANGED <<listed, canonical, stale, plan>>
    BY <1>8 DEF Work, Goto, history
  <2> QED BY <2>2, <2>3 DEF Turned
<1>9. CASE Prune
  <2>1. PICK gone \in SUBSET (IF prune THEN stale ELSE {}) : lines' = [lines EXCEPT !.prune = gone]
    BY <1>9 DEF Prune
  <2>2. gone \in SUBSET Path
    BY <2>1 DEF Turned, Readable
  <2>3. lines' \in LinesType
    BY <2>1, <2>2, PrunedLines DEF Turned
  <2>4. stage' = "ran" /\ UNCHANGED <<listed, canonical, stale, plan>>
    BY <1>9 DEF Prune, Goto, history
  <2> QED BY <2>3, <2>4 DEF Turned
<1>10. ASSUME NEW f \in Forges, NEW p \in Hosted[f], Change(f, p) PROVE Turned'
  BY <1>1, <1>10 DEF Change
<1>11. CASE UNCHANGED vars
  BY <1>1, <1>11 DEF vars, turn, history
<1>12. CASE Save
  BY <1>1, <1>12 DEF Save, turn
<1>13. ASSUME NEW c \in Calls, Invoke(c) PROVE Turned'
  BY <1>1, <1>13 DEF Invoke, turn
<1>14. CASE Resolve \/ Answer \/ Stat \/ Write \/ Flags \/ Load \/ Fail
  <2>1. UNCHANGED <<listed, canonical, stale, lines, plan>> /\ stage \notin {"work", "prune", "ran"}
    BY <1>14 DEF Resolve, Answer, Stat, Write, Flags, Load, Fail, turn, history
  <2> QED BY <1>1, <2>1
<1> QED BY <1>2, <1>3, <1>4, <1>5, <1>6, <1>7, <1>8, <1>9, <1>10, <1>11, <1>12, <1>13, <1>14 DEF Next

LEMMA PlacedKept == Placed /\ Remembered /\ Control /\ [Next]_vars => Placed'
<1> SUFFICES ASSUME Placed, Remembered, Control, [Next]_vars PROVE Placed'
  OBVIOUS
<1>1. CASE disk' \subseteq disk
  BY <1>1 DEF Placed, IsCopy, Node
<1>2. CASE Work
  <2>1. at \in Forges
    BY <1>2, AtIsForge DEF Work, AtForge
  <2>2. PICK done \in SUBSET {r \in Todo : r.path \in There} :
           disk' = Put(disk, UNION {Copies(at, r.path, r.status) : r \in done})
    BY <1>2 DEF Work
  <2> SUFFICES ASSUME NEW n \in disk', n \notin disk
               PROVE  \E f \in Forges : \E p \in Hosted[f] : IsCopy(n, f, p)
    BY DEF Placed
  <2>3. PICK r \in done : n \in Copies(at, r.path, r.status)
    BY <2>2 DEF Put
  <2>4. r.path \in Hosted[at]
    BY <2>2, <2>3 DEF There
  <2> QED BY <2>1, <2>3, <2>4, CopiesPlaced
<1>3. CASE Prune
  BY <1>1, <1>3 DEF Prune
<1>4. CASE [Next]_vars /\ ~Work /\ ~Prune
  <2>1. disk' = disk
    BY <1>4 DEF Next, vars, world, Change, Save, Crash, Return, Gone, Invoke, Resolve, Answer, Stat, Write, Flags,
                Load, NextForge, Finish, List, Relist, Fail, Preview, PreviewPrune, Scan
  <2> QED BY <1>1, <2>1
<1> QED BY <1>2, <1>3, <1>4

\* What TypeOK rests on: the tree holds copies where the layout puts them, so that two of
\* them never lie in one place.
Sound == Control /\ Remembered /\ Read /\ Turned /\ Placed

\* The inductive invariant of the command line: stages, forges, listings and the tree.
THEOREM SoundAlways == Spec => []Sound
<1>1. Init => Sound
  <2>1. Init => Placed
    BY DEF Init, Placed
  <2> QED BY <2>1, InitControl, InitRemembered, InitRead, InitTurned DEF Sound
<1>2. Sound /\ [Next]_vars => Sound'
  BY ControlKept, RememberedKept, ReadKept, TurnedKept, PlacedKept DEF Sound
<1> QED BY <1>1, <1>2, PTL DEF Spec

\* Every variable stays in its range, and at most one copy of anything lies in one place,
\* for any forges and repositories whose places are apart.
THEOREM TypeCorrect == Spec => []TypeOK
<1>1. Sound => TypeOK
  <2> SUFFICES ASSUME Sound PROVE TypeOK
    OBVIOUS
  <2>1. ASSUME NEW n \in disk
        PROVE  n.dir \in BOOLEAN /\ n.of.forge \in Forges /\ n.of.path \in Paths
    <3>1. PICK f \in Forges : \E p \in Hosted[f] : IsCopy(n, f, p)
      BY DEF Sound, Placed
    <3>2. PICK p \in Hosted[f] : IsCopy(n, f, p)
      BY <3>1
    <3>3. p \in Paths
      BY DEF Paths
    <3>4. n.dir \in BOOLEAN /\ n.of = [forge |-> f, path |-> p]
      BY <3>2, CopyPath
    <3> QED BY <3>3, <3>4
  <2>2. ASSUME NEW m \in disk, NEW n \in disk, m.at = n.at PROVE m = n
    <3>1. PICK f \in Forges : \E p \in Hosted[f] : IsCopy(m, f, p)
      BY DEF Sound, Placed
    <3>2. PICK p \in Hosted[f] : IsCopy(m, f, p)
      BY <3>1
    <3>3. PICK g \in Forges : \E q \in Hosted[g] : IsCopy(n, g, q)
      BY DEF Sound, Placed
    <3>4. PICK q \in Hosted[g] : IsCopy(n, g, q)
      BY <3>3
    <3> QED BY <2>2, <3>2, <3>4, OneCopyPerPlace
  <2> QED BY <2>1, <2>2 DEF Sound, Control, Remembered, Read, Turned, TypeOK
<1> QED BY <1>1, SoundAlways, PTL

-----------------------------------------------------------------------------
(* What prune removes. *)

\* The listing that staleness is judged by has every path that stayed on the forge, unless
\* something left the forge's list while it was read.
Reported ==
  /\ stage = "relist" => call.state # "all"
  /\ stage \in {"scan", "work", "prune"} \/ (stage = "preview" /\ call.state = "all") =>
       Judged \in torn \/ \A q \in steady[at] : forge[at][q] # "gone" => q \in canonical

LEMMA ReportedKept == Reported /\ Sound /\ [Next]_vars => Reported'
<1> SUFFICES ASSUME Reported, Sound, [Next]_vars PROVE Reported'
  OBVIOUS
<1> DEFINE late == {"scan", "work", "prune"}
<1>1. CASE UNCHANGED vars
  BY <1>1 DEF vars, world, front, turn, history, Reported, Judged
<1>2. ASSUME NEW f \in Forges, NEW p \in Hosted[f], Change(f, p) PROVE Reported'
  <2>1. PICK s \in Statuses : forge' = [forge EXCEPT ![f][p] = s]
    BY <1>2 DEF Change
  <2>2. /\ steady' = [steady EXCEPT ![f] = @ \ {p}] /\ UNCHANGED <<stage, call, at, canonical>>
        /\ torn \subseteq torn' /\ Judged' = Judged
    BY <1>2 DEF Change, front, Judged
  <2> SUFFICES ASSUME stage \in late \/ (stage = "preview" /\ call.state = "all"), Judged \notin torn,
                      NEW q \in steady'[at], forge'[at][q] # "gone"
               PROVE  q \in canonical
    BY <2>2 DEF Reported
  <2>3. at \in Forges
    BY AtIsForge DEF Sound, AtForge
  <2>4. q \in steady[at] /\ (at = f => q # p)
    BY <2>2, <2>3 DEF Sound, Remembered
  <2>5. forge'[at][q] = forge[at][q]
    BY <2>1, <2>3, <2>4 DEF Sound, Remembered
  <2> QED BY <2>4, <2>5 DEF Reported
<1>3. CASE Save
  BY <1>3 DEF Save, front, turn, Reported, Judged
<1>4. CASE List
  <2>1. at \in Forges /\ stage = "list"
    BY <1>4, AtIsForge DEF Sound, List, AtForge
  <2>2. /\ stage' \in {"next", "preview", "scan", "relist"} /\ UNCHANGED <<call, at, forge, steady, torn>>
        /\ stage' = "scan" => call.state = "all"
        /\ stage' = "relist" => call.state # "all"
    BY <1>4 DEF List, Goto, world, front, history
  <2>3. ASSUME call.state = "all", <<"list", at>> \notin torn, NEW q \in steady[at], forge[at][q] # "gone"
        PROVE  q \in canonical'
    <3>1. forge[at][q] \in {s \in Statuses \ {"gone"} : WantsState(s)}
      BY <2>1, <2>3 DEF Sound, Remembered, WantsState
    <3>2. q \in Always({s \in Statuses \ {"gone"} : WantsState(s)})
      BY <2>1, <3>1, SteadyAlways DEF Sound
    <3> QED BY <1>4, <2>1, <2>3, <3>2 DEF List
  <2> QED BY <2>2, <2>3 DEF Reported, Judged
<1>5. CASE Relist
  <2>1. at \in Forges /\ stage = "relist"
    BY <1>5, AtIsForge DEF Sound, Relist, AtForge
  <2>2. stage' = "scan" /\ UNCHANGED <<call, at, forge, steady, torn>>
    BY <1>5 DEF Relist, Goto, world, front, history
  <2>3. Judged = <<"relist", at>> /\ Judged' = Judged
    BY <2>1, <2>2 DEF Reported, Judged
  <2>4. ASSUME <<"relist", at>> \notin torn, NEW q \in steady[at], forge[at][q] # "gone"
        PROVE  q \in canonical'
    <3>1. forge[at][q] \in Statuses \ {"gone"}
      BY <2>1, <2>4 DEF Sound, Remembered
    <3>2. q \in Always(Statuses \ {"gone"})
      BY <2>1, <3>1, SteadyAlways DEF Sound
    <3> QED BY <1>5, <2>1, <2>4, <3>2 DEF Relist
  <2> QED BY <2>2, <2>3, <2>4 DEF Reported
<1>6. CASE Preview
  <2>1. /\ stage = "preview" /\ UNCHANGED <<at, forge, steady, canonical, call, torn>>
        /\ stage' \in late => stage' = "scan" /\ call.state = "all"
        /\ stage' = "relist" => call.state # "all"
        /\ stage' # "preview"
    BY <1>6 DEF Preview, Goto, world, front
  <2> QED BY <2>1 DEF Reported, Judged
<1>7. CASE Scan \/ Work \/ Prune
  <2>1. /\ stage \in late /\ stage' \notin {"preview", "relist"}
        /\ UNCHANGED <<at, forge, steady, canonical, call, torn>>
    BY <1>7 DEF Scan, Work, Prune, Goto, world, front, history
  <2> QED BY <2>1 DEF Reported, Judged
<1>8. CASE \/ Crash \/ Return \/ Resolve \/ Answer \/ Stat \/ Write \/ Flags \/ Load
           \/ NextForge \/ Finish \/ Fail \/ PreviewPrune \/ \E c \in Calls : Invoke(c)
  <2>1. stage' \notin late /\ stage' \notin {"preview", "relist"}
    BY <1>8 DEF Crash, Return, Gone, Resolve, Answer, Stat, Write, Flags, Load, NextForge, Finish, Fail,
                PreviewPrune, Invoke, Goto, Exit
  <2> QED BY <2>1 DEF Reported
<1> QED BY <1>1, <1>2, <1>3, <1>4, <1>5, <1>6, <1>7, <1>8 DEF Next

\* At every moment, and so when prune decides.
THEOREM ReportedAlways == Spec => []Reported
<1>1. Init => Reported
  BY DEF Init, Reported
<1> QED BY <1>1, ReportedKept, SoundAlways, PTL DEF Spec

LEMMA Suffixed == ASSUME NEW x \in Name, x # <<>>, NEW e \in Text PROVE HasSuffix(Append(x, e), e)
<1>1. Len(Append(x, e)) = Len(x) + 1 /\ Append(x, e)[Len(x) + 1] = e
  BY AppendProperties DEF Name
<1>2. Len(x) \in Nat \ {0}
  BY EmptySeq DEF Name
<1> QED BY <1>1, <1>2 DEF HasSuffix, Last

\* A place below a root where the name of a repository path and an extension are.
LEMMA NameBelow ==
  ASSUME NEW root \in Path, NEW p \in Path, p # <<>>, NEW r \in Path, Len(p) <= Len(r),
         NEW e, r[Len(p)] = Append(p[Len(p)], e)
  PROVE  /\ Len(root) + Len(p) \in DOMAIN (root \o r)
         /\ (root \o r)[Len(root) + Len(p)] = Append(p[Len(p)], e)
<1> DEFINE n == Len(p)
<1>1. n \in Nat \ {0} /\ Len(root) \in Nat /\ Len(r) \in Nat
  BY EmptySeq DEF Path
<1>2. /\ root \o r \in Path /\ Len(root \o r) = Len(root) + Len(r)
      /\ \A k \in 1..Len(r) : (root \o r)[Len(root) + k] = r[k]
  BY JoinedPlaces
<1>3. DOMAIN (root \o r) = 1..Len(root) + Len(r)
  BY <1>2 DEF Path
<1> HIDE DEF n
<1>4. n \in 1..Len(r) /\ Len(root) + n \in 1..Len(root) + Len(r)
  BY <1>1 DEF n
<1> QED BY <1>2, <1>3, <1>4 DEF n

LEMMA MetadataSeen ==
  ASSUME NEW f \in Forges, NEW q \in Hosted[f], NEW n, n.at = Names[f] \o Rest(q, "metadata")
  PROVE  \E i \in DOMAIN n.at : HasSuffix(n.at[i], "metadata")
<1>1. /\ q \in Path /\ q # <<>> /\ Len(q) \in 1..Len(q)
      /\ \A k \in 1..Len(q) : q[k] \in Name /\ q[k] # <<>>
  BY HostedPaths
<1>2. /\ Rest(q, "metadata") \in Path /\ Len(Rest(q, "metadata")) = Len(q) + 4
      /\ Rest(q, "metadata")[Len(q)] = Append(q[Len(q)], "metadata")
  BY <1>1, RestPlaces DEF Exts
<1>3. Len(q) <= Len(Rest(q, "metadata"))
  BY <1>1, <1>2
<1>4. /\ Len(Names[f]) + Len(q) \in DOMAIN n.at
      /\ n.at[Len(Names[f]) + Len(q)] = Append(q[Len(q)], "metadata")
  BY <1>1, <1>2, <1>3, RootPaths, NameBelow
<1>5. HasSuffix(Append(q[Len(q)], "metadata"), "metadata")
  BY <1>1, Suffixed DEF Text
<1> QED BY <1>4, <1>5

LEMMA ReadableName == ASSUME NEW p \in Readable
                      PROVE  p \in Path /\ p # <<>> /\ Len(p) \in 1..Len(p)
                             /\ p[Len(p)] \in Name /\ p[Len(p)] # <<>>
<1>1. p \in Path /\ p # <<>> /\ p[Len(p)] # <<>>
  BY DEF Readable, Last
<1>2. Len(p) \in Nat \ {0}
  BY <1>1, EmptySeq DEF Path
<1>3. p[Len(p)] \in Name
  BY <1>1, <1>2, ElementOfSeq DEF Path
<1> QED BY <1>1, <1>2, <1>3

\* A copy below what a path that is not the repository's would have as its mirror.
LEMMA BelowStaleMirror ==
  ASSUME NEW h \in Forges, NEW p \in Readable, NEW g \in Forges, NEW q \in Hosted[g],
         NEW n, IsCopy(n, g, q), IsPrefix(mirrorPath(Dest(h), p), n.at)
  PROVE  g = h /\ (p # q => Mistaken(n))
<1>1. /\ p \in Path /\ p # <<>> /\ Len(p) \in 1..Len(p) /\ p[Len(p)] \in Name /\ p[Len(p)] # <<>>
      /\ Last(p) # <<>>
  BY ReadableName DEF Readable
<1>2. PICK root \in Roots(g), ext \in Exts : n = Node(g, q, root, ext)
  BY DEF IsCopy
<1>3. n.at = root \o Rest(q, ext) /\ mirrorPath(Dest(h), p) = Names[h] \o Named(p, "git")
  BY <1>2 DEF Node, mirrorPath, Dest
<1>4. /\ Named(p, "git") \in Path /\ Len(Named(p, "git")) = Len(p)
      /\ Named(p, "git")[Len(p)] = Append(p[Len(p)], "git")
  BY <1>1, NamedPlaces DEF Text
<1>5. Rest(q, ext) \in Path /\ Names[h] \in Path /\ q \in Path /\ q # <<>>
  BY HostedPaths, RootPaths, RestPlaces
<1>6. h = g /\ root = Names[h] /\ IsPrefix(Named(p, "git"), Rest(q, ext))
  <2>1. Names[h] \in Roots(h)
    BY DEF Roots
  <2> QED BY <1>3, <1>4, <1>5, <2>1, RootsApart
<1>7. ASSUME p # q PROVE Mistaken(n)
  <2>1. ext = "metadata"
    BY <1>1, <1>6, <1>7, GitApart
  <2>2. \E i \in DOMAIN n.at : HasSuffix(n.at[i], "metadata")
    BY <1>3, <1>6, <2>1, MetadataSeen
  <2>3. Len(p) <= Len(Rest(q, ext)) /\ Rest(q, ext)[Len(p)] = Append(p[Len(p)], "git")
    BY <1>1, <1>4, <1>5, <1>6, PrefixPlaces
  <2>4. /\ Len(Names[h]) + Len(p) \in DOMAIN n.at
        /\ n.at[Len(Names[h]) + Len(p)] = Append(p[Len(p)], "git")
    BY <1>1, <1>3, <1>5, <1>6, <2>3, NameBelow
  <2>5. HasSuffix(Append(p[Len(p)], "git"), "git")
    BY <1>1, Suffixed DEF Text
  <2> QED BY <2>2, <2>4, <2>5 DEF Mistaken
<1> QED BY <1>6, <1>7

\* A copy where a path that is not the repository's would have its archive.
LEMMA AtStaleArchive ==
  ASSUME NEW h \in Forges, NEW p \in Readable, NEW g \in Forges, NEW q \in Hosted[g],
         NEW n, IsCopy(n, g, q), n.at = archivePath(ArchiveDir(h), p)
  PROVE  g = h /\ (p # q => Mistaken(n))
<1>1. /\ p \in Path /\ p # <<>> /\ Len(p) \in 1..Len(p) /\ p[Len(p)] \in Name /\ p[Len(p)] # <<>>
  BY ReadableName
<1>2. PICK root \in Roots(g), ext \in Exts :
         (root = Names[g] \/ ext = "tar.gz") /\ n = Node(g, q, root, ext)
  BY DEF IsCopy
<1>3. n.at = root \o Rest(q, ext) /\ n.at = ArchiveDir(h) \o Named(p, "tar.gz")
  BY <1>2 DEF Node, archivePath
<1>4. /\ Named(p, "tar.gz") \in Path /\ Len(Named(p, "tar.gz")) = Len(p)
      /\ Named(p, "tar.gz")[Len(p)] = Append(p[Len(p)], "tar.gz")
  BY <1>1, NamedPlaces DEF Text
<1>5. /\ Rest(q, ext) \in Path /\ q \in Path /\ q # <<>>
      /\ ArchiveDir(h) \in Roots(h) /\ ArchiveDir(h) \in Path
  BY HostedPaths, RootPaths, RestPlaces, ArchiveDirs DEF Roots
<1>6. h = g /\ root = ArchiveDir(h)
  <2>1. ArchiveDir(h) \o Named(p, "tar.gz") \in Path
    BY <1>4, <1>5, JoinedPlaces
  <2>2. IsPrefix(ArchiveDir(h) \o Named(p, "tar.gz"), root \o Rest(q, ext))
    BY <1>3, <2>1, IsPrefixSelf
  <2> QED BY <1>4, <1>5, <2>2, RootsApart
<1>7. Named(p, "tar.gz") = Rest(q, ext)
  <2>1. ArchiveDir(h) \o Named(p, "tar.gz") = ArchiveDir(h) \o Rest(q, ext)
    BY <1>3, <1>6
  <2> QED BY <1>4, <1>5, <2>1, ConcatSimplifications DEF Path
<1>8. ASSUME p # q PROVE Mistaken(n)
  <2>1. ext = "metadata"
    <3> SUFFICES ASSUME ext # "metadata" PROVE FALSE
      OBVIOUS
    <3>1. Named(p, "tar.gz") = Named(q, ext)
      BY <1>7 DEF Rest
    <3> QED BY <1>1, <1>5, <1>8, <3>1, SameNamed DEF Exts, Text
  <2>2. root = Names[g] /\ call.beside
    <3>1. Names[g] # ArchiveRoot(g)
      BY RootPaths
    <3> QED BY <1>2, <1>6, <2>1, <3>1, ArchiveDirs
  <2>3. \E i \in DOMAIN n.at : HasSuffix(n.at[i], "metadata")
    BY <1>3, <2>1, <2>2, MetadataSeen
  <2>4. Last(n.at) = Append(p[Len(p)], "tar.gz")
    <3> DEFINE a == ArchiveDir(h)
               u == Named(p, "tar.gz")
    <3>1. a \in Path /\ u \in Path /\ Len(u) = Len(p) /\ u[Len(p)] = Append(p[Len(p)], "tar.gz")
      BY <1>4, <1>5
    <3>2. n.at = a \o u
      BY <1>3
    <3> HIDE DEF a, u
    <3>3. /\ Len(a \o u) = Len(a) + Len(u)
          /\ \A k \in 1..Len(u) : (a \o u)[Len(a) + k] = u[k]
      BY <3>1, JoinedPlaces
    <3> QED BY <1>1, <3>1, <3>2, <3>3 DEF Last
  <2>5. HasSuffix(Append(p[Len(p)], "tar.gz"), "tar.gz")
    BY <1>1, Suffixed DEF Text
  <2> QED BY <2>2, <2>3, <2>4, <2>5 DEF Mistaken
<1> QED BY <1>6, <1>8

\* The workers write over nothing but earlier copies of the same.
LEMMA WorkRemovesNothing == Sound /\ Work => disk \subseteq disk'
<1> SUFFICES ASSUME Sound, Work, NEW n \in disk, n \notin disk' PROVE FALSE
  OBVIOUS
<1>1. at \in Forges
  BY AtIsForge DEF Sound, Work, AtForge
<1>2. PICK done \in SUBSET {r \in Todo : r.path \in There} :
         disk' = Put(disk, UNION {Copies(at, r.path, r.status) : r \in done})
  BY DEF Work
<1>3. PICK m \in UNION {Copies(at, r.path, r.status) : r \in done} : m.at = n.at /\ m # n
  BY <1>2 DEF Put
<1>4. PICK r \in done : m \in Copies(at, r.path, r.status)
  BY <1>3
<1>5. r.path \in Hosted[at]
  BY <1>2 DEF There
<1>6. IsCopy(m, at, r.path)
  BY <1>1, <1>4, <1>5, CopiesPlaced
<1>7. PICK g \in Forges : \E q \in Hosted[g] : IsCopy(n, g, q)
  BY DEF Sound, Placed
<1>8. PICK q \in Hosted[g] : IsCopy(n, g, q)
  BY <1>7
<1> QED BY <1>1, <1>3, <1>5, <1>6, <1>8, OneCopyPerPlace

LEMMA PruneRemoves ==
  ASSUME Sound, Reported, Prune, NEW n \in disk, n \notin disk'
  PROVE  prune /\ n.of.forge = at /\ (OnForge(n) => Mistaken(n) \/ Missed(n.of.path))
<1>1. at \in Forges /\ stage = "prune"
  BY AtIsForge DEF Sound, Prune, AtForge
<1>2. PICK gone \in SUBSET (IF prune THEN stale ELSE {}) : \E unarchived \in SUBSET gone :
         disk' = {m \in disk : /\ \A p \in gone : ~IsPrefix(mirrorPath(Dest(at), p), m.at)
                              /\ \A p \in unarchived : m.at # archivePath(ArchiveDir(at), p)}
  BY DEF Prune
<1>3. PICK p \in gone : \/ IsPrefix(mirrorPath(Dest(at), p), n.at)
                        \/ n.at = archivePath(ArchiveDir(at), p)
  BY <1>2
<1>4. prune /\ p \in stale /\ p \in Readable /\ p \notin canonical
  BY <1>2, <1>3 DEF Sound, Turned
<1>5. PICK g \in Forges : \E q \in Hosted[g] : IsCopy(n, g, q)
  BY DEF Sound, Placed
<1>6. PICK q \in Hosted[g] : IsCopy(n, g, q)
  BY <1>5
<1>7. n.of = [forge |-> g, path |-> q]
  BY <1>6, CopyPath
<1>8. g = at /\ (p # q => Mistaken(n))
  BY <1>1, <1>3, <1>4, <1>6, BelowStaleMirror, AtStaleArchive
<1>9. n.of.forge = at /\ n.of.path = q
  BY <1>7, <1>8
<1>10. OnForge(n) => q \in canonical \/ Judged \in torn
  BY <1>1, <1>9 DEF OnForge, Reported
<1> QED BY <1>4, <1>8, <1>9, <1>10 DEF Missed

LEMMA OnlyPruneRemoves == Sound /\ [Next]_vars /\ ~Prune => disk \subseteq disk'
<1>1. [Next]_vars /\ ~Work /\ ~Prune => disk' = disk
  BY DEF Next, vars, world, Change, Save, Crash, Return, Gone, Invoke, Resolve, Answer, Stat, Write, Flags,
         Load, NextForge, Finish, List, Relist, Fail, Preview, PreviewPrune, Scan
<1> QED BY <1>1, WorkRemovesNothing

\* What a run removes belongs to the forge it is at and is gone from it, and was asked for
\* by a layer that no stronger one denies. The exceptions are metadata whose names read as a
\* mirror or as an archive, and what a StateAll listing lacks that something left while it
\* was read. For any repositories, and any forges whose places are apart.
THEOREM RemovalsRight == Spec => RemovalsAreRight
<1> DEFINE Inv == Sound /\ Begun /\ Reported
           Right == \A n \in disk \ disk' :
                      /\ n.of.forge = at
                      /\ OnForge(n) => Mistaken(n) \/ Missed(n.of.path)
                      /\ call.prune # "no" /\ (call.prune = "unset" => call.env # "no")
<1>1. Inv /\ [Next]_vars => [Right]_vars
  <2> SUFFICES ASSUME Inv, [Next]_vars, NEW n \in disk, n \notin disk'
               PROVE  /\ n.of.forge = at
                      /\ OnForge(n) => Mistaken(n) \/ Missed(n.of.path)
                      /\ call.prune # "no" /\ (call.prune = "unset" => call.env # "no")
    OBVIOUS
  <2>1. Prune
    BY OnlyPruneRemoves
  <2>2. prune /\ n.of.forge = at /\ (OnForge(n) => Mistaken(n) \/ Missed(n.of.path))
    BY <2>1, PruneRemoves
  <2> QED BY <2>2 DEF Begun, Layered, Asked
<1> HIDE DEF Right
<1>2. Spec => [][Right]_vars
  BY <1>1, ReportedAlways, SoundAlways, BegunAlways, PTL DEF Spec
<1> QED BY <1>2 DEF RemovalsAreRight, Right

-----------------------------------------------------------------------------
(* What a run that ends well has backed up. *)

Owed(f, p) == /\ Selected(f) /\ Whole(f) /\ p \in steady[f]
              /\ forge[f][p] \in {"active", "archived"} /\ WantsState(forge[f][p])

\* a forge whose repositories are in the tree
Complete(f) == \A p \in Hosted[f] :
                 Owed(f, p) => \A n \in Copies(f, p, forge[f][p]) : n \in disk \/ Mistaken(n)

Through(f) == f < at \/ (f = at /\ stage \in {"prune", "ran"}) \/ (stage = "exit" /\ outcome = "ok")

\* BackedUp, forge by forge: those behind the one it is at are complete, and the listing of
\* that one has all it owes.
Advanced ==
  /\ stage \in Unloaded => at = 0
  /\ call.cmd = "run" /\ ~call.dry =>
       /\ stage # "preview" /\ (stage = "next" => at = 0)
       /\ stage \in {"relist", "scan", "work"} =>
            \A p \in Hosted[at] : Owed(at, p) => [path |-> p, status |-> forge[at][p]] \in listed
       /\ clean => \A f \in 1..loaded : Through(f) => Complete(f)

LEMMA InitAdvanced == Init => Advanced
  BY DEF Init, Advanced, NoCall

\* A change of the forge leaves only what it has not changed to be owed.
LEMMA OwedStays ==
  ASSUME Sound, NEW f \in Forges, NEW p \in Hosted[f], Change(f, p),
         NEW g \in Forges, NEW q \in Hosted[g], Owed(g, q)'
  PROVE  Owed(g, q) /\ forge'[g][q] = forge[g][q]
<1>1. PICK s \in Statuses : forge' = [forge EXCEPT ![f][p] = s]
  BY DEF Change
<1>2. steady' = [steady EXCEPT ![f] = @ \ {p}] /\ UNCHANGED <<call, prune>> /\ torn \subseteq torn'
  BY DEF Change, front
<1>3. q \in steady'[g]
  BY DEF Owed
<1>4. q \in steady[g] /\ (g = f => q # p)
  BY <1>2, <1>3 DEF Sound, Remembered
<1>5. forge'[g][q] = forge[g][q]
  BY <1>1, <1>4 DEF Sound, Remembered
<1> QED BY <1>2, <1>4, <1>5 DEF Owed, Selected, Whole, WantsState

LEMMA CompleteStays ==
  ASSUME Sound, NEW g \in Forges, Complete(g), disk \subseteq disk',
         UNCHANGED <<call, prune, forge, steady, torn>>
  PROVE  Complete(g)'
<1>1. \A p \in Hosted[g] : Owed(g, p)' = Owed(g, p)
  BY DEF Owed, Selected, Whole, WantsState
<1>2. \A p, s : Copies(g, p, s)' = Copies(g, p, s)
  BY DEF Copies, Scratch, WantsArchive, ArchiveDir
<1>3. \A n : Mistaken(n)' = Mistaken(n)
  BY DEF Mistaken
<1> QED BY <1>1, <1>2, <1>3 DEF Complete

\* A forge that is not selected is owed nothing.
LEMMA NothingOwed == ASSUME NEW f \in Forges, ~Selected(f) PROVE Complete(f)
  BY DEF Complete, Owed

\* The turn of a forge, or of the last, is over.
LEMMA TurnOver ==
  ASSUME Sound, Advanced, Between, call.cmd = "run", ~call.dry, clean,
         NEW f \in 1..loaded, f \notin After
  PROVE  Complete(f)
<1>1. f \in Forges /\ f \in Nat /\ at \in Nat /\ loaded \in Nat
  BY NamesLength DEF Sound, Control
<1>2. CASE f > at
  <2>1. f \in at + 1..loaded
    BY <1>1, <1>2
  <2>2. ~Selected(f)
    BY <2>1 DEF After
  <2> QED BY <1>1, <2>2, NothingOwed
<1>3. CASE f <= at
  <2>1. stage = "ran"
    BY <1>1, <1>3 DEF Between, Advanced
  <2>2. Through(f)
    BY <1>1, <1>3, <2>1 DEF Through
  <2> QED BY <2>2 DEF Advanced
<1> QED BY <1>1, <1>2, <1>3

LEMMA WorkCompletes ==
  ASSUME Sound, Advanced, Work, call.cmd = "run", ~call.dry, clean'
  PROVE  Complete(at)'
<1>1. at \in Forges /\ stage = "work"
  BY AtIsForge DEF Sound, Work, AtForge
<1>2. PICK done \in SUBSET {r \in Todo : r.path \in There} :
         /\ disk' = Put(disk, UNION {Copies(at, r.path, r.status) : r \in done})
         /\ clean' = (clean /\ done = Todo)
  BY DEF Work
<1>3. UNCHANGED <<call, prune, forge, steady, torn, at>>
  BY DEF Work, history
<1> SUFFICES ASSUME NEW p \in Hosted[at], Owed(at, p), NEW n \in Copies(at, p, forge[at][p])
             PROVE  n \in disk'
  BY <1>3 DEF Complete, Owed, Selected, Whole, WantsState, Copies, Scratch, WantsArchive, ArchiveDir
<1> DEFINE r == [path |-> p, status |-> forge[at][p]]
<1>4. r \in listed
  BY <1>1 DEF Advanced
<1>5. r \in done
  BY <1>2, <1>4 DEF Todo, Owed
<1> QED BY <1>2, <1>5 DEF Put

LEMMA PruneLeavesComplete ==
  ASSUME Sound, Reported, Prune, NEW f \in Forges, Complete(f)
  PROVE  Complete(f)'
<1>1. UNCHANGED <<call, prune, forge, steady, torn, at>>
  BY DEF Prune, history
<1> SUFFICES ASSUME NEW p \in Hosted[f], Owed(f, p), NEW n \in Copies(f, p, forge[f][p])
             PROVE  n \in disk' \/ Mistaken(n)
  BY <1>1 DEF Complete, Owed, Selected, Whole, WantsState, Copies, Scratch, WantsArchive, ArchiveDir, Mistaken
<1>2. n \in disk \/ Mistaken(n)
  BY DEF Complete
<1>3. ASSUME n \in disk, n \notin disk' PROVE Mistaken(n)
  <2>1. n.of = [forge |-> f, path |-> p]
    BY CopiesPlaced, CopyPath
  <2>2. n.of.forge = f /\ n.of.path = p
    BY <2>1
  <2>3. OnForge(n)
    BY <2>2 DEF OnForge, Owed
  <2>4. prune /\ n.of.forge = at /\ (Mistaken(n) \/ Missed(n.of.path))
    BY <1>3, <2>3, PruneRemoves
  <2>5. Judged \notin torn
    BY <2>2, <2>4 DEF Owed, Whole, Judged
  <2> QED BY <2>4, <2>5 DEF Missed
<1> QED BY <1>2, <1>3

LEMMA AdvancedKept == Advanced /\ Sound /\ Reported /\ [Next]_vars => Advanced'
<1> SUFFICES ASSUME Advanced, Sound, Reported, [Next]_vars PROVE Advanced'
  OBVIOUS
<1>0. 1..loaded \subseteq Forges /\ at \in Nat /\ loaded \in Nat /\ \A f \in 1..loaded : f \in Nat \ {0}
  BY NamesLength DEF Sound, Control
<1>1. CASE Save \/ UNCHANGED vars
  <2>1. UNCHANGED <<forge, disk, stage, outcome, call, prune, loaded, clean, at, listed, steady, torn>>
    BY <1>1 DEF Save, vars, world, front, turn, history
  <2>2. \A f \in 1..loaded : Complete(f) => Complete(f)'
    BY <1>0, <2>1, CompleteStays
  <2>3. \A p \in Hosted[at] : Owed(at, p)' = Owed(at, p)
    BY <2>1 DEF Owed, Selected, Whole, WantsState
  <2> QED BY <2>1, <2>2, <2>3 DEF Advanced, Through
<1>2. ASSUME NEW f \in Forges, NEW p \in Hosted[f], Change(f, p) PROVE Advanced'
  <2>1. /\ UNCHANGED <<disk, stage, outcome, call, prune, loaded, clean, at, listed>>
        /\ torn \subseteq torn'
    BY <1>2 DEF Change, front
  <2>2. ASSUME NEW g \in 1..loaded, Complete(g) PROVE Complete(g)'
    <3> SUFFICES ASSUME NEW q \in Hosted[g], Owed(g, q)', NEW n \in Copies(g, q, forge'[g][q])
                 PROVE  n \in disk \/ Mistaken(n)
      BY <2>1 DEF Complete, Copies, Scratch, WantsArchive, ArchiveDir, Mistaken
    <3>1. Owed(g, q) /\ forge'[g][q] = forge[g][q]
      BY <1>0, <1>2, OwedStays
    <3> QED BY <2>2, <3>1 DEF Complete
  <2>3. ASSUME stage \in {"relist", "scan", "work"}, call.cmd = "run", ~call.dry,
               NEW q \in Hosted[at], Owed(at, q)'
        PROVE  [path |-> q, status |-> forge'[at][q]] \in listed
    <3>1. at \in Forges
      BY <2>3, AtIsForge DEF Sound, AtForge
    <3>2. Owed(at, q)' => Owed(at, q) /\ forge'[at][q] = forge[at][q]
      <4> SUFFICES ASSUME NEW g \in Forges, g = at PROVE Owed(g, q)' => Owed(g, q) /\ forge'[g][q] = forge[g][q]
        BY <2>1, <3>1 DEF Owed, Selected, Whole, WantsState
      <4> QED BY <1>2, OwedStays
    <3> QED BY <2>3, <3>2 DEF Advanced
  <2> QED BY <2>1, <2>2, <2>3 DEF Advanced, Through
<1>3. CASE Gone
  <2>1. call' = NoCall /\ at' = 0
    BY <1>3 DEF Gone
  <2> QED BY <2>1 DEF Advanced, NoCall
<1>4. CASE \/ Resolve \/ Answer \/ Stat \/ Write \/ Flags \/ Load \/ \E c \in Calls : Invoke(c)
  <2>1. stage \in Unloaded /\ at' = at
    BY <1>4 DEF Resolve, Answer, Stat, Write, Flags, Load, Invoke, turn, Unloaded
  <2>2. /\ stage' \notin {"preview", "relist", "scan", "work", "prune", "ran"}
        /\ stage' = "exit" /\ outcome' = "ok" => call'.cmd = "init"
    BY <1>4 DEF Resolve, Answer, Stat, Write, Flags, Load, Invoke, Goto, Exit, front
  <2>3. at = 0 /\ loaded' \in Nat
    BY <1>4, <2>1, NamesLength DEF Advanced, Load, Resolve, Answer, Stat, Write, Flags, Invoke, Sound, Control, front
  <2>4. call'.cmd = "run" => \A f \in 1..loaded' : ~Through(f)'
    BY <2>1, <2>2, <2>3 DEF Through
  <2> QED BY <2>1, <2>2, <2>3, <2>4 DEF Advanced
<1>5. CASE NextForge
  <2>1. /\ Between /\ stage' = "list" /\ at' \in After /\ \A g \in After : at' <= g
        /\ UNCHANGED <<forge, disk, call, prune, loaded, clean, steady, torn>>
    BY <1>5 DEF NextForge, Goto, world
  <2>2. ASSUME call.cmd = "run", ~call.dry, clean, NEW g \in 1..loaded, g < at' PROVE Complete(g)'
    <3>1. at' \in Nat /\ g \in Nat
      BY <1>0, <2>1 DEF After
    <3>2. g \notin After
      BY <2>1, <2>2, <3>1
    <3> QED BY <1>0, <2>1, <2>2, <3>2, TurnOver, CompleteStays
  <2> QED BY <2>1, <2>2 DEF Advanced, Through, Unloaded
<1>6. CASE Finish
  <2>1. /\ Between /\ stage' = "exit" /\ After = {}
        /\ UNCHANGED <<forge, disk, call, prune, loaded, clean, steady, torn>>
    BY <1>6 DEF Finish, Exit, world, front
  <2>2. ASSUME call.cmd = "run", ~call.dry, clean, NEW g \in 1..loaded PROVE Complete(g)'
    BY <1>0, <2>1, <2>2, TurnOver, CompleteStays
  <2> QED BY <2>1, <2>2 DEF Advanced, Unloaded
<1>7. CASE List \/ Relist \/ Fail \/ Scan
  <2>1. /\ stage \in {"list", "relist", "scan"}
        /\ stage' \in {"next", "preview", "relist", "scan", "work", "exit"}
        /\ stage' = "exit" => outcome' # "ok"
        /\ UNCHANGED <<forge, disk, call, prune, loaded, clean, at, steady, torn>>
    BY <1>7 DEF List, Relist, Fail, Scan, Goto, Exit, world, front, history
  <2>2. call.cmd = "run" /\ ~call.dry => stage' \notin {"next", "preview"}
    BY <1>7 DEF List, Relist, Fail, Scan, Goto, Exit
  <2>3. \A g \in 1..loaded : Complete(g) => Complete(g)'
    BY <1>0, <2>1, CompleteStays
  <2>4. \A g : Through(g)' => Through(g)
    BY <2>1 DEF Through
  <2>5. ASSUME call.cmd = "run", ~call.dry, stage' \in {"relist", "scan", "work"},
               NEW q \in Hosted[at], Owed(at, q)
        PROVE  [path |-> q, status |-> forge[at][q]] \in listed'
    <3>1. CASE List
      <4>1. /\ q \in steady[at] /\ forge[at][q] \in {s \in Statuses \ {"gone"} : WantsState(s)}
            /\ <<"list", at>> \notin torn
        BY <2>5 DEF Owed, Whole, Statuses
      <4>2. at \in Forges /\ stage = "list" /\ listed' \subseteq Sometimes
        BY <3>1, AtIsForge DEF Sound, List, AtForge
      <4>3. q \in Always({s \in Statuses \ {"gone"} : WantsState(s)})
        BY <4>1, <4>2, SteadyAlways DEF Sound
      <4>4. PICK r \in listed' : r.path = q
        BY <3>1, <4>1, <4>2, <4>3 DEF List, PathsOf
      <4> QED BY <4>1, <4>2, <4>4, SometimesSteady DEF Sound
    <3>2. CASE Relist \/ Scan
      <4>1. stage \in {"relist", "scan"} /\ listed' = listed
        BY <3>2 DEF Relist, Scan
      <4> QED BY <2>5, <4>1 DEF Advanced
    <3>3. CASE Fail
      BY <2>5, <3>3 DEF Fail, Exit
    <3> QED BY <1>7, <3>1, <3>2, <3>3
  <2>6. \A q \in Hosted[at] : Owed(at, q)' = Owed(at, q)
    BY <2>1 DEF Owed, Selected, Whole, WantsState
  <2> QED BY <2>1, <2>2, <2>3, <2>4, <2>5, <2>6 DEF Advanced, Unloaded
<1>8. CASE Preview \/ PreviewPrune
  <2>1. /\ stage \in {"preview", "scan"} /\ (stage = "scan" => call.dry)
        /\ stage' \in {"next", "scan", "relist"} /\ UNCHANGED call
    BY <1>8 DEF Preview, PreviewPrune, Goto, front
  <2>2. ~(call.cmd = "run" /\ ~call.dry)
    BY <2>1 DEF Advanced
  <2> QED BY <2>1, <2>2 DEF Advanced, Unloaded
<1>9. CASE Work
  <2>1. /\ stage = "work" /\ stage' = "prune" /\ (clean' => clean)
        /\ UNCHANGED <<forge, call, prune, loaded, at, steady, torn>>
    BY <1>9 DEF Work, Goto, history
  <2>2. disk \subseteq disk'
    BY <1>9, WorkRemovesNothing
  <2>3. \A g \in 1..loaded : Complete(g) => Complete(g)'
    BY <1>0, <2>1, <2>2, CompleteStays
  <2>4. \A g \in 1..loaded : Through(g)' => Through(g) \/ g = at
    BY <2>1 DEF Through
  <2>5. call.cmd = "run" /\ ~call.dry /\ clean' => Complete(at)'
    BY <1>9, WorkCompletes
  <2>6. \A g : g = at => Complete(g)' = Complete(at)'
    BY <2>1 DEF Complete
  <2> QED BY <2>1, <2>3, <2>4, <2>5, <2>6 DEF Advanced, Unloaded
<1>10. CASE Prune
  <2>1. /\ stage = "prune" /\ stage' = "ran" /\ (clean' => clean)
        /\ UNCHANGED <<call, loaded, at>>
    BY <1>10 DEF Prune, Goto
  <2>2. \A g \in 1..loaded : Complete(g) => Complete(g)'
    BY <1>0, <1>10, PruneLeavesComplete
  <2>3. \A g : Through(g)' => Through(g)
    BY <2>1 DEF Through
  <2> QED BY <2>1, <2>2, <2>3 DEF Advanced, Unloaded
<1> QED BY <1>1, <1>2, <1>3, <1>4, <1>5, <1>6, <1>7, <1>8, <1>9, <1>10 DEF Next, Crash, Return

\* In every state of a run in which nothing has failed, the forges behind it are complete.
THEOREM AdvancedAlways == Spec => [](Advanced /\ Sound)
<1>1. Spec => []Advanced
  BY InitAdvanced, AdvancedKept, ReportedAlways, SoundAlways, PTL DEF Spec
<1> QED BY <1>1, SoundAlways, PTL

\* A run that ends well and in which nothing failed has the repositories of every selected
\* forge in the tree, with the archives and assets it was asked for, whatever the forges and
\* however many of them: none was passed over, and none took another's away. A forge whose
\* list something left while it was read is the exception.
THEOREM RunBacksUp == Spec => []BackedUp
<1>1. Advanced /\ Sound => BackedUp
  <2> SUFFICES ASSUME Advanced, Sound, outcome = "ok", call.cmd = "run", ~call.dry, clean,
                      NEW f \in 1..loaded, NEW p \in steady[f], Selected(f), Whole(f),
                      forge[f][p] \in {"active", "archived"}, WantsState(forge[f][p]),
                      NEW n \in Copies(f, p, forge[f][p])
               PROVE  n \in disk \/ Mistaken(n)
    BY DEF BackedUp
  <2>1. f \in Forges
    BY NamesLength DEF Sound, Control
  <2>2. p \in Hosted[f]
    BY <2>1 DEF Sound, Remembered
  <2>3. Through(f)
    BY DEF Through, Sound, Control
  <2>4. Complete(f)
    BY <2>3 DEF Advanced
  <2> QED BY <2>2, <2>4 DEF Complete, Owed
<1> QED BY <1>1, AdvancedAlways, PTL

-----------------------------------------------------------------------------
(* What a dry run foretells. *)

\* The listing, the lines and the stale paths of a forge whose statuses are s, for a call c
\* and a tree d; Told is what a dry run says, and a run does.
HereIn(s) == {p \in DOMAIN s : s[p] # "gone"}
Wants(c, s) == c.state = "all" \/ ((c.state = "archived") = (s = "archived"))
Archives(c, s) == \/ c.archive = "all"
                  \/ /\ c.archive \in {"active", "archived"}
                     /\ (c.archive = "archived") = (s = "archived")
Listing(s, c) == {[path |-> p, status |-> s[p]] : p \in {q \in HereIn(s) : Wants(c, s[q])}}
Archived(c, f) == (IF c.beside THEN <<>> ELSE <<<<"archive">>>>) \o Names[f]
New(d, c, f, r) == \/ r.status = "archived" /\ Archives(c, r.status)
                   \/ \A n \in d : n.at # mirrorPath(Names[f], r.path)
Busy(repos) == {r \in repos : r.status # "empty"}
Said(d, repos, c, f) ==
  [clone |-> PathsOf({r \in Busy(repos) : New(d, c, f, r)}),
   update |-> PathsOf({r \in Busy(repos) : ~New(d, c, f, r)}),
   skip |-> PathsOf(repos \ Busy(repos)),
   archive |-> PathsOf({r \in Busy(repos) : Archives(c, r.status)}), prune |-> {}]
StaleIn(d, s, c, f) == staleMirrors(d, Names[f], Archived(c, f), HereIn(s))
Told(d, s, c, pruning, f) ==
  [Said(d, Listing(s, c), c, f) EXCEPT !.prune = IF pruning THEN StaleIn(d, s, c, f) ELSE {}]

\* What is known of a forge that has not changed since its last dry run, as long as no run
\* has come to its part of the tree: what the dry run said still holds.
Planned == \A f \in Forges :
             f \in quiet /\ plan[f].call # NoCall /\ ~(f = at /\ stage \in {"prune", "ran"}) =>
               plan[f].lines = Told(disk, forge[f], plan[f].call, plan[f].prune, f)

\* The dry run, and the run, work with what they have listed and scanned.
Known ==
  at \in quiet =>
    /\ stage \in {"preview", "relist", "scan", "work"} => listed = Listing(forge[at], call)
    /\ stage \in {"scan", "work"} \/ (stage = "preview" /\ call.state = "all") =>
         canonical = HereIn(forge[at])
    /\ stage \in {"relist", "scan"} /\ call.dry => prune /\ lines = Said(disk, listed, call, at)
    /\ stage = "work" => stale = StaleIn(disk, forge[at], call, at)

\* What it has done is what the dry run said, up to what it has not done yet.
Fulfilled ==
  at \in quiet /\ clean /\ plan[at].call = call /\ plan[at].prune = prune =>
    /\ stage = "prune" => [lines EXCEPT !.prune = IF prune THEN stale ELSE {}] = plan[at].lines
    /\ stage = "ran" => lines = plan[at].lines

Foretold == Planned /\ Known /\ Fulfilled

\* the part of a tree that is a forge's
Own(d, f) == {n \in d : n.of.forge = f}
Copied(d) == \A n \in d : \E f \in Forges : \E p \in Hosted[f] : IsCopy(n, f, p)
Matches(tree, root, ext, dir) ==
  {e \in Entries(tree) : e.dir = dir /\ Below(root, e.at) /\ HasSuffix(Last(e.at), ext)}

LEMMA OnDiskMatches ==
  ASSUME NEW tree, NEW root, NEW ext, NEW dir
  PROVE  onDiskPaths(tree, root, ext, dir) =
           {TrimSuffix(SubSeq(e.at, Len(root) + 1, Len(e.at))) :
              e \in {m \in Matches(tree, root, ext, dir) :
                       ~\E d \in Matches(tree, root, ext, dir) : d.dir /\ Below(d.at, m.at)}}
  BY DEF onDiskPaths, Matches

\* What lies below a forge's directory, or its archives', is the forge's.
LEMMA BelowIsOwn ==
  ASSUME NEW d, Copied(d), NEW f \in Forges, NEW root \in Roots(f), NEW n \in d,
         IsPrefix(root, n.at)
  PROVE  n \in Own(d, f)
<1>1. PICK g \in Forges : \E q \in Hosted[g] : IsCopy(n, g, q)
  BY DEF Copied
<1>2. PICK q \in Hosted[g] : IsCopy(n, g, q)
  BY <1>1
<1>3. PICK b \in Roots(g), ext \in Exts : n = Node(g, q, b, ext)
  BY <1>2 DEF IsCopy
<1>4. root \in Path /\ b \in Path /\ Rest(q, ext) \in Path /\ <<>> \in Path
  BY HostedPaths, RootPaths, RestPlaces DEF Roots, Path
<1>5. root \o <<>> = root
  BY <1>4, ConcatEmptySeq DEF Path
<1>6. IsPrefix(root \o <<>>, b \o Rest(q, ext))
  BY <1>3, <1>5 DEF Node
<1>7. f = g
  BY <1>4, <1>6, RootsApart
<1> QED BY <1>3, <1>7 DEF Node, Own

LEMMA PrefixOfPrefix ==
  ASSUME NEW s \in Path, NEW t \in Path, NEW u \in Path, IsPrefix(s, t), IsPrefix(t, u)
  PROVE  IsPrefix(s, u)
<1>1. Len(s) \in Nat /\ Len(t) \in Nat /\ Len(u) \in Nat
  BY DEF Path
<1>2. Len(s) <= Len(t) /\ \A k \in 1..Len(s) : s[k] = t[k]
  BY PrefixPlaces
<1>3. Len(t) <= Len(u) /\ \A k \in 1..Len(t) : t[k] = u[k]
  BY PrefixPlaces
<1>4. Len(s) <= Len(u) /\ \A k \in 1..Len(s) : s[k] = u[k]
  BY <1>1, <1>2, <1>3
<1> QED BY <1>4, PrefixPlaces

LEMMA StartIsPrefix ==
  ASSUME NEW s \in Path, NEW k \in 1..Len(s) - 1
  PROVE  SubSeq(s, 1, k) \in Path /\ IsPrefix(SubSeq(s, 1, k), s)
<1> DEFINE u == SubSeq(s, 1, k)
<1>1. s \in Seq(Name) /\ k \in Int /\ Len(s) \in Nat /\ 1 <= k /\ \A i \in 1..k : s[i] \in Name
  BY ElementOfSeq DEF Path
<1>2. /\ u \in Seq(Name) /\ Len(u) = IF 1 <= k THEN k - 1 + 1 ELSE 0
      /\ \A i \in 1..k - 1 + 1 : u[i] = s[1 + i - 1]
  BY <1>1, SubSeqProperties
<1> HIDE DEF u
<1>3. Len(u) <= Len(s) /\ \A i \in 1..Len(u) : u[i] = s[i]
  BY <1>1, <1>2
<1> QED BY <1>2, <1>3, PrefixPlaces DEF u, Path

LEMMA OwnMatches ==
  ASSUME NEW d, Copied(d), NEW f \in Forges, NEW root \in Roots(f), NEW ext, NEW dir
  PROVE  Matches(d, root, ext, dir) = Matches(Own(d, f), root, ext, dir)
<1>1. \A n \in d : n.at \in Path
  BY CopyPath DEF Copied
<1>2. root \in Path
  BY RootPaths DEF Roots
<1>3. Entries(Own(d, f)) \subseteq Entries(d)
  BY DEF Own, Entries
<1>4. ASSUME NEW e \in Entries(d), Below(root, e.at) PROVE e \in Entries(Own(d, f))
  <2>1. CASE e \in {[at |-> n.at, dir |-> n.dir] : n \in d}
    <3>1. PICK n \in d : e = [at |-> n.at, dir |-> n.dir]
      BY <2>1
    <3>2. IsPrefix(root, n.at)
      BY <1>4, <3>1 DEF Below, IsStrictPrefix
    <3>3. n \in Own(d, f)
      BY <3>2, BelowIsOwn
    <3> QED BY <3>1, <3>3 DEF Entries
  <2>2. CASE e \in UNION {{[at |-> SubSeq(n.at, 1, k), dir |-> TRUE] : k \in 1..Len(n.at) - 1} : n \in d}
    <3>1. PICK n \in d : e \in {[at |-> SubSeq(n.at, 1, k), dir |-> TRUE] : k \in 1..Len(n.at) - 1}
      BY <2>2
    <3>2. PICK k \in 1..Len(n.at) - 1 : e = [at |-> SubSeq(n.at, 1, k), dir |-> TRUE]
      BY <3>1
    <3>3. IsPrefix(root, SubSeq(n.at, 1, k))
      BY <1>4, <3>2 DEF Below, IsStrictPrefix
    <3>4. IsPrefix(root, n.at)
      BY <1>1, <1>2, <3>3, StartIsPrefix, PrefixOfPrefix
    <3>5. n \in Own(d, f)
      BY <3>4, BelowIsOwn
    <3> QED BY <3>1, <3>5 DEF Entries
  <2> QED BY <2>1, <2>2 DEF Entries
<1> QED BY <1>3, <1>4 DEF Matches

LEMMA ArchivedIsRoot == ASSUME NEW c, NEW f \in Forges PROVE Archived(c, f) \in Roots(f) /\ Names[f] \in Roots(f)
<1>1. <<>> \o Names[f] = Names[f]
  BY RootPaths, ConcatEmptySeq DEF Path
<1> QED BY <1>1 DEF Archived, ArchiveRoot, Roots

LEMMA OwnStale ==
  ASSUME NEW d, Copied(d), NEW f \in Forges, NEW s, NEW c
  PROVE  StaleIn(d, s, c, f) = StaleIn(Own(d, f), s, c, f)
<1>1. \A root \in Roots(f) : \A ext, dir : Matches(d, root, ext, dir) = Matches(Own(d, f), root, ext, dir)
  BY OwnMatches
<1>2. onDiskPaths(d, Names[f], "git", TRUE) = onDiskPaths(Own(d, f), Names[f], "git", TRUE)
  BY <1>1, OnDiskMatches, ArchivedIsRoot
<1>3. onDiskPaths(d, Archived(c, f), "tar.gz", FALSE) = onDiskPaths(Own(d, f), Archived(c, f), "tar.gz", FALSE)
  BY <1>1, OnDiskMatches, ArchivedIsRoot
<1> QED BY <1>2, <1>3 DEF StaleIn, staleMirrors

LEMMA OwnNew ==
  ASSUME NEW d, Copied(d), NEW f \in Forges, NEW c, NEW r, r.path \in Hosted[f]
  PROVE  New(d, c, f, r) = New(Own(d, f), c, f, r)
<1> DEFINE there == mirrorPath(Names[f], r.path)
           m == Node(f, r.path, Names[f], "git")
<1>1. IsCopy(m, f, r.path) /\ m.at = there
  BY CopyPlaces DEF IsCopy, Roots, Exts, Node, Dest
<1>2. ASSUME NEW n \in d, n.at = there PROVE n \in Own(d, f)
  <2>1. PICK g \in Forges : \E q \in Hosted[g] : IsCopy(n, g, q)
    BY DEF Copied
  <2>2. PICK q \in Hosted[g] : IsCopy(n, g, q)
    BY <2>1
  <2>3. n = m
    BY <1>1, <1>2, <2>2, OneCopyPerPlace
  <2> QED BY <2>3 DEF Node, Own
<1>3. Own(d, f) \subseteq d
  BY DEF Own
<1> HIDE DEF there
<1>4. (\A n \in d : n.at # there) <=> \A n \in Own(d, f) : n.at # there
  BY <1>2, <1>3
<1> QED BY <1>4 DEF New, there

\* What is said of a forge depends on its own part of the tree.
LEMMA OwnTold ==
  ASSUME NEW d, Copied(d), NEW f \in Forges, NEW s, DOMAIN s = Hosted[f], NEW c, NEW pruning
  PROVE  Told(d, s, c, pruning, f) = Told(Own(d, f), s, c, pruning, f)
<1> DEFINE repos == Listing(s, c)
<1>1. \A r \in Busy(repos) : r.path \in Hosted[f]
  BY DEF Listing, Busy, HereIn
<1>2. \A r \in Busy(repos) : New(d, c, f, r) = New(Own(d, f), c, f, r)
  BY <1>1, OwnNew
<1>3. {r \in Busy(repos) : New(d, c, f, r)} = {r \in Busy(repos) : New(Own(d, f), c, f, r)}
  BY <1>2
<1>4. {r \in Busy(repos) : ~New(d, c, f, r)} = {r \in Busy(repos) : ~New(Own(d, f), c, f, r)}
  BY <1>2
<1> HIDE DEF repos
<1>5. Said(d, repos, c, f) = Said(Own(d, f), repos, c, f)
  BY <1>3, <1>4 DEF Said
<1>6. StaleIn(d, s, c, f) = StaleIn(Own(d, f), s, c, f)
  BY OwnStale
<1> QED BY <1>5, <1>6 DEF Told, repos

\* That the call was of a dry run does not matter to it.
LEMMA DryOrNot ==
  ASSUME NEW c \in CallType, NEW d, NEW s, NEW pruning, NEW f
  PROVE  Told(d, s, [c EXCEPT !.dry = FALSE], pruning, f) = Told(d, s, c, pruning, f)
<1> DEFINE e == [c EXCEPT !.dry = FALSE]
<1>1. e.state = c.state /\ e.archive = c.archive /\ e.beside = c.beside
  BY DEF CallType
<1> HIDE DEF e
<1>2. Archived(e, f) = Archived(c, f) /\ \A r : Archives(e, r) = Archives(c, r) /\ Wants(e, r) = Wants(c, r)
  BY <1>1 DEF Archived, Archives, Wants
<1>3. Listing(s, e) = Listing(s, c)
  BY <1>2 DEF Listing
<1>4. \A r : New(d, e, f, r) = New(d, c, f, r)
  BY <1>2 DEF New
<1>5. Said(d, Listing(s, c), e, f) = Said(d, Listing(s, c), c, f)
  BY <1>2, <1>4 DEF Said
<1>6. StaleIn(d, s, e, f) = StaleIn(d, s, c, f)
  BY <1>2 DEF StaleIn
<1> QED BY <1>3, <1>5, <1>6 DEF Told, e

LEMMA AnnouncedIsSaid == Announced = Said(disk, listed, call, at)
  BY DEF Announced, Said, Todo, Busy, Clones, New, WantsArchive, Archives, Dest

\* What the workers do, if none fails, is what the dry run says.
LEMMA DidIsSaid ==
  ASSUME at \in Forges, \A r \in listed : r.path \in Hosted[at]
  PROVE  Did(Todo) = Said(disk, listed, call, at)
<1> DEFINE dirs(r) == {n.at : n \in {c \in Copies(at, r.path, r.status) : c.dir}}
           files(r) == {n.at : n \in {c \in Copies(at, r.path, r.status) : ~c.dir}}
           updated == {r \in Todo : \E n \in disk : n.at \in dirs(r)}
           archived == {r \in Todo : archivePath(ArchiveDir(at), r.path) \in files(r)}
<1>1. ASSUME NEW r \in Todo PROVE /\ dirs(r) = {a \in {mirrorPath(Dest(at), r.path)} : ~Scratch(r.status)}
                                  /\ archivePath(ArchiveDir(at), r.path) \in files(r) <=> WantsArchive(r.status)
  <2> DEFINE mirror == Node(at, r.path, Names[at], "git")
             archive == Node(at, r.path, ArchiveDir(at), "tar.gz")
             asset == Node(at, r.path, Names[at], "metadata")
             copies == Copies(at, r.path, r.status)
  <2>1. r.path \in Hosted[at]
    BY DEF Todo
  <2>2. copies = {n \in {mirror} : ~Scratch(r.status)} \cup {n \in {archive} : WantsArchive(r.status)}
                   \cup {n \in {asset} : call.releases}
    BY <2>1, CopiesAre
  <2>3. mirror.dir = TRUE /\ archive.dir = FALSE /\ asset.dir = FALSE
    BY DEF Node
  <2>4. /\ mirror.at = mirrorPath(Dest(at), r.path) /\ archive.at = archivePath(ArchiveDir(at), r.path)
    BY <2>1, CopyPlaces DEF Node
  <2>5. asset.at # archive.at
    <3>1. IsPrefix(asset.at, archive.at) => FALSE
      <4> SUFFICES ASSUME IsPrefix(asset.at, archive.at) PROVE FALSE
        OBVIOUS
      <4>1. /\ Names[at] \in Roots(at) /\ ArchiveDir(at) \in Roots(at)
            /\ Rest(r.path, "metadata") \in Path /\ Rest(r.path, "tar.gz") \in Path
        BY <2>1, ArchiveDirs, HostedPaths, RestPlaces DEF Roots, Exts
      <4>2. IsPrefix(Rest(r.path, "metadata"), Rest(r.path, "tar.gz"))
        <5>1. IsPrefix(Names[at] \o Rest(r.path, "metadata"), ArchiveDir(at) \o Rest(r.path, "tar.gz"))
          BY DEF Node
        <5> QED BY <4>1, <5>1, RootsApart
      <4>3. /\ Len(Rest(r.path, "metadata")) = Len(r.path) + 4
            /\ Len(Rest(r.path, "tar.gz")) = Len(r.path) /\ Len(r.path) \in Nat
        BY <2>1, HostedPaths, RestPlaces DEF Exts
      <4> QED BY <4>1, <4>2, <4>3, PrefixPlaces
    <3>2. asset.at \in Path
      <4>1. IsCopy(asset, at, r.path)
        BY <2>1 DEF IsCopy, Roots, Exts
      <4> QED BY <2>1, <4>1, CopyPath
    <3> QED BY <3>1, <3>2, IsPrefixSelf
  <2> HIDE DEF mirror, archive, asset, copies
  <2>6. {c \in copies : c.dir} = {n \in {mirror} : ~Scratch(r.status)}
    BY <2>2, <2>3
  <2>7. {c \in copies : ~c.dir} = {n \in {archive} : WantsArchive(r.status)} \cup {n \in {asset} : call.releases}
    BY <2>2, <2>3
  <2>8. dirs(r) = {n.at : n \in {c \in copies : c.dir}} /\ files(r) = {n.at : n \in {c \in copies : ~c.dir}}
    BY DEF copies
  <2> HIDE DEF dirs, files
  <2> QED BY <2>4, <2>5, <2>6, <2>7, <2>8
<1>2. Todo = Busy(listed) /\ \A s : WantsArchive(s) = Archives(call, s)
  BY DEF Todo, Busy, WantsArchive, Archives
<1>3. \A r \in Todo : (\E n \in disk : n.at \in dirs(r)) <=> ~New(disk, call, at, r)
  BY <1>1, <1>2 DEF New, Scratch, Dest
<1> HIDE DEF dirs, files
<1>4. updated = {r \in Busy(listed) : ~New(disk, call, at, r)}
  BY <1>2, <1>3
<1>5. Todo \ updated = {r \in Busy(listed) : New(disk, call, at, r)}
  BY <1>2, <1>3
<1>6. archived = {r \in Busy(listed) : Archives(call, r.status)}
  BY <1>1, <1>2
<1>7. Did(Todo) = [clone |-> PathsOf(Todo \ updated), update |-> PathsOf(updated),
                  skip |-> PathsOf(listed \ Todo), archive |-> PathsOf(archived), prune |-> {}]
  BY DEF Did, dirs, files
<1> HIDE DEF updated, archived
<1> QED BY <1>2, <1>4, <1>5, <1>6, <1>7 DEF Said

LEMMA ToldUnpruned == ASSUME NEW d, NEW s, NEW c, NEW f
                      PROVE  Told(d, s, c, FALSE, f) = Said(d, Listing(s, c), c, f)
<1>1. \A l, m, n, o :
         LET r == [clone |-> l, update |-> m, skip |-> n, archive |-> o, prune |-> {}]
         IN  [r EXCEPT !.prune = {}] = r
  OBVIOUS
<1>2. PICK l, m, n, o : Said(d, Listing(s, c), c, f) =
                          [clone |-> l, update |-> m, skip |-> n, archive |-> o, prune |-> {}]
  BY DEF Said
<1> QED BY <1>1, <1>2 DEF Told

\* A forge's part of the tree is changed by its own turn alone.
LEMMA OthersStay ==
  ASSUME Sound, Reported, [Next]_vars, NEW f \in Forges, (Work \/ Prune) => f # at
  PROVE  Own(disk', f) = Own(disk, f)
<1>1. CASE Work
  <2>1. at \in Forges
    BY <1>1, AtIsForge DEF Sound, Work, AtForge
  <2>2. PICK done \in SUBSET {r \in Todo : r.path \in There} :
           disk' = Put(disk, UNION {Copies(at, r.path, r.status) : r \in done})
    BY <1>1 DEF Work
  <2>3. ASSUME NEW r \in done, NEW n \in Copies(at, r.path, r.status) PROVE n.of.forge = at
    <3>1. r.path \in Hosted[at]
      BY <2>2 DEF There
    <3>2. n.of = [forge |-> at, path |-> r.path]
      BY <2>1, <3>1, CopiesPlaced, CopyPath
    <3> QED BY <3>2
  <2>4. disk \subseteq disk'
    BY <1>1, WorkRemovesNothing
  <2>5. \A n \in disk' : n \in disk \/ n.of.forge = at
    BY <2>2, <2>3 DEF Put
  <2> QED BY <1>1, <2>4, <2>5 DEF Own
<1>2. CASE Prune
  <2>1. disk' \subseteq disk
    BY <1>2 DEF Prune
  <2>2. \A n \in disk : n \notin disk' => n.of.forge = at
    BY <1>2, PruneRemoves
  <2> QED BY <1>2, <2>1, <2>2 DEF Own
<1>3. CASE ~Work /\ ~Prune
  <2>1. disk' = disk
    BY <1>3 DEF Next, vars, world, Change, Save, Crash, Return, Gone, Invoke, Resolve, Answer, Stat, Write,
                Flags, Load, NextForge, Finish, List, Relist, Fail, Preview, PreviewPrune, Scan
  <2> QED BY <2>1
<1> QED BY <1>1, <1>2, <1>3

LEMMA ToldStays ==
  ASSUME Sound, Reported, [Next]_vars, NEW f \in Forges, (Work \/ Prune) => f # at,
         NEW s, DOMAIN s = Hosted[f], NEW c, NEW pruning
  PROVE  Told(disk', s, c, pruning, f) = Told(disk, s, c, pruning, f)
<1>1. Copied(disk) /\ Copied(disk')
  BY PlacedKept DEF Sound, Placed, Copied
<1>2. /\ Told(disk, s, c, pruning, f) = Told(Own(disk, f), s, c, pruning, f)
      /\ Told(disk', s, c, pruning, f) = Told(Own(disk', f), s, c, pruning, f)
  BY <1>1, OwnTold
<1> QED BY <1>2, OthersStay

LEMMA ForgeSays == Sound => \A f \in Forges : DOMAIN forge[f] = Hosted[f]
  BY DEF Sound, Remembered

\* A forge that is quiet is listed as it is.
LEMMA ListingIs ==
  ASSUME Sound, List, at \in quiet
  PROVE  listed' = Listing(forge[at], call) /\ (call.state = "all" => canonical' = HereIn(forge[at]))
<1> DEFINE wanted == {s \in Statuses \ {"gone"} : WantsState(s)}
<1>1. at \in Forges /\ stage = "list"
  BY AtIsForge DEF Sound, List, AtForge
<1>2. /\ listed' \subseteq {r \in Sometimes : WantsState(r.status)}
      /\ <<"list", at>> \in torn \/ Always(wanted) \subseteq PathsOf(listed')
      /\ call.state = "all" => canonical' = PathsOf(listed')
  BY <1>1 DEF List
<1>3. /\ \A m \in seen : m = forge[at]
      /\ <<"list", at>> \notin torn /\ forge[at] \in [Hosted[at] -> Statuses]
  <2>1. <<"list", at>>[2] = at
    OBVIOUS
  <2> QED BY <1>1, <2>1 DEF Sound, Read, Remembered
<1>4. \A s : WantsState(s) = Wants(call, s)
  BY DEF WantsState, Wants
<1>5. ASSUME NEW r \in listed' PROVE r \in Listing(forge[at], call)
  <2>1. r \in Sometimes /\ WantsState(r.status)
    BY <1>2
  <2>2. /\ r.path \in Hosted[at] /\ r.status # "gone" /\ r.status = forge[at][r.path]
    BY <1>3, <2>1, SometimesAre
  <2>3. r = [path |-> r.path, status |-> forge[at][r.path]]
    BY <2>1, <2>2 DEF Sometimes
  <2>4. r.path \in {q \in HereIn(forge[at]) : Wants(call, forge[at][q])}
    BY <1>3, <1>4, <2>1, <2>2 DEF HereIn
  <2> QED BY <2>3, <2>4 DEF Listing
<1>6. ASSUME NEW p \in HereIn(forge[at]), Wants(call, forge[at][p])
      PROVE  [path |-> p, status |-> forge[at][p]] \in listed'
  <2>1. p \in Hosted[at] /\ forge[at][p] \in wanted
    BY <1>3, <1>4, <1>6 DEF HereIn
  <2>2. p \in Always(wanted)
    BY <1>3, <2>1 DEF Always
  <2>3. PICK r \in listed' : r.path = p
    BY <1>2, <1>3, <2>2 DEF PathsOf
  <2>4. r \in Listing(forge[at], call)
    BY <1>5
  <2> QED BY <2>3, <2>4 DEF Listing
<1>7. listed' = Listing(forge[at], call)
  <2>1. Listing(forge[at], call) \subseteq listed'
    BY <1>6 DEF Listing
  <2> QED BY <1>5, <2>1
<1>8. ASSUME call.state = "all" PROVE PathsOf(Listing(forge[at], call)) = HereIn(forge[at])
  <2>1. {q \in HereIn(forge[at]) : Wants(call, forge[at][q])} = HereIn(forge[at])
    BY <1>8 DEF Wants
  <2>2. Listing(forge[at], call) = {[path |-> p, status |-> forge[at][p]] : p \in HereIn(forge[at])}
    BY <2>1, Zenon DEF Listing
  <2>3. ASSUME NEW p \in HereIn(forge[at]) PROVE p \in PathsOf(Listing(forge[at], call))
    <3>1. [path |-> p, status |-> forge[at][p]] \in Listing(forge[at], call)
      BY <2>2
    <3>2. [path |-> p, status |-> forge[at][p]].path = p
      OBVIOUS
    <3> QED BY <3>1, <3>2, Zenon DEF PathsOf
  <2>4. ASSUME NEW p \in PathsOf(Listing(forge[at], call)) PROVE p \in HereIn(forge[at])
    <3>1. PICK r \in Listing(forge[at], call) : p = r.path
      BY Zenon DEF PathsOf
    <3>2. PICK q \in HereIn(forge[at]) : r = [path |-> q, status |-> forge[at][q]]
      BY <2>2
    <3> QED BY <3>1, <3>2
  <2> QED BY <2>3, <2>4
<1> QED BY <1>2, <1>7, <1>8

LEMMA RelistingIs ==
  ASSUME Sound, Relist, at \in quiet
  PROVE  canonical' = HereIn(forge[at])
<1>1. at \in Forges /\ stage = "relist"
  BY AtIsForge DEF Sound, Relist, AtForge
<1>2. /\ canonical' \subseteq PathsOf(Sometimes)
      /\ <<"relist", at>> \in torn \/ Always(Statuses \ {"gone"}) \subseteq canonical'
  BY <1>1 DEF Relist
<1>3. /\ \A m \in seen : m = forge[at]
      /\ <<"relist", at>> \notin torn /\ forge[at] \in [Hosted[at] -> Statuses]
  <2>1. <<"relist", at>>[2] = at
    OBVIOUS
  <2> QED BY <1>1, <2>1 DEF Sound, Read, Remembered
<1>4. PathsOf(Sometimes) \subseteq HereIn(forge[at])
  <2>1. \A r \in Sometimes : r.path \in HereIn(forge[at])
    BY <1>3, SometimesAre DEF HereIn
  <2> QED BY <2>1 DEF PathsOf
<1>5. HereIn(forge[at]) \subseteq Always(Statuses \ {"gone"})
  BY <1>3 DEF HereIn, Always
<1> QED BY <1>2, <1>3, <1>4, <1>5

LEMMA KnownKept == Known /\ Sound /\ [Next]_vars => Known'
<1> SUFFICES ASSUME Known, Sound, [Next]_vars, (at \in quiet)' PROVE Known'
  BY DEF Known
<1> DEFINE known == {"preview", "relist", "scan", "work"}
<1>1. ASSUME NEW f \in Forges, NEW p \in Hosted[f], Change(f, p) PROVE Known'
  <2>1. PICK s \in Statuses : forge' = [forge EXCEPT ![f][p] = s]
    BY <1>1 DEF Change
  <2>2. quiet' = quiet \ {f} /\ UNCHANGED <<disk, stage, at, listed, canonical, stale, lines, call, prune>>
    BY <1>1 DEF Change, front
  <2>3. at \in quiet /\ at # f /\ at \in Forges
    BY <2>2 DEF Sound, Remembered
  <2>4. forge'[at] = forge[at]
    BY <2>1, <2>3 DEF Sound, Remembered
  <2> QED BY <2>2, <2>3, <2>4 DEF Known
<1>2. CASE Save \/ UNCHANGED vars
  <2>1. UNCHANGED <<forge, disk, stage, turn, call, prune, quiet>>
    BY <1>2 DEF Save, vars, world, front, history
  <2> QED BY <2>1 DEF Known, turn
<1>3. CASE List
  <2>1. /\ stage' \in {"next", "preview", "scan", "relist"} /\ UNCHANGED <<forge, call, at, quiet>>
        /\ stage' = "scan" => call.state = "all"
        /\ stage' \in {"scan", "relist"} => ~call.dry
    BY <1>3 DEF List, Goto, world, front, history
  <2>2. listed' = Listing(forge[at], call) /\ (call.state = "all" => canonical' = HereIn(forge[at]))
    BY <1>3, <2>1, ListingIs
  <2> QED BY <2>1, <2>2 DEF Known
<1>4. CASE Relist
  <2>1. /\ stage = "relist" /\ stage' = "scan"
        /\ UNCHANGED <<forge, disk, call, prune, at, listed, lines, quiet>>
    BY <1>4 DEF Relist, Goto, world, front, history
  <2>2. canonical' = HereIn(forge[at])
    BY <1>4, <2>1, RelistingIs
  <2> QED BY <2>1, <2>2 DEF Known
<1>5. CASE Preview
  <2>1. /\ stage = "preview" /\ lines' = Said(disk, listed, call, at)
        /\ UNCHANGED <<forge, disk, call, prune, at, listed, canonical, quiet>>
    BY <1>5, AnnouncedIsSaid DEF Preview, world, front
  <2>2. /\ stage' \in {"next", "scan", "relist"} /\ (stage' # "next" => prune)
        /\ stage' = "scan" => call.state = "all"
    BY <1>5 DEF Preview, Goto
  <2> QED BY <2>1, <2>2 DEF Known
<1>6. CASE Scan
  <2>1. /\ stage = "scan" /\ stage' = "work"
        /\ UNCHANGED <<forge, disk, call, at, listed, canonical, quiet>>
    BY <1>6 DEF Scan, Goto, world, front, history
  <2>2. canonical = HereIn(forge[at])
    BY <2>1 DEF Known
  <2>3. stale' = StaleIn(disk, forge[at], call, at)
    BY <1>6, <2>2 DEF Scan, StaleIn, Dest, ArchiveDir, Archived
  <2> QED BY <2>1, <2>2, <2>3 DEF Known
<1>7. CASE \/ Crash \/ Return \/ Resolve \/ Answer \/ Stat \/ Write \/ Flags \/ Load
           \/ NextForge \/ Finish \/ Fail \/ PreviewPrune \/ Work \/ Prune \/ \E c \in Calls : Invoke(c)
  <2>1. stage' \notin known
    BY <1>7 DEF Crash, Return, Gone, Resolve, Answer, Stat, Write, Flags, Load, NextForge, Finish, Fail,
                PreviewPrune, Work, Prune, Invoke, Goto, Exit
  <2> QED BY <2>1 DEF Known
<1> QED BY <1>1, <1>2, <1>3, <1>4, <1>5, <1>6, <1>7 DEF Next

LEMMA PlannedKept == Planned /\ Known /\ Sound /\ Reported /\ [Next]_vars => Planned'
<1> SUFFICES ASSUME Planned, Known, Sound, Reported, [Next]_vars PROVE Planned'
  OBVIOUS
<1> DEFINE Acting == stage \in {"prune", "ran"}
<1>0. quiet \subseteq Forges /\ forge = [f \in Forges |-> forge[f]] /\ plan = [f \in Forges |-> plan[f]]
  BY DEF Sound, Remembered, Turned
<1>1. ASSUME UNCHANGED <<forge, disk, plan>>, quiet' \subseteq quiet,
             \A f \in quiet' : f = at /\ Acting => f = at' /\ Acting'
      PROVE  Planned'
  BY <1>1 DEF Planned
<1>2. ASSUME NEW f \in Forges, NEW p \in Hosted[f], Change(f, p) PROVE Planned'
  <2>1. PICK s \in Statuses : forge' = [forge EXCEPT ![f][p] = s]
    BY <1>2 DEF Change
  <2>2. quiet' = quiet \ {f} /\ UNCHANGED <<disk, stage, at, plan>>
    BY <1>2 DEF Change
  <2>3. \A g \in quiet' : g \in quiet /\ forge'[g] = forge[g]
    BY <1>0, <2>1, <2>2
  <2> QED BY <2>2, <2>3 DEF Planned
<1>3. CASE Crash
  <2>1. /\ plan' = [f \in Forges |-> IF f = at THEN NoPlan ELSE plan[f]]
        /\ quiet' = quiet \ {at} /\ UNCHANGED <<forge, disk>>
    BY <1>3 DEF Crash, Gone, world
  <2> QED BY <2>1 DEF Planned
<1>4. CASE Return
  <2>1. stage = "exit" /\ UNCHANGED <<forge, disk, plan, quiet>>
    BY <1>4 DEF Return, Gone, world
  <2> QED BY <1>1, <2>1
<1>5. CASE NextForge \/ Finish
  <2>1. UNCHANGED <<forge, disk>> /\ Between
    BY <1>5 DEF NextForge, Finish, world
  <2>2. CASE stage = "ran"
    <3>1. at \in Forges /\ plan' = [plan EXCEPT ![at] = NoPlan] /\ quiet' = quiet \ {at}
      <4>1. at \in Forges
        BY <2>2, AtIsForge DEF Sound, AtForge
      <4>2. CASE NextForge
        BY <2>2, <4>1, <4>2 DEF NextForge, Spend
      <4>3. CASE Finish
        BY <2>2, <4>1, <4>3 DEF Finish, Spend
      <4> QED BY <1>5, <4>2, <4>3
    <3>2. \A f \in Forges : f # at => plan'[f] = plan[f]
      BY <1>0, <3>1
    <3>3. \A f \in quiet' : f \in quiet /\ f # at
      BY <3>1
    <3> QED BY <2>1, <3>2, <3>3 DEF Planned
  <2>3. CASE stage # "ran" /\ UNCHANGED <<plan, quiet>>
    <3>1. stage = "next"
      BY <2>1, <2>3 DEF Between
    <3> QED BY <1>1, <2>1, <2>3, <3>1
  <2>4. CASE NextForge /\ stage # "ran" /\ plan' = [plan EXCEPT ![at'] = NoPlan] /\ quiet' = quiet \cup {at'}
    <3>1. at' \in Forges /\ stage = "next"
      BY <2>1, <2>4, NextIsForge DEF Sound, Between
    <3>2. plan'[at'].call = NoCall /\ \A f \in Forges : f # at' => plan'[f] = plan[f]
      BY <1>0, <2>4, <3>1 DEF NoPlan
    <3> QED BY <2>1, <2>4, <3>1, <3>2 DEF Planned
  <2> QED BY <1>5, <2>2, <2>3, <2>4 DEF NextForge, Finish
<1>6. CASE List
  <2>1. stage = "list" /\ UNCHANGED <<forge, disk, plan, quiet>>
    BY <1>6 DEF List, world, history
  <2> QED BY <1>1, <2>1
<1>7. CASE Preview \/ PreviewPrune
  <2>1. /\ stage \in {"preview", "scan"} /\ at \in Forges
        /\ UNCHANGED <<forge, disk, at, quiet, call, prune>>
    BY <1>7, AtIsForge DEF Sound, Preview, PreviewPrune, AtForge, world, front
  <2>2. CASE plan' = plan
    BY <1>1, <2>1, <2>2
  <2>3. CASE plan' # plan /\ at \in quiet
    <3>1. /\ plan' = [plan EXCEPT ![at] = [call |-> [call EXCEPT !.dry = FALSE],
                                          prune |-> prune, lines |-> lines']]
      BY <1>7, <2>3 DEF Preview, PreviewPrune, Foretell
    <3>2. lines' = Told(disk, forge[at], call, prune, at)
      <4>1. CASE Preview
        <5>1. lines' = Said(disk, listed, call, at) /\ stage = "preview"
          BY <4>1, AnnouncedIsSaid DEF Preview
        <5>2. prune = FALSE
          BY <2>3, <4>1 DEF Preview, Sound, Control
        <5>3. listed = Listing(forge[at], call)
          BY <2>3, <5>1 DEF Known
        <5> QED BY <5>1, <5>2, <5>3, ToldUnpruned
      <4>2. CASE PreviewPrune
        <5>1. /\ stage = "scan" /\ call.dry
              /\ lines' = [lines EXCEPT !.prune = staleMirrors(disk, Dest(at), ArchiveDir(at), canonical)]
          BY <4>2 DEF PreviewPrune
        <5>2. /\ listed = Listing(forge[at], call) /\ canonical = HereIn(forge[at])
              /\ prune /\ lines = Said(disk, listed, call, at)
          BY <2>3, <5>1 DEF Known
        <5>3. staleMirrors(disk, Dest(at), ArchiveDir(at), canonical) = StaleIn(disk, forge[at], call, at)
          BY <5>2 DEF StaleIn, Dest, ArchiveDir, Archived
        <5> QED BY <5>1, <5>2, <5>3 DEF Told
      <4> QED BY <1>7, <4>1, <4>2
    <3>3. call \in CallType
      BY <2>1, CallsAre DEF Sound, Control
    <3>4. plan'[at].lines = Told(disk, forge[at], plan'[at].call, plan'[at].prune, at)
      <4>1. plan'[at] = [call |-> [call EXCEPT !.dry = FALSE], prune |-> prune, lines |-> lines']
        BY <1>0, <2>1, <3>1
      <4> QED BY <3>2, <3>3, <4>1, DryOrNot
    <3>5. \A f \in Forges : f # at => plan'[f] = plan[f]
      BY <1>0, <2>1, <3>1
    <3> QED BY <2>1, <3>4, <3>5 DEF Planned
  <2>4. CASE at \notin quiet
    <3>1. \A f \in Forges : f # at => plan'[f] = plan[f]
      BY <1>0, <1>7, <2>1 DEF Preview, PreviewPrune, Foretell
    <3> QED BY <2>1, <2>4, <3>1 DEF Planned
  <2> QED BY <2>2, <2>3, <2>4
<1>8. CASE Work \/ Prune
  <2>1. stage' \in {"prune", "ran"} /\ UNCHANGED <<forge, at, plan, quiet>>
    BY <1>8 DEF Work, Prune, Goto, history
  <2>2. ASSUME NEW f \in quiet, f # at
        PROVE  Told(disk', forge[f], plan[f].call, plan[f].prune, f) =
                 Told(disk, forge[f], plan[f].call, plan[f].prune, f)
    BY <1>0, <2>2, ToldStays, ForgeSays
  <2> QED BY <2>1, <2>2 DEF Planned
<1>9. CASE Save \/ UNCHANGED vars
  <2>1. UNCHANGED <<forge, disk, plan, quiet, at, stage>>
    BY <1>9 DEF Save, vars, world, turn, history
  <2> QED BY <1>1, <2>1
<1>10. CASE \/ Resolve \/ Answer \/ Stat \/ Write \/ Flags \/ Load \/ Relist \/ Fail \/ Scan
            \/ \E c \in Calls : Invoke(c)
  <2>1. UNCHANGED <<forge, disk, plan, quiet>> /\ ~Acting
    BY <1>10 DEF Resolve, Answer, Stat, Write, Flags, Load, Relist, Fail, Scan, Invoke, world, history
  <2> QED BY <1>1, <2>1
<1> QED BY <1>2, <1>3, <1>4, <1>5, <1>6, <1>7, <1>8, <1>9, <1>10 DEF Next

LEMMA FulfilledKept == Planned /\ Known /\ Fulfilled /\ Sound /\ [Next]_vars => Fulfilled'
<1> SUFFICES ASSUME Planned, Known, Fulfilled, Sound, [Next]_vars PROVE Fulfilled'
  OBVIOUS
<1>1. CASE UNCHANGED <<stage, at, stale, lines, call, prune, clean, plan>> /\ quiet' \subseteq quiet
  BY <1>1 DEF Fulfilled
<1>2. CASE Work
  <2> SUFFICES ASSUME at \in quiet, clean', plan[at].call = call, plan[at].prune = prune
               PROVE  [lines' EXCEPT !.prune = IF prune THEN stale ELSE {}] = plan[at].lines
    BY <1>2 DEF Work, Goto, Fulfilled, history
  <2>1. at \in Forges /\ stage = "work"
    BY <1>2, AtIsForge DEF Sound, Work, AtForge
  <2>2. lines' = Did(Todo)
    BY <1>2 DEF Work
  <2>3. /\ listed = Listing(forge[at], call) /\ stale = StaleIn(disk, forge[at], call, at)
    BY <2>1 DEF Known
  <2>4. \A r \in listed : r.path \in Hosted[at]
    BY <2>1, <2>3, ForgeSays DEF Listing, HereIn
  <2>5. lines' = Said(disk, listed, call, at)
    BY <2>1, <2>2, <2>4, DidIsSaid
  <2>6. plan[at].call # NoCall
    BY <2>1 DEF Sound, Control
  <2>7. plan[at].lines = Told(disk, forge[at], call, prune, at)
    BY <2>1, <2>6 DEF Planned
  <2> QED BY <2>3, <2>5, <2>7 DEF Told
<1>3. CASE Prune
  <2> SUFFICES ASSUME at \in quiet, clean', plan[at].call = call, plan[at].prune = prune
               PROVE  lines' = plan[at].lines
    BY <1>3 DEF Prune, Goto, Fulfilled, history
  <2> DEFINE all == IF prune THEN stale ELSE {}
  <2>1. PICK gone \in SUBSET all : \E unarchived \in SUBSET gone :
           lines' = [lines EXCEPT !.prune = gone] /\ clean' = (clean /\ unarchived = all)
    BY <1>3 DEF Prune
  <2>2. gone = all /\ clean
    BY <2>1
  <2>3. [lines EXCEPT !.prune = all] = plan[at].lines
    BY <1>3, <2>2 DEF Prune, Fulfilled
  <2> QED BY <2>1, <2>2, <2>3
<1>4. CASE \/ Crash \/ Return \/ Resolve \/ Answer \/ Stat \/ Write \/ Flags \/ Load \/ List \/ Relist
           \/ NextForge \/ Finish \/ Fail \/ Preview \/ PreviewPrune \/ Scan \/ \E c \in Calls : Invoke(c)
  <2>1. stage' \notin {"prune", "ran"}
    BY <1>4 DEF Crash, Return, Gone, Resolve, Answer, Stat, Write, Flags, Load, NextForge, Finish, Fail,
                List, Relist, Preview, PreviewPrune, Scan, Invoke, Goto, Exit
  <2> QED BY <2>1 DEF Fulfilled
<1>5. CASE Save \/ UNCHANGED vars \/ \E f \in Forges : \E p \in Hosted[f] : Change(f, p)
  <2>1. UNCHANGED <<stage, at, stale, lines, call, prune, clean, plan>> /\ quiet' \subseteq quiet
    BY <1>5 DEF Save, Change, vars, front, turn, history
  <2> QED BY <1>1, <2>1
<1> QED BY <1>2, <1>3, <1>4, <1>5 DEF Next

\* What a dry run says of a forge is what a run with the same options does to it, if nothing
\* fails and neither the forge nor its part of the tree changes in between, whatever else
\* the tree holds and whatever happens to the other forges.
THEOREM DryRunTells == Spec => []DryRunForetells
<1>1. Init => Foretold
  BY DEF Init, Foretold, Planned, Known, Fulfilled
<1>2. Foretold /\ Sound /\ Reported /\ [Next]_vars => Foretold'
  BY PlannedKept, KnownKept, FulfilledKept DEF Foretold
<1>3. Foretold => DryRunForetells
  BY DEF Foretold, Fulfilled, DryRunForetells
<1> QED BY <1>1, <1>2, <1>3, SoundAlways, ReportedAlways, PTL DEF Spec
=============================================================================
