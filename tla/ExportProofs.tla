----------------------------- MODULE ExportProofs -----------------------------
(* Theorems about Export for any items, parts, page size and number of changes. *)
EXTENDS Export, ListLemmas

LEMMA Bounds == /\ IsFiniteSet(Items) /\ IsFiniteSet(Parts) /\ PageSize \in Nat \ {0}
                /\ MaxVer \in Nat /\ MaxEvents \in Nat
  BY ExportAssumption

-----------------------------------------------------------------------------
(* Pages. *)

\* A page has what lies on it, and what lies behind it makes it no last page.
LEMMA PagePlaces ==
  ASSUME NEW S, NEW s \in Seq(S), NEW n \in Nat \ {0}
  PROVE  /\ PageOf(s, n) \in Seq(S)
         /\ \A k \in 1..Len(s) : k > (n - 1) * PageSize =>
              \/ \E j \in 1..Len(PageOf(s, n)) : PageOf(s, n)[j] = s[k]
              \/ k > n * PageSize /\ ~LastPage(s, n)
<1> DEFINE a == (n - 1) * PageSize
           b == n * PageSize
           l == Len(s)
           e == Smaller(b, l)
           w == SubSeq(s, a + 1, e)
<1>1. /\ a \in Nat /\ b \in Nat /\ b = a + PageSize /\ l \in Nat /\ PageSize \in Nat \ {0}
      /\ \A k \in 1..l : s[k] \in S
  <2>1. n - 1 \in Nat /\ PageSize \in Nat
    BY Bounds
  <2>2. \A q \in Nat, z \in Nat : q * z \in Nat /\ (q + 1) * z = q * z + z
    OBVIOUS
  <2>3. (n - 1) + 1 = n
    OBVIOUS
  <2>4. a \in Nat /\ b = a + PageSize
    BY <2>1, <2>2, <2>3
  <2> QED BY <2>1, <2>4, Bounds, ElementOfSeq
<1> HIDE DEF a, b, l
<1>2. /\ e \in Nat /\ e <= l /\ e <= b /\ (l > b => e = b) /\ (l <= b => e = l)
  BY <1>1 DEF Smaller
<1> HIDE DEF e
<1>3. /\ w \in Seq(S) /\ Len(w) = IF a + 1 <= e THEN e - (a + 1) + 1 ELSE 0
      /\ \A j \in 1..e - (a + 1) + 1 : w[j] = s[a + 1 + j - 1]
  <2>1. a + 1 \in Int /\ e \in Int /\ \A k \in a + 1..e : s[k] \in S
    BY <1>1, <1>2
  <2> QED BY <2>1, SubSeqProperties
<1> HIDE DEF w
<1>4. PageOf(s, n) = w
  BY DEF PageOf, w, a, b, l, e
<1>5. ASSUME NEW k \in 1..l, k > a, k <= b PROVE \E j \in 1..Len(w) : w[j] = s[k]
  <2>1. k <= e /\ k - a \in 1..Len(w) /\ k - a \in 1..e - (a + 1) + 1 /\ a + 1 + (k - a) - 1 = k
    BY <1>1, <1>2, <1>3, <1>5
  <2> QED BY <1>3, <2>1
<1>6. ASSUME NEW k \in 1..l, k > b PROVE ~LastPage(s, n)
  <2>1. ~(l <= b) /\ Len(w) = PageSize
    BY <1>1, <1>2, <1>3, <1>6
  <2> QED BY <1>4, <2>1, Bounds DEF LastPage, l, b
<1>7. ASSUME NEW k \in 1..l, k > a
      PROVE  (\E j \in 1..Len(w) : w[j] = s[k]) \/ (k > b /\ ~LastPage(s, n))
  <2>1. k <= b \/ k > b
    BY <1>1
  <2> QED BY <1>5, <1>6, <1>7, <2>1
<1> QED BY <1>3, <1>4, <1>7 DEF a, b, l

-----------------------------------------------------------------------------
(* The invariant.                                                              *)

Entry == [item : Items, ver : 0..MaxVer, parts : Seq(Parts)]

\* TypeOK, and the sequences, which it speaks of by their elements.
ServerOK == /\ forge \in Forges /\ kind \in Kinds /\ place \in Places
            /\ list \in Seq(Items) /\ ver \in [Items -> 0..MaxVer] /\ parts \in [Items -> Seq(Parts)]
            /\ budget \in 0..MaxEvents
DiskOK == /\ files \in [Items -> File] /\ assets \in [Items -> [Parts -> {"none", "part", "whole"}]]
          /\ \A d \in Items : \A i \in files[d].of : place[i] = d /\ files[d].ver <= ver[i]
LoopOK == /\ pc \in Active \cup {"idle", "ok", "failed"} /\ queue \in Seq(Entry)
          /\ pc \in {"parts", "write"} => queue # <<>>
          /\ page \in Nat \ {0} /\ sub \in Nat \ {0} /\ more \in BOOLEAN /\ got \subseteq Parts
          /\ pc = "parts" /\ kind = "releases" =>
               sub <= Len(It.parts) + 1 /\ got = {It.parts[n] : n \in 1..sub - 1}
HistoryOK == /\ there \subseteq There
             /\ steady \in [Items -> SUBSET Parts] /\ base \in [Items -> 0..MaxVer]
             /\ shrunk \in BOOLEAN /\ short \subseteq Items /\ barred \in BOOLEAN
Typed == ServerOK /\ DiskOK /\ LoopOK /\ HistoryOK

\* What is remembered of the beginning is still true of the forge, and what a page said of
\* an item is not older, and leaves out nothing the item had all the time.
Older == \A i \in Items : base[i] <= ver[i]
Held == \A i \in there : steady[i] \subseteq ToSet(parts[i])
Told(q) == /\ base[q.item] <= q.ver /\ q.ver <= ver[q.item]
           /\ q.item \in there => steady[q.item] \subseteq ToSet(q.parts)
Remembered == Older /\ Held /\ \A n \in 1..Len(queue) : Told(queue[n])

\* x is in s, behind its first n pages
Beyond(s, x, n) == \E k \in 1..Len(s) : s[k] = x /\ k > n * PageSize

Due(i) == {p \in steady[i] : Keeps(p)}

\* What has been got of the item it is at: a comment that is due is there or on a page yet to
\* come, and an asset is on the disk.
Gathered ==
  /\ pc = "parts" /\ kind # "releases" /\ ~barred /\ It.item \in there \ short =>
       \A p \in Due(It.item) : p \in got \/ Beyond(parts[It.item], p, sub - 1)
  /\ pc = "write" /\ ~barred /\ It.item \in there \ short => Due(It.item) \subseteq got
  /\ pc \in {"parts", "write"} /\ kind = "releases" =>
       \A p \in got : assets[place[It.item]][p] = "whole"

\* What an export leaves of an item, and where one is that it has not come to.
Settled(i) == LET file == files[place[i]]
              IN  /\ file.state = "whole" /\ (Alone(i) => file.of = {i})
                  /\ i \in file.of => file.ver >= base[i] /\ Due(i) \subseteq file.parts
                  /\ kind = "releases" => \A p \in file.parts : assets[place[i]][p] = "whole"
Queued(i) == \E n \in 1..Len(queue) : queue[n].item = i

Reached(i) == /\ pc = "page" => Settled(i) \/ Beyond(list, i, page - 1)
              /\ pc \in {"item", "parts", "write"} =>
                   Settled(i) \/ Queued(i) \/ (more /\ Beyond(list, i, page))
              /\ pc = "ok" => Settled(i)

Wanted(i) == ~shrunk /\ ~barred /\ i \in there \ short /\ ~Skips(i)
Covered == \A i \in Items : Wanted(i) => Reached(i)

-----------------------------------------------------------------------------
(* Types.                                                                      *)

LEMMA TypedIsTypeOK == Typed => TypeOK
<1> SUFFICES ASSUME Typed PROVE TypeOK
  OBVIOUS
<1>1. There \subseteq Items
  BY DEF Typed, ServerOK, There, ToSet
<1>2. ASSUME NEW i \in Items PROVE ToSet(parts[i]) \subseteq Parts
  <2>1. parts[i] \in Seq(Parts)
    BY DEF Typed, ServerOK
  <2> QED BY <2>1 DEF ToSet
<1> QED BY <1>1, <1>2 DEF Typed, ServerOK, DiskOK, LoopOK, HistoryOK, TypeOK

LEMMA Placed == ASSUME Typed, NEW i \in Items PROVE place[i] \in Items
  BY DEF Typed, ServerOK, Places

\* The item it is at.
LEMMA ItIs ==
  ASSUME Typed, queue # <<>>
  PROVE  /\ Len(queue) \in Nat \ {0} /\ It = queue[1] /\ It \in Entry
         /\ Tail(queue) \in Seq(Entry) /\ Len(Tail(queue)) = Len(queue) - 1
         /\ \A n \in 1..Len(queue) - 1 : Tail(queue)[n] = queue[n + 1]
<1>1. queue \in Seq(Entry)
  BY DEF Typed, LoopOK
<1>2. Len(queue) \in Nat \ {0}
  BY <1>1, EmptySeq
<1>3. It = queue[1] /\ It \in Entry
  BY <1>1, <1>2, ElementOfSeq DEF It
<1>4. Tail(queue) \in Seq(Entry) /\ Len(Tail(queue)) = Len(queue) - 1
  BY <1>1, <1>2, HeadTailProperties
<1>5. \A n \in 1..Len(queue) - 1 : Tail(queue)[n] = queue[n + 1]
  BY <1>1, <1>2, HeadTailProperties
<1> QED BY <1>2, <1>3, <1>4, <1>5

LEMMA EntryFields == ASSUME NEW q \in Entry
                     PROVE  q.item \in Items /\ q.ver \in 0..MaxVer /\ q.parts \in Seq(Parts)
  BY DEF Entry

LEMMA FileTypes == /\ NoFile \in File /\ Truncated \in File /\ NoFile.of = {} /\ Truncated.of = {}
                   /\ Truncated.state = "part"
                   /\ \A i \in Items, v \in 0..MaxVer, P \in SUBSET Parts : Whole(i, v, P) \in File
  BY Bounds DEF NoFile, Truncated, Whole, File

LEMMA InitTyped == Init => Typed
<1> SUFFICES ASSUME Init PROVE Typed
  OBVIOUS
<1>1. list \in Seq(Items)
  <2>1. PICK S \in SUBSET Lists : list \in SetToSeqs(S)
    BY DEF Init
  <2>2. S \in SUBSET Items
    BY <2>1 DEF Lists
  <2>3. IsFiniteSet(S)
    BY <2>2, Bounds, FS_Subset
  <2>4. list \in Seq(S)
    BY <2>1, <2>3, Enumerated
  <2> QED BY <2>2, <2>4
<1>2. parts \in [Items -> Seq(Parts)]
  <2>1. ASSUME NEW P \in SUBSET Parts, NEW o \in SetToSeqs(P) PROVE o \in Seq(Parts)
    <3>1. IsFiniteSet(P)
      BY Bounds, FS_Subset
    <3>2. o \in Seq(P)
      BY <2>1, <3>1, Enumerated
    <3> QED BY <3>2
  <2>2. parts \in [Items -> UNION {SetToSeqs(P) : P \in SUBSET Parts}]
    BY DEF Init
  <2> QED BY <2>1, <2>2
<1>3. ServerOK
  BY <1>1, <1>2, Bounds DEF Init, ServerOK
<1>4. DiskOK
  BY FileTypes DEF Init, DiskOK
<1>5. LoopOK
  <2>1. /\ pc = "idle" /\ page = 1 /\ queue = <<>> /\ more = FALSE /\ sub = 1 /\ got = {}
        /\ queue \in Seq(Entry)
    BY DEF Init
  <2>2. pc # "parts" /\ pc # "write" /\ pc \in Active \cup {"idle", "ok", "failed"}
    BY <2>1
  <2>3. page \in Nat \ {0} /\ sub \in Nat \ {0} /\ got \subseteq Parts
    BY <2>1
  <2>4. more \in BOOLEAN
    BY <2>1, Zenon
  <2> QED BY <2>1, <2>2, <2>3, <2>4, Zenon DEF LoopOK
<1>6. HistoryOK
  <2>1. /\ there = {} /\ steady = [i \in Items |-> {}] /\ base = [i \in Items |-> 0]
        /\ shrunk = FALSE /\ short = {} /\ barred = FALSE
    BY DEF Init
  <2>2. /\ there \subseteq There /\ short \subseteq Items
        /\ steady \in [Items -> SUBSET Parts] /\ base \in [Items -> 0..MaxVer]
    BY <2>1, Bounds
  <2>3. shrunk \in BOOLEAN /\ barred \in BOOLEAN
    BY <2>1, Zenon
  <2> QED BY <2>2, <2>3, Zenon DEF HistoryOK
<1> QED BY <1>3, <1>4, <1>5, <1>6 DEF Typed

LEMMA Elements == ASSUME NEW S, NEW s \in Seq(S), NEW x
                  PROVE  x \in ToSet(s) <=> \E k \in 1..Len(s) : s[k] = x
  BY DEF ToSet

\* What a new item, a deleted one and a removed part leave of the sequence they are in.
LEMMA InsertHas ==
  ASSUME NEW S, NEW o \in Seq(S), NEW p \in S, NEW i \in 1..Len(o) + 1
  PROVE  InsertAt(o, i, p) \in Seq(S) /\ ToSet(o) \subseteq ToSet(InsertAt(o, i, p))
<1>1. /\ InsertAt(o, i, p) \in Seq(S)
      /\ \A k \in 1..Len(o) : \E j \in 1..Len(InsertAt(o, i, p)) : InsertAt(o, i, p)[j] = o[k]
  BY InsertKeeps
<1> QED BY <1>1, Elements

LEMMA RemoveHas ==
  ASSUME NEW S, NEW o \in Seq(S), NEW i \in 1..Len(o)
  PROVE  RemoveAt(o, i) \in Seq(S) /\ ToSet(o) \ {o[i]} \subseteq ToSet(RemoveAt(o, i))
<1>1. /\ RemoveAt(o, i) \in Seq(S)
      /\ \A k \in 1..Len(o) : k # i => \E j \in 1..Len(RemoveAt(o, i)) : RemoveAt(o, i)[j] = o[k]
  BY RemoveKeeps
<1> QED BY <1>1, Elements

LEMMA AppendHas ==
  ASSUME NEW S, NEW o \in Seq(S), NEW p \in S
  PROVE  /\ Append(o, p) \in Seq(S) /\ Len(Append(o, p)) = Len(o) + 1
         /\ \A k \in 1..Len(o) : k \in 1..Len(Append(o, p)) /\ Append(o, p)[k] = o[k]
         /\ ToSet(o) \subseteq ToSet(Append(o, p))
<1> DEFINE w == Append(o, p)
<1>1. /\ w \in Seq(S) /\ Len(w) = Len(o) + 1
      /\ \A k \in 1..Len(o) : k \in 1..Len(w) /\ w[k] = o[k]
  OBVIOUS
<1> HIDE DEF w
<1>2. ASSUME NEW x, x \in ToSet(o) PROVE x \in ToSet(w)
  <2>1. PICK k \in 1..Len(o) : o[k] = x
    BY <1>2, Elements
  <2>2. k \in 1..Len(w) /\ w[k] = x
    BY <1>1, <2>1
  <2> QED BY <1>1, <2>2, Elements
<1> QED BY <1>1, <1>2 DEF w

LEMMA LeaveTyped ==
  ASSUME Leave, pc' \in {"page", "idle", "ok", "failed"} PROVE LoopOK'
<1>1. /\ page' = 1 /\ queue' = <<>> /\ more' = FALSE /\ sub' = 1 /\ got' = {} /\ queue' \in Seq(Entry)
  BY DEF Leave
<1>2. /\ pc' # "parts" /\ pc' # "write" /\ pc' \in Active \cup {"idle", "ok", "failed"}
      /\ page' \in Nat \ {0} /\ sub' \in Nat \ {0} /\ got' \subseteq Parts
  BY <1>1 DEF Active
<1>3. more' \in BOOLEAN
  BY <1>1, Zenon
<1> QED BY <1>1, <1>2, <1>3, Zenon DEF LoopOK

LEMMA ForgetTyped == Forget => HistoryOK'
<1> SUFFICES ASSUME Forget PROVE HistoryOK'
  OBVIOUS
<1>1. /\ there' = {} /\ steady' = [i \in Items |-> {}] /\ base' = [i \in Items |-> 0]
      /\ shrunk' = FALSE /\ short' = {} /\ barred' = FALSE
  BY DEF Forget
<1>2. /\ there' \subseteq There' /\ short' \subseteq Items
      /\ steady' \in [Items -> SUBSET Parts] /\ base' \in [Items -> 0..MaxVer]
  BY <1>1, Bounds
<1>3. shrunk' \in BOOLEAN /\ barred' \in BOOLEAN
  BY <1>1, Zenon
<1> QED BY <1>2, <1>3, Zenon DEF HistoryOK

\* What a change of the forge leaves alone.
LEMMA EventFrame ==
  ASSUME Typed, UNCHANGED <<forge, kind, place, disk, pc, loop, sub, got>>,
         \A i \in Items : ver[i] <= ver'[i], ver' \in [Items -> 0..MaxVer]
  PROVE  DiskOK' /\ LoopOK'
<1>1. LoopOK'
  BY DEF Typed, LoopOK, loop, It
<1>2. files' = files /\ assets' = assets /\ place' = place
  BY DEF disk
<1>3. ASSUME NEW d \in Items, NEW i \in files[d].of PROVE place[i] = d /\ files[d].ver <= ver'[i]
  <2>1. files[d] \in File /\ i \in Items
    BY DEF Typed, DiskOK, File
  <2>2. place[i] = d /\ files[d].ver <= ver[i] /\ ver[i] <= ver'[i]
    BY <2>1 DEF Typed, DiskOK
  <2>3. files[d].ver \in Nat /\ ver[i] \in Nat /\ ver'[i] \in Nat
    BY <2>1, Bounds DEF Typed, ServerOK, File
  <2> QED BY <2>2, <2>3
<1> QED BY <1>1, <1>2, <1>3 DEF Typed, DiskOK

LEMMA EventBudget == Typed /\ Event => budget' \in 0..MaxEvents
  BY Bounds DEF Typed, ServerOK, Event

LEMMA VersionsTyped == Typed => ver \in [Items -> 0..MaxVer] /\ \A i \in Items : ver[i] \in Nat /\ ver[i] <= ver[i]
  BY Bounds DEF Typed, ServerOK

LEMMA CreateTyped == ASSUME Typed, NEW i \in Items, Create(i) PROVE Typed'
<1>1. DiskOK' /\ LoopOK'
  BY VersionsTyped, EventFrame DEF Create
<1>2. PICK n \in 1..Len(list) + 1 : list' = InsertAt(list, n, i)
  BY DEF Create
<1>3. list' \in Seq(Items) /\ There \subseteq There'
  BY <1>2, InsertHas DEF Typed, ServerOK, There
<1>4. ServerOK'
  BY <1>3, EventBudget DEF Typed, ServerOK, Create, Places
<1>5. HistoryOK'
  BY <1>3 DEF Typed, HistoryOK, Create, history
<1> QED BY <1>1, <1>4, <1>5 DEF Typed

LEMMA EditTyped == ASSUME Typed, NEW i \in Items, Edit(i) PROVE Typed'
<1>1. ver' = [ver EXCEPT ![i] = ver[i] + 1] /\ ver[i] < MaxVer
  BY DEF Edit
<1>2. ver' \in [Items -> 0..MaxVer] /\ \A j \in Items : ver[j] <= ver'[j]
  BY <1>1, Bounds, VersionsTyped
<1>3. DiskOK' /\ LoopOK'
  BY <1>2, EventFrame DEF Edit
<1>4. ServerOK'
  BY <1>2, EventBudget DEF Typed, ServerOK, Edit, Places
<1>5. HistoryOK'
  BY DEF Typed, HistoryOK, Edit, history, There
<1> QED BY <1>3, <1>4, <1>5 DEF Typed

LEMMA DeleteTyped == ASSUME Typed, NEW i \in Items, Delete(i) PROVE Typed'
<1>1. DiskOK' /\ LoopOK'
  BY VersionsTyped, EventFrame DEF Delete
<1>2. PICK n \in 1..Len(list) : list[n] = i /\ list' = RemoveAt(list, n)
  BY DEF Delete, Typed, ServerOK
<1>3. list' \in Seq(Items) /\ There \ {i} \subseteq There'
  BY <1>2, RemoveHas DEF Typed, ServerOK, There
<1>4. parts' \in [Items -> Seq(Parts)]
  BY DEF Typed, ServerOK, Delete
<1>5. ServerOK'
  BY <1>3, <1>4, EventBudget DEF Typed, ServerOK, Delete, Places
<1>6. shrunk' \in BOOLEAN
  <2>1. shrunk' = (shrunk \/ pc \in Active)
    BY DEF Delete
  <2> QED BY <2>1
<1>7. HistoryOK'
  BY <1>3, <1>6 DEF Typed, HistoryOK, Delete
<1> QED BY <1>1, <1>5, <1>7 DEF Typed

LEMMA AddTyped == ASSUME Typed, NEW i \in Items, NEW p \in Parts, AddPart(i, p) PROVE Typed'
<1>1. DiskOK' /\ LoopOK'
  BY VersionsTyped, EventFrame DEF AddPart
<1>2. parts' \in [Items -> Seq(Parts)]
  BY DEF Typed, ServerOK, AddPart
<1>3. ServerOK'
  BY <1>2, EventBudget DEF Typed, ServerOK, AddPart, Places
<1>4. HistoryOK'
  BY DEF Typed, HistoryOK, AddPart, history, There
<1> QED BY <1>1, <1>3, <1>4 DEF Typed

LEMMA RemoveTyped == ASSUME Typed, NEW i \in Items, NEW p \in Parts, RemovePart(i, p) PROVE Typed'
<1>1. DiskOK' /\ LoopOK'
  BY VersionsTyped, EventFrame DEF RemovePart
<1>2. PICK n \in DOMAIN parts[i] : parts[i][n] = p /\ parts' = [parts EXCEPT ![i] = RemoveAt(parts[i], n)]
  BY DEF RemovePart
<1>3. RemoveAt(parts[i], n) \in Seq(Parts)
  <2>1. parts[i] \in Seq(Parts)
    BY DEF Typed, ServerOK
  <2>2. n \in 1..Len(parts[i])
    BY <1>2, <2>1
  <2> QED BY <2>1, <2>2, RemoveHas
<1>4. parts' \in [Items -> Seq(Parts)]
  BY <1>2, <1>3 DEF Typed, ServerOK
<1>5. ServerOK'
  BY <1>4, EventBudget DEF Typed, ServerOK, RemovePart, Places
<1>6. steady' \in [Items -> SUBSET Parts] /\ short' \subseteq Items
  BY DEF RemovePart, Typed, HistoryOK
<1>7. HistoryOK'
  BY <1>6 DEF Typed, HistoryOK, RemovePart, There
<1> QED BY <1>1, <1>5, <1>7 DEF Typed

\* What an export's steps leave alone.
LEMMA ServerFrame == Typed /\ UNCHANGED server => ServerOK'
  BY DEF Typed, ServerOK, server, Places

LEMMA DiskFrame == Typed /\ UNCHANGED disk /\ place' = place /\ ver' = ver => DiskOK'
  BY DEF Typed, DiskOK, disk

LEMMA HistoryFrame == Typed /\ list' = list /\ UNCHANGED history => HistoryOK'
  BY DEF Typed, HistoryOK, history, There

LEMMA BeginTyped == ASSUME Typed, Begin PROVE Typed'
<1>1. ServerOK' /\ DiskOK'
  BY ServerFrame, DiskFrame DEF Begin, server
<1>2. LoopOK'
  BY LeaveTyped DEF Begin
<1>3. \A i \in Items : ToSet(parts[i]) \subseteq Parts
  BY TypedIsTypeOK DEF TypeOK
<1>4. steady' \in [Items -> SUBSET Parts]
  BY <1>3 DEF Begin
<1>5. base' \in [Items -> 0..MaxVer] /\ there' \subseteq There' /\ short' \subseteq Items
  BY DEF Begin, Typed, ServerOK, There, server
<1>6. shrunk' \in BOOLEAN /\ barred' \in BOOLEAN
  BY DEF Begin
<1> QED BY <1>1, <1>2, <1>4, <1>5, <1>6 DEF Typed, HistoryOK

LEMMA FetchTyped ==
  ASSUME Typed, FetchPage
  PROVE  /\ Typed'
         /\ Len(queue') = Len(PageOf(list, page)) /\ PageOf(list, page) \in Seq(Items)
         /\ \A n \in 1..Len(queue') :
              LET i == PageOf(list, page)[n]
              IN  i \in Items /\ queue'[n] = [item |-> i, ver |-> ver[i], parts |-> parts[i]]
<1> DEFINE new == PageOf(list, page)
           l == Len(new)
<1>1. new \in Seq(Items) /\ l \in Nat /\ DOMAIN new = 1..l /\ \A n \in 1..l : new[n] \in Items
  <2>1. list \in Seq(Items) /\ page \in Nat \ {0}
    BY DEF Typed, ServerOK, LoopOK
  <2>2. new \in Seq(Items)
    BY <2>1, PagePlaces
  <2> HIDE DEF new
  <2> QED BY <2>2, ElementOfSeq
<1>2. queue' = [n \in DOMAIN new |-> [item |-> new[n], ver |-> ver[new[n]], parts |-> parts[new[n]]]]
  BY DEF FetchPage
<1> HIDE DEF new, l
<1>3. \A i \in Items : [item |-> i, ver |-> ver[i], parts |-> parts[i]] \in Entry
  BY DEF Typed, ServerOK, Entry
<1>4. queue' \in [1..l -> Entry]
  BY <1>1, <1>2, <1>3
<1>5. queue' \in Seq(Entry) /\ Len(queue') = l
  BY <1>1, <1>4
<1>6. \A n \in 1..l : /\ new[n] \in Items
                      /\ queue'[n] = [item |-> new[n], ver |-> ver[new[n]], parts |-> parts[new[n]]]
  BY <1>1, <1>2
<1>7. ServerOK' /\ DiskOK' /\ HistoryOK'
  BY ServerFrame, DiskFrame, HistoryFrame DEF FetchPage, server
<1>8. LoopOK'
  <2>1. pc' = "item" /\ pc' \in Active \cup {"idle", "ok", "failed"}
    BY DEF FetchPage, Active
  <2>2. page' \in Nat \ {0} /\ sub' \in Nat \ {0} /\ got' \subseteq Parts
    BY DEF Typed, LoopOK, FetchPage
  <2>3. more' \in BOOLEAN
    BY DEF FetchPage
  <2> QED BY <1>5, <2>1, <2>2, <2>3 DEF LoopOK
<1> QED BY <1>1, <1>5, <1>6, <1>7, <1>8 DEF Typed, new, l

LEMMA NextPageTyped == ASSUME Typed, NextPage PROVE Typed'
<1>1. ServerOK' /\ DiskOK' /\ HistoryOK'
  BY ServerFrame, DiskFrame, HistoryFrame DEF NextPage, server
<1>2. page' \in Nat \ {0} /\ pc' = "page" /\ UNCHANGED <<queue, more, sub, got>>
  BY DEF Typed, LoopOK, NextPage
<1>3. LoopOK'
  BY <1>2 DEF Typed, LoopOK, Active
<1> QED BY <1>1, <1>3 DEF Typed

LEMMA ReturnTyped == ASSUME Typed, Return PROVE Typed'
<1>1. ServerOK' /\ DiskOK' /\ HistoryOK'
  BY ServerFrame, DiskFrame, HistoryFrame DEF Return, server
<1>2. LoopOK'
  BY LeaveTyped DEF Return
<1> QED BY <1>1, <1>2 DEF Typed

LEMMA SkipTyped == ASSUME Typed, Skip PROVE Typed'
<1>1. ServerOK' /\ DiskOK' /\ HistoryOK'
  BY ServerFrame, DiskFrame, HistoryFrame DEF Skip, server
<1>2. queue' \in Seq(Entry) /\ pc' = "item" /\ UNCHANGED <<page, more, sub, got>>
  BY ItIs DEF Skip
<1>3. LoopOK'
  BY <1>2 DEF Typed, LoopOK, Active
<1> QED BY <1>1, <1>3 DEF Typed

LEMMA OpenTyped == ASSUME Typed, Open PROVE Typed'
<1>1. ServerOK' /\ DiskOK' /\ HistoryOK'
  BY ServerFrame, DiskFrame, HistoryFrame DEF Open, server
<1>2. /\ sub' = 1 /\ got' = {} /\ pc' = "parts" /\ UNCHANGED <<page, queue, more, kind>> /\ queue # <<>>
  BY DEF Open, loop, server
<1>3. It' = It /\ Len(It.parts) \in Nat
  BY <1>2, ItIs, EntryFields DEF It
<1>4. 1 <= Len(It.parts) + 1 /\ 1..1 - 1 = {}
  BY <1>3
<1>5. LoopOK'
  BY <1>2, <1>3, <1>4 DEF Typed, LoopOK, Active
<1> QED BY <1>1, <1>5 DEF Typed

LEMMA CommentsTyped ==
  ASSUME Typed, Comments
  PROVE  /\ Typed' /\ queue # <<>> /\ It' = It /\ It.item \in Items /\ parts[It.item] \in Seq(Parts)
         /\ PageOf(parts[It.item], sub) \in Seq(Parts)
<1> DEFINE new == PageOf(parts[It.item], sub)
<1>1. pc = "parts" /\ queue # <<>> /\ kind # "releases" /\ UNCHANGED <<page, queue, more, kind>>
  BY DEF Typed, LoopOK, Comments, loop, server
<1>2. It' = It /\ It.item \in Items /\ sub \in Nat \ {0}
  BY <1>1, ItIs, EntryFields DEF It, Typed, LoopOK
<1>3. parts[It.item] \in Seq(Parts)
  BY <1>2 DEF Typed, ServerOK
<1>4. new \in Seq(Parts)
  BY <1>2, <1>3, PagePlaces
<1>5. ServerOK' /\ DiskOK' /\ HistoryOK'
  BY ServerFrame, DiskFrame, HistoryFrame DEF Comments, server
<1>6. got' = got \cup {p \in ToSet(new) : Keeps(p)} /\ sub' \in Nat \ {0} /\ pc' \in {"parts", "write"}
  BY <1>1, <1>2 DEF Comments
<1> HIDE DEF new
<1>7. ToSet(new) \subseteq Parts
  BY <1>4 DEF ToSet
<1>8. got' \subseteq Parts
  BY <1>6, <1>7 DEF Typed, LoopOK
<1>9. LoopOK'
  BY <1>1, <1>6, <1>8 DEF Typed, LoopOK, Active
<1> QED BY <1>1, <1>2, <1>3, <1>4, <1>5, <1>9 DEF Typed, new

LEMMA DownloadTyped == ASSUME Typed, Download PROVE Typed' /\ It' = It /\ place[It.item] \in Items
<1> DEFINE p == It.parts[sub]
<1>1. /\ pc = "parts" /\ queue # <<>> /\ kind = "releases" /\ sub <= Len(It.parts)
      /\ UNCHANGED <<page, queue, more, kind, pc>>
  BY DEF Typed, LoopOK, Download, loop, server
<1>2. /\ It' = It /\ It.item \in Items /\ It.parts \in Seq(Parts) /\ sub \in Nat \ {0}
      /\ got = {It.parts[n] : n \in 1..sub - 1}
  BY <1>1, ItIs, EntryFields DEF It, Typed, LoopOK
<1>3. Len(It.parts) \in Nat /\ sub \in 1..Len(It.parts) /\ p \in Parts
  BY <1>1, <1>2, ElementOfSeq
<1>4. place[It.item] \in Items
  BY <1>2, Placed
<1>5. /\ assets' = [assets EXCEPT ![place[It.item]][p] = "whole"] /\ got' = got \cup {p}
      /\ sub' = sub + 1 /\ files' = files
  BY DEF Download
<1>6. DiskOK'
  <2>1. place' = place /\ ver' = ver
    BY DEF Download, server
  <2>2. assets' \in [Items -> [Parts -> {"none", "part", "whole"}]]
    BY <1>3, <1>4, <1>5 DEF Typed, DiskOK
  <2> QED BY <1>5, <2>1, <2>2 DEF Typed, DiskOK
<1>7. got' = {It.parts[n] : n \in 1..sub' - 1}
  <2>1. 1..sub' - 1 = (1..sub - 1) \cup {sub}
    BY <1>2, <1>5
  <2> QED BY <1>2, <1>5, <2>1
<1>8. LoopOK'
  <2>1. sub' \in Nat \ {0} /\ sub' <= Len(It.parts) + 1 /\ got' \subseteq Parts
    BY <1>1, <1>2, <1>3, <1>5 DEF Typed, LoopOK
  <2> QED BY <1>1, <1>2, <1>7, <2>1 DEF Typed, LoopOK
<1>9. ServerOK' /\ HistoryOK'
  BY ServerFrame, HistoryFrame DEF Download, server
<1> QED BY <1>2, <1>4, <1>6, <1>8, <1>9 DEF Typed

LEMMA DownloadedTyped == ASSUME Typed, Downloaded PROVE Typed'
<1>1. ServerOK' /\ DiskOK' /\ HistoryOK'
  BY ServerFrame, DiskFrame, HistoryFrame DEF Downloaded, server
<1>2. pc = "parts" /\ pc' = "write" /\ UNCHANGED <<page, queue, more, sub, got>>
  BY DEF Downloaded, loop
<1>3. LoopOK'
  BY <1>2 DEF Typed, LoopOK, Active
<1> QED BY <1>1, <1>3 DEF Typed

\* Writing, or truncating, a file keeps what the files say true.
LEMMA FileWritten ==
  ASSUME Typed, NEW i \in Items, NEW file \in File, place' = place, ver' = ver, assets' = assets,
         files' = [files EXCEPT ![place[i]] = file],
         \A j \in file.of : place[j] = place[i] /\ file.ver <= ver[j]
  PROVE  DiskOK' /\ files'[place[i]] = file
<1>1. place[i] \in Items
  BY Placed
<1> DEFINE d == place[i]
<1> HIDE DEF d
<1>2. d \in Items /\ files' = [files EXCEPT ![d] = file] /\ \A j \in file.of : place[j] = d /\ file.ver <= ver[j]
  BY <1>1 DEF d
<1>3. files \in [Items -> File] /\ files' \in [Items -> File] /\ files'[d] = file
  BY <1>2 DEF Typed, DiskOK
<1>4. ASSUME NEW e \in Items, NEW j \in files'[e].of PROVE place[j] = e /\ files'[e].ver <= ver[j]
  <2>1. CASE e = d
    BY <1>2, <1>3, <1>4, <2>1
  <2>2. CASE e # d
    <3>1. files'[e] = files[e]
      BY <1>2, <1>3, <2>2
    <3> QED BY <1>4, <3>1 DEF Typed, DiskOK
  <2> QED BY <2>1, <2>2
<1> QED BY <1>3, <1>4 DEF Typed, DiskOK, d

LEMMA WriteTyped ==
  ASSUME Typed, Remembered, Write
  PROVE  /\ Typed' /\ queue # <<>> /\ It.item \in Items /\ place[It.item] \in Items
         /\ files'[place[It.item]] = Whole(It.item, It.ver, got)
<1> DEFINE file == Whole(It.item, It.ver, got)
<1>1. /\ pc = "write" /\ queue # <<>> /\ pc' = "item" /\ queue' = Tail(queue)
      /\ UNCHANGED <<page, more, sub, got>> /\ files' = [files EXCEPT ![place[It.item]] = file]
      /\ place' = place /\ ver' = ver /\ assets' = assets
  BY DEF Typed, LoopOK, Write, server
<1>2. /\ It \in Entry /\ It = queue[1] /\ 1 \in 1..Len(queue) /\ queue' \in Seq(Entry)
      /\ It.item \in Items /\ It.ver \in 0..MaxVer
  BY <1>1, ItIs, EntryFields
<1>3. It.ver <= ver[It.item]
  BY <1>2 DEF Remembered, Told
<1>4. file \in File /\ file.of = {It.item} /\ file.ver = It.ver
  BY <1>2, FileTypes DEF Whole, Typed, LoopOK
<1> HIDE DEF file
<1>5. DiskOK' /\ files'[place[It.item]] = file /\ place[It.item] \in Items
  BY <1>1, <1>2, <1>3, <1>4, FileWritten, Placed
<1>6. LoopOK'
  BY <1>1, <1>2 DEF Typed, LoopOK, Active
<1>7. ServerOK' /\ HistoryOK'
  BY ServerFrame, HistoryFrame DEF Write, server
<1> QED BY <1>1, <1>2, <1>5, <1>6, <1>7 DEF Typed, file

LEMMA ForbiddenTyped == ASSUME Typed, Forbidden PROVE Typed'
<1>1. ServerOK'
  BY EventBudget DEF Forbidden, Typed, ServerOK, Places
<1>2. DiskOK'
  BY DiskFrame DEF Forbidden
<1>3. HistoryOK'
  <2>1. barred' \in BOOLEAN
    BY DEF Forbidden
  <2> QED BY <2>1 DEF Forbidden, Typed, HistoryOK, There
<1>4. LoopOK'
  <2>1. /\ \/ pc' = "item" /\ queue' = <<>> /\ more' = FALSE
           \/ pc = "parts" /\ pc' = "write" /\ UNCHANGED <<queue, more>>
        /\ UNCHANGED <<page, sub, got>>
    BY DEF Forbidden
  <2>2. queue' \in Seq(Entry) /\ (pc' = "write" => queue' # <<>>)
    <3>1. CASE pc' = "item" /\ queue' = <<>>
      <4>1. <<>> \in Seq(Entry) /\ "item" # "write"
        OBVIOUS
      <4> QED BY <3>1, <4>1
    <3>2. CASE pc = "parts" /\ UNCHANGED queue
      BY <3>2 DEF Typed, LoopOK
    <3> QED BY <2>1, <3>1, <3>2
  <2>3. more' \in BOOLEAN
    BY <2>1 DEF Typed, LoopOK
  <2> QED BY <2>1, <2>2, <2>3 DEF Typed, LoopOK, Active
<1> QED BY <1>1, <1>2, <1>3, <1>4 DEF Typed

LEMMA LeftTyped ==
  ASSUME Typed, files' \in FilesLeft, NEW left \in SUBSET {"none", "part"}, assets' \in AssetsLeft(left),
         place' = place, ver' = ver
  PROVE  DiskOK'
<1>1. CASE files' = files
  <2>1. assets' \in [Items -> [Parts -> {"none", "part", "whole"}]]
    <3>1. CASE assets' = assets
      BY <3>1 DEF Typed, DiskOK
    <3>2. CASE Downloading /\ \E s \in left : assets' = [assets EXCEPT ![place[It.item]][It.parts[sub]] = s]
      <4>1. queue # <<>> /\ sub \in Nat \ {0} /\ sub <= Len(It.parts)
        BY <3>2 DEF Typed, LoopOK, Downloading
      <4>2. It.item \in Items /\ It.parts \in Seq(Parts)
        BY <4>1, ItIs, EntryFields
      <4>3. place[It.item] \in Items /\ It.parts[sub] \in Parts
        BY <4>1, <4>2, Placed, ElementOfSeq
      <4> QED BY <3>2, <4>3 DEF Typed, DiskOK
    <3> QED BY <3>1, <3>2 DEF AssetsLeft
  <2> QED BY <1>1, <2>1 DEF Typed, DiskOK
<1>2. CASE pc = "write" /\ files' = [files EXCEPT ![place[It.item]] = Truncated]
  <2>1. assets' = assets
    BY <1>2 DEF AssetsLeft, Downloading
  <2>2. It.item \in Items
    BY <1>2, ItIs, EntryFields DEF Typed, LoopOK
  <2> QED BY <1>2, <2>1, <2>2, FileWritten, FileTypes
<1> QED BY <1>1, <1>2 DEF FilesLeft

LEMMA FailTyped == ASSUME Typed, Fail PROVE Typed'
<1>1. ServerOK'
  BY ServerFrame DEF Fail
<1>2. DiskOK'
  BY LeftTyped DEF Fail, server
<1>3. LoopOK' /\ HistoryOK'
  BY LeaveTyped, ForgetTyped DEF Fail
<1> QED BY <1>1, <1>2, <1>3 DEF Typed

LEMMA CrashTyped == ASSUME Typed, Crash PROVE Typed'
<1>1. ServerOK'
  BY EventBudget DEF Crash, Typed, ServerOK, Places
<1>2. DiskOK'
  <2>1. {"part"} \in SUBSET {"none", "part"}
    OBVIOUS
  <2> QED BY <2>1, LeftTyped DEF Crash
<1>3. LoopOK' /\ HistoryOK'
  BY LeaveTyped, ForgetTyped DEF Crash
<1> QED BY <1>1, <1>2, <1>3 DEF Typed

LEMMA TypedNext == Typed /\ Remembered /\ [Next]_vars => Typed'
<1> SUFFICES ASSUME Typed, Remembered, [Next]_vars PROVE Typed'
  OBVIOUS
<1>1. CASE UNCHANGED vars
  <2>1. UNCHANGED server /\ UNCHANGED disk /\ UNCHANGED history /\ UNCHANGED <<pc, page, queue, more, sub, got>>
    BY <1>1 DEF vars, loop
  <2>2. ServerOK' /\ DiskOK' /\ HistoryOK'
    BY <2>1, ServerFrame, DiskFrame, HistoryFrame DEF server
  <2>3. LoopOK'
    BY <2>1 DEF Typed, LoopOK, It, server
  <2> QED BY <2>2, <2>3 DEF Typed
<1>2. ASSUME NEW i \in Items, Create(i) \/ Edit(i) \/ Delete(i)
                              \/ \E p \in Parts : AddPart(i, p) \/ RemovePart(i, p)
      PROVE  Typed'
  BY <1>2, CreateTyped, EditTyped, DeleteTyped, AddTyped, RemoveTyped
<1>3. CASE Begin \/ Forbidden \/ Crash \/ Fail
  BY <1>3, BeginTyped, ForbiddenTyped, CrashTyped, FailTyped
<1>4. CASE Step
  <2>1. CASE FetchPage \/ NextPage \/ Return \/ Skip \/ Open
    BY <2>1, FetchTyped, NextPageTyped, ReturnTyped, SkipTyped, OpenTyped
  <2>2. CASE Comments \/ Download \/ Downloaded \/ Write
    BY <2>2, CommentsTyped, DownloadTyped, DownloadedTyped, WriteTyped
  <2>3. CASE NotFound
    BY <2>3, FailTyped DEF NotFound
  <2> QED BY <1>4, <2>1, <2>2, <2>3 DEF Step
<1> QED BY <1>1, <1>2, <1>3, <1>4 DEF Next

-----------------------------------------------------------------------------
(* What is remembered of the beginning.                                        *)

LEMMA EntryAt == ASSUME Typed, NEW n \in 1..Len(queue)
                 PROVE  /\ queue[n] \in Entry /\ queue[n].item \in Items
                        /\ queue[n].ver \in 0..MaxVer /\ queue[n].parts \in Seq(Parts)
  BY ElementOfSeq, EntryFields DEF Typed, LoopOK

\* Changes of the forge: versions grow, and what an item has lost is not steady any more.
LEMMA EventRemembered ==
  ASSUME Typed, Remembered, ver' \in [Items -> 0..MaxVer], \A i \in Items : ver[i] <= ver'[i],
         base' = base, queue' = queue, there' \subseteq there,
         \A i \in Items : steady'[i] \subseteq steady[i],
         \A i \in there' : steady'[i] \subseteq ToSet(parts'[i])
  PROVE  Remembered'
<1>1. Older'
  <2>1. ASSUME NEW i \in Items PROVE base[i] <= ver'[i]
    <3>1. base[i] \in Nat /\ ver[i] \in Nat /\ ver'[i] \in Nat
      BY Bounds DEF Typed, HistoryOK, ServerOK
    <3> QED BY <3>1 DEF Remembered, Older
  <2> QED BY <2>1 DEF Older
<1>2. ASSUME NEW n \in 1..Len(queue) PROVE Told(queue[n])'
  <2> DEFINE q == queue[n]
  <2>1. q.item \in Items /\ q.ver \in 0..MaxVer /\ Told(q) /\ q' = q
    BY EntryAt DEF Remembered
  <2> HIDE DEF q
  <2>2. q.ver <= ver'[q.item]
    <3>1. q.ver \in Nat /\ ver[q.item] \in Nat /\ ver'[q.item] \in Nat
      BY <2>1, Bounds DEF Typed, ServerOK
    <3> QED BY <2>1, <3>1 DEF Told
  <2>3. Told(q)'
    BY <2>1, <2>2 DEF Told
  <2> QED BY <2>3 DEF q
<1> QED BY <1>1, <1>2 DEF Remembered, Held

LEMMA CreateRemembered == ASSUME Typed, Remembered, NEW i \in Items, Create(i) PROVE Remembered'
<1>1. \A j \in there' : steady'[j] \subseteq ToSet(parts'[j])
  BY DEF Create, history, Remembered, Held
<1> QED BY <1>1, VersionsTyped, EventRemembered DEF Create, loop, history

LEMMA EditRemembered == ASSUME Typed, Remembered, NEW i \in Items, Edit(i) PROVE Remembered'
<1>1. \A j \in there' : steady'[j] \subseteq ToSet(parts'[j])
  BY DEF Edit, history, Remembered, Held
<1>2. ver' \in [Items -> 0..MaxVer] /\ \A j \in Items : ver[j] <= ver'[j]
  <2>1. ver' = [ver EXCEPT ![i] = ver[i] + 1] /\ ver[i] < MaxVer
    BY DEF Edit
  <2> QED BY <2>1, Bounds, VersionsTyped
<1> QED BY <1>1, <1>2, EventRemembered DEF Edit, loop, history

LEMMA DeleteRemembered == ASSUME Typed, Remembered, NEW i \in Items, Delete(i) PROVE Remembered'
<1>1. \A j \in there' : steady'[j] \subseteq ToSet(parts'[j])
  <2>1. ASSUME NEW j \in there' PROVE steady'[j] \subseteq ToSet(parts'[j])
    <3>1. j \in there /\ j # i /\ steady' = steady
      BY DEF Delete
    <3>2. parts'[j] = parts[j]
      BY <3>1, TypedIsTypeOK DEF Delete, Typed, ServerOK, TypeOK
    <3> QED BY <3>1, <3>2 DEF Remembered, Held
  <2> QED BY <2>1
<1> QED BY <1>1, VersionsTyped, EventRemembered DEF Delete, loop

LEMMA AddRemembered ==
  ASSUME Typed, Remembered, NEW i \in Items, NEW p \in Parts, AddPart(i, p) PROVE Remembered'
<1>1. \A j \in there' : steady'[j] \subseteq ToSet(parts'[j])
  <2>1. ASSUME NEW j \in there' PROVE steady'[j] \subseteq ToSet(parts'[j])
    <3>1. j \in there /\ j \in Items /\ steady' = steady
      BY TypedIsTypeOK DEF AddPart, history, TypeOK
    <3>2. parts[j] \in Seq(Parts)
      BY <3>1 DEF Typed, ServerOK
    <3>3. parts'[j] = parts[j] \/ parts'[j] = Append(parts[j], p)
      BY <3>1 DEF AddPart, Typed, ServerOK
    <3>4. ToSet(parts[j]) \subseteq ToSet(Append(parts[j], p))
      BY <3>2, AppendHas
    <3> QED BY <3>1, <3>3, <3>4 DEF Remembered, Held
  <2> QED BY <2>1
<1> QED BY <1>1, VersionsTyped, EventRemembered DEF AddPart, loop, history

LEMMA RemoveRemembered ==
  ASSUME Typed, Remembered, NEW i \in Items, NEW p \in Parts, RemovePart(i, p) PROVE Remembered'
<1>1. /\ steady' = [steady EXCEPT ![i] = steady[i] \ {p}] /\ steady \in [Items -> SUBSET Parts]
      /\ there' = there /\ there \subseteq Items
  BY TypedIsTypeOK DEF RemovePart, Typed, HistoryOK, TypeOK
<1>2. ASSUME NEW j \in there' PROVE steady'[j] \subseteq ToSet(parts'[j])
  <2>1. PICK n \in DOMAIN parts[i] : /\ parts[i][n] = p
                                     /\ parts' = [parts EXCEPT ![i] = RemoveAt(parts[i], n)]
    BY DEF RemovePart
  <2>2. CASE j # i
    <3>1. parts'[j] = parts[j] /\ steady'[j] = steady[j] /\ j \in there
      BY <1>1, <2>1, <2>2 DEF Typed, ServerOK
    <3> QED BY <3>1 DEF Remembered, Held
  <2>3. CASE j = i
    <3>1. parts[i] \in Seq(Parts) /\ n \in 1..Len(parts[i])
      BY <2>1 DEF Typed, ServerOK
    <3>2. ToSet(parts[i]) \ {p} \subseteq ToSet(RemoveAt(parts[i], n))
      BY <2>1, <3>1, RemoveHas
    <3>3. parts'[i] = RemoveAt(parts[i], n) /\ steady'[i] = steady[i] \ {p} /\ i \in there
      BY <1>1, <2>1, <2>3 DEF Typed, ServerOK
    <3>4. steady[i] \subseteq ToSet(parts[i])
      BY <3>3 DEF Remembered, Held
    <3> QED BY <2>3, <3>2, <3>3, <3>4
  <2> QED BY <2>2, <2>3
<1>3. \A j \in Items : steady'[j] \subseteq steady[j]
  BY <1>1
<1> QED BY <1>1, <1>2, <1>3, VersionsTyped, EventRemembered DEF RemovePart, loop

\* An export's steps do not change the forge, and leave of the page what they have not dealt with.
LEMMA StepRemembered ==
  ASSUME Typed, Remembered, UNCHANGED <<ver, parts, there, steady, base>>,
         queue' = queue \/ queue' = <<>> \/ (queue # <<>> /\ queue' = Tail(queue))
  PROVE  Remembered'
<1>1. Older' /\ Held'
  BY DEF Remembered, Older, Held
<1>2. ASSUME NEW n \in 1..Len(queue') PROVE Told(queue[n])'
  <2>1. \E m \in 1..Len(queue) : queue'[n] = queue[m]
    <3>1. CASE queue' = queue
      BY <3>1
    <3>2. CASE queue' = <<>>
      <4>1. 1..Len(queue') = {}
        BY <3>2
      <4> QED BY <4>1
    <3>3. CASE queue # <<>> /\ queue' = Tail(queue)
      <4>1. /\ Len(queue) \in Nat /\ Len(queue') = Len(queue) - 1
            /\ \A m \in 1..Len(queue) - 1 : queue'[m] = queue[m + 1]
        BY <3>3, ItIs
      <4>2. n + 1 \in 1..Len(queue) /\ queue'[n] = queue[n + 1]
        BY <4>1
      <4> QED BY <4>2
    <3> QED BY <3>1, <3>2, <3>3
  <2>2. PICK m \in 1..Len(queue) : queue'[n] = queue[m]
    BY <2>1
  <2>3. Told(queue[m])
    BY DEF Remembered
  <2> QED BY <2>2, <2>3 DEF Told
<1> QED BY <1>1, <1>2 DEF Remembered

\* Nothing is remembered.
LEMMA ForgetRemembered ==
  ASSUME Typed', there' = {}, base' = [i \in Items |-> 0], queue' = <<>> PROVE Remembered'
<1>1. 1..Len(queue') = {}
  OBVIOUS
<1>2. \A i \in Items : 0 <= ver'[i]
  BY Bounds DEF Typed, ServerOK
<1> QED BY <1>1, <1>2 DEF Remembered, Older, Held

LEMMA InitRemembered == Init => Remembered
<1> SUFFICES ASSUME Init PROVE Remembered
  OBVIOUS
<1>1. queue = <<>> /\ there = {} /\ \A i \in Items : base[i] = 0 /\ ver[i] = 0
  BY DEF Init
<1>2. 1..Len(queue) = {}
  BY <1>1
<1> QED BY <1>1, <1>2 DEF Remembered, Older, Held

LEMMA BeginRemembered == ASSUME Typed, Begin PROVE Remembered'
<1>1. /\ base' = ver /\ ver' = ver /\ parts' = parts /\ queue' = <<>>
      /\ steady' = [i \in Items |-> ToSet(parts[i])] /\ there' \subseteq Items
  BY TypedIsTypeOK DEF Begin, server, Leave, TypeOK
<1>2. 1..Len(queue') = {}
  BY <1>1
<1>3. Older'
  BY <1>1, VersionsTyped DEF Older
<1>4. Held'
  BY <1>1 DEF Held
<1> QED BY <1>2, <1>3, <1>4 DEF Remembered

LEMMA FetchRemembered == ASSUME Typed, Remembered, FetchPage PROVE Remembered'
<1>1. UNCHANGED <<ver, parts, there, steady, base>>
  BY DEF FetchPage, server, history
<1>2. Older' /\ Held'
  BY <1>1 DEF Remembered, Older, Held
<1>3. ASSUME NEW n \in 1..Len(queue') PROVE Told(queue[n])'
  <2> DEFINE i == PageOf(list, page)[n]
  <2>1. i \in Items /\ queue'[n] = [item |-> i, ver |-> ver[i], parts |-> parts[i]]
    BY FetchTyped
  <2> HIDE DEF i
  <2>2. queue'[n].item = i /\ queue'[n].ver = ver[i] /\ queue'[n].parts = parts[i]
    BY <2>1
  <2>3. base[i] <= ver[i] /\ ver[i] <= ver[i] /\ (i \in there => steady[i] \subseteq ToSet(parts[i]))
    BY <2>1, VersionsTyped DEF Remembered, Older, Held
  <2> QED BY <1>1, <2>2, <2>3 DEF Told
<1> QED BY <1>2, <1>3 DEF Remembered

LEMMA RememberedNext == Typed /\ Remembered /\ [Next]_vars => Remembered'
<1> SUFFICES ASSUME Typed, Remembered, [Next]_vars PROVE Remembered'
  OBVIOUS
<1>1. CASE UNCHANGED vars
  BY <1>1, StepRemembered DEF vars, server, loop, history
<1>2. ASSUME NEW i \in Items, Create(i) \/ Edit(i) \/ Delete(i)
                              \/ \E p \in Parts : AddPart(i, p) \/ RemovePart(i, p)
      PROVE  Remembered'
  BY <1>2, CreateRemembered, EditRemembered, DeleteRemembered, AddRemembered, RemoveRemembered
<1>3. CASE Begin
  BY <1>3, BeginRemembered
<1>4. CASE Forbidden
  BY <1>4, StepRemembered DEF Forbidden
<1>5. ASSUME Crash \/ Fail PROVE Remembered'
  <2>1. Typed' /\ Forget /\ Leave
    BY <1>5, CrashTyped, FailTyped DEF Crash, Fail
  <2> QED BY <2>1, ForgetRemembered DEF Forget, Leave
<1>6. CASE Step
  <2>1. CASE FetchPage
    BY <2>1, FetchRemembered
  <2>2. CASE NextPage \/ Return \/ Skip \/ Open
    BY <2>2, StepRemembered DEF NextPage, Return, Skip, Open, server, loop, history, Leave
  <2>3. CASE Comments \/ Download \/ Downloaded
    BY <2>3, StepRemembered DEF Comments, Download, Downloaded, server, loop, history
  <2>4. CASE Write
    <3>1. queue # <<>>
      BY <2>4 DEF Write, Typed, LoopOK
    <3> QED BY <2>4, <3>1, StepRemembered DEF Write, server, history
  <2>5. CASE NotFound
    BY <1>5, <2>5 DEF NotFound
  <2> QED BY <1>6, <2>1, <2>2, <2>3, <2>4, <2>5 DEF Step
<1> QED BY <1>1, <1>2, <1>3, <1>4, <1>5, <1>6 DEF Next

-----------------------------------------------------------------------------
(* What has been got of the item it is at.                                     *)

LEMMA InitGathered == Init => Gathered
  BY DEF Init, Gathered

\* A change of the forge that leaves the parts of the items that are owed where they are, but
\* for new ones behind them.
LEMMA EventGathered ==
  ASSUME Typed, Gathered, UNCHANGED <<forge, kind, place, assets, pc, queue, sub, got, barred>>,
         there' \ short' \subseteq there \ short, \A i \in Items : steady'[i] \subseteq steady[i],
         pc = "parts" => \A i \in there' \ short' : \A k \in 1..Len(parts[i]) :
                           k \in 1..Len(parts'[i]) /\ parts'[i][k] = parts[i][k]
  PROVE  Gathered'
<1>1. It' = It
  BY DEF It
<1>2. ASSUME pc = "parts", kind # "releases", ~barred, It.item \in there' \ short'
      PROVE  \A p \in Due(It.item)' : p \in got \/ Beyond(parts[It.item], p, sub - 1)'
  <2>1. It.item \in there \ short /\ It.item \in Items
    BY <1>2, TypedIsTypeOK DEF TypeOK
  <2> DEFINE i == It.item
  <2> HIDE DEF i
  <2>2. i \in there' \ short' /\ i \in Items /\ \A p \in Due(i) : p \in got \/ Beyond(parts[i], p, sub - 1)
    BY <1>2, <2>1 DEF Gathered, i
  <2>3. i' = i
    BY <1>1 DEF i
  <2>4. ASSUME NEW p \in Due(i)' PROVE p \in got \/ Beyond(parts'[i], p, sub - 1)
    <3>1. p \in Due(i)
      BY <2>2, <2>3 DEF Due, Keeps
    <3>2. CASE Beyond(parts[i], p, sub - 1)
      <4>1. PICK k \in 1..Len(parts[i]) : parts[i][k] = p /\ k > (sub - 1) * PageSize
        BY <3>2 DEF Beyond
      <4>2. k \in 1..Len(parts'[i]) /\ parts'[i][k] = p
        BY <1>2, <2>2, <4>1
      <4> QED BY <4>1, <4>2 DEF Beyond
    <3> QED BY <2>2, <3>1, <3>2
  <2>5. \A p \in Due(i)' : p \in got \/ Beyond(parts[i], p, sub - 1)'
    BY <2>3, <2>4 DEF Beyond
  <2> QED BY <2>5 DEF i
<1>3. ASSUME pc = "write", ~barred, It.item \in there' \ short' PROVE Due(It.item)' \subseteq got
  <2>1. It.item \in there \ short /\ It.item \in Items
    BY <1>3, TypedIsTypeOK DEF TypeOK
  <2>2. Due(It.item) \subseteq got
    BY <1>3, <2>1 DEF Gathered
  <2>3. Due(It.item)' \subseteq Due(It.item)
    BY <1>1, <2>1 DEF Due, Keeps
  <2> QED BY <2>2, <2>3
<1>4. pc' \in {"parts", "write"} /\ kind' = "releases" =>
        \A p \in got' : assets'[place'[It'.item]][p] = "whole"
  BY <1>1 DEF Gathered
<1> QED BY <1>1, <1>2, <1>3, <1>4 DEF Gathered

LEMMA AddGathered ==
  ASSUME Typed, Gathered, NEW i \in Items, NEW p \in Parts, AddPart(i, p) PROVE Gathered'
<1>1. ASSUME NEW j \in there' \ short', NEW k \in 1..Len(parts[j])
      PROVE  k \in 1..Len(parts'[j]) /\ parts'[j][k] = parts[j][k]
  <2>1. j \in Items
    BY TypedIsTypeOK DEF AddPart, history, TypeOK
  <2>2. parts[j] \in Seq(Parts)
    BY <2>1 DEF Typed, ServerOK
  <2>3. parts'[j] = parts[j] \/ parts'[j] = Append(parts[j], p)
    BY <2>1 DEF AddPart, Typed, ServerOK
  <2>4. k \in 1..Len(Append(parts[j], p)) /\ Append(parts[j], p)[k] = parts[j][k]
    BY <2>2, AppendHas
  <2> QED BY <2>3, <2>4
<1> QED BY <1>1, EventGathered DEF AddPart, disk, loop, history

LEMMA RemoveGathered ==
  ASSUME Typed, Gathered, NEW i \in Items, NEW p \in Parts, RemovePart(i, p) PROVE Gathered'
<1>1. there' = there /\ short' = IF pc \in Active THEN short \cup {i} ELSE short
  BY DEF RemovePart
<1>2. ASSUME pc = "parts", NEW j \in there' \ short' PROVE parts'[j] = parts[j]
  <2>1. j # i /\ j \in Items
    BY <1>1, <1>2, TypedIsTypeOK DEF Active, TypeOK
  <2> QED BY <2>1 DEF RemovePart, Typed, ServerOK
<1>3. \A j \in Items : steady'[j] \subseteq steady[j]
  BY DEF RemovePart, Typed, HistoryOK
<1> QED BY <1>1, <1>2, <1>3, EventGathered DEF RemovePart, disk, loop

LEMMA DeleteGathered == ASSUME Typed, Gathered, NEW i \in Items, Delete(i) PROVE Gathered'
<1>1. there' = there \ {i} /\ short' = short /\ steady' = steady
  BY DEF Delete
<1>2. ASSUME NEW j \in there' \ short' PROVE parts'[j] = parts[j]
  <2>1. j # i /\ j \in Items
    BY <1>1, <1>2, TypedIsTypeOK DEF TypeOK
  <2> QED BY <2>1 DEF Delete, Typed, ServerOK
<1> QED BY <1>1, <1>2, EventGathered DEF Delete, disk, loop

LEMMA OpenGathered == ASSUME Typed, Remembered, Open PROVE Gathered'
<1>1. /\ queue # <<>> /\ It' = It /\ sub' = 1 /\ got' = {} /\ pc' = "parts"
      /\ UNCHANGED <<parts, there, short, steady, forge, kind>>
  BY DEF Open, loop, server, history, It
<1>2. It.item \in Items
  BY <1>1, ItIs, EntryFields
<1>3. parts[It.item] \in Seq(Parts)
  BY <1>2 DEF Typed, ServerOK
<1>4. ASSUME It.item \in there, NEW p \in Due(It.item)' PROVE Beyond(parts[It.item], p, sub - 1)'
  <2>1. p \in steady[It.item]
    BY <1>1 DEF Due
  <2>2. p \in ToSet(parts[It.item])
    BY <1>4, <2>1 DEF Remembered, Held
  <2>3. PICK k \in 1..Len(parts[It.item]) : parts[It.item][k] = p
    BY <1>3, <2>2, Elements
  <2>4. (sub' - 1) * PageSize = 0 /\ k > 0
    <3>1. sub' - 1 = 0
      BY <1>1
    <3> QED BY <1>3, <3>1, Bounds
  <2> QED BY <1>1, <2>3, <2>4 DEF Beyond
<1> QED BY <1>1, <1>4 DEF Gathered

LEMMA CommentsGathered == ASSUME Typed, Gathered, Comments PROVE Gathered'
<1> DEFINE i == It.item
           new == PageOf(parts[i], sub)
<1>1. i \in Items /\ parts[i] \in Seq(Parts) /\ new \in Seq(Parts) /\ It' = It /\ i' = i
  BY CommentsTyped
<1>2. /\ pc = "parts" /\ kind # "releases" /\ got' = got \cup {p \in ToSet(new) : Keeps(p)}
      /\ UNCHANGED <<forge, kind, parts, there, short, steady, barred>>
      /\ \/ pc' = "write" /\ LastPage(parts[i], sub)
         \/ pc' = "parts" /\ ~LastPage(parts[i], sub) /\ sub' = sub + 1
  BY DEF Comments, server, history
<1>3. sub \in Nat \ {0}
  BY DEF Typed, LoopOK
<1>4. \A k \in 1..Len(parts[i]) : k > (sub - 1) * PageSize =>
         \/ \E j \in 1..Len(new) : new[j] = parts[i][k]
         \/ k > sub * PageSize /\ ~LastPage(parts[i], sub)
  BY <1>1, <1>3, PagePlaces
<1>5. Due(i)' = Due(i)
  BY <1>1, <1>2 DEF Due, Keeps
<1>6. i \in there \ short /\ ~barred => \A p \in Due(i) : p \in got \/ Beyond(parts[i], p, sub - 1)
  BY <1>2 DEF Gathered
<1> HIDE DEF new
<1>7. ASSUME i \in there \ short, ~barred, NEW p \in Due(i)
      PROVE  p \in got' \/ (~LastPage(parts[i], sub) /\ Beyond(parts[i], p, sub))
  <2>1. CASE p \in got
    BY <1>2, <2>1
  <2>2. CASE Beyond(parts[i], p, sub - 1)
    <3>1. PICK k \in 1..Len(parts[i]) : parts[i][k] = p /\ k > (sub - 1) * PageSize
      BY <2>2 DEF Beyond
    <3>2. CASE \E j \in 1..Len(new) : new[j] = parts[i][k]
      <4>1. p \in ToSet(new) /\ Keeps(p)
        BY <1>1, <3>1, <3>2, Elements DEF Due
      <4> QED BY <1>2, <4>1
    <3>3. CASE k > sub * PageSize /\ ~LastPage(parts[i], sub)
      BY <3>1, <3>3 DEF Beyond
    <3> QED BY <1>4, <3>1, <3>2, <3>3
  <2> QED BY <1>6, <1>7, <2>1, <2>2
<1> HIDE DEF i
<1>8. CASE pc' = "write" /\ LastPage(parts[i], sub)
  <2>1. i \in there \ short /\ ~barred => Due(i)' \subseteq got'
    BY <1>5, <1>7, <1>8
  <2> QED BY <1>1, <1>2, <1>8, <2>1 DEF Gathered, i
<1>9. CASE pc' = "parts" /\ ~LastPage(parts[i], sub) /\ sub' = sub + 1
  <2>1. sub' - 1 = sub
    BY <1>3, <1>9
  <2>2. ASSUME i \in there \ short, ~barred, NEW p \in Due(i)'
        PROVE  p \in got' \/ Beyond(parts[i], p, sub - 1)'
    <3>1. p \in got' \/ Beyond(parts[i], p, sub)
      BY <1>5, <1>7, <2>2
    <3> QED BY <1>1, <1>2, <2>1, <3>1 DEF Beyond
  <2> QED BY <1>1, <1>2, <1>9, <2>2 DEF Gathered, i
<1> QED BY <1>2, <1>8, <1>9

LEMMA DownloadGathered == ASSUME Typed, Gathered, Download PROVE Gathered'
<1> DEFINE p == It.parts[sub]
           d == place[It.item]
<1>1. It' = It /\ d \in Items /\ pc = "parts" /\ pc' = "parts" /\ kind = "releases" /\ kind' = kind /\ place' = place
  BY DownloadTyped DEF Download, server
<1>2. assets' = [assets EXCEPT ![d][p] = "whole"] /\ got' = got \cup {p}
  BY DEF Download
<1>3. \A x \in got : assets[d][x] = "whole"
  BY <1>1 DEF Gathered
<1>4. got' \subseteq Parts /\ assets \in [Items -> [Parts -> {"none", "part", "whole"}]]
  BY DownloadTyped DEF Typed, LoopOK, DiskOK
<1> HIDE DEF p
<1>5. \A x \in got' : assets'[d][x] = "whole"
  <2> HIDE DEF d
  <2>1. assets'[d] = [assets[d] EXCEPT ![p] = "whole"] /\ assets[d] \in [Parts -> {"none", "part", "whole"}]
    BY <1>1, <1>2, <1>4
  <2> QED BY <1>2, <1>3, <1>4, <2>1
<1>6. d' = d
  BY <1>1
<1> QED BY <1>1, <1>5, <1>6 DEF Gathered

LEMMA DownloadedGathered == ASSUME Typed, Remembered, Gathered, Downloaded PROVE Gathered'
<1>1. /\ pc = "parts" /\ pc' = "write" /\ kind = "releases" /\ sub > Len(It.parts) /\ queue # <<>>
      /\ It' = It
      /\ UNCHANGED <<forge, kind, place, assets, got, there, short, steady, barred>>
  BY DEF Downloaded, Typed, LoopOK, It, server, disk, loop, history
<1>2. It = queue[1] /\ 1 \in 1..Len(queue) /\ It.item \in Items /\ It.parts \in Seq(Parts)
  BY <1>1, ItIs, EntryFields
<1>3. /\ sub \in Nat /\ sub <= Len(It.parts) + 1 /\ got = {It.parts[n] : n \in 1..sub - 1}
      /\ \A p \in got : assets[place[It.item]][p] = "whole"
  BY <1>1 DEF Typed, LoopOK, Gathered
<1>4. sub - 1 = Len(It.parts)
  BY <1>1, <1>2, <1>3
<1>5. It.item \in there => Due(It.item) \subseteq got
  <2>1. It.item \in there => steady[It.item] \subseteq ToSet(It.parts)
    BY <1>2 DEF Remembered, Told
  <2>2. ToSet(It.parts) \subseteq got
    BY <1>2, <1>3, <1>4, Elements
  <2> QED BY <2>1, <2>2 DEF Due
<1>6. Due(It.item)' = Due(It.item)
  BY <1>1 DEF Due, Keeps
<1> QED BY <1>1, <1>3, <1>5, <1>6 DEF Gathered

LEMMA GatheredNext == Typed /\ Remembered /\ Gathered /\ [Next]_vars => Gathered'
<1> SUFFICES ASSUME Typed, Remembered, Gathered, [Next]_vars PROVE Gathered'
  OBVIOUS
<1>1. ASSUME UNCHANGED vars PROVE Gathered'
  BY <1>1, EventGathered DEF vars, server, disk, loop, history
<1>2. ASSUME pc' \notin {"parts", "write"} PROVE Gathered'
  BY <1>2 DEF Gathered
<1>3. ASSUME NEW i \in Items, Create(i) \/ Edit(i) \/ Delete(i)
                              \/ \E p \in Parts : AddPart(i, p) \/ RemovePart(i, p)
      PROVE  Gathered'
  <2>1. CASE Create(i) \/ Edit(i)
    BY <2>1, EventGathered DEF Create, Edit, disk, loop, history
  <2> QED BY <1>3, <2>1, DeleteGathered, AddGathered, RemoveGathered
<1>4. CASE Begin \/ Crash \/ Fail \/ FetchPage \/ NextPage \/ Return \/ Write \/ NotFound
  BY <1>2, <1>4 DEF Begin, Crash, Fail, FetchPage, NextPage, Return, Write, NotFound
<1>5. CASE Skip
  BY <1>2, <1>5 DEF Skip
<1>6. CASE Open
  BY <1>6, OpenGathered
<1>7. CASE Comments \/ Download \/ Downloaded
  BY <1>7, CommentsGathered, DownloadGathered, DownloadedGathered
<1>8. CASE Forbidden
  BY <1>8 DEF Forbidden, Gathered
<1> QED BY <1>1, <1>3, <1>4, <1>5, <1>6, <1>7, <1>8 DEF Next, Step

-----------------------------------------------------------------------------
(* What an export has come to.                                                 *)

LEMMA InitCovered == Init => Covered
  BY DEF Init, Covered, Wanted

\* What an export left of an item stays until a file is written in its place.
LEMMA SettledStays ==
  ASSUME Typed, NEW i \in Items, Settled(i), UNCHANGED <<forge, kind, place, base>>,
         files'[place[i]] = files[place[i]], steady'[i] \subseteq steady[i],
         \A d \in Items, p \in Parts : assets[d][p] = "whole" => assets'[d][p] = "whole"
  PROVE  Settled(i)'
<1> DEFINE file == files[place[i]]
<1>1. place[i] \in Items /\ file.parts \subseteq Parts
  <2>1. place[i] \in Items
    BY Placed
  <2> QED BY <2>1 DEF Typed, DiskOK, File
<1>2. /\ file.state = "whole" /\ (Alone(i) => file.of = {i})
      /\ i \in file.of => file.ver >= base[i] /\ Due(i) \subseteq file.parts
      /\ kind = "releases" => \A p \in file.parts : assets[place[i]][p] = "whole"
  BY DEF Settled
<1>3. file' = file /\ (Alone(i)' <=> Alone(i)) /\ Due(i)' \subseteq Due(i)
  BY DEF Alone, Due, Keeps
<1> HIDE DEF file
<1>4. kind = "releases" => \A p \in file.parts : assets'[place[i]][p] = "whole"
  BY <1>1, <1>2
<1>5. i \in file.of => file.ver >= base[i] /\ Due(i)' \subseteq file.parts
  BY <1>2, <1>3
<1>6. file'.state = "whole" /\ (Alone(i)' => file'.of = {i})
  BY <1>2, <1>3
<1>7. i \in file'.of => file'.ver >= base'[i] /\ Due(i)' \subseteq file'.parts
  BY <1>3, <1>5
<1>8. kind' = "releases" => \A p \in file'.parts : assets'[place'[i]][p] = "whole"
  BY <1>3, <1>4
<1> QED BY <1>6, <1>7, <1>8 DEF Settled, file

\* A change of the forge, or none, that brings no item of the list to the front while an
\* export is at work.
LEMMA EventCovered ==
  ASSUME Typed, Covered, UNCHANGED <<forge, kind, place, disk, pc, page, queue, more, base, barred>>,
         \A i \in Items : steady'[i] \subseteq steady[i], there' \ short' \subseteq there \ short,
         shrunk => shrunk',
         pc \in Active /\ ~shrunk' => \A k \in 1..Len(list) :
                                        \E j \in 1..Len(list') : j >= k /\ list'[j] = list[k]
  PROVE  Covered'
<1>1. list \in Seq(Items) /\ page \in Nat \ {0} /\ PageSize \in Nat
  BY Bounds DEF Typed, ServerOK, LoopOK
<1>2. ASSUME pc \in Active, ~shrunk', NEW i \in Items, NEW n \in Nat, Beyond(list, i, n)
      PROVE  Beyond(list', i, n)
  <2>1. PICK k \in 1..Len(list) : list[k] = i /\ k > n * PageSize
    BY <1>2 DEF Beyond
  <2>2. PICK j \in 1..Len(list') : j >= k /\ list'[j] = list[k]
    BY <1>2
  <2>3. n * PageSize \in Nat /\ k \in Nat /\ j \in Int
    <3>1. \A x, y \in Nat : x * y \in Nat
      OBVIOUS
    <3> QED BY <1>1, <3>1
  <2> DEFINE a == n * PageSize
  <2> HIDE DEF a
  <2>4. j > a
    BY <2>1, <2>2, <2>3 DEF a
  <2> QED BY <2>1, <2>2, <2>4 DEF Beyond, a
<1>3. ASSUME NEW i \in Items, Wanted(i)' PROVE Reached(i)'
  <2>1. Wanted(i) /\ ~shrunk'
    BY <1>3 DEF Wanted, Skips
  <2>2. Reached(i)
    BY <2>1 DEF Covered
  <2>3. Settled(i) => Settled(i)'
    BY SettledStays DEF disk
  <2>4. pc = "page" => Settled(i)' \/ Beyond(list', i, page - 1)
    <3>1. page - 1 \in Nat
      BY <1>1
    <3> QED BY <1>2, <2>1, <2>2, <2>3, <3>1 DEF Reached, Active
  <2>5. pc \in {"item", "parts", "write"} =>
          Settled(i)' \/ Queued(i) \/ (more /\ Beyond(list', i, page))
    BY <1>1, <1>2, <2>1, <2>2, <2>3 DEF Reached, Active
  <2>6. pc = "ok" => Settled(i)'
    BY <2>2, <2>3 DEF Reached
  <2>7. /\ Queued(i)' <=> Queued(i)
        /\ Beyond(list, i, page)' <=> Beyond(list', i, page)
        /\ Beyond(list, i, page - 1)' <=> Beyond(list', i, page - 1)
    BY DEF Queued, Beyond
  <2> QED BY <2>4, <2>5, <2>6, <2>7 DEF Reached
<1> QED BY <1>3 DEF Covered

LEMMA CreateCovered == ASSUME Typed, Covered, NEW i \in Items, Create(i) PROVE Covered'
<1>1. PICK n \in 1..Len(list) + 1 : list' = InsertAt(list, n, i)
  BY DEF Create
<1>2. \A k \in 1..Len(list) : \E j \in 1..Len(list') : j >= k /\ list'[j] = list[k]
  <2>1. list \in Seq(Items)
    BY DEF Typed, ServerOK
  <2>2. \A k \in 1..Len(list) :
          \E j \in 1..Len(InsertAt(list, n, i)) : j >= k /\ InsertAt(list, n, i)[j] = list[k]
    BY <2>1, InsertKeeps
  <2> QED BY <1>1, <2>2
<1> QED BY <1>2, EventCovered DEF Create, loop, history

\* The list as it was.
LEMMA SameList ==
  ASSUME Typed, list' = list
  PROVE  \A k \in 1..Len(list) : \E j \in 1..Len(list') : j >= k /\ list'[j] = list[k]
<1>1. Len(list) \in Nat
  BY DEF Typed, ServerOK
<1>2. ASSUME NEW k \in 1..Len(list)
      PROVE  \E j \in 1..Len(list') : j >= k /\ list'[j] = list[k]
  <2>1. k \in 1..Len(list') /\ list'[k] = list[k] /\ k >= k
    BY <1>1
  <2> QED BY <2>1
<1> QED BY <1>2

LEMMA DeleteCovered == ASSUME Typed, Covered, NEW i \in Items, Delete(i) PROVE Covered'
<1>1. shrunk' = (shrunk \/ pc \in Active) /\ there' = there \ {i} /\ short' = short /\ steady' = steady
  BY DEF Delete
<1>2. (shrunk => shrunk') /\ (pc \in Active => shrunk')
  BY <1>1
<1> QED BY <1>1, <1>2, EventCovered DEF Delete, loop

LEMMA RemoveCovered ==
  ASSUME Typed, Covered, NEW i \in Items, NEW p \in Parts, RemovePart(i, p) PROVE Covered'
<1>1. there' = there /\ short \subseteq short'
  BY DEF RemovePart
<1>2. \A j \in Items : steady'[j] \subseteq steady[j]
  BY DEF RemovePart, Typed, HistoryOK
<1> QED BY <1>1, <1>2, SameList, EventCovered DEF RemovePart, loop

LEMMA BeginCovered == ASSUME Typed, Begin PROVE Covered'
<1>1. there' = There /\ page' = 1 /\ pc' = "page" /\ list' = list
  BY DEF Begin, Leave, server
<1>2. ASSUME NEW i \in There PROVE Beyond(list, i, page - 1)'
  <2>1. PICK k \in 1..Len(list) : list[k] = i
    BY Elements DEF Typed, ServerOK, There
  <2>2. (page' - 1) * PageSize = 0 /\ k > 0
    <3>1. page' - 1 = 0
      BY <1>1
    <3> QED BY <3>1, Bounds
  <2> QED BY <1>1, <2>1, <2>2 DEF Beyond
<1> QED BY <1>1, <1>2 DEF Covered, Wanted, Reached

\* The other steps of an export that succeeds leave the forge and the history alone.
LEMMA WantedStays ==
  ASSUME UNCHANGED <<forge, kind, history>>, NEW i \in Items, Wanted(i)' PROVE Wanted(i)
  BY DEF Wanted, Skips, history

LEMMA FetchCovered == ASSUME Typed, Covered, FetchPage PROVE Covered'
<1> DEFINE new == PageOf(list, page)
<1>1. /\ Len(queue') = Len(new) /\ new \in Seq(Items)
      /\ \A n \in 1..Len(new) : queue'[n].item = new[n]
  <2>1. /\ Len(queue') = Len(new) /\ new \in Seq(Items)
        /\ \A n \in 1..Len(queue') :
             new[n] \in Items /\ queue'[n] = [item |-> new[n], ver |-> ver[new[n]], parts |-> parts[new[n]]]
    BY FetchTyped
  <2> HIDE DEF new
  <2>2. ASSUME NEW n \in 1..Len(new) PROVE queue'[n].item = new[n]
    <3>1. queue'[n] = [item |-> new[n], ver |-> ver[new[n]], parts |-> parts[new[n]]]
      BY <2>1
    <3> QED BY <3>1
  <2> QED BY <2>1, <2>2
<1>2. \A k \in 1..Len(list) : k > (page - 1) * PageSize =>
         \/ \E j \in 1..Len(new) : new[j] = list[k]
         \/ k > page * PageSize /\ ~LastPage(list, page)
  <2>1. list \in Seq(Items) /\ page \in Nat \ {0}
    BY DEF Typed, ServerOK, LoopOK
  <2> QED BY <2>1, PagePlaces
<1> HIDE DEF new
<1>3. /\ pc = "page" /\ pc' = "item" /\ more' = ~LastPage(list, page) /\ page' = page
      /\ UNCHANGED <<server, disk, history>>
  BY DEF FetchPage
<1>4. ASSUME NEW i \in Items, Wanted(i)' PROVE Reached(i)'
  <2>1. Wanted(i)
    BY <1>3, <1>4, WantedStays DEF server
  <2>2. CASE Settled(i)
    <3>1. Settled(i)'
      BY <1>3, <2>2, SettledStays DEF server, disk, history
    <3> QED BY <1>3, <3>1 DEF Reached
  <2>3. CASE Beyond(list, i, page - 1)
    <3>1. PICK k \in 1..Len(list) : list[k] = i /\ k > (page - 1) * PageSize
      BY <2>3 DEF Beyond
    <3>2. CASE \E j \in 1..Len(new) : new[j] = list[k]
      <4>1. Queued(i)'
        BY <1>1, <3>1, <3>2 DEF Queued
      <4> QED BY <1>3, <4>1 DEF Reached
    <3>3. CASE k > page * PageSize /\ ~LastPage(list, page)
      <4>1. Beyond(list, i, page)'
        BY <1>3, <3>1, <3>3 DEF Beyond, server
      <4>2. more'
        BY <1>3, <3>3
      <4> QED BY <1>3, <4>1, <4>2 DEF Reached
    <3> QED BY <1>2, <3>1, <3>2, <3>3
  <2> QED BY <1>3, <2>1, <2>2, <2>3 DEF Covered, Reached
<1> QED BY <1>4 DEF Covered

LEMMA NextPageCovered == ASSUME Typed, Covered, NextPage \/ Return PROVE Covered'
<1>1. /\ pc = "item" /\ queue = <<>> /\ UNCHANGED <<server, disk, history>>
      /\ \/ more /\ pc' = "page" /\ page' = page + 1
         \/ ~more /\ pc' = "ok"
  BY DEF NextPage, Return
<1>2. ASSUME NEW i \in Items, Wanted(i)' PROVE Reached(i)'
  <2>1. Wanted(i)
    BY <1>1, <1>2, WantedStays DEF server
  <2>2. Settled(i) => Settled(i)'
    BY <1>1, SettledStays DEF server, disk, history
  <2>3. ~Queued(i)
    <3>1. 1..Len(queue) = {}
      BY <1>1
    <3> QED BY <3>1 DEF Queued
  <2>4. Settled(i) \/ (more /\ Beyond(list, i, page))
    BY <1>1, <2>1, <2>3 DEF Covered, Reached
  <2>5. CASE more /\ pc' = "page" /\ page' = page + 1
    <3>1. page' - 1 = page /\ list' = list
      BY <1>1, <2>5 DEF server, Typed, LoopOK
    <3>2. Beyond(list, i, page) => Beyond(list, i, page - 1)'
      BY <3>1 DEF Beyond
    <3> QED BY <2>2, <2>4, <2>5, <3>2 DEF Reached
  <2>6. CASE ~more /\ pc' = "ok"
    BY <2>2, <2>4, <2>6 DEF Reached
  <2> QED BY <1>1, <2>5, <2>6
<1> QED BY <1>2 DEF Covered

\* What is not the item it is at stays in the queue behind it.
LEMMA QueuedBehind ==
  ASSUME Typed, queue # <<>>, queue' = Tail(queue), NEW i, i # It.item, Queued(i) PROVE Queued(i)'
<1>1. PICK n \in 1..Len(queue) : queue[n].item = i
  BY DEF Queued
<1>2. /\ Len(queue) \in Nat /\ It = queue[1] /\ Len(queue') = Len(queue) - 1
      /\ \A m \in 1..Len(queue) - 1 : queue'[m] = queue[m + 1]
  BY ItIs
<1>3. n # 1
  BY <1>1, <1>2
<1>4. n - 1 \in 1..Len(queue') /\ (n - 1) + 1 = n /\ n - 1 \in 1..Len(queue) - 1
  BY <1>2, <1>3
<1>5. queue'[n - 1].item = i
  BY <1>1, <1>2, <1>4
<1> QED BY <1>4, <1>5 DEF Queued

LEMMA SkipCovered == ASSUME Typed, Covered, Skip PROVE Covered'
<1>1. /\ pc = "item" /\ pc' = "item" /\ queue # <<>> /\ queue' = Tail(queue) /\ Skips(It.item)
      /\ UNCHANGED <<server, disk, page, more, history>>
  BY DEF Skip
<1>2. ASSUME NEW i \in Items, Wanted(i)' PROVE Reached(i)'
  <2>1. Wanted(i) /\ i # It.item
    BY <1>1, <1>2, WantedStays DEF server, Wanted
  <2>2. Settled(i) => Settled(i)'
    BY <1>1, SettledStays DEF server, disk, history
  <2>3. Queued(i) => Queued(i)'
    BY <1>1, <2>1, QueuedBehind
  <2>4. Beyond(list, i, page)' <=> Beyond(list, i, page)
    BY <1>1 DEF Beyond, server
  <2> QED BY <1>1, <2>1, <2>2, <2>3, <2>4 DEF Covered, Reached
<1> QED BY <1>2 DEF Covered

\* What is got of an item leaves the page where it is.
LEMMA ItemCovered ==
  ASSUME Typed, Covered, Open \/ Comments \/ Download \/ Downloaded PROVE Covered'
<1>1. /\ pc \in {"item", "parts", "write"} /\ pc' \in {"item", "parts", "write"}
      /\ UNCHANGED <<server, files, loop, history>>
  BY DEF Open, Comments, Download, Downloaded, disk
<1>2. \A d \in Items, p \in Parts : assets[d][p] = "whole" => assets'[d][p] = "whole"
  <2>1. CASE assets' = assets
    BY <2>1
  <2>2. CASE Download
    <3>1. assets' = [assets EXCEPT ![place[It.item]][It.parts[sub]] = "whole"]
      BY <2>2 DEF Download
    <3> QED BY <3>1 DEF Typed, DiskOK
  <2> QED BY <2>1, <2>2 DEF Open, Comments, Downloaded, disk
<1>3. ASSUME NEW i \in Items, Wanted(i)' PROVE Reached(i)'
  <2>1. Wanted(i)
    BY <1>1, <1>3, WantedStays DEF server
  <2>2. Settled(i) => Settled(i)'
    BY <1>1, <1>2, SettledStays DEF server, history
  <2>3. (Beyond(list, i, page)' <=> Beyond(list, i, page)) /\ (Queued(i)' <=> Queued(i)) /\ more' = more
    BY <1>1 DEF Beyond, Queued, server, loop
  <2>4. Settled(i) \/ Queued(i) \/ (more /\ Beyond(list, i, page))
    BY <1>1, <2>1 DEF Covered, Reached
  <2>5. Settled(i)' \/ Queued(i)' \/ (more' /\ Beyond(list, i, page)')
    BY <2>2, <2>3, <2>4
  <2>6. pc' # "page" /\ pc' # "ok"
    BY <1>1
  <2> QED BY <2>5, <2>6 DEF Reached
<1> QED BY <1>3 DEF Covered

\* The file of the item it is at, and of every other that has the same place.
LEMMA WriteCovered == ASSUME Typed, Remembered, Gathered, Covered, Write PROVE Covered'
<1> DEFINE j == It.item
           d == place[j]
<1>1. /\ queue # <<>> /\ j \in Items /\ d \in Items /\ files'[d] = Whole(j, It.ver, got)
  BY WriteTyped
<1>2. /\ pc = "write" /\ pc' = "item" /\ queue' = Tail(queue)
      /\ files' = [files EXCEPT ![d] = Whole(j, It.ver, got)]
      /\ UNCHANGED <<server, assets, page, more, history>>
  BY DEF Write
<1>3. It = queue[1] /\ 1 \in 1..Len(queue) /\ It.ver \in 0..MaxVer
  BY <1>1, ItIs, EntryFields
<1>4. base[j] <= It.ver
  BY <1>3 DEF Remembered, Told
<1>5. kind = "releases" => \A p \in got : assets[d][p] = "whole"
  BY <1>2 DEF Gathered
<1>6. ~barred /\ j \in there \ short => Due(j) \subseteq got
  BY <1>2 DEF Gathered
<1>7. It.ver >= base[j]
  <2>1. It.ver \in Nat /\ base[j] \in Nat
    BY <1>1, <1>3, Bounds DEF Typed, HistoryOK
  <2> QED BY <1>4, <2>1
<1> HIDE DEF j, d
<1>8. ASSUME NEW i \in Items, Wanted(i)', place[i] = d PROVE Settled(i)'
  <2> DEFINE file == Whole(j, It.ver, got)
  <2>1. file.state = "whole" /\ file.of = {j} /\ file.ver = It.ver /\ file.parts = got
    BY DEF Whole
  <2> HIDE DEF file
  <2>2. files'[place[i]] = file
    BY <1>1, <1>8 DEF file
  <2>3. Wanted(i)
    BY <1>2, <1>8, WantedStays DEF server
  <2>4. Alone(i) => file.of = {i}
    BY <1>1, <1>8, <2>1 DEF Alone, d
  <2>5. i \in file.of => file.ver >= base[i] /\ Due(i) \subseteq file.parts
    BY <1>6, <1>7, <2>1, <2>3 DEF Wanted
  <2>6. kind = "releases" => \A p \in file.parts : assets[place[i]][p] = "whole"
    BY <1>5, <1>8, <2>1
  <2>7. /\ kind' = kind /\ place' = place /\ assets' = assets /\ base' = base
        /\ (Alone(i)' <=> Alone(i)) /\ Due(i)' = Due(i)
    BY <1>2 DEF server, history, Alone, Due, Keeps
  <2>8. files'[place'[i]] = file
    BY <2>2, <2>7
  <2> QED BY <2>1, <2>4, <2>5, <2>6, <2>7, <2>8 DEF Settled
<1>9. ASSUME NEW i \in Items, Wanted(i)' PROVE Reached(i)'
  <2>1. Wanted(i)
    BY <1>2, <1>9, WantedStays DEF server
  <2>2. CASE place[i] = d
    BY <1>2, <1>8, <1>9, <2>2 DEF Reached
  <2>3. CASE place[i] # d
    <3>1. i # j /\ files'[place[i]] = files[place[i]]
      <4>1. place[i] \in Items
        BY Placed
      <4> QED BY <1>2, <2>3, <4>1 DEF d, Typed, DiskOK
    <3>2. Settled(i) => Settled(i)'
      BY <1>2, <3>1, SettledStays DEF server, history
    <3>3. Queued(i) => Queued(i)'
      BY <1>1, <1>2, <3>1, QueuedBehind DEF j
    <3>4. Beyond(list, i, page)' <=> Beyond(list, i, page)
      BY <1>2 DEF Beyond, server
    <3> QED BY <1>2, <2>1, <3>2, <3>3, <3>4 DEF Covered, Reached
  <2> QED BY <2>2, <2>3
<1> QED BY <1>9 DEF Covered

LEMMA CoveredNext == Typed /\ Remembered /\ Gathered /\ Covered /\ [Next]_vars => Covered'
<1> SUFFICES ASSUME Typed, Remembered, Gathered, Covered, [Next]_vars PROVE Covered'
  OBVIOUS
<1>1. ASSUME UNCHANGED vars PROVE Covered'
  BY <1>1, SameList, EventCovered DEF vars, server, disk, loop, history
<1>2. ASSUME NEW i \in Items, Create(i) \/ Edit(i) \/ Delete(i)
                              \/ \E p \in Parts : AddPart(i, p) \/ RemovePart(i, p)
      PROVE  Covered'
  <2>1. CASE Edit(i)
    BY <2>1, SameList, EventCovered DEF Edit, disk, loop, history
  <2>2. ASSUME NEW p \in Parts, AddPart(i, p) PROVE Covered'
    BY <2>2, SameList, EventCovered DEF AddPart, disk, loop, history
  <2> QED BY <1>2, <2>1, <2>2, CreateCovered, DeleteCovered, RemoveCovered
<1>3. ASSUME Crash \/ Fail PROVE Covered'
  BY <1>3 DEF Crash, Fail, Forget, Covered, Wanted
<1>4. CASE Begin \/ FetchPage \/ NextPage \/ Return \/ Skip
  BY <1>4, BeginCovered, FetchCovered, NextPageCovered, SkipCovered
<1>5. CASE Open \/ Comments \/ Download \/ Downloaded \/ Write
  BY <1>5, ItemCovered, WriteCovered
<1>6. CASE Forbidden
  BY <1>6 DEF Forbidden, Covered, Wanted
<1>7. CASE NotFound
  BY <1>3, <1>7 DEF NotFound
<1> QED BY <1>1, <1>2, <1>3, <1>4, <1>5, <1>6, <1>7 DEF Next, Step

-----------------------------------------------------------------------------
(* The theorems.                                                               *)

Inv == Typed /\ Remembered /\ Gathered /\ Covered

LEMMA Invariant == Spec => []Inv
<1>1. Init => Inv
  BY InitTyped, InitRemembered, InitGathered, InitCovered DEF Inv
<1>2. Inv /\ [Next]_vars => Inv'
  BY TypedNext, RememberedNext, GatheredNext, CoveredNext DEF Inv
<1> QED BY <1>1, <1>2, PTL DEF Spec

\* Every variable stays in its range; while an item's parts are gathered there is an item, and
\* a file says of an item what it was at some time.
THEOREM TypeCorrect == Spec => []TypeOK
<1>1. Inv => TypeOK
  BY TypedIsTypeOK DEF Inv
<1> QED BY <1>1, Invariant, PTL

\* Whatever the number of items, comments and assets, of entries per page and of changes
\* meanwhile, a client whose export succeeds has gone through every item it owed, with every
\* comment or asset of it.
THEOREM ExportComplete == Spec => []SuccessMeansExported
<1>1. Inv => SuccessMeansExported
  <2> SUFFICES ASSUME Inv PROVE SuccessMeansExported
    OBVIOUS
  <2>1. ASSUME NEW i \in Owed, ~Skips(i)
        PROVE  LET file == files[place[i]]
               IN  /\ file.state = "whole" /\ (Alone(i) => file.of = {i})
                   /\ i \in file.of => /\ file.ver >= base[i]
                                      /\ {p \in steady[i] : Keeps(p)} \subseteq file.parts
    <3>1. pc = "ok" /\ ~shrunk /\ ~barred /\ i \in there \ short /\ i \in Items
      BY <2>1, TypedIsTypeOK DEF Owed, Inv, TypeOK
    <3>2. Settled(i)
      BY <2>1, <3>1 DEF Inv, Covered, Wanted, Reached
    <3> QED BY <3>2 DEF Settled, Due
  <2> QED BY <2>1 DEF SuccessMeansExported
<1> QED BY <1>1, Invariant, PTL

\* Whatever earlier exports and crashes left in the releases' places, after an export that
\* succeeds every asset a release.json claims is there and whole.
THEOREM ClaimsRight == Spec => []ClaimsRepaired
<1>1. Inv => ClaimsRepaired
  <2> SUFFICES ASSUME Inv, kind = "releases", NEW i \in Owed, NEW p \in files[place[i]].parts
               PROVE  assets[place[i]][p] = "whole"
    BY DEF ClaimsRepaired
  <2>1. pc = "ok" /\ ~shrunk /\ ~barred /\ i \in there \ short /\ i \in Items
    BY TypedIsTypeOK DEF Owed, Inv, TypeOK
  <2>2. ~Skips(i)
    BY DEF Skips
  <2>3. Settled(i)
    BY <2>1, <2>2 DEF Inv, Covered, Wanted, Reached
  <2> QED BY <2>3 DEF Settled
<1> QED BY <1>1, Invariant, PTL
=============================================================================
