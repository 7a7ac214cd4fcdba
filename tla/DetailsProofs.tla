---------------------------- MODULE DetailsProofs -----------------------------
(* Theorems about ProjectDetails for any number of projects and snippets, any *)
(* page size and any limit on the goroutines.                                 *)
EXTENDS ProjectDetails, SequenceTheorems, TLAPS

\* What a goroutine has gathered: the project, its wiki, and snippets 1 to n.
PartsOf(i) == [project : {i}, id : 0..MaxSnippets, kind : {"project", "wiki", "snippet"}]
Before(i) == <<Part(i, "project", 0)>>
             \o (IF wiki[i] = "pages" THEN <<Part(i, "wiki", 0)>> ELSE <<>>)
First(i, n) == [k \in 1..n |-> Snippet(i, k)]
Total(i) == IF i \in barred THEN 0 ELSE snippets[i]

\* What the model does not need a type for.
ServerOK == /\ snippets \in [Projects -> 0..MaxSnippets] /\ barred \in SUBSET Projects
            /\ page \in [Projects -> Nat \ {0}]
            /\ found = [i \in Projects |-> found[i]] /\ results = [i \in Projects |-> results[i]]

\* The loop has started the goroutines of the projects before next, and no others.
Started == \A i \in Projects : i < next <=> phase[i] # "none"

\* What a goroutine has found and put into its slot, by where it is.
Gathered(i) ==
  /\ phase[i] = "none" => page[i] = 1 /\ found[i] = <<>> /\ results[i] = <<>>
  /\ phase[i] = "wiki" => /\ page[i] = 1 /\ found[i] = <<Part(i, "project", 0)>>
                          /\ results[i] = <<>>
  /\ phase[i] = "snippets" => /\ found[i] = Before(i) \o First(i, Past(i))
                              /\ Past(i) \in 0..Total(i) /\ results[i] = <<>>
                              /\ page[i] = 1 \/ Past(i) < Total(i)
  /\ phase[i] = "done" => /\ found[i] = Before(i) \o First(i, Total(i)) /\ results[i] = found[i]
                          /\ page[i] = 1 \/ Past(i) < Total(i)
  /\ phase[i] = "error" => /\ cancelled /\ results[i] = <<>>
                           /\ found[i] \in Seq(PartsOf(i))
                           /\ page[i] = 1 \/ Past(i) < Total(i)

\* After g.Wait nothing runs, and what was returned is the slots, all of them filled.
WaitedFor == pc # "dispatch" => /\ next \notin Projects /\ Working = {}
                                /\ pc = "failed" <=> cancelled
                                /\ pc = "returned" => returned = FlattenSeq(results)

\* What SameAsSerial and the types rest on: a goroutine goes through the pages of its own
\* project and fills its own slot (gitlab.go:147-199, wiki.go, snippet.go).
InOrder == /\ pc \in {"dispatch", "returned", "failed"} /\ cancelled \in BOOLEAN
           /\ next \in 1..N + 1
           /\ phase \in [Projects -> {"none", "wiki", "snippets", "done", "error"}]
           /\ ServerOK /\ Started /\ WaitedFor
           /\ \A i \in Projects : Gathered(i)

-----------------------------------------------------------------------------
(* Pages of snippets. *)

LEMMA Products ==
  ASSUME NEW p \in Nat \ {0}, NEW s \in Nat \ {0}
  PROVE  /\ (p - 1) * s \in Nat /\ p * s = (p - 1) * s + s
         /\ ((p + 1) - 1) * s = p * s /\ (1 - 1) * s = 0
<1>1. PICK q \in Nat : p = q + 1
  <2>1. p - 1 \in Nat /\ p = (p - 1) + 1
    OBVIOUS
  <2> QED BY <2>1
<1>2. q * s \in Nat
  OBVIOUS
<1>3. (q + 1) * s = q * s + s
  OBVIOUS
<1> QED BY <1>1, <1>2, <1>3

LEMMA PartTypes ==
  ASSUME NEW i \in Projects
  PROVE  /\ Part(i, "project", 0) \in PartsOf(i) /\ Part(i, "wiki", 0) \in PartsOf(i)
         /\ \A k \in 1..MaxSnippets : Snippet(i, k) \in PartsOf(i)
  BY DetailsAssumption DEF Part, Snippet, PartsOf

LEMMA BeforeType == ASSUME NEW i \in Projects PROVE Before(i) \in Seq(PartsOf(i))
<1>1. <<Part(i, "project", 0)>> \in Seq(PartsOf(i)) /\ <<Part(i, "wiki", 0)>> \in Seq(PartsOf(i))
  BY PartTypes
<1>2. <<>> \in Seq(PartsOf(i))
  OBVIOUS
<1> QED BY <1>1, <1>2, ConcatProperties DEF Before

LEMMA FirstType == ASSUME NEW i \in Projects, NEW n \in 0..MaxSnippets
                   PROVE  /\ First(i, n) \in Seq(PartsOf(i)) /\ Len(First(i, n)) = n
                          /\ \A k \in 1..n : First(i, n)[k] = Snippet(i, k)
<1>1. \A k \in 1..n : Snippet(i, k) \in PartsOf(i)
  BY PartTypes, DetailsAssumption
<1>2. First(i, n) \in [1..n -> PartsOf(i)]
  BY <1>1 DEF First
<1>3. First(i, n) \in Seq(PartsOf(i))
  BY <1>2, DetailsAssumption
<1> QED BY <1>2, <1>3 DEF First

\* A page that ends at snippet n continues what ended where it begins.
LEMMA NextPageOf ==
  ASSUME NEW i \in Projects, NEW past \in Nat, NEW size \in Nat, past + size <= MaxSnippets
  PROVE  LET new == [k \in 1..size |-> Snippet(i, past + k)]
         IN  /\ new \in Seq(PartsOf(i))
             /\ (Before(i) \o First(i, past)) \o new = Before(i) \o First(i, past + size)
<1> DEFINE new == [k \in 1..size |-> Snippet(i, past + k)]
<1>1. past \in 0..MaxSnippets /\ past + size \in 0..MaxSnippets
  BY DetailsAssumption
<1>2. \A k \in 1..size : past + k \in 1..MaxSnippets
  BY DetailsAssumption
<1>3. new \in [1..size -> PartsOf(i)]
  BY <1>2, PartTypes
<1>4. new \in Seq(PartsOf(i)) /\ Len(new) = size
  BY <1>3
<1>5. First(i, past) \o new = First(i, past + size)
  <2> DEFINE a == First(i, past)
             b == First(i, past + size)
  <2>1. /\ a \in Seq(PartsOf(i)) /\ Len(a) = past
        /\ \A k \in 1..past : a[k] = Snippet(i, k)
    BY <1>1, FirstType
  <2>2. /\ b \in Seq(PartsOf(i)) /\ Len(b) = past + size
        /\ \A k \in 1..past + size : b[k] = Snippet(i, k)
    BY <1>1, FirstType
  <2>3. \A k \in 1..size : new[k] = Snippet(i, past + k)
    OBVIOUS
  <2> HIDE DEF a, b, new
  <2>4. /\ a \o new \in Seq(PartsOf(i)) /\ Len(a \o new) = past + size
        /\ \A k \in 1..past + size : (a \o new)[k] = IF k <= past THEN a[k] ELSE new[k - past]
    BY <1>4, <2>1, ConcatProperties
  <2>5. \A k \in 1..past + size : (a \o new)[k] = b[k]
    <3> SUFFICES ASSUME NEW k \in 1..past + size PROVE (a \o new)[k] = b[k]
      OBVIOUS
    <3>1. CASE k <= past
      BY <2>1, <2>2, <2>4, <3>1
    <3>2. CASE k > past
      <4>1. k - past \in 1..size /\ past + (k - past) = k
        BY <3>2
      <4>2. (a \o new)[k] = new[k - past]
        BY <2>4, <3>2
      <4>3. new[k - past] = Snippet(i, k)
        BY <2>3, <4>1
      <4> QED BY <2>2, <4>2, <4>3
    <3>3. k <= past \/ k > past
      OBVIOUS
    <3> QED BY <3>1, <3>2, <3>3
  <2>6. a \o new = b
    BY <2>2, <2>4, <2>5, SeqEqual
  <2> QED BY <2>6 DEF a, b
<1> HIDE DEF new
<1>6. (Before(i) \o First(i, past)) \o new = Before(i) \o (First(i, past) \o new)
  <2> DEFINE a == Before(i)
             b == First(i, past)
  <2>1. a \in Seq(PartsOf(i)) /\ b \in Seq(PartsOf(i)) /\ new \in Seq(PartsOf(i))
    BY <1>1, <1>4, BeforeType, FirstType
  <2> HIDE DEF a, b
  <2>2. (a \o b) \o new = a \o (b \o new)
    BY <2>1, ConcatAssociative
  <2> QED BY <2>2 DEF a, b
<1> QED BY <1>4, <1>5, <1>6 DEF new

\* The size of the page after snippet past, and whether another one follows.
LEMMA PageSizes ==
  ASSUME InOrder, NEW i \in Projects, Past(i) \in 0..Total(i)
  PROVE  \E size \in Nat :
           /\ OnPage(i) = [k \in 1..size |-> Snippet(i, Past(i) + k)]
           /\ Past(i) + size <= Total(i)
           /\ HasNext(i) => size = SnippetPage /\ Past(i) + size < Total(i)
           /\ ~HasNext(i) => Past(i) + size = Total(i)
<1> DEFINE left == IF i \in barred THEN 0 ELSE snippets[i] - Past(i)
           size == IF left < SnippetPage THEN left ELSE SnippetPage
           past == Past(i)
<1>1. page[i] \in Nat \ {0} /\ snippets[i] \in Nat /\ SnippetPage \in Nat \ {0}
  BY DetailsAssumption DEF InOrder, ServerOK
<1>2. page[i] * SnippetPage = past + SnippetPage /\ past \in Nat
  BY <1>1, Products DEF Past
<1>3. HasNext(i) <=> i \notin barred /\ snippets[i] > past + SnippetPage
  BY <1>2 DEF HasNext
<1>4. past <= Total(i) /\ Total(i) \in Nat
  BY <1>1 DEF Total
<1>5. CASE i \in barred
  <2>1. size = 0 /\ Total(i) = 0 /\ past = 0 /\ ~HasNext(i)
    BY <1>1, <1>2, <1>3, <1>4, <1>5 DEF Total
  <2>2. OnPage(i) = [k \in 1..size |-> Snippet(i, Past(i) + k)]
    BY DEF OnPage
  <2> HIDE DEF size
  <2> QED BY <2>1, <2>2
<1>6. CASE i \notin barred
  <2>1. Total(i) = snippets[i] /\ left = snippets[i] - past
    BY <1>6 DEF Total
  <2>2. OnPage(i) = [k \in 1..size |-> Snippet(i, Past(i) + k)]
    BY DEF OnPage
  <2>3. size \in Nat /\ past + size <= Total(i)
    BY <1>1, <1>2, <1>4, <2>1
  <2>4. HasNext(i) => size = SnippetPage /\ past + size < Total(i)
    BY <1>1, <1>2, <1>3, <1>4, <2>1
  <2>5. ~HasNext(i) => past + size = Total(i)
    BY <1>1, <1>2, <1>3, <1>4, <1>6, <2>1
  <2> HIDE DEF size
  <2> QED BY <2>2, <2>3, <2>4, <2>5
<1> QED BY <1>5, <1>6

LEMMA TotalType == ASSUME InOrder, NEW i \in Projects
                   PROVE  Total(i) \in Nat /\ Total(i) <= MaxSnippets /\ Total(i) \in 0..MaxSnippets
  BY DetailsAssumption DEF InOrder, ServerOK, Total

-----------------------------------------------------------------------------
(* InOrder is inductive. *)

LEMMA InitInOrder == Init => InOrder
<1> SUFFICES ASSUME Init PROVE InOrder
  OBVIOUS
<1>1. ServerOK
  BY DEF Init, ServerOK
<1>2. Started
  BY DetailsAssumption DEF Init, Started, Projects
<1>3. WaitedFor
  BY DEF Init, WaitedFor
<1>4. \A i \in Projects : Gathered(i)
  BY DEF Init, Gathered
<1>5. next \in 1..N + 1
  BY DetailsAssumption DEF Init
<1>6. /\ phase \in [Projects -> {"none", "wiki", "snippets", "done", "error"}]
      /\ pc = "dispatch" /\ cancelled = FALSE
  BY DEF Init
<1> QED BY <1>1, <1>2, <1>3, <1>4, <1>5, <1>6 DEF InOrder

\* A goroutine's step leaves the other projects' alone.
LEMMA GatheredKept ==
  ASSUME NEW j \in Projects, Gathered(j), UNCHANGED server, cancelled => cancelled',
         phase'[j] = phase[j], page'[j] = page[j], found'[j] = found[j],
         results'[j] = results[j]
  PROVE  Gathered(j)'
  BY DEF Gathered, server, Before, First, Past, Total

LEMMA GoInOrder == InOrder /\ Go => InOrder'
<1> SUFFICES ASSUME InOrder, Go PROVE InOrder'
  OBVIOUS
<1> USE DEF InOrder
<1>1. next \in Projects /\ phase[next] = "none"
  BY DEF Go, Started, Projects
<1>2. next + 1 \in 1..N + 1
  BY <1>1, DetailsAssumption DEF Projects
<1>3. Started'
  <2> SUFFICES ASSUME NEW i \in Projects PROVE i < next + 1 <=> phase'[i] # "none"
    BY DEF Started, Go
  <2>1. i < next + 1 <=> i < next \/ i = next
    BY <1>1 DEF Projects
  <2> QED BY <1>1, <2>1 DEF Started, Go
<1>4. \A i \in Projects : Gathered(i)'
  <2> SUFFICES ASSUME NEW i \in Projects PROVE Gathered(i)'
    OBVIOUS
  <2>1. CASE i = next
    BY <1>1, <2>1 DEF Go, Gathered, ServerOK
  <2>2. CASE i # next
    BY <2>2, GatheredKept DEF Go, ServerOK
  <2> QED BY <2>1, <2>2
<1> QED BY <1>2, <1>3, <1>4 DEF Go, ServerOK, server, WaitedFor

LEMMA WaitInOrder == InOrder /\ Wait => InOrder'
<1> SUFFICES ASSUME InOrder, Wait PROVE InOrder'
  OBVIOUS
<1> USE DEF InOrder
<1>1. \A i \in Projects : Gathered(i)'
  BY GatheredKept DEF Wait
<1>2. WaitedFor'
  BY DEF Wait, WaitedFor, Working
<1> QED BY <1>1, <1>2 DEF Wait, ServerOK, server, Started

\* A goroutine steps while the loop or g.Wait goes on.
LEMMA StepWhileWaiting == ASSUME InOrder, NEW i \in Projects, phase[i] \in {"wiki", "snippets"}
                          PROVE  pc = "dispatch"
  BY DEF InOrder, WaitedFor, Working

LEMMA WikiInOrder == ASSUME InOrder, NEW i \in Projects, Wiki(i) PROVE InOrder'
<1> USE DEF InOrder
<1>1. pc = "dispatch" /\ phase[i] = "wiki"
  BY StepWhileWaiting DEF Wiki
<1>2. Gathered(i)'
  <2> DEFINE project == Part(i, "project", 0)
             pages == Part(i, "wiki", 0)
  <2>1. found[i] = <<project>> /\ page[i] = 1 /\ results[i] = <<>>
    BY <1>1 DEF Gathered
  <2>2. Past(i) = 0 /\ Total(i) \in Nat
    BY <2>1, Products, TotalType, DetailsAssumption DEF Past
  <2>3. First(i, 0) = <<>>
    BY DEF First
  <2>4. found'[i] = Before(i) \o First(i, 0)
    <3>1. Before(i) \o <<>> = Before(i)
      BY BeforeType, ConcatEmptySeq
    <3>2. CASE wiki[i] = "pages"
      <4>1. found'[i] = Append(<<project>>, pages)
        BY <2>1, <3>2 DEF Wiki, ServerOK
      <4>2. <<project>> \in Seq(PartsOf(i)) /\ pages \in PartsOf(i)
        BY PartTypes
      <4>3. Append(<<project>>, pages) = <<project>> \o <<pages>>
        BY <4>2, AppendIsConcat
      <4> QED BY <2>3, <3>1, <3>2, <4>1, <4>3 DEF Before
    <3>3. CASE wiki[i] # "pages"
      <4>1. <<project>> \in Seq(PartsOf(i))
        BY PartTypes
      <4>2. <<project>> \o <<>> = <<project>>
        BY <4>1, ConcatEmptySeq
      <4> QED BY <2>1, <2>3, <3>1, <3>3, <4>2 DEF Wiki, ServerOK, Before
    <3> QED BY <3>2, <3>3
  <2>5. phase'[i] = "snippets" /\ results'[i] = <<>> /\ Past(i)' = Past(i) /\ page'[i] = 1
    BY <2>1 DEF Wiki, Past
  <2>6. Before(i)' = Before(i) /\ Total(i)' = Total(i) /\ First(i, Past(i))' = First(i, Past(i))
    BY <2>5 DEF Wiki, server, Before, Total, First, Past
  <2>7. Past(i)' \in 0..Total(i)' /\ found'[i] = Before(i)' \o First(i, Past(i))'
    BY <2>2, <2>4, <2>5, <2>6
  <2> QED BY <2>5, <2>7 DEF Gathered
<1>3. \A j \in Projects : Gathered(j)'
  BY <1>2, GatheredKept DEF Wiki, ServerOK
<1>4. Started'
  BY <1>1 DEF Wiki, Started
<1>5. ServerOK' /\ WaitedFor'
  BY <1>1 DEF Wiki, ServerOK, WaitedFor, server
<1> QED BY <1>1, <1>3, <1>4, <1>5 DEF Wiki

LEMMA SnippetsInOrder == ASSUME InOrder, NEW i \in Projects, Snippets(i) PROVE InOrder'
<1> USE DEF InOrder
<1>1. pc = "dispatch" /\ phase[i] = "snippets"
  BY StepWhileWaiting DEF Snippets
<1>2. /\ found[i] = Before(i) \o First(i, Past(i)) /\ Past(i) \in 0..Total(i)
      /\ results[i] = <<>> /\ (page[i] = 1 \/ Past(i) < Total(i))
  BY <1>1 DEF Gathered
<1>3. PICK size \in Nat :
        /\ OnPage(i) = [k \in 1..size |-> Snippet(i, Past(i) + k)]
        /\ Past(i) + size <= Total(i)
        /\ HasNext(i) => size = SnippetPage /\ Past(i) + size < Total(i)
        /\ ~HasNext(i) => Past(i) + size = Total(i)
  BY <1>2, PageSizes
<1>4. found'[i] = Before(i) \o First(i, Past(i) + size)
  <2>1. Past(i) \in Nat /\ Past(i) + size <= MaxSnippets
    BY <1>2, <1>3, TotalType, DetailsAssumption
  <2>2. found'[i] = found[i] \o OnPage(i)
    BY DEF Snippets, ServerOK
  <2> QED BY <1>2, <1>3, <2>1, <2>2, NextPageOf
<1>5. page[i] \in Nat \ {0} /\ page[i] + 1 \in Nat \ {0}
  BY DEF ServerOK
<1>6. /\ \A m : First(i, m)' = First(i, m)
      /\ Before(i)' = Before(i) /\ Total(i)' = Total(i)
  BY DEF Snippets, server, Before, Total, First
<1>7. Gathered(i)'
  <2>1. CASE HasNext(i)
    <3>1. phase'[i] = "snippets" /\ results'[i] = <<>> /\ page'[i] = page[i] + 1
      BY <1>1, <1>2, <2>1 DEF Snippets, ServerOK
    <3>2. Past(i)' = Past(i) + size
      BY <1>3, <1>5, <2>1, <3>1, Products, DetailsAssumption DEF Past
    <3>3. Past(i)' \in 0..Total(i) /\ Past(i)' < Total(i)
      BY <1>2, <1>3, <2>1, <3>2, TotalType
    <3> QED BY <1>4, <1>6, <3>1, <3>2, <3>3 DEF Gathered
  <2>2. CASE ~HasNext(i)
    <3>1. phase'[i] = "done" /\ results'[i] = found'[i] /\ page' = page
      BY <2>2 DEF Snippets, ServerOK
    <3>2. page'[i] = 1 \/ Past(i)' < Total(i)'
      BY <1>2, <1>6, <3>1 DEF Past
    <3> QED BY <1>3, <1>4, <1>6, <2>2, <3>1, <3>2 DEF Gathered
  <2> QED BY <2>1, <2>2
<1>8. \A j \in Projects : Gathered(j)'
  <2> SUFFICES ASSUME NEW j \in Projects, j # i PROVE Gathered(j)'
    BY <1>7
  <2> QED BY GatheredKept DEF Snippets, ServerOK
<1>9. Started'
  BY <1>1 DEF Snippets, Started
<1>10. ServerOK' /\ WaitedFor'
  <2>1. found' = [j \in Projects |-> found'[j]] /\ results' = [j \in Projects |-> results'[j]]
    BY DEF Snippets, ServerOK
  <2>2. page' \in [Projects -> Nat \ {0}]
    BY <1>5 DEF Snippets, ServerOK
  <2>3. WaitedFor'
    BY <1>1 DEF Snippets, WaitedFor
  <2> QED BY <2>1, <2>2, <2>3 DEF Snippets, ServerOK, server
<1>11. phase' \in [Projects -> {"none", "wiki", "snippets", "done", "error"}]
  BY DEF Snippets
<1> QED BY <1>1, <1>8, <1>9, <1>10, <1>11 DEF Snippets

LEMMA FailInOrder == ASSUME InOrder, NEW i \in Projects, Fail(i) PROVE InOrder'
<1> USE DEF InOrder
<1>1. pc = "dispatch" /\ phase[i] \in {"wiki", "snippets"}
  BY StepWhileWaiting DEF Fail, Working
<1>2. Total(i) \in 0..MaxSnippets
  BY TotalType
<1>3. found[i] \in Seq(PartsOf(i)) /\ (page[i] = 1 \/ Past(i) < Total(i))
  <2>1. CASE phase[i] = "wiki"
    <3>1. <<Part(i, "project", 0)>> \in Seq(PartsOf(i))
      BY PartTypes
    <3> QED BY <2>1, <3>1 DEF Gathered
  <2>2. CASE phase[i] = "snippets"
    <3>1. Past(i) \in 0..MaxSnippets /\ (page[i] = 1 \/ Past(i) < Total(i))
      BY <1>2, <2>2, DetailsAssumption DEF Gathered
    <3>2. found[i] \in Seq(PartsOf(i))
      <4> DEFINE a == Before(i)
                 b == First(i, Past(i))
      <4>1. a \in Seq(PartsOf(i)) /\ b \in Seq(PartsOf(i)) /\ found[i] = a \o b
        BY <2>2, <3>1, BeforeType, FirstType DEF Gathered
      <4> HIDE DEF a, b
      <4> QED BY <4>1, ConcatProperties
    <3> QED BY <3>1, <3>2 DEF Gathered
  <2> QED BY <1>1, <2>1, <2>2
<1>4. Gathered(i)'
  <2>1. found' = found /\ results' = results /\ cancelled' /\ phase'[i] = "error"
    BY DEF Fail
  <2>2. Past(i)' = Past(i) /\ Total(i)' = Total(i) /\ page' = page
    BY DEF Fail, Past, Total, server
  <2>3. results[i] = <<>>
    BY <1>1 DEF Gathered
  <2> QED BY <1>3, <2>1, <2>2, <2>3 DEF Gathered
<1>5. \A j \in Projects : Gathered(j)'
  BY <1>4, GatheredKept DEF Fail
<1> QED BY <1>1, <1>5 DEF Fail, Started, ServerOK, WaitedFor, server

\* In every state each project's goroutine has gone through the pages of its own project, in
\* order, and into its own slot.
THEOREM InOrderAlways == Spec => []InOrder
<1>1. InOrder /\ [Next]_vars => InOrder'
  <2> SUFFICES ASSUME InOrder, [Next]_vars PROVE InOrder'
    OBVIOUS
  <2>1. CASE UNCHANGED vars
    <3>1. \A i \in Projects : Gathered(i)'
      BY <2>1, GatheredKept DEF vars, InOrder
    <3> QED BY <2>1, <3>1 DEF vars, server, InOrder, ServerOK, Started, WaitedFor, Working
  <2> QED BY <2>1, GoInOrder, WaitInOrder, WikiInOrder, SnippetsInOrder, FailInOrder
          DEF Next, Step
<1> QED BY <1>1, InitInOrder, PTL DEF Spec

-----------------------------------------------------------------------------
\* Every variable keeps its type, no page past a project's last snippet is asked for, and
\* a slot holds what its own project's goroutine found.
THEOREM TypeCorrect == Spec => []TypeOK
<1>1. InOrder => TypeOK
  <2> SUFFICES ASSUME InOrder, NEW i \in Projects
               PROVE  /\ page[i] = 1 \/ (page[i] - 1) * SnippetPage < snippets[i]
                      /\ ToSet(found[i]) \subseteq [project : {i}, id : 0..MaxSnippets,
                                                    kind : {"project", "wiki", "snippet"}]
                      /\ results[i] \in {<<>>, found[i]}
    BY DEF InOrder, TypeOK
  <2>1. Total(i) \in 0..MaxSnippets /\ Total(i) <= snippets[i]
    BY TotalType DEF Total, InOrder, ServerOK
  <2>2. Gathered(i) /\ phase[i] \in {"none", "wiki", "snippets", "done", "error"}
    BY DEF InOrder
  <2>3. results[i] \in {<<>>, found[i]}
    BY <2>2 DEF Gathered
  <2>4. found[i] \in Seq(PartsOf(i))
    <3>1. CASE phase[i] = "none"
      <4>1. <<>> \in Seq(PartsOf(i))
        OBVIOUS
      <4> QED BY <2>2, <3>1, <4>1 DEF Gathered
    <3>2. CASE phase[i] = "wiki"
      <4>1. <<Part(i, "project", 0)>> \in Seq(PartsOf(i))
        BY PartTypes
      <4> QED BY <2>2, <3>2, <4>1 DEF Gathered
    <3>3. CASE phase[i] \in {"snippets", "done"}
      <4>1. PICK n \in 0..MaxSnippets : found[i] = Before(i) \o First(i, n)
        <5>1. CASE phase[i] = "snippets"
          <6>1. found[i] = Before(i) \o First(i, Past(i)) /\ Past(i) \in 0..Total(i)
            BY <2>2, <5>1 DEF Gathered
          <6>2. Past(i) \in 0..MaxSnippets
            BY <2>1, <6>1, DetailsAssumption
          <6> QED BY <6>1, <6>2
        <5>2. CASE phase[i] = "done"
          BY <2>1, <2>2, <5>2 DEF Gathered
        <5> QED BY <3>3, <5>1, <5>2
      <4> QED BY <4>1, BeforeType, FirstType, ConcatProperties
    <3>4. CASE phase[i] = "error"
      BY <2>2, <3>4 DEF Gathered
    <3> QED BY <2>2, <3>1, <3>2, <3>3, <3>4
  <2>5. ToSet(found[i]) \subseteq PartsOf(i)
    BY <2>4 DEF ToSet
  <2>6. page[i] = 1 \/ Past(i) < Total(i)
    BY <2>2 DEF Gathered
  <2>7. snippets[i] \in Nat /\ Past(i) \in Int
    BY DetailsAssumption DEF InOrder, ServerOK, Past
  <2>8. page[i] = 1 \/ (page[i] - 1) * SnippetPage < snippets[i]
    BY <2>1, <2>6, <2>7 DEF Past
  <2> QED BY <2>3, <2>5, <2>8 DEF PartsOf
<1> QED BY <1>1, InOrderAlways, PTL

\* Nothing is left running in the background once projectRepos has returned or failed,
\* whatever the limit and whichever requests fail.
THEOREM NothingRuns == Spec => []NothingLeftRunning
<1>1. InOrder => NothingLeftRunning
  BY DEF InOrder, WaitedFor, NothingLeftRunning
<1> QED BY <1>1, InOrderAlways, PTL

LEMMA SerialParts == ASSUME InOrder, NEW i \in Projects
                     PROVE  Serial(i) = Before(i) \o First(i, Total(i))
<1>1. CASE i \in barred
  <2>1. First(i, Total(i)) = <<>>
    BY <1>1 DEF First, Total
  <2> QED BY <1>1, <2>1 DEF Serial, Before
<1>2. CASE i \notin barred
  BY <1>2 DEF Serial, Before, First, Total
<1> QED BY <1>1, <1>2

\* What projectRepos returns is what the projects would give one after the other, in
\* whatever order their goroutines finish.
THEOREM SerialResult == Spec => []SameAsSerial
<1>1. InOrder => SameAsSerial
  <2> SUFFICES ASSUME InOrder, pc = "returned"
               PROVE  returned = FlattenSeq([i \in Projects |-> Serial(i)])
    BY DEF SameAsSerial
  <2>1. ~cancelled /\ Working = {} /\ next \notin Projects /\ returned = FlattenSeq(results)
    BY DEF InOrder, WaitedFor
  <2>2. \A i \in Projects : results[i] = Serial(i)
    <3> SUFFICES ASSUME NEW i \in Projects PROVE results[i] = Serial(i)
      OBVIOUS
    <3>1. i < next
      BY <2>1, DetailsAssumption DEF InOrder, Projects
    <3>2. phase[i] = "done"
      BY <2>1, <3>1 DEF InOrder, Started, Gathered, Working
    <3> QED BY <3>2, SerialParts DEF InOrder, Gathered
  <2>3. results = [i \in Projects |-> results[i]]
    BY DEF InOrder, ServerOK
  <2>4. results = [i \in Projects |-> Serial(i)]
    BY <2>2, <2>3
  <2> QED BY <2>1, <2>4
<1> QED BY <1>1, InOrderAlways, PTL
=============================================================================
