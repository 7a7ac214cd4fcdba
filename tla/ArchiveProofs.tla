---------------------------- MODULE ArchiveProofs -----------------------------
(* Archive implements Publish, for any objects, packs and number of events. *)
EXTENDS Archive, TLAPS

LEMMA TarballType == ASSUME NEW t \in Tarballs PROVE t.holds \subseteq Objects /\ t.closed \in BOOLEAN
  BY DEF Tarballs

LEMMA EmptyType == EmptyFile \in Tarballs
  BY DEF EmptyFile, Tarballs

LEMMA HoldsInMirror ==
  ASSUME TypeOK, NEW f, Exists(f) PROVE Holds(f) \subseteq InMirror
  BY DEF Exists, Holds, InMirror, LooseFiles, PackFiles, TypeOK

LEMMA MirrorType == TypeOK => InMirror \subseteq Objects
  BY DEF TypeOK, InMirror

\* A file is removed only when its objects are in another one.
LEMMA DeleteKeeps == ASSUME TypeOK, NEW f, Delete(f) PROVE InMirror' = InMirror
<1>1. PICK p \in Packs : f # [pack |-> p] /\ Holds(f) \subseteq packs[p]
  BY DEF Delete
<1>2. CASE f \in LooseFiles
  BY <1>1, <1>2 DEF Delete, InMirror, Holds, LooseFiles, TypeOK
<1>3. CASE f \notin LooseFiles
  <2>1. f \in PackFiles /\ f.pack \in Packs /\ f = [pack |-> f.pack]
    BY <1>3 DEF Delete, Exists, PackFiles
  <2>2. Holds(f) = packs[f.pack]
    BY <2>1 DEF Holds
  <2>3. packs' = [packs EXCEPT ![f.pack] = {}] /\ loose' = loose
    BY <1>3 DEF Delete
  <2>4. p # f.pack
    BY <1>1, <2>1
  <2> QED BY <1>1, <2>1, <2>2, <2>3, <2>4 DEF InMirror, TypeOK
<1> QED BY <1>2, <1>3

LEMMA RepackKeeps == TypeOK /\ Repack => InMirror' = InMirror
<1> SUFFICES ASSUME TypeOK, Repack PROVE InMirror' = InMirror
  OBVIOUS
<1>1. PICK p \in Packs : packs[p] = {} /\ packs' = [packs EXCEPT ![p] = InMirror]
  BY DEF Repack
<1>2. loose' = loose
  BY DEF Repack
<1>3. \A q \in Packs : packs'[q] = IF q = p THEN InMirror ELSE packs[q]
  BY <1>1 DEF TypeOK
<1> QED BY <1>1, <1>2, <1>3 DEF InMirror

-----------------------------------------------------------------------------
LEMMA InitTypeOK == Init => TypeOK
  BY ArchiveAssumption DEF Init, TypeOK

LEMMA StepTypeOK == ASSUME TypeOK, [Next]_vars PROVE TypeOK'
<1> USE DEF TypeOK
<1>1. CASE Fetch
  BY <1>1, MirrorType, ArchiveAssumption DEF Fetch, Event
<1>2. CASE Repack
  BY <1>2, MirrorType, ArchiveAssumption DEF Repack, Event
<1>3. ASSUME NEW f \in LooseFiles \cup PackFiles, Delete(f) PROVE TypeOK'
  BY <1>3 DEF Delete
<1>4. CASE Crash
  BY <1>4, ArchiveAssumption DEF Crash, Event, mirror
<1>5. CASE WalkLoose \/ WalkPacks
  BY <1>5 DEF WalkLoose, WalkPacks, LooseFiles, PackFiles, Files, mirror
<1>6. CASE Create
  BY <1>6, EmptyType, ArchiveAssumption DEF Create, mirror
<1>7. ASSUME NEW f \in todo, Write(f) PROVE TypeOK'
  <2>1. tmp \in Tarballs
    BY <1>7 DEF Write
  <2>2. Holds(f) \subseteq Objects
    BY <1>7, HoldsInMirror, MirrorType DEF Write
  <2>3. tmp' \in Tarballs
    BY <1>7, <2>1, <2>2 DEF Write, Tarballs
  <2> QED BY <1>7, <2>3, ArchiveAssumption DEF Write, mirror
<1>8. CASE Close
  <2>1. tmp \in Tarballs
    BY <1>8 DEF Close
  <2>2. tmp' \in Tarballs /\ tmp'.closed
    BY <1>8, <2>1 DEF Close, Tarballs
  <2> QED BY <1>8, <2>2, ArchiveAssumption DEF Close, mirror
<1>9. CASE Rename
  BY <1>9 DEF Rename, mirror
<1>10. CASE Fail
  BY <1>10 DEF Fail, mirror
<1>11. CASE UNCHANGED vars
  BY <1>11 DEF vars
<1> QED BY <1>1, <1>2, <1>3, <1>4, <1>5, <1>6, <1>7, <1>8, <1>9, <1>10, <1>11 DEF Next, Step

\* Every variable keeps its type, and nothing is renamed over out before it is closed.
THEOREM TypeCorrect == Spec => []TypeOK
  BY InitTypeOK, StepTypeOK, PTL DEF Spec

-----------------------------------------------------------------------------
(* Covered is inductive over the typed states. *)

LEMMA InitCovered == Init => Covered
  BY DEF Init, Covered

\* A file the walk found stays gone, or comes back as a pack of everything.
LEMMA EnvironmentCovered ==
  ASSUME TypeOK, Covered,
         Fetch \/ Repack \/ \E f \in LooseFiles \cup PackFiles : Delete(f)
  PROVE  Covered'
<1>1. CASE Fetch
  BY <1>1 DEF Fetch, Covered
<1>2. CASE Repack
  <2>1. PICK p \in Packs : packs[p] = {} /\ packs' = [packs EXCEPT ![p] = InMirror]
    BY <1>2 DEF Repack
  <2>2. loose' = loose /\ UNCHANGED <<out, tmp, pc, todo>>
    BY <1>2 DEF Repack
  <2>3. InMirror' = InMirror
    BY <1>2, RepackKeeps
  <2>4. LooseFiles' = LooseFiles
    BY <2>2 DEF LooseFiles
  <2>5. CASE [pack |-> p] \in todo
    <3>1. [pack |-> p] \notin [loose : Objects]
      OBVIOUS
    <3>2. Holds([pack |-> p])' = InMirror
      BY <2>1, <3>1 DEF Holds, TypeOK
    <3>3. InMirror' \subseteq Pending'
      BY <2>2, <2>3, <2>5, <3>2 DEF Pending
    <3> QED BY <2>2, <2>3, <2>4, <3>3 DEF Covered
  <2>6. CASE [pack |-> p] \notin todo
    <3>1. \A f \in todo : Holds(f)' = Holds(f) /\ (Exists(f)' <=> Exists(f))
      <4> SUFFICES ASSUME NEW f \in todo
                   PROVE  Holds(f)' = Holds(f) /\ (Exists(f)' <=> Exists(f))
        OBVIOUS
      <4>1. CASE f \in [loose : Objects]
        BY <2>2, <4>1 DEF Holds, Exists, LooseFiles, PackFiles
      <4>2. CASE f \in [pack : Packs]
        <5>1. f.pack \in Packs /\ f = [pack |-> f.pack] /\ f.pack # p
          BY <2>6, <4>2
        <5>2. packs'[f.pack] = packs[f.pack]
          BY <2>1, <5>1 DEF TypeOK
        <5> QED BY <2>2, <4>2, <5>1, <5>2 DEF Holds, Exists, LooseFiles, PackFiles
      <4> QED BY <4>1, <4>2 DEF TypeOK, Files
    <3>2. Pending' = Pending /\ (Gone' <=> Gone)
      BY <2>2, <3>1 DEF Pending, Gone
    <3> QED BY <2>2, <2>3, <2>4, <3>2 DEF Covered
  <2> QED BY <2>5, <2>6
<1>3. ASSUME NEW f \in LooseFiles \cup PackFiles, Delete(f) PROVE Covered'
  <2>1. InMirror' = InMirror
    BY <1>3, DeleteKeeps
  <2>2. UNCHANGED <<out, tmp, pc, todo>>
    BY <1>3 DEF Delete
  <2>3. loose' \subseteq loose
    BY <1>3 DEF Delete
  <2>4. ~Exists(f)'
    BY <1>3 DEF Delete, Exists, LooseFiles, PackFiles, TypeOK
  <2>5. CASE f \in todo
    <3>1. Gone'
      BY <2>2, <2>4, <2>5 DEF Gone
    <3> QED BY <2>1, <2>2, <2>3, <3>1 DEF Covered, LooseFiles
  <2>6. CASE f \notin todo
    <3>1. \A g \in todo : Holds(g)' = Holds(g) /\ (Exists(g)' => Exists(g))
      <4> SUFFICES ASSUME NEW g \in todo
                   PROVE  Holds(g)' = Holds(g) /\ (Exists(g)' => Exists(g))
        OBVIOUS
      <4>1. CASE g \in [loose : Objects]
        BY <2>3, <4>1 DEF Holds, Exists, LooseFiles, PackFiles
      <4>2. CASE g \in [pack : Packs]
        <5>1. g.pack \in Packs /\ g = [pack |-> g.pack] /\ g # f
          BY <2>6, <4>2
        <5>2. packs'[g.pack] = packs[g.pack]
          BY <1>3, <5>1 DEF Delete, PackFiles, LooseFiles, TypeOK
        <5> QED BY <2>3, <4>2, <5>1, <5>2 DEF Holds, Exists, LooseFiles, PackFiles
      <4> QED BY <4>1, <4>2 DEF TypeOK, Files
    <3>2. Pending' = Pending /\ (Gone => Gone')
      BY <2>2, <3>1 DEF Pending, Gone
    <3> QED BY <2>1, <2>2, <2>3, <3>2 DEF Covered, LooseFiles
  <2> QED BY <2>5, <2>6
<1> QED BY <1>1, <1>2, <1>3

LEMMA StepCovered == ASSUME TypeOK, Covered, [Next]_vars PROVE Covered'
<1>1. CASE Fetch \/ Repack \/ \E f \in LooseFiles \cup PackFiles : Delete(f)
  BY <1>1, EnvironmentCovered
<1>2. CASE Crash \/ Fail
  BY <1>2 DEF Crash, Fail, Covered, mirror
<1>3. CASE WalkLoose
  BY <1>3 DEF WalkLoose, Covered, LooseFiles, mirror
<1>4. CASE WalkPacks
  <2>1. InMirror \subseteq UNION {Holds(f) : f \in todo'}
    <3>1. \A o \in loose : [loose |-> o] \in todo' /\ o \in Holds([loose |-> o])
      BY <1>4 DEF WalkPacks, Covered, LooseFiles, Holds, TypeOK
    <3>2. ASSUME NEW p \in Packs, packs[p] # {}
          PROVE  [pack |-> p] \in todo' /\ Holds([pack |-> p]) = packs[p]
      <4>1. [pack |-> p] \notin [loose : Objects]
        OBVIOUS
      <4> QED BY <1>4, <3>2, <4>1 DEF WalkPacks, PackFiles, Holds
    <3> QED BY <3>1, <3>2 DEF InMirror
  <2>2. InMirror' = InMirror /\ Pending' = UNION {Holds(f) : f \in todo'}
    BY <1>4 DEF WalkPacks, mirror, InMirror, Pending, Holds
  <2> QED BY <1>4, <2>1, <2>2 DEF WalkPacks, Covered
<1>5. CASE Create
  <2>1. tmp'.holds = {}
    BY <1>5 DEF Create, EmptyFile
  <2>2. InMirror' = InMirror /\ Pending' = Pending /\ (Gone' <=> Gone)
    BY <1>5 DEF Create, mirror, InMirror, Pending, Gone, Holds, Exists, LooseFiles, PackFiles
  <2> QED BY <1>5, <2>1, <2>2 DEF Create, Covered
<1>6. ASSUME NEW f \in todo, Write(f) PROVE Covered'
  <2>1. tmp'.holds = tmp.holds \cup Holds(f)
    BY <1>6 DEF Write, TypeOK, Tarballs
  <2>2. Holds(f) \subseteq InMirror
    BY <1>6, HoldsInMirror DEF Write
  <2>3. InMirror' = InMirror /\ (Gone => Gone') /\ Pending \subseteq Pending' \cup Holds(f)
    BY <1>6 DEF Write, mirror, InMirror, Pending, Gone, Holds, Exists, LooseFiles, PackFiles
  <2> QED BY <1>6, <2>1, <2>2, <2>3 DEF Write, Covered
<1>7. CASE Close
  <2>1. ~Gone /\ Pending = {}
    BY <1>7 DEF Close, Gone, Pending
  <2>2. tmp'.holds = tmp.holds
    BY <1>7 DEF Close, TypeOK, Tarballs
  <2>3. InMirror' = InMirror
    BY <1>7 DEF Close, mirror, InMirror
  <2> QED BY <1>7, <2>1, <2>2, <2>3 DEF Close, Covered
<1>8. CASE Rename
  BY <1>8 DEF Rename, Covered, TypeOK
<1>9. CASE UNCHANGED vars
  <2>1. InMirror' = InMirror /\ Pending' = Pending /\ (Gone' <=> Gone)
    BY <1>9 DEF vars, InMirror, Pending, Gone, Holds, Exists, LooseFiles, PackFiles
  <2> QED BY <1>9, <2>1 DEF vars, Covered, LooseFiles
<1> QED BY <1>1, <1>2, <1>3, <1>4, <1>5, <1>6, <1>7, <1>8, <1>9 DEF Next, Step

\* While no file the walk found is gone, the tarball and the files still to be written
\* hold the whole mirror, and a tarball that is renamed over out holds exactly that.
THEOREM CoveredAlways == Spec => []Covered
<1>1. TypeOK /\ Covered /\ [Next]_vars => Covered'
  BY StepCovered
<1> QED BY <1>1, InitCovered, TypeCorrect, PTL DEF Spec

-----------------------------------------------------------------------------
(* The refinement. *)

\* what Publish calls published
Shown == IF out = None THEN None ELSE IF out.closed THEN out.holds ELSE {}

LEMMA InitPublish == Init => InMirror \in SUBSET Objects /\ Shown = None
  BY InitTypeOK, MirrorType DEF Init, Shown

LEMMA StepPublish ==
  ASSUME TypeOK, Covered, [Next]_vars
  PROVE  \/ InMirror' \in SUBSET Objects /\ Shown' = Shown
         \/ Shown' = InMirror /\ InMirror' = InMirror
<1>1. InMirror' \in SUBSET Objects
  <2>1. TypeOK'
    BY StepTypeOK
  <2> QED BY <2>1 DEF TypeOK, InMirror
<1>2. CASE Rename
  <2>1. tmp # None /\ tmp.closed /\ tmp.holds = InMirror /\ out' = tmp
    BY <1>2 DEF Rename, TypeOK, Covered
  <2>2. Shown' = InMirror
    BY <2>1 DEF Shown
  <2>3. InMirror' = InMirror
    BY <1>2 DEF Rename, mirror, InMirror
  <2> QED BY <2>2, <2>3
<1>3. CASE ~Rename
  <2>1. out' = out
    BY <1>3 DEF Next, Step, Fetch, Repack, Delete, Crash, WalkLoose, WalkPacks, Create, Write,
                Close, Fail, vars
  <2> QED BY <1>1, <2>1 DEF Shown
<1> QED BY <1>2, <1>3

\* A reader of out sees nothing, or all of what the mirror held when out was last
\* replaced, whatever crashes, failures and background repacking happen in between.
THEOREM Published == Spec => ImplementsPublish
<1>1. Init => Promise!Init
  BY InitPublish DEF Promise!Init, Shown
<1>2. TypeOK /\ Covered /\ [Next]_vars => [Promise!Next]_(Promise!vars)
  BY StepPublish DEF Promise!Next, Promise!Change, Promise!Replace, Promise!vars, Shown
<1> QED BY <1>1, <1>2, TypeCorrect, CoveredAlways, PTL DEF Spec, ImplementsPublish, Promise!Spec
=============================================================================
