----------------------------- MODULE MirrorProofs -----------------------------
(* Theorems about Mirror for any refs, versions and number of events. *)
EXTENDS Mirror, TLAPS

LEMMA ZeroRefs == NoRefs \in RefMaps
  BY MirrorAssumption DEF NoRefs, RefMaps

LEMMA DirectoryTypes == Missing \in Directories /\ Debris \in Directories
  BY ZeroRefs DEF Missing, Debris, Directories

LEMMA DirectoryFields ==
  ASSUME NEW d \in Directories
  PROVE  /\ d.kind \in {"none", "debris", "half", "full"} /\ d.refs \in RefMaps
         /\ d.lfs \subseteq Refs \X LfsVersions /\ d.by \in Syncers \cup {NoSyncer}
  BY DEF Directories

\* Moving one ref keeps a directory a directory of the same kind with the same LFS objects.
LEMMA RefMoved ==
  ASSUME NEW d \in Directories, NEW f \in Refs, NEW v \in 0..MaxVer
  PROVE  LET e == [d EXCEPT !.refs[f] = v]
         IN  e \in Directories /\ e.kind = d.kind /\ e.lfs = d.lfs /\ e.by = d.by
<1> DEFINE m == [d.refs EXCEPT ![f] = v]
<1>1. m \in RefMaps
  BY DEF Directories, RefMaps
<1>2. [d EXCEPT !.refs[f] = v] = [d EXCEPT !.refs = m]
  BY DEF Directories
<1> HIDE DEF m
<1>3. [d EXCEPT !.refs = m] \in Directories
  BY <1>1 DEF Directories
<1> QED BY <1>2, <1>3 DEF Directories

\* So does an update that completes it, and an object that is fetched.
LEMMA WholeTypes ==
  ASSUME NEW d \in Directories
  PROVE  LET e == [d EXCEPT !.kind = "full"]
         IN  e \in Directories /\ e.kind = "full" /\ e.refs = d.refs /\ e.lfs = d.lfs
  BY DEF Directories

LEMMA ObjectTypes ==
  ASSUME NEW d \in Directories, NEW o \in Refs \X LfsVersions
  PROVE  LET e == [d EXCEPT !.lfs = @ \cup {o}]
         IN  /\ e \in Directories /\ e.kind = d.kind /\ e.refs = d.refs /\ e.by = d.by
             /\ e.lfs = d.lfs \cup {o}
  BY DEF Directories

LEMMA InitTypeOK == Init => TypeOK
  BY ZeroRefs, DirectoryTypes, MirrorAssumption
  DEF Init, TypeOK, Running, Ended

LEMMA LeftTypes ==
  ASSUME TypeOK, NEW s \in Syncers
  PROVE  PartialLeft(s) \subseteq Directories /\ LocksLeft(s) \subseteq SUBSET Refs
  BY DirectoryTypes DEF TypeOK, PartialLeft, LocksLeft

LEMMA PushTypeOK == ASSUME TypeOK, NEW f \in Refs, NEW v \in 0..MaxVer, PushRef(f, v)
                    PROVE  TypeOK'
<1>1. remote' \in RefMaps
  BY DEF TypeOK, PushRef, RefMaps
<1>2. since' \in [Syncers -> SUBSET RefMaps]
  BY <1>1 DEF TypeOK, PushRef
<1> QED BY <1>1, <1>2, MirrorAssumption DEF TypeOK, PushRef

LEMMA CrashTypeOK == TypeOK /\ Crash => TypeOK'
  BY ZeroRefs, LeftTypes, MirrorAssumption DEF TypeOK, Crash, Running, Ended

LEMMA SyncTypeOK == ASSUME TypeOK, NEW s \in Syncers, Sync(s) PROVE TypeOK'
<1> USE DEF Running, Ended, Goto
<1>1. CASE Stat(s)
  BY <1>1, ZeroRefs DEF TypeOK, Stat
<1>2. CASE CleanPartial(s)
  BY <1>2, DirectoryTypes DEF TypeOK, CleanPartial
<1>3. CASE CloneInit(s)
  <2>1. partial' \in Directories
    BY <1>3, ZeroRefs DEF CloneInit, Missing, Directories
  <2> QED BY <1>3, <2>1 DEF TypeOK, CloneInit
<1>4. CASE CloneFetch(s)
  <2>1. partial' \in Directories
    BY <1>4 DEF TypeOK, CloneFetch, Directories
  <2> QED BY <1>4, <2>1 DEF TypeOK, CloneFetch
<1>5. CASE Rename(s)
  BY <1>5, DirectoryTypes DEF TypeOK, Rename
<1>6. CASE UpdateFetch(s)
  BY <1>6 DEF TypeOK, UpdateFetch
<1>7. CASE UpdateDone(s)
  BY <1>7, WholeTypes DEF TypeOK, UpdateDone
<1>8. ASSUME NEW f \in Refs, UpdateRef(s, f) PROVE TypeOK'
  <2>1. snap[s][f] \in 0..MaxVer
    BY DEF TypeOK, RefMaps
  <2>2. dir' \in Directories
    BY <1>8, <2>1, RefMoved DEF TypeOK, UpdateRef
  <2> QED BY <1>8, <2>2 DEF TypeOK, UpdateRef
<1>9. CASE CheckLFS(s) \/ LFSDone(s)
  BY <1>9 DEF TypeOK, CheckLFS, LFSDone
<1>10. CASE ScanLFS(s)
  BY <1>10, DirectoryFields DEF TypeOK, ScanLFS
<1>11. ASSUME NEW o \in Refs \X LfsVersions, FetchObject(s, o) PROVE TypeOK'
  BY <1>11, ObjectTypes DEF TypeOK, FetchObject
<1>12. CASE Fail(s)
  BY <1>12, LeftTypes DEF TypeOK, Fail
<1> QED BY <1>1, <1>2, <1>3, <1>4, <1>5, <1>6, <1>7, <1>8, <1>9, <1>10, <1>11, <1>12 DEF Sync

\* Every variable keeps its type, for any number of overlapping Syncs.
THEOREM TypeCorrect == Spec => []TypeOK
<1>1. TypeOK /\ [Next]_vars => TypeOK'
  <2>1. TypeOK /\ UNCHANGED vars => TypeOK'
    BY DEF TypeOK, vars
  <2> QED BY <2>1, PushTypeOK, CrashTypeOK, SyncTypeOK DEF Next
<1> QED BY <1>1, InitTypeOK, PTL DEF Spec

-----------------------------------------------------------------------------
\* One step of MirrorKept.
StepKeeps == dir.kind = "full" => dir'.kind = "full" /\ dir.lfs \subseteq dir'.lfs

LEMMA StepKept == TypeOK /\ [Next]_vars => StepKeeps
<1> SUFFICES ASSUME TypeOK, [Next]_vars PROVE StepKeeps
  OBVIOUS
<1>1. ASSUME NEW s \in Syncers, NEW f \in Refs, UpdateRef(s, f) PROVE StepKeeps
  <2>1. snap[s][f] \in 0..MaxVer
    BY DEF TypeOK, RefMaps
  <2> QED BY <1>1, <2>1, RefMoved DEF TypeOK, UpdateRef, StepKeeps
<1>2. ASSUME NEW s \in Syncers, UpdateDone(s) PROVE StepKeeps
  BY <1>2, WholeTypes DEF UpdateDone, TypeOK, StepKeeps
<1>a. ASSUME NEW s \in Syncers, NEW o \in Refs \X LfsVersions, FetchObject(s, o) PROVE StepKeeps
  BY <1>a, ObjectTypes DEF FetchObject, TypeOK, StepKeeps
<1>3. ASSUME NEW s \in Syncers, Rename(s) PROVE StepKeeps
  BY <1>3 DEF Rename, StepKeeps
<1>4. ASSUME dir' = dir PROVE StepKeeps
  BY <1>4 DEF StepKeeps
<1> QED
  BY <1>1, <1>2, <1>3, <1>4, <1>a DEF Next, Sync, PushRef, Crash, Stat, CleanPartial, CloneInit,
     CloneFetch, UpdateFetch, CheckLFS, ScanLFS, LFSDone, Fail, vars

\* However many Syncs of a directory overlap, a complete mirror stays one and keeps its
\* LFS objects.
THEOREM MirrorAlwaysKept == Spec => MirrorKept
<1> QED BY StepKept, TypeCorrect, PTL DEF Spec, MirrorKept, StepKeeps

-----------------------------------------------------------------------------
\* What keeps a half-built clone out of dir: what a Sync renames is its finished clone.
RenamesFull == /\ dir.kind # "half"
               /\ \A s \in Syncers : pc[s] = "rename" => partial.kind = "full"

LEMMA FinishedRenamed ==
  ASSUME \A s, t \in Syncers : s = t
  PROVE  Spec => []RenamesFull
<1>1. Init => RenamesFull
  BY DEF Init, RenamesFull, Missing, Debris
<1>2. TypeOK /\ RenamesFull /\ [Next]_vars => RenamesFull'
  <2> SUFFICES ASSUME TypeOK, RenamesFull, [Next]_vars PROVE RenamesFull'
    OBVIOUS
  <2> USE DEF Goto
  <2>1. ASSUME NEW f \in Refs, NEW v \in 0..MaxVer, PushRef(f, v) PROVE RenamesFull'
    BY <2>1 DEF PushRef, RenamesFull
  <2>2. CASE Crash
    BY <2>2 DEF Crash, RenamesFull
  <2>3. ASSUME NEW s \in Syncers, Sync(s) PROVE RenamesFull'
    <3>1. Syncers = {s}
      OBVIOUS
    <3>2. CASE Stat(s) \/ CleanPartial(s) \/ CloneInit(s) \/ UpdateFetch(s) \/ CheckLFS(s)
               \/ ScanLFS(s) \/ LFSDone(s) \/ Fail(s)
      BY <3>1, <3>2 DEF Stat, CleanPartial, CloneInit, UpdateFetch, CheckLFS, ScanLFS, LFSDone,
                        Fail, TypeOK, RenamesFull
    <3>3. CASE CloneFetch(s)
      BY <3>1, <3>3 DEF CloneFetch, TypeOK, Directories, RenamesFull
    <3>4. CASE Rename(s)
      BY <3>1, <3>4 DEF Rename, TypeOK, RenamesFull
    <3>5. ASSUME NEW f \in Refs, UpdateRef(s, f) PROVE RenamesFull'
      <4>1. snap[s][f] \in 0..MaxVer
        BY DEF TypeOK, RefMaps
      <4> QED BY <3>5, <4>1, RefMoved DEF TypeOK, UpdateRef, RenamesFull
    <3>6. CASE UpdateDone(s)
      BY <3>1, <3>6, WholeTypes DEF UpdateDone, TypeOK, RenamesFull
    <3>7. ASSUME NEW o \in Refs \X LfsVersions, FetchObject(s, o) PROVE RenamesFull'
      BY <3>1, <3>7, ObjectTypes DEF FetchObject, TypeOK, RenamesFull
    <3> QED BY <2>3, <3>2, <3>3, <3>4, <3>5, <3>6, <3>7 DEF Sync
  <2>4. CASE UNCHANGED vars
    BY <2>4 DEF vars, RenamesFull
  <2> QED BY <2>1, <2>2, <2>3, <2>4 DEF Next
<1> QED BY <1>1, <1>2, TypeCorrect, PTL DEF Spec

\* Unless two Syncs of one directory overlap, a directory with a HEAD is a finished
\* clone, whatever fails, is killed or crashes.
THEOREM HeadComplete ==
  ASSUME \A s, t \in Syncers : s = t
  PROVE  Spec => []HeadMeansComplete
<1>1. TypeOK /\ RenamesFull => HeadMeansComplete
  BY DEF TypeOK, Directories, RenamesFull, HeadMeansComplete, HasHead
<1> QED BY <1>1, FinishedRenamed, TypeCorrect, PTL

-----------------------------------------------------------------------------
\* Where the refs of a running Sync come from: the remote's refs now, those its git has
\* read, those of its finished clone and those of a mirror that is up to date are all of
\* that Sync's time, and git-lfs works on the latter.
Timely == \A s \in Syncers :
            /\ pc[s] \in Running => remote \in since[s]
            /\ pc[s] = "refs" => snap[s] \in since[s]
            /\ pc[s] = "rename" => partial.refs \in since[s]
            /\ pc[s] \in {"lfs", "lfsfetch", "lfsget"} => dir.refs \in since[s]
            /\ pc[s] = "lfsget" => snap[s] = dir.refs

\* The step of SyncedIsSnapshot.
StepSnaps == \A s \in Syncers : pc[s] \in Running /\ pc'[s] = "ok" => dir'.refs \in since[s]

LEMMA PushTimely == ASSUME TypeOK, Timely, NEW f \in Refs, NEW v \in 0..MaxVer, PushRef(f, v)
                    PROVE  Timely'
  BY DEF TypeOK, Timely, PushRef, Running

LEMMA SyncTimely ==
  ASSUME TypeOK, Timely, NEW s \in Syncers, Syncers = {s}, Sync(s)
  PROVE  Timely' /\ StepSnaps
<1> USE DEF Goto, Running, Ended
<1>1. CASE Stat(s)
  BY <1>1 DEF TypeOK, Stat, Timely, StepSnaps
<1>2. CASE CleanPartial(s) \/ CloneInit(s)
  BY <1>2 DEF TypeOK, CleanPartial, CloneInit, Timely, StepSnaps
<1>3. CASE CloneFetch(s)
  BY <1>3 DEF TypeOK, CloneFetch, Directories, Timely, StepSnaps
<1>4. CASE Rename(s)
  BY <1>4 DEF TypeOK, Rename, Timely, StepSnaps
<1>5. CASE UpdateFetch(s) \/ UpdateDone(s)
  <2>1. CASE UpdateFetch(s)
    BY <2>1 DEF TypeOK, UpdateFetch, Timely, StepSnaps
  <2>2. CASE UpdateDone(s)
    BY <2>2, WholeTypes DEF TypeOK, UpdateDone, Timely, StepSnaps
  <2> QED BY <1>5, <2>1, <2>2
<1>6. ASSUME NEW f \in Refs, UpdateRef(s, f) PROVE Timely' /\ StepSnaps
  BY <1>6 DEF TypeOK, UpdateRef, Timely, StepSnaps
<1>7. CASE CheckLFS(s) \/ ScanLFS(s) \/ LFSDone(s)
  <2>1. CASE CheckLFS(s)
    BY <2>1 DEF TypeOK, CheckLFS, Timely, StepSnaps
  <2>2. CASE ScanLFS(s)
    BY <2>2 DEF TypeOK, ScanLFS, Timely, StepSnaps
  <2>3. CASE LFSDone(s)
    BY <2>3 DEF TypeOK, LFSDone, Timely, StepSnaps
  <2> QED BY <1>7, <2>1, <2>2, <2>3
<1>8. ASSUME NEW o \in Refs \X LfsVersions, FetchObject(s, o) PROVE Timely' /\ StepSnaps
  <2>1. dir'.refs = dir.refs
    BY <1>8, ObjectTypes DEF TypeOK, FetchObject
  <2> QED BY <1>8, <2>1 DEF TypeOK, FetchObject, Timely, StepSnaps
<1>9. CASE Fail(s)
  BY <1>9 DEF TypeOK, Fail, Timely, StepSnaps
<1> QED BY <1>1, <1>2, <1>3, <1>4, <1>5, <1>6, <1>7, <1>8, <1>9 DEF Sync

LEMMA InitTimely == Init => Timely
  BY DEF Init, Timely, Running

LEMMA TimelyKept ==
  ASSUME TypeOK, Timely, \A s, t \in Syncers : s = t, [Next]_vars
  PROVE  Timely' /\ StepSnaps
<1>1. ASSUME NEW f \in Refs, NEW v \in 0..MaxVer, PushRef(f, v) PROVE Timely' /\ StepSnaps
  BY <1>1, PushTimely DEF PushRef, StepSnaps, Running
<1>2. CASE Crash
  BY <1>2 DEF Crash, Timely, StepSnaps, Running
<1>3. ASSUME NEW s \in Syncers, Sync(s) PROVE Timely' /\ StepSnaps
  <2>1. Syncers = {s}
    OBVIOUS
  <2> QED BY <1>3, <2>1, SyncTimely
<1>4. CASE UNCHANGED vars
  BY <1>4 DEF vars, Timely, StepSnaps, Running
<1> QED BY <1>1, <1>2, <1>3, <1>4 DEF Next

\* Unless two Syncs of one directory overlap, a Sync that succeeds leaves the refs the
\* remote had at one moment of it, whether it cloned or updated and whatever is pushed
\* meanwhile.
THEOREM SyncedSnapshot ==
  ASSUME \A s, t \in Syncers : s = t
  PROVE  Spec => SyncedIsSnapshot
<1>1. TypeOK /\ Timely /\ [Next]_vars => Timely' /\ StepSnaps
  BY TimelyKept
<1> QED BY <1>1, InitTimely, TypeCorrect, PTL DEF Spec, SyncedIsSnapshot, StepSnaps

-----------------------------------------------------------------------------
\* The step of SyncedHasLFS.
StepFetches == \A s \in Syncers : pc[s] \in Running /\ pc'[s] = "ok" /\ UsesLFS =>
                 LfsObjects(dir'.refs) \subseteq dir'.lfs

\* Unless two Syncs of one directory overlap, one that succeeds while the tip of some ref
\* tracks LFS has the objects of every ref's history: CheckLFS ends a Sync only when no tip
\* does, and no ref moves from the moment git-lfs has read them until its fetch, object by
\* object, is complete.
THEOREM SyncedWithLFS ==
  ASSUME \A s, t \in Syncers : s = t
  PROVE  Spec => SyncedHasLFS
<1>1. TypeOK /\ Timely /\ [Next]_vars => StepFetches
  <2> SUFFICES ASSUME TypeOK, Timely, [Next]_vars, NEW s \in Syncers, pc[s] \in Running,
                      pc'[s] = "ok", UsesLFS
               PROVE  LfsObjects(dir'.refs) \subseteq dir'.lfs
    BY DEF StepFetches
  <2>1. PICK t \in Syncers : Sync(t)
    BY DEF Next, PushRef, Crash, Running, vars
  <2>2. LFSDone(s)
    BY <2>1 DEF Sync, Stat, CleanPartial, CloneInit, CloneFetch, Rename, UpdateFetch, UpdateRef,
       UpdateDone, CheckLFS, ScanLFS, FetchObject, Fail, Goto, Running, TypeOK
  <2> QED BY <2>2 DEF LFSDone, Timely
<1>2. TypeOK /\ Timely /\ [Next]_vars => Timely'
  BY TimelyKept
<1> QED BY <1>1, <1>2, InitTimely, TypeCorrect, PTL DEF Spec, SyncedHasLFS, StepFetches

-----------------------------------------------------------------------------
(* Syncs that overlap. *)

\* A Sync that has renamed its clone, or has brought dir up to date.
Late == {"lfs", "lfsfetch", "lfsget", "ok"}

\* Who cloned an unfinished dir.partial has not renamed it.  No Sync is past the clone when
\* there is no dir; and of an unfinished dir only one Sync, which did not clone it.
Unshared == /\ partial.kind = "half" => partial.by \in Syncers /\ pc[partial.by] # "rename"
            /\ dir.kind = "none" => \A s \in Syncers : pc[s] \notin Late \cup {"refs"}
            /\ dir.kind = "half" =>
                 /\ \A s \in Syncers : pc[s] \in Late => s # dir.by
                 /\ \A s, t \in Syncers : pc[s] \in Late /\ pc[t] \in Late => s = t

\* However many Syncs of a directory overlap, of those that meet in a half-built clone not
\* all succeed: not the one whose clone it was, and at most one of the others.
THEOREM HalfIsTold == Spec => []HalfBuiltIsTold
<1>1. Init => Unshared
  BY DEF Init, Unshared, Missing, Debris, HasHead, Late
<1>2. TypeOK /\ Unshared /\ [Next]_vars => Unshared'
  <2> SUFFICES ASSUME TypeOK, Unshared, [Next]_vars PROVE Unshared'
    OBVIOUS
  <2> USE DEF Goto, HasHead, Late
  <2>1. ASSUME NEW f \in Refs, NEW v \in 0..MaxVer, PushRef(f, v) PROVE Unshared'
    BY <2>1 DEF PushRef, Unshared
  <2>2. CASE Crash
    <3>1. partial'.kind = "half" => partial' = partial
      BY <2>2 DEF Crash, PartialLeft, Missing, Debris
    <3> QED BY <2>2, <3>1 DEF Crash, Unshared
  <2>3. ASSUME NEW s \in Syncers, Sync(s) PROVE Unshared'
    <3>1. CASE Stat(s)
      BY <3>1 DEF Stat, TypeOK, Unshared, Ended
    <3>2. CASE CleanPartial(s) \/ CloneInit(s)
      <4>1. /\ partial'.kind = "half" => partial'.by = s
            /\ pc' = [pc EXCEPT ![s] = "clone"] \/ pc' = [pc EXCEPT ![s] = "fetch"]
            /\ dir' = dir
        <5>1. CASE CleanPartial(s)
          BY <5>1 DEF CleanPartial, Missing
        <5>2. CASE CloneInit(s)
          BY <5>2 DEF CloneInit, Missing
        <5> QED BY <3>2, <5>1, <5>2
      <4> QED BY <4>1 DEF TypeOK, Unshared
    <3>3. CASE CloneFetch(s)
      BY <3>3 DEF CloneFetch, TypeOK, Directories, Unshared
    <3>4. CASE Rename(s)
      BY <3>4 DEF Rename, Missing, TypeOK, Directories, Unshared
    <3>5. CASE UpdateFetch(s)
      BY <3>5 DEF UpdateFetch, TypeOK, Unshared
    <3>6. CASE UpdateDone(s)
      BY <3>6, WholeTypes DEF UpdateDone, TypeOK, Unshared
    <3>7. ASSUME NEW f \in Refs, UpdateRef(s, f) PROVE Unshared'
      <4>1. snap[s][f] \in 0..MaxVer
        BY DEF TypeOK, RefMaps
      <4>2. dir'.kind = dir.kind /\ dir'.by = dir.by
        BY <3>7, <4>1, RefMoved DEF TypeOK, UpdateRef
      <4> QED BY <3>7, <4>2 DEF UpdateRef, Unshared
    <3>8. CASE CheckLFS(s) \/ ScanLFS(s) \/ LFSDone(s)
      BY <3>8 DEF CheckLFS, ScanLFS, LFSDone, TypeOK, Unshared
    <3>9. ASSUME NEW o \in Refs \X LfsVersions, FetchObject(s, o) PROVE Unshared'
      <4>1. dir'.kind = dir.kind /\ dir'.by = dir.by
        BY <3>9, ObjectTypes DEF TypeOK, FetchObject
      <4> QED BY <3>9, <4>1 DEF FetchObject, Unshared
    <3>10. CASE Fail(s)
      <4>1. partial'.kind = "half" => partial' = partial
        BY <3>10 DEF Fail, PartialLeft, Missing, Debris
      <4> QED BY <3>10, <4>1 DEF Fail, TypeOK, Unshared
    <3> QED BY <2>3, <3>1, <3>2, <3>3, <3>4, <3>5, <3>6, <3>7, <3>8, <3>9, <3>10 DEF Sync
  <2>4. CASE UNCHANGED vars
    BY <2>4 DEF vars, Unshared
  <2> QED BY <2>1, <2>2, <2>3, <2>4 DEF Next
<1>3. Unshared => HalfBuiltIsTold
  BY DEF Unshared, HalfBuiltIsTold, Late
<1> QED BY <1>1, <1>2, <1>3, TypeCorrect, PTL DEF Spec

-----------------------------------------------------------------------------
(* The refinement. *)

Shown == IF dir.kind = "full" THEN {dir.refs} ELSE {}

\* A Sync that is at a mirror's refs or LFS objects is at a finished clone.
AtMirror == \A s \in Syncers : pc[s] \in {"refs", "lfs", "lfsfetch", "lfsget"} => dir.kind = "full"

\* What the one Sync has read and where it is.
LEMMA OneSync ==
  ASSUME NEW s, Syncers = {s}
  PROVE  /\ Taken = CASE pc[s] = "rename" -> {partial.refs}
                      [] pc[s] = "refs" -> {snap[s]}
                      [] pc[s] \in {"lfs", "lfsfetch", "lfsget"} -> {dir.refs}
                      [] OTHER -> {}
         /\ Call = IF pc[s] \in Running THEN "running" ELSE IF pc[s] = "ok" THEN "ok" ELSE "idle"
  BY DEF Taken, Call

LEMMA AtMirrorKept ==
  ASSUME TypeOK, RenamesFull, AtMirror, \A s, t \in Syncers : s = t, [Next]_vars
  PROVE  AtMirror'
<1> USE DEF Goto
<1>1. dir.kind = "full" => dir'.kind = "full"
  BY StepKept DEF StepKeeps
<1>2. ASSUME NEW s \in Syncers, Sync(s), NEW t \in Syncers, pc'[t] \in {"refs", "lfs", "lfsfetch", "lfsget"}
      PROVE  dir'.kind = "full"
  <2>1. t = s
    OBVIOUS
  <2>2. CASE Rename(s)
    BY <2>2 DEF Rename, RenamesFull
  <2>3. CASE UpdateFetch(s)
    BY <1>1, <2>3 DEF UpdateFetch, HasHead, RenamesFull
  <2>4. CASE \/ UpdateDone(s) \/ CheckLFS(s) \/ ScanLFS(s) \/ \E f \in Refs : UpdateRef(s, f)
             \/ \E o \in Refs \X LfsVersions : FetchObject(s, o)
    <3>1. pc[s] \in {"refs", "lfs", "lfsfetch", "lfsget"}
      BY <2>4 DEF UpdateDone, CheckLFS, ScanLFS, UpdateRef, FetchObject
    <3> QED BY <1>1, <3>1 DEF AtMirror
  <2>5. CASE Stat(s) \/ CleanPartial(s) \/ CloneInit(s) \/ CloneFetch(s) \/ LFSDone(s) \/ Fail(s)
    BY <1>2, <2>1, <2>5 DEF Stat, CleanPartial, CloneInit, CloneFetch, LFSDone, Fail, TypeOK
  <2> QED BY <1>2, <2>2, <2>3, <2>4, <2>5 DEF Sync
<1>3. CASE pc' = pc
  BY <1>1, <1>3 DEF AtMirror
<1>4. CASE Crash
  BY <1>4 DEF Crash, AtMirror
<1> QED BY <1>2, <1>3, <1>4 DEF Next, PushRef, vars, AtMirror

\* Every step of a Sync is a step of Refresh, or leaves what it shows unchanged.
LEMMA SyncRefresh ==
  ASSUME TypeOK, RenamesFull, AtMirror, NEW s \in Syncers, Syncers = {s}, Sync(s)
  PROVE  \/ UNCHANGED <<remote, Shown, Call, Taken>>
         \/ Call # "running" /\ Call' = "running" /\ Taken' = {} /\ UNCHANGED <<remote, Shown>>
         \/ Call = "running" /\ Taken = {} /\ Taken' = {remote} /\ UNCHANGED <<remote, Shown, Call>>
         \/ /\ Call = "running" /\ Shown = {} /\ Taken # {} /\ Shown' = Taken
            /\ UNCHANGED <<remote, Call, Taken>>
         \/ /\ Call = "running" /\ UNCHANGED <<remote, Call, Taken>>
            /\ \E f \in Refs, c \in Shown, t \in Taken : Shown' = {[c EXCEPT ![f] = t[f]]}
         \/ /\ Call = "running" /\ Taken # {} /\ Shown = Taken /\ Call' = "ok" /\ Taken' = {}
            /\ UNCHANGED <<remote, Shown>>
         \/ Call = "running" /\ Call' = "idle" /\ Taken' = {} /\ UNCHANGED <<remote, Shown>>
<1> USE DEF Goto, Running, Ended
<1>1. /\ Taken = CASE pc[s] = "rename" -> {partial.refs}
                   [] pc[s] = "refs" -> {snap[s]}
                   [] pc[s] \in {"lfs", "lfsfetch", "lfsget"} -> {dir.refs}
                   [] OTHER -> {}
      /\ Call = IF pc[s] \in Running THEN "running" ELSE IF pc[s] = "ok" THEN "ok" ELSE "idle"
  BY OneSync
<1>2. /\ Taken' = CASE pc'[s] = "rename" -> {partial'.refs}
                    [] pc'[s] = "refs" -> {snap'[s]}
                    [] pc'[s] \in {"lfs", "lfsfetch", "lfsget"} -> {dir'.refs}
                    [] OTHER -> {}
      /\ Call' = IF pc'[s] \in Running THEN "running" ELSE IF pc'[s] = "ok" THEN "ok" ELSE "idle"
  BY DEF Taken, Call
<1>3. CASE Stat(s)
  BY <1>1, <1>2, <1>3 DEF TypeOK, Stat, Shown
<1>4. CASE CleanPartial(s) \/ CloneInit(s)
  BY <1>1, <1>2, <1>4 DEF TypeOK, CleanPartial, CloneInit, Shown
<1>5. CASE CloneFetch(s)
  <2>1. partial'.refs = remote
    BY <1>5 DEF TypeOK, CloneFetch, Directories
  <2> QED BY <1>1, <1>2, <1>5, <2>1 DEF TypeOK, CloneFetch, Shown
<1>6. CASE Rename(s)
  BY <1>1, <1>2, <1>6 DEF TypeOK, Rename, RenamesFull, Shown
<1>7. CASE UpdateFetch(s)
  BY <1>1, <1>2, <1>7 DEF TypeOK, UpdateFetch, Shown
<1>8. ASSUME NEW f \in Refs, UpdateRef(s, f)
      PROVE  /\ Call = "running" /\ UNCHANGED <<remote, Call, Taken>>
             /\ \E c \in Shown, t \in Taken : Shown' = {[c EXCEPT ![f] = t[f]]}
  <2>1. /\ pc[s] = "refs" /\ pc'[s] = "refs" /\ dir.kind = "full" /\ snap[s][f] \in 0..MaxVer
        /\ dir' = [dir EXCEPT !.refs[f] = snap[s][f]] /\ remote' = remote /\ snap' = snap
    BY <1>8 DEF UpdateRef, AtMirror, TypeOK, RefMaps
  <2>2. dir'.kind = "full" /\ dir'.refs = [dir.refs EXCEPT ![f] = snap[s][f]]
    BY <2>1 DEF TypeOK, Directories
  <2> QED BY <1>1, <1>2, <2>1, <2>2 DEF Shown
<1>9. CASE UpdateDone(s)
  <2>1. dir'.kind = "full" /\ dir'.refs = dir.refs /\ dir.kind = "full"
    BY <1>9, WholeTypes DEF TypeOK, UpdateDone, AtMirror
  <2> QED BY <1>1, <1>2, <1>9, <2>1 DEF TypeOK, UpdateDone, Shown
<1>10. CASE CheckLFS(s) \/ ScanLFS(s) \/ LFSDone(s)
  BY <1>1, <1>2, <1>10 DEF TypeOK, CheckLFS, ScanLFS, LFSDone, AtMirror, Shown
<1>11. ASSUME NEW o \in Refs \X LfsVersions, FetchObject(s, o)
       PROVE  UNCHANGED <<remote, Shown, Call, Taken>>
  <2>1. dir'.refs = dir.refs /\ dir'.kind = dir.kind
    BY <1>11, ObjectTypes DEF TypeOK, FetchObject
  <2> QED BY <1>1, <1>2, <1>11, <2>1 DEF TypeOK, FetchObject, Shown
<1>12. CASE Fail(s)
  BY <1>1, <1>2, <1>12 DEF TypeOK, Fail, Shown
<1> QED BY <1>3, <1>4, <1>5, <1>6, <1>7, <1>8, <1>9, <1>10, <1>11, <1>12 DEF Sync

LEMMA StepRefresh ==
  ASSUME TypeOK, RenamesFull, AtMirror, \A s, t \in Syncers : s = t, [Next]_vars
  PROVE  [Promise!Next]_(Promise!vars)
<1> USE DEF Promise!Next, Promise!Change, Promise!Begin, Promise!Take, Promise!Appear, Promise!Move,
            Promise!Succeed, Promise!Break, Promise!vars, Shown
<1>1. ASSUME NEW f \in Refs, NEW v \in 0..MaxVer, PushRef(f, v) PROVE Promise!Change
  <2>1. remote' \in [Refs -> 0..MaxVer] /\ UNCHANGED <<dir, partial, pc, snap>>
    BY <1>1 DEF PushRef, TypeOK, RefMaps
  <2>2. UNCHANGED <<Call, Taken>>
    BY <2>1 DEF Call, Taken
  <2> QED BY <2>1, <2>2
<1>2. CASE Crash
  <2>1. Call = "running" /\ Call' = "idle"
    BY <1>2 DEF Crash, Call, Running
  <2>2. Taken' = {}
    BY <1>2 DEF Crash, Taken
  <2> QED BY <1>2, <2>1, <2>2 DEF Crash
<1>3. ASSUME NEW s \in Syncers, Sync(s) PROVE [Promise!Next]_(Promise!vars)
  <2>1. Syncers = {s}
    OBVIOUS
  <2> QED BY <1>3, <2>1, SyncRefresh
<1>4. CASE UNCHANGED vars
  BY <1>4 DEF vars, Call, Taken
<1> QED BY <1>1, <1>2, <1>3, <1>4 DEF Next

\* Unless two Syncs of one directory overlap, what a reader of it sees is what Refresh allows,
\* for any refs and versions and however many calls fail, are killed or crash.
THEOREM Refreshed ==
  ASSUME \A s, t \in Syncers : s = t
  PROVE  Spec => ImplementsRefresh
<1>1. Init => Promise!Init /\ AtMirror
  <2> SUFFICES ASSUME Init PROVE Promise!Init /\ AtMirror
    OBVIOUS
  <2>1. Call = "idle" /\ Taken = {}
    BY DEF Init, Call, Taken, Running
  <2>2. remote \in [Refs -> 0..MaxVer] /\ dir.kind # "full"
    BY DEF Init, RefMaps, Missing, Debris
  <2> QED BY <2>1, <2>2 DEF Init, AtMirror, Promise!Init
<1>2. TypeOK /\ RenamesFull /\ AtMirror /\ [Next]_vars => AtMirror' /\ [Promise!Next]_(Promise!vars)
  BY AtMirrorKept, StepRefresh
<1> QED BY <1>1, <1>2, TypeCorrect, FinishedRenamed, PTL DEF Spec, ImplementsRefresh, Promise!Spec
=============================================================================
