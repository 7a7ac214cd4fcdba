-------------------------------- MODULE Mirror --------------------------------
(***************************************************************************)
(* Mirror.Sync of internal/backup/mirror.go and mirror_lfs.go on one       *)
(* mirror directory, one step per command it runs or file it touches.  Git *)
(* and git-lfs are modelled by what Sync relies on: clone writes a HEAD    *)
(* first and is complete only when it exits; a fetch reads the remote's    *)
(* refs at once and then moves the local ones one by one, and git-lfs      *)
(* reads the local ones at once and then fetches object after object; a    *)
(* killed git leaves what it had written, a ref's lock file included.      *)
(*                                                                         *)
(* A ref is at a version of its branch, 0 when there is no such ref.       *)
(* Version v of a branch contains the versions below it; those of          *)
(* LfsVersions carry Git LFS objects.                                      *)
(***************************************************************************)
EXTENDS Naturals

CONSTANTS Syncers,     \* calls of Sync on this directory that may overlap
          NoSyncer,    \* stands for "nobody"
          Refs,        \* the repository's refs
          LfsVersions, \* versions whose tree tracks files with Git LFS
          MaxVer,      \* bound: versions of a ref
          MaxEvents    \* bound: changes of the remote and machine crashes

ASSUME MirrorAssumption == /\ NoSyncer \notin Syncers
                           /\ MaxVer \in Nat /\ MaxEvents \in Nat
                           /\ LfsVersions \subseteq 1..MaxVer

VARIABLES
  remote,  \* [Refs -> version on the forge]
  budget,  \* events left
  dir,     \* the mirror directory
  partial, \* dir + ".partial"
  locks,   \* refs of dir whose lock file a killed git left behind
  pc,      \* [Syncers -> where its Sync is]
  snap,    \* [Syncers -> the refs its git has read: the remote's, then dir's for git-lfs]
  since    \* history: [Syncers -> the states of the remote since its Sync began]

vars == <<remote, budget, dir, partial, locks, pc, snap, since>>

NoRefs == [f \in Refs |-> 0]
RefMaps == [Refs -> 0..MaxVer]

\* A directory: missing, without a HEAD, a clone that has not finished, or a repository.
\* "by" is the Sync whose clone is writing it.
Directories == [kind : {"none", "debris", "half", "full"}, refs : RefMaps,
                lfs : SUBSET (Refs \X LfsVersions), by : Syncers \cup {NoSyncer}]
Missing == [kind |-> "none", refs |-> NoRefs, lfs |-> {}, by |-> NoSyncer]
Debris == [Missing EXCEPT !.kind = "debris"]

HasHead == dir.kind \in {"half", "full"}

\* the Git LFS objects in the history of the refs
LfsObjects(refs) == {o \in Refs \X LfsVersions : o[2] <= refs[o[1]]}

Running == {"clean", "clone", "fetch", "rename", "update", "refs", "lfs", "lfsfetch",
            "lfsget"}
Ended == {"idle", "ok", "failed"}

Init == /\ remote \in RefMaps
        /\ budget = MaxEvents
        /\ dir \in {Missing, Debris}
        /\ partial = Missing
        /\ locks = {}
        /\ pc = [s \in Syncers |-> "idle"]
        /\ snap = [s \in Syncers |-> NoRefs]
        /\ since = [s \in Syncers |-> {}]

Goto(s, label) == pc' = [pc EXCEPT ![s] = label]

-----------------------------------------------------------------------------
(* The environment. *)

\* a ref is pushed to, created or deleted
PushRef(f, v) ==
  /\ budget > 0 /\ budget' = budget - 1
  /\ v = 0 \/ v > remote[f]
  /\ v # remote[f]
  /\ remote' = [remote EXCEPT ![f] = v]
  /\ since' = [s \in Syncers |-> IF pc[s] \in Running THEN since[s] \cup {remote'} ELSE {}]
  /\ UNCHANGED <<dir, partial, locks, pc, snap>>

-----------------------------------------------------------------------------
(* Sync. *)

\* Faulty: what has a HEAD is up to date.
Stat_Exists(s) ==
  /\ pc[s] \in Ended
  /\ Goto(s, IF HasHead THEN "lfs" ELSE "clean")
  /\ since' = [since EXCEPT ![s] = {remote}]
  /\ snap' = [snap EXCEPT ![s] = NoRefs]
  /\ UNCHANGED <<remote, budget, dir, partial, locks>>

\* Sync looks for dir/HEAD
Stat(s) ==
  /\ pc[s] \in Ended
  /\ Goto(s, IF HasHead THEN "update" ELSE "clean")
  /\ since' = [since EXCEPT ![s] = {remote}]
  /\ snap' = [snap EXCEPT ![s] = NoRefs]
  /\ UNCHANGED <<remote, budget, dir, partial, locks>>

\* Faulty: what an earlier clone left stays.
CleanPartial_Kept(s) ==
  /\ pc[s] = "clean"
  /\ Goto(s, "clone")
  /\ UNCHANGED <<remote, budget, dir, partial, locks, snap, since>>

\* clone removes what an earlier clone left in dir.partial
CleanPartial(s) ==
  /\ pc[s] = "clean"
  /\ partial' = Missing
  /\ Goto(s, "clone")
  /\ UNCHANGED <<remote, budget, dir, locks, snap, since>>

\* Faulty: git clones straight into dir.
CloneInit_InPlace(s) ==
  /\ pc[s] = "clone" /\ dir.kind = "none"
  /\ dir' = [Missing EXCEPT !.kind = "half", !.by = s]
  /\ Goto(s, "fetch")
  /\ UNCHANGED <<remote, budget, partial, locks, snap, since>>

\* git clone --mirror creates the directory and its HEAD
CloneInit(s) ==
  /\ pc[s] = "clone" /\ partial.kind = "none"
  /\ partial' = [Missing EXCEPT !.kind = "half", !.by = s]
  /\ Goto(s, "fetch")
  /\ UNCHANGED <<remote, budget, dir, locks, snap, since>>

\* git clone reads the remote's refs, has written everything and exits
CloneFetch(s) ==
  /\ pc[s] = "fetch" /\ partial.kind = "half" /\ partial.by = s
  /\ partial' = [partial EXCEPT !.kind = "full", !.refs = remote]
  /\ Goto(s, "rename")
  /\ UNCHANGED <<remote, budget, dir, locks, snap, since>>

\* os.Rename(partial, dir): it replaces nothing but a missing directory
Rename(s) ==
  /\ pc[s] = "rename"
  /\ partial.kind # "none" /\ dir.kind = "none"
  /\ dir' = partial
  /\ partial' = Missing
  /\ Goto(s, "lfs")
  /\ UNCHANGED <<remote, budget, locks, snap, since>>

\* git remote update reads the remote's refs and fetches the objects, for a clone that has
\* not finished too
UpdateFetch(s) ==
  /\ pc[s] = "update" /\ HasHead
  /\ snap' = [snap EXCEPT ![s] = remote]
  /\ Goto(s, "refs")
  /\ UNCHANGED <<remote, budget, dir, partial, locks, since>>

\* Faulty: a ref moves by one version, whatever was fetched.
UpdateRef_ByOne(s, f) ==
  /\ pc[s] = "refs" /\ f \notin locks
  /\ dir.refs[f] # snap[s][f]
  /\ dir' = [dir EXCEPT !.refs[f] = @ + 1]
  /\ UNCHANGED <<remote, budget, partial, locks, pc, snap, since>>

\* Faulty: every ref is asked for on its own, when its turn comes.
UpdateRef_Live(s, f) ==
  /\ pc[s] = "refs" /\ f \notin locks
  /\ dir.refs[f] # snap[s][f]
  /\ dir' = [dir EXCEPT !.refs[f] = remote[f]]
  /\ UNCHANGED <<remote, budget, partial, locks, pc, snap, since>>

\* git remote update --prune moves, creates or deletes one ref
UpdateRef(s, f) ==
  /\ pc[s] = "refs" /\ f \notin locks
  /\ dir.refs[f] # snap[s][f]
  /\ dir' = [dir EXCEPT !.refs[f] = snap[s][f]]
  /\ UNCHANGED <<remote, budget, partial, locks, pc, snap, since>>

\* Faulty: without --prune, refs the remote no longer has stay.
UpdateDone_NoPrune(s) ==
  /\ pc[s] = "refs" /\ \A f \in Refs : snap[s][f] \in {0, dir.refs[f]}
  /\ Goto(s, "lfs")
  /\ UNCHANGED <<remote, budget, dir, partial, locks, snap, since>>

\* git remote update exits: it has everything now, whatever the clone lacked
UpdateDone(s) ==
  /\ pc[s] = "refs" /\ dir.refs = snap[s]
  /\ dir' = [dir EXCEPT !.kind = "full"]
  /\ Goto(s, "lfs")
  /\ UNCHANGED <<remote, budget, partial, locks, snap, since>>

\* usesLFS greps the tip of every ref
UsesLFS == \E f \in Refs : dir.refs[f] \in LfsVersions

\* syncLFS asks it, in what git takes for a repository, and Sync is through when none of
\* the tips tracks LFS
CheckLFS(s) ==
  /\ pc[s] = "lfs" /\ HasHead
  /\ Goto(s, IF UsesLFS THEN "lfsfetch" ELSE "ok")
  /\ UNCHANGED <<remote, budget, dir, partial, locks, snap, since>>

\* git lfs fetch --all reads the refs and goes through their history
ScanLFS(s) ==
  /\ pc[s] = "lfsfetch"
  /\ snap' = [snap EXCEPT ![s] = dir.refs]
  /\ Goto(s, "lfsget")
  /\ UNCHANGED <<remote, budget, dir, partial, locks, since>>

\* it fetches one of the objects that are missing
FetchObject(s, o) ==
  /\ pc[s] = "lfsget" /\ o \in LfsObjects(snap[s]) \ dir.lfs
  /\ dir' = [dir EXCEPT !.lfs = @ \cup {o}]
  /\ UNCHANGED <<remote, budget, partial, locks, pc, snap, since>>

\* Faulty: without --all, only the objects of the tips.
LFSDone_Tips(s) ==
  /\ pc[s] = "lfsget"
  /\ \A o \in LfsObjects(snap[s]) : o[2] = snap[s][o[1]] => o \in dir.lfs
  /\ Goto(s, "ok")
  /\ UNCHANGED <<remote, budget, dir, partial, locks, snap, since>>

\* it exits, and Sync is through
LFSDone(s) ==
  /\ pc[s] = "lfsget" /\ LfsObjects(snap[s]) \subseteq dir.lfs
  /\ Goto(s, "ok")
  /\ UNCHANGED <<remote, budget, dir, partial, locks, snap, since>>

\* What a failing, killed or stopped step leaves of dir.partial: RemoveAll may be halfway,
\* and a git clone that fails by itself removes the directory, whoever has made it anew by
\* then; a killed one does not.
PartialLeft(s) ==
  {partial} \cup IF pc[s] = "clean" /\ partial.kind # "none" THEN {Debris}
                 ELSE IF pc[s] = "fetch" THEN {Missing} ELSE {}

\* A killed git remote update may leave the lock of the ref it was moving.
LocksLeft(s) ==
  {locks} \cup {locks \cup {f} : f \in {g \in Refs : pc[s] = "refs" /\ snap[s][g] # dir.refs[g]}}

\* Faulty: a mirror that cannot be updated is removed, to be cloned again.
Fail_Reclone(s) ==
  /\ pc[s] \in Running
  /\ partial' \in PartialLeft(s) /\ locks' \in LocksLeft(s)
  /\ dir' = IF pc[s] = "update" THEN Missing ELSE dir
  /\ Goto(s, "failed")
  /\ UNCHANGED <<remote, budget, snap, since>>

\* A step fails, or the timeout or a signal kills the git it runs: Sync returns the error.
Fail(s) ==
  /\ pc[s] \in Running
  /\ partial' \in PartialLeft(s) /\ locks' \in LocksLeft(s)
  /\ Goto(s, "failed")
  /\ UNCHANGED <<remote, budget, dir, snap, since>>

\* The machine stops: the tool and its git go, the files stay.
Crash ==
  /\ budget > 0 /\ budget' = budget - 1
  /\ \E s \in Syncers : /\ pc[s] \in Running
                        /\ partial' \in PartialLeft(s) /\ locks' \in LocksLeft(s)
  /\ pc' = [s \in Syncers |-> "idle"]
  /\ snap' = [s \in Syncers |-> NoRefs]
  /\ since' = [s \in Syncers |-> {}]
  /\ UNCHANGED <<remote, dir>>

-----------------------------------------------------------------------------
Sync(s) == \/ Stat(s)
           \/ CleanPartial(s) \/ CloneInit(s) \/ CloneFetch(s) \/ Rename(s)
           \/ UpdateFetch(s) \/ UpdateDone(s) \/ \E f \in Refs : UpdateRef(s, f)
           \/ CheckLFS(s) \/ ScanLFS(s) \/ LFSDone(s)
           \/ \E o \in Refs \X LfsVersions : FetchObject(s, o)
           \/ Fail(s)

Next == \/ \E f \in Refs, v \in 0..MaxVer : PushRef(f, v)
        \/ Crash
        \/ \E s \in Syncers : Sync(s)

Spec == Init /\ [][Next]_vars

\* Sync is called again in every run, its commands end, and no step of a clone or an update
\* fails every time.  What Git LFS does may.
Fairness ==
  \A s \in Syncers :
    /\ WF_vars(Sync(s))
    /\ SF_vars(CleanPartial(s)) /\ SF_vars(CloneInit(s)) /\ SF_vars(CloneFetch(s))
    /\ SF_vars(Rename(s)) /\ SF_vars(UpdateFetch(s)) /\ SF_vars(UpdateDone(s))
    /\ SF_vars(\E f \in Refs : UpdateRef(s, f))

FairSpec == Spec /\ Fairness

-----------------------------------------------------------------------------
\* Every variable stays in its range.
TypeOK == /\ remote \in RefMaps /\ budget \in 0..MaxEvents
          /\ dir \in Directories /\ partial \in Directories
          /\ locks \subseteq Refs
          /\ pc \in [Syncers -> Running \cup Ended]
          /\ snap \in [Syncers -> RefMaps]
          /\ since \in [Syncers -> SUBSET RefMaps]

\* "[It] only renames it into place once the clone succeeds, so a SIGINT mid-clone never
\* leaves a half-built directory that the next run mistakes for an existing mirror"
\* (mirror.go:57-59): with one Sync of the directory at a time, whatever fails, is killed
\* or crashes, a directory with a HEAD is a finished clone.
HeadMeansComplete == HasHead => dir.kind = "full"

\* Two Syncs that overlap share dir.partial, and one can rename what the other has only
\* begun to clone.  Then the other never reports success for it, and no second Sync does,
\* until an update has completed the directory: of the two calls at least one fails
\* (mirror.go:46, 60-80).
HalfBuiltIsTold ==
  dir.kind = "half" => /\ \A s \in Syncers : pc[s] = "ok" => s # dir.by
                       /\ \A s, t \in Syncers : pc[s] = "ok" /\ pc[t] = "ok" => s = t

\* A mirror that was complete stays: no failing, killed or repeated Sync takes it away,
\* and the LFS objects it has stay with it.
MirrorKept == [][dir.kind = "full" => dir'.kind = "full" /\ dir.lfs \subseteq dir'.lfs]_vars

\* A Sync that succeeds leaves the refs the remote had at one moment of that Sync: none
\* older, none left over, and not some of one moment and some of another.
SyncedIsSnapshot ==
  [][\A s \in Syncers : pc[s] \in Running /\ pc'[s] = "ok" => dir'.refs \in since[s]]_vars

\* A Sync that succeeds, with no other at work on the directory, has the LFS objects of the
\* whole history of every ref whenever the tip of some ref tracks LFS, whichever way it went
\* and whatever failed or was killed halfway before.
SyncedHasLFS ==
  [][\A s \in Syncers : pc[s] \in Running /\ pc'[s] = "ok" /\ UsesLFS =>
       LfsObjects(dir'.refs) \subseteq dir'.lfs]_vars

\* What the calls under way have read of the remote, and where they are.
Taken == UNION {CASE pc[s] = "rename" -> {partial.refs}
                  [] pc[s] = "refs" -> {snap[s]}
                  [] pc[s] \in {"lfs", "lfsfetch", "lfsget"} -> {dir.refs}
                  [] OTHER -> {} : s \in Syncers}
Call == IF \E s \in Syncers : pc[s] \in Running THEN "running"
        ELSE IF \E s \in Syncers : pc[s] = "ok" THEN "ok" ELSE "idle"
Promise == INSTANCE Refresh WITH
             Versions <- 0..MaxVer,
             source <- remote,
             copy <- IF dir.kind = "full" THEN {dir.refs} ELSE {},
             call <- Call,
             taken <- Taken
\* Sync after Sync is a Refresh: whatever fails, is killed or crashes, and whatever is pushed
\* meanwhile, the directory shows no mirror that is not whole when it appears, no ref at a
\* version that was not read in a call, and no success but at one moment of the remote
\* (mirror.go:34-39, 57-59).
ImplementsRefresh == Promise!Spec

\* When the remote stops changing, repeated Syncs bring the mirror to it and keep it
\* there, except with a lock file that a killed git left or a directory without a HEAD
\* in the way, which nothing in the tool removes.
Recovers == <>[](dir.refs = remote \/ locks # {} \/ dir.kind = "debris")
=============================================================================
