------------------------------ MODULE BackupRun ------------------------------
(***************************************************************************)
(* Runner.Run of internal/backup/run.go: one process at a time lists a     *)
(* forge, scans the backup tree for paths the listing lacks, mirrors every *)
(* listed repository in a bounded pool of workers, waits for them, and     *)
(* prunes.  The forge changes while the process works; the process may be  *)
(* cancelled by a signal or die at any step, and a later one starts from   *)
(* the tree it left.                                                       *)
(*                                                                         *)
(* A repository's content is a version number that grows with every push;  *)
(* version 0 is a repository without refs.  A mirror or an archive is the  *)
(* version it holds, 0 when there is none.  How Sync and Archive publish a *)
(* version is the subject of the modules Mirror and Archive; here each is  *)
(* one step with every outcome those modules allow.                        *)
(*                                                                         *)
(* A listing is read over several states of the forge and returns in one   *)
(* step with any answer that the page-by-page clients of Listing may give  *)
(* over those states: it may miss a path when something left its lists,    *)
(* and name one twice when something entered them.                         *)
(***************************************************************************)
EXTENDS Naturals, FiniteSets

CONSTANTS Repos,      \* repository paths on the forge and in the backup tree
          NoRepo,     \* stands for "no path" and "no entry"
          OptionSet,  \* the Options a run may be started with
          Limit,      \* the errgroup's limit on concurrent workers
          MaxCopies,  \* bound: entries of one listing that name the same path
          MaxVer,     \* bound: versions a repository goes through
          MaxEvents   \* bound: forge changes, signals and crashes together

States == {"all", "active", "archived"}
Selections == {"none", "all", "active", "archived"}
Options == [state : States, archive : Selections, prune : BOOLEAN, kinds : Nat]

\* an entry of the listing: a path, and which of the entries that name it
Entries == Repos \X (1..MaxCopies)
Path(e) == e[1]

ASSUME RepoAssumption == NoRepo \notin Repos \cup Entries /\ IsFiniteSet(Repos)
ASSUME OptionAssumption == OptionSet \subseteq Options /\ OptionSet # {}
ASSUME BoundAssumption == /\ Limit \in Nat \ {0}
                          /\ MaxCopies \in Nat \ {0}
                          /\ MaxVer \in Nat
                          /\ MaxEvents \in Nat

VARIABLES
  forge,      \* [Repos -> what the forge holds at the path]
  budget,     \* environment events left
  mirror,     \* [Repos -> version of dest/<path>.git]
  debris,     \* paths whose .git directory is in pieces
  headed,     \* those of them that have a HEAD, which Sync takes for a mirror
  archive,    \* [Repos -> version of archiveDir/<path>.tar.gz]
  hollow,     \* paths whose .tar.gz was packed from a directory in pieces
  pc,         \* where Run is
  opts,       \* Options of the current run
  cancelled,  \* the run's context was cancelled by a signal
  listed,     \* entries of the filtered listing
  archs,      \* those it reports as archived
  empties,    \* those it reports as empty
  canonical,  \* paths of the StateAll listing
  seen,       \* the forge's states since the listing being read began
  shrunk,     \* something may have left the lists of the latest listing as it was read
  grown,      \* something may have entered them
  missed,     \* the filtered listing was shrunk
  stale,      \* paths staleMirrors found that prune has not been through
  hand,       \* the path prune is at
  todo,       \* entries the dispatch loop has not reached
  phase,      \* [Entries -> where the entry's worker is]
  out,        \* [Entries -> mirrorOutcome]
  scratch,    \* [Entries -> version in the worker's scratch mirror]
  count,      \* runCounters and the pruned count
  holder,     \* the entry whose worker holds progressMu
  ticket,     \* [Entries -> the n reportDone passes to Progress]
  last,       \* history: the latest done passed to Progress
  steady,     \* history: paths on the forge without interruption since the start
  base,       \* history: the forge when the run started
  broken      \* history: the pieces with a HEAD when the run started

disk == <<mirror, debris, headed, archive, hollow>>
world == <<forge, budget>>
history == <<steady, base, broken>>
listing == <<listed, archs, empties, canonical, seen, shrunk, grown, missed>>
workers == <<todo, phase, out, scratch, count, holder, ticket, last>>
pruning == <<stale, hand>>
process == <<pc, opts, cancelled>>
vars == <<world, disk, process, listing, pruning, workers, history>>

-----------------------------------------------------------------------------
(* The options' selections. *)

\* Archive.wants
Wants(archived) == \/ opts.archive = "all"
                   \/ opts.archive = "active" /\ ~archived
                   \/ opts.archive = "archived" /\ archived

\* whether a lister asked for a state returns an archived, or another, repository
Selects(state, archived) == \/ state = "all"
                            \/ state = "active" /\ ~archived
                            \/ state = "archived" /\ archived

WantsArchive(e) == Wants(e \in archs)

\* an archived repository selected for archiving is mirrored into a scratch directory
UsesScratch(e) == e \in archs /\ Wants(TRUE)

\* what archiveRepo packs
Packed(e) == IF UsesScratch(e) THEN scratch[e] ELSE mirror[Path(e)]

OnForge == {r \in Repos : forge[r].here}

\* Faulty: only the mirrors are scanned.
OnDisk_MirrorsOnly == {r \in Repos : mirror[r] > 0} \cup debris

\* onDiskPaths over both trees
OnDisk == {r \in Repos : mirror[r] > 0 \/ archive[r] > 0} \cup debris \cup hollow

Busy == {"start", "export", "archive", "fold", "report", "reporting"}
Phases == Busy \cup {"none", "done"}
Active == {e \in listed \ empties : phase[e] \in Busy}

\* two workers of the run share the directory dest/<path>.git
Crowded(r) == \E e, d \in listed : e # d /\ Path(e) = r /\ Path(d) = r

-----------------------------------------------------------------------------
NoOutcome == [synced |-> FALSE, archived |-> FALSE, failed |-> FALSE, exported |-> 0]
NoCount == [synced |-> 0, skipped |-> 0, failed |-> 0, archived |-> 0,
            exported |-> 0, pruned |-> 0, done |-> 0]
NoOptions == [state |-> "all", archive |-> "none", prune |-> FALSE, kinds |-> 0]

\* the process's own variables before Run has done anything
Fresh == /\ cancelled = FALSE
         /\ listed = {} /\ archs = {} /\ empties = {} /\ canonical = {}
         /\ shrunk = FALSE /\ grown = FALSE /\ missed = FALSE
         /\ stale = {} /\ hand = NoRepo /\ todo = {}
         /\ phase = [e \in Entries |-> "none"]
         /\ out = [e \in Entries |-> NoOutcome]
         /\ scratch = [e \in Entries |-> 0]
         /\ count = NoCount
         /\ holder = NoRepo
         /\ ticket = [e \in Entries |-> 0]
         /\ last = 0

\* a step into Fresh
Reset == /\ cancelled' = FALSE
         /\ listed' = {} /\ archs' = {} /\ empties' = {} /\ canonical' = {}
         /\ shrunk' = FALSE /\ grown' = FALSE /\ missed' = FALSE
         /\ stale' = {} /\ hand' = NoRepo /\ todo' = {}
         /\ phase' = [e \in Entries |-> "none"]
         /\ out' = [e \in Entries |-> NoOutcome]
         /\ scratch' = [e \in Entries |-> 0]
         /\ count' = NoCount
         /\ holder' = NoRepo
         /\ ticket' = [e \in Entries |-> 0]
         /\ last' = 0

Contents == [here : BOOLEAN, archived : BOOLEAN, ver : 0..MaxVer]

\* Any forge, and any tree that earlier runs against it can have left.
Init == /\ forge \in [Repos -> Contents]
        /\ mirror \in [Repos -> 0..MaxVer]
        /\ archive \in [Repos -> 0..MaxVer]
        /\ \A r \in Repos : mirror[r] <= forge[r].ver /\ archive[r] <= forge[r].ver
        /\ debris \in SUBSET {r \in Repos : mirror[r] = 0 /\ forge[r].ver > 0}
        /\ headed \in SUBSET debris
        /\ hollow \in SUBSET {r \in Repos : archive[r] = 0 /\ forge[r].ver > 0}
        /\ budget = MaxEvents
        /\ pc = "idle" /\ opts = NoOptions
        /\ Fresh
        /\ seen = {}
        /\ steady = {} /\ base = forge /\ broken = {}

-----------------------------------------------------------------------------
(* The environment. *)

Event == budget > 0 /\ budget' = budget - 1

Reading == pc \in {"list", "relist"}

\* what the change of the forge means to the listing being read, if one is
Observed(leaves, enters) ==
  /\ seen' = IF Reading THEN seen \cup {forge'} ELSE seen
  /\ shrunk' = (shrunk \/ (Reading /\ leaves))
  /\ grown' = (grown \/ (Reading /\ enters))
  /\ UNCHANGED <<listed, archs, empties, canonical, missed>>

\* a push
Push(r) == /\ Event /\ forge[r].here /\ forge[r].ver < MaxVer
           /\ forge' = [forge EXCEPT ![r].ver = @ + 1]
           /\ Observed(FALSE, FALSE)
           /\ UNCHANGED <<disk, process, pruning, workers, history>>

\* a deletion, or a rename or transfer away from the path
Delete(r) == /\ Event /\ forge[r].here
             /\ forge' = [forge EXCEPT ![r].here = FALSE]
             /\ Observed(TRUE, FALSE)
             /\ steady' = steady \ {r}
             /\ UNCHANGED <<disk, process, pruning, workers, base, broken>>

\* the path comes back, with at least the content it had
Create(r) == /\ Event /\ ~forge[r].here
             /\ forge' = [forge EXCEPT ![r].here = TRUE]
             /\ Observed(FALSE, TRUE)
             /\ UNCHANGED <<disk, process, pruning, workers, history>>

\* It leaves one of GitLab's two lists and enters the other, and the same with Forgejo's
\* filtered ones; GitHub's one list keeps it, and there this allows too much.
ToggleArchived(r) == /\ Event /\ forge[r].here
                     /\ forge' = [forge EXCEPT ![r].archived = ~@]
                     /\ Observed(TRUE, TRUE)
                     /\ UNCHANGED <<disk, process, pruning, workers, history>>

\* SIGINT or SIGTERM: the context every git command and HTTP request runs under
Cancel == /\ Event /\ pc \notin {"idle", "done"} /\ ~cancelled
          /\ cancelled' = TRUE
          /\ UNCHANGED <<forge, disk, pc, opts, listing, pruning, workers, history>>

\* The process dies; the tree stays as it is.
Crash == /\ Event /\ pc \notin {"idle", "done"}
         /\ pc' = "idle" /\ opts' = NoOptions /\ Reset /\ seen' = {}
         /\ UNCHANGED <<forge, disk, history>>

-----------------------------------------------------------------------------
(* Run, up to the dispatch loop. *)

Start == /\ pc \in {"idle", "done"}
         /\ pc' = "list" /\ opts' \in OptionSet /\ Reset /\ seen' = {forge}
         /\ steady' = OnForge /\ base' = forge /\ broken' = headed
         /\ UNCHANGED <<world, disk>>

\* The paths that a lister asked for a state may name, since they were on the forge in
\* that state at some moment of the listing, and those it names if nothing left its lists.
Sometimes(state) == {r \in Repos : \E m \in seen : m[r].here /\ Selects(state, m[r].archived)}
Always(state) == {r \in Repos : \A m \in seen : m[r].here /\ Selects(state, m[r].archived)}

\* listRepos: the filtered listing returns, each of its entries as the page told it that was
\* fetched at some moment, and is the canonical one if nothing is filtered
List == /\ pc = "list" /\ ~cancelled
        /\ \E S \in SUBSET {e \in Entries : Path(e) \in Sometimes(opts.state)} :
             /\ \A e \in S : e[2] > 1 => grown /\ <<Path(e), e[2] - 1>> \in S
             /\ shrunk \/ \A r \in Always(opts.state) : <<r, 1>> \in S
             /\ \E told \in [S -> seen] :
                  /\ \A e \in S : LET c == told[e][Path(e)]
                                 IN  c.here /\ Selects(opts.state, c.archived)
                  /\ archs' = {e \in S : told[e][Path(e)].archived}
                  /\ empties' = {e \in S : told[e][Path(e)].ver = 0}
             /\ listed' = S
        /\ missed' = shrunk /\ grown' = FALSE
        /\ IF opts.state = "all"
           THEN /\ canonical' = {Path(e) : e \in listed'}
                /\ pc' = "scan" /\ seen' = {} /\ UNCHANGED shrunk
           ELSE /\ UNCHANGED canonical
                /\ pc' = "relist" /\ seen' = {forge} /\ shrunk' = FALSE
        /\ UNCHANGED <<world, disk, opts, cancelled, pruning, workers, history>>

\* Faulty: staleness is judged by the filtered listing.
Relist_Filtered == /\ pc = "relist" /\ ~cancelled
                   /\ canonical' = {Path(e) : e \in listed}
                   /\ pc' = "scan" /\ seen' = {} /\ grown' = FALSE
                   /\ UNCHANGED <<world, disk, opts, cancelled, listed, archs, empties,
                                  shrunk, missed, pruning, workers, history>>

\* listRepos: the second call, with StateAll, returns
Relist == /\ pc = "relist" /\ ~cancelled
          /\ canonical' \in SUBSET Sometimes("all")
          /\ shrunk \/ Always("all") \subseteq canonical'
          /\ pc' = "scan" /\ seen' = {} /\ grown' = FALSE
          /\ UNCHANGED <<world, disk, opts, cancelled, listed, archs, empties,
                         shrunk, missed, pruning, workers, history>>

\* staleMirrors
Scan == /\ pc = "scan"
        /\ stale' = OnDisk \ canonical
        /\ todo' = listed
        /\ pc' = "dispatch"
        /\ UNCHANGED <<world, disk, opts, cancelled, listing, hand, phase, out,
                       scratch, count, holder, ticket, last, history>>

\* a listing or the scan fails: Run returns the error and has written nothing
Abort == /\ pc \in {"list", "relist", "scan"}
         /\ pc' = "idle" /\ opts' = NoOptions /\ Reset /\ seen' = {}
         /\ UNCHANGED <<world, disk, history>>

-----------------------------------------------------------------------------
(* The dispatch loop.  It takes the listing in the lister's order, which the *)
(* choice of e stands for; reportDone for an empty repository runs in the    *)
(* loop itself, and g.Go blocks while the pool is full.                      *)

LoopFree == \A e \in empties : phase[e] \notin {"report", "reporting"}

Skip(e) == /\ pc = "dispatch" /\ e \in todo /\ LoopFree
           /\ e \in empties
           /\ todo' = todo \ {e}
           /\ count' = [count EXCEPT !.skipped = @ + 1]
           /\ phase' = [phase EXCEPT ![e] = "report"]
           /\ UNCHANGED <<world, disk, process, listing, pruning, out, scratch,
                          holder, ticket, last, history>>

Dispatch(e) == /\ pc = "dispatch" /\ e \in todo /\ LoopFree
               /\ e \notin empties
               /\ Cardinality(Active) < Limit
               /\ todo' = todo \ {e}
               /\ phase' = [phase EXCEPT ![e] = "start"]
               /\ UNCHANGED <<world, disk, process, listing, pruning, out, scratch,
                              count, holder, ticket, last, history>>

-----------------------------------------------------------------------------
(* A worker: mirrorRepo, then runRepo's tally, then reportDone. *)

\* the other workers of the run that may be at work on the same directory
Rivals(e) == {d \in listed \ empties : d # e /\ Path(d) = Path(e) /\ ~UsesScratch(d)}

\* What a Sync brings the directory to: what the forge holds, or, with another Sync at work
\* on it, whatever either of them saw of the forge since the run began.
Fetched(e) == LET r == Path(e)
              IN  IF Rivals(e) = {} THEN {forge[r].ver} ELSE base[r].ver..forge[r].ver

\* Sync brings the directory up to date: it clones, or updates what has a HEAD.
Refreshed(e) == LET r == Path(e)
                IN  /\ ~UsesScratch(e) /\ forge[r].here /\ r \notin debris \ headed
                    /\ \E v \in Fetched(e) : mirror' = [mirror EXCEPT ![r] = v]
                    /\ debris' = debris \ {r} /\ headed' = headed \ {r}

\* Faulty: a clone is renamed over whatever is there.
SyncOK_OverDebris(e) ==
  /\ phase[e] = "start" /\ ~cancelled /\ forge[Path(e)].here
  /\ mirror' = [mirror EXCEPT ![Path(e)] = forge[Path(e)].ver]
  /\ out' = [out EXCEPT ![e].synced = TRUE]
  /\ phase' = [phase EXCEPT ![e] = "export"]
  /\ UNCHANGED <<world, debris, headed, archive, hollow, process, listing, pruning, todo,
                 scratch, count, holder, ticket, last, history>>

\* Faulty: a mirror that exists is not refreshed.
SyncOK_KeepsExisting(e) ==
  /\ phase[e] = "start" /\ ~cancelled /\ forge[Path(e)].here
  /\ \/ /\ UsesScratch(e)
        /\ scratch' = [scratch EXCEPT ![e] = forge[Path(e)].ver]
        /\ UNCHANGED <<mirror, debris, headed>>
     \/ Refreshed(e) /\ mirror[Path(e)] = 0 /\ UNCHANGED scratch
     \/ mirror[Path(e)] > 0 /\ UNCHANGED <<mirror, debris, headed, scratch>>
  /\ out' = [out EXCEPT ![e].synced = TRUE]
  /\ phase' = [phase EXCEPT ![e] = "export"]
  /\ UNCHANGED <<world, archive, hollow, process, listing, pruning, todo, count,
                 holder, ticket, last, history>>

\* Sync succeeds: the mirror, or the scratch mirror, holds the forge's content.
SyncOK(e) ==
  /\ phase[e] = "start" /\ ~cancelled
  /\ \/ /\ UsesScratch(e) /\ forge[Path(e)].here
        /\ scratch' = [scratch EXCEPT ![e] = forge[Path(e)].ver]
        /\ UNCHANGED <<mirror, debris, headed>>
     \/ Refreshed(e) /\ UNCHANGED scratch
  /\ out' = [out EXCEPT ![e].synced = TRUE]
  /\ phase' = [phase EXCEPT ![e] = "export"]
  /\ UNCHANGED <<world, archive, hollow, process, listing, pruning, todo, count,
                 holder, ticket, last, history>>

\* Sync takes pieces with a HEAD for a mirror, git finds no remote in what is left of the
\* configuration or nothing to fetch, and the update ends well: the pieces stay pieces.
SyncHollow(e) ==
  /\ phase[e] = "start" /\ ~cancelled
  /\ ~UsesScratch(e) /\ Path(e) \in headed
  /\ out' = [out EXCEPT ![e].synced = TRUE]
  /\ phase' = [phase EXCEPT ![e] = "export"]
  /\ UNCHANGED <<world, disk, process, listing, pruning, todo, scratch, count,
                 holder, ticket, last, history>>

\* Two Syncs clone into the same <dir>.partial, and e renames it when d's clone has only
\* begun: d's clone fails, and what e reports as a mirror is in pieces (see Mirror).
CloneRace(e, d) ==
  /\ phase[e] = "start" /\ phase[d] = "start" /\ ~cancelled
  /\ d \in Rivals(e) /\ ~UsesScratch(e)
  /\ LET r == Path(e)
     IN  /\ forge[r].here /\ mirror[r] = 0 /\ r \notin debris
         /\ debris' = debris \cup {r} /\ headed' = headed \cup {r}
  /\ out' = [out EXCEPT ![e].synced = TRUE, ![d].failed = TRUE]
  /\ phase' = [phase EXCEPT ![e] = "export", ![d] = "fold"]
  /\ UNCHANGED <<world, mirror, archive, hollow, process, listing, pruning, todo, scratch,
                 count, holder, ticket, last, history>>

\* mkdir, git or git-lfs fails, or the timeout or a signal kills it.  Git may have
\* brought the directory up to date before the part that failed.
SyncFail(e) ==
  /\ phase[e] = "start"
  /\ Refreshed(e) \/ UNCHANGED <<mirror, debris, headed>>
  /\ out' = [out EXCEPT ![e].failed = TRUE]
  /\ phase' = [phase EXCEPT ![e] = "fold"]
  /\ UNCHANGED <<world, archive, hollow, process, listing, pruning, todo, scratch,
                 count, holder, ticket, last, history>>

\* exportMetadata: k of the selected exporters succeed
Export(e) ==
  /\ phase[e] = "export"
  /\ \E k \in 0..opts.kinds :
       /\ cancelled => k = 0
       /\ out' = [out EXCEPT ![e] = [synced |-> TRUE, archived |-> FALSE,
                                     failed |-> k < opts.kinds, exported |-> k]]
  /\ phase' = [phase EXCEPT ![e] = IF WantsArchive(e) THEN "archive" ELSE "fold"]
  /\ UNCHANGED <<world, disk, process, listing, pruning, todo, scratch, count,
                 holder, ticket, last, history>>

\* archiveRepo publishes what the directory holds; the scratch directory goes
ArchiveOK(e) ==
  /\ phase[e] = "archive"
  /\ archive' = [archive EXCEPT ![Path(e)] = Packed(e)]
  /\ hollow' = IF ~UsesScratch(e) /\ Path(e) \in headed
               THEN hollow \cup {Path(e)} ELSE hollow \ {Path(e)}
  /\ scratch' = [scratch EXCEPT ![e] = 0]
  /\ out' = [out EXCEPT ![e].archived = TRUE]
  /\ phase' = [phase EXCEPT ![e] = "fold"]
  /\ UNCHANGED <<world, mirror, debris, headed, process, listing, pruning, todo, count,
                 holder, ticket, last, history>>

\* archiveRepo fails: the earlier archive stays
ArchiveFail(e) ==
  /\ phase[e] = "archive"
  /\ scratch' = [scratch EXCEPT ![e] = 0]
  /\ out' = [out EXCEPT ![e].failed = TRUE]
  /\ phase' = [phase EXCEPT ![e] = "fold"]
  /\ UNCHANGED <<world, disk, process, listing, pruning, todo, count,
                 holder, ticket, last, history>>

One(b) == IF b THEN 1 ELSE 0

\* Faulty: only repositories that were synced are tallied.
Fold_SyncedOnly(e) ==
  /\ phase[e] = "fold"
  /\ count' = [count EXCEPT !.synced = @ + One(out[e].synced),
                            !.archived = @ + One(out[e].archived),
                            !.failed = @ + One(out[e].synced /\ out[e].failed),
                            !.exported = @ + out[e].exported]
  /\ phase' = [phase EXCEPT ![e] = "report"]
  /\ UNCHANGED <<world, disk, process, listing, pruning, todo, out, scratch,
                 holder, ticket, last, history>>

\* runRepo adds the outcome to the counters
Fold(e) ==
  /\ phase[e] = "fold"
  /\ count' = [count EXCEPT !.synced = @ + One(out[e].synced),
                            !.archived = @ + One(out[e].archived),
                            !.failed = @ + One(out[e].failed),
                            !.exported = @ + out[e].exported]
  /\ phase' = [phase EXCEPT ![e] = "report"]
  /\ UNCHANGED <<world, disk, process, listing, pruning, todo, out, scratch,
                 holder, ticket, last, history>>

\* Faulty: done is incremented before the lock is taken.
ReportLock_Late(e) ==
  /\ phase[e] = "report"
  /\ count' = [count EXCEPT !.done = @ + 1]
  /\ ticket' = [ticket EXCEPT ![e] = count.done + 1]
  /\ phase' = [phase EXCEPT ![e] = "reporting"]
  /\ UNCHANGED <<world, disk, process, listing, pruning, todo, out, scratch, holder,
                 last, history>>

\* reportDone takes progressMu and increments done
ReportLock(e) ==
  /\ phase[e] = "report" /\ holder = NoRepo
  /\ holder' = e
  /\ count' = [count EXCEPT !.done = @ + 1]
  /\ ticket' = [ticket EXCEPT ![e] = count.done + 1]
  /\ phase' = [phase EXCEPT ![e] = "reporting"]
  /\ UNCHANGED <<world, disk, process, listing, pruning, todo, out, scratch, last, history>>

\* Faulty: the lock is not released.
ReportCall_KeepsLock(e) ==
  /\ phase[e] = "reporting"
  /\ last' = ticket[e]
  /\ phase' = [phase EXCEPT ![e] = "done"]
  /\ UNCHANGED <<world, disk, process, listing, pruning, todo, out, scratch, count,
                 holder, ticket, history>>

\* reportDone calls Progress and releases progressMu
ReportCall(e) ==
  /\ phase[e] = "reporting"
  /\ last' = ticket[e]
  /\ holder' = NoRepo
  /\ phase' = [phase EXCEPT ![e] = "done"]
  /\ UNCHANGED <<world, disk, process, listing, pruning, todo, out, scratch, count,
                 ticket, history>>

-----------------------------------------------------------------------------
(* After the workers: prune and return. *)

\* Faulty: Run prunes once every worker has been started.
Wait_Dispatched == /\ pc = "dispatch" /\ todo = {}
                   /\ pc' = "prune"
                   /\ UNCHANGED <<world, disk, opts, cancelled, listing, pruning,
                                  workers, history>>

\* g.Wait returns
Wait == /\ pc = "dispatch" /\ todo = {}
        /\ \A e \in listed : phase[e] = "done"
        /\ pc' = "prune"
        /\ UNCHANGED <<world, disk, opts, cancelled, listing, pruning, workers, history>>

\* RemoveAll of a stale mirror has unlinked its first entries, HEAD among them or not
PruneBegin(r) ==
  /\ pc = "prune" /\ opts.prune /\ hand = NoRepo /\ r \in stale
  /\ hand' = r
  /\ mirror' = [mirror EXCEPT ![r] = 0]
  /\ IF mirror[r] > 0
     THEN debris' = debris \cup {r} /\ headed' \in {headed, headed \cup {r}}
     ELSE debris' = debris /\ headed' \in {headed, headed \ {r}}
  /\ UNCHANGED <<world, archive, hollow, process, listing, stale, workers, history>>

\* RemoveAll of the mirror succeeds, and the path counts as pruned
PruneMirror ==
  /\ pc = "prune" /\ hand # NoRepo
  /\ debris' = debris \ {hand} /\ headed' = headed \ {hand}
  /\ count' = [count EXCEPT !.pruned = @ + 1]
  /\ pc' = "unarchive"
  /\ UNCHANGED <<world, mirror, archive, hollow, opts, cancelled, listing, pruning, todo,
                 phase, out, scratch, holder, ticket, last, history>>

\* RemoveAll fails, before it has unlinked anything or halfway
PruneFail ==
  /\ pc = "prune" /\ opts.prune
  /\ \E r \in stale : /\ hand \in {NoRepo, r}
                      /\ stale' = stale \ {r}
  /\ hand' = NoRepo
  /\ UNCHANGED <<world, disk, process, listing, workers, history>>

\* the archive goes too, or its removal fails and is only logged
PruneArchive ==
  /\ pc = "unarchive"
  /\ \/ archive' = [archive EXCEPT ![hand] = 0] /\ hollow' = hollow \ {hand}
     \/ UNCHANGED <<archive, hollow>>
  /\ stale' = stale \ {hand}
  /\ hand' = NoRepo
  /\ pc' = "prune"
  /\ UNCHANGED <<world, mirror, debris, headed, opts, cancelled, listing, workers, history>>

\* prune is through, or only warned; Run returns its Result
Return == /\ pc = "prune" /\ hand = NoRepo
          /\ stale = {} \/ ~opts.prune
          /\ pc' = "done"
          /\ UNCHANGED <<world, disk, opts, cancelled, listing, pruning, workers, history>>

-----------------------------------------------------------------------------
Environment == \/ \E r \in Repos : Push(r) \/ Delete(r) \/ Create(r) \/ ToggleArchived(r)
               \/ Cancel \/ Crash

Worker(e) == \/ SyncOK(e) \/ SyncHollow(e) \/ SyncFail(e) \/ Export(e)
             \/ ArchiveOK(e) \/ ArchiveFail(e)
             \/ Fold(e) \/ ReportLock(e) \/ ReportCall(e)

MainLoop == \/ List \/ Relist \/ Scan \/ Abort
            \/ \E e \in Entries : Skip(e) \/ Dispatch(e)
            \/ Wait \/ \E r \in Repos : PruneBegin(r)
            \/ PruneMirror \/ PruneFail \/ PruneArchive \/ Return

Next == \/ Start \/ Environment \/ MainLoop
        \/ \E e \in Entries : Worker(e) \/ \E d \in Entries : CloneRace(e, d)

Spec == Init /\ [][Next]_vars

\* The scheduler runs the process, and its operations end: git and the HTTP calls at
\* the per-repository timeout at the latest.
Fairness == WF_vars(MainLoop) /\ \A e \in Entries : WF_vars(Worker(e))

\* A process is started again and again, and nothing fails for ever.
Recurring == /\ WF_vars(Start) /\ SF_vars(List) /\ SF_vars(Relist) /\ SF_vars(Scan)
             /\ SF_vars(PruneMirror)
             /\ SF_vars(PruneArchive /\ archive'[hand] = 0 /\ hand \notin hollow')
             /\ \A e \in Entries : SF_vars(SyncOK(e)) /\ SF_vars(ArchiveOK(e))
             /\ \A r \in Repos : SF_vars(PruneBegin(r))

FairSpec == Spec /\ Fairness /\ Recurring

-----------------------------------------------------------------------------
(* Types. *)

Outcomes == [synced : BOOLEAN, archived : BOOLEAN, failed : BOOLEAN, exported : Nat]
Counts == [synced : Nat, skipped : Nat, failed : Nat, archived : Nat,
           exported : Nat, pruned : Nat, done : Nat]

WorldOK == /\ forge \in [Repos -> Contents]
           /\ budget \in 0..MaxEvents
DiskOK == /\ mirror \in [Repos -> 0..MaxVer]
          /\ archive \in [Repos -> 0..MaxVer]
          /\ debris \subseteq Repos /\ headed \subseteq debris
          /\ \A r \in debris : mirror[r] = 0
          /\ hollow \subseteq Repos /\ \A r \in hollow : archive[r] = 0
ProcessOK == /\ pc \in {"idle", "list", "relist", "scan", "dispatch", "prune", "unarchive",
                        "done"}
             /\ opts \in Options
             /\ cancelled \in BOOLEAN
ListingOK == /\ listed \subseteq Entries /\ canonical \subseteq Repos
             /\ archs \subseteq listed /\ empties \subseteq listed
             /\ seen \subseteq [Repos -> Contents] /\ (seen # {} <=> Reading)
             /\ shrunk \in BOOLEAN /\ grown \in BOOLEAN /\ missed \in BOOLEAN
PruningOK == /\ stale \subseteq Repos
             /\ hand \in stale \cup {NoRepo}
             /\ pc = "unarchive" => hand # NoRepo
             /\ hand # NoRepo => pc \in {"prune", "unarchive"}
WorkersOK == /\ todo \subseteq Entries
             /\ phase \in [Entries -> Phases]
             /\ out \in [Entries -> Outcomes]
             /\ scratch \in [Entries -> 0..MaxVer]
             /\ count \in Counts
             /\ holder \in Entries \cup {NoRepo}
             /\ ticket \in [Entries -> Nat]
             /\ last \in Nat
HistoryOK == /\ steady \subseteq Repos
             /\ base \in [Repos -> Contents]
             /\ broken \subseteq Repos

\* Every variable stays in its range; the entries a listing reports as archived or empty
\* are listed ones; a directory in pieces is not also a mirror, and an archive of pieces
\* not one of a mirror.
TypeOK == WorldOK /\ DiskOK /\ ProcessOK /\ ListingOK /\ PruningOK /\ WorkersOK /\ HistoryOK

-----------------------------------------------------------------------------
(* Safety. *)

\* prune leaves the path alone: it is off, nothing left the lists of the listing staleness
\* is judged by while that was read, or the listing has the path all the same
Spared(r) == opts.prune /\ shrunk => r \in canonical

\* No step takes the mirror or the archive of a path back to an older version or away,
\* as long as the path stayed on the forge since the run began: prune judges staleness
\* by the StateAll listing (run.go:135-141), and a failing Sync or Archive, a signal or
\* a crash leaves the last good copy.  Three things can: a StateAll listing that something
\* left while it was read and that lacks the path (see Pruning), a directory in pieces
\* that Sync takes for a mirror, and two entries of the path in one listing.  With
\* --prune-removed off the path need not be on the forge: "a run only ever adds or
\* refreshes mirrors" (docs/flags.md:52-53).
NoBackupLost ==
  [][\A r \in Repos : /\ r \in steady \/ ~opts.prune
                      /\ Spared(r) /\ r \notin headed /\ ~Crowded(r)
        => mirror'[r] >= mirror[r] /\ archive'[r] >= archive[r]]_vars

\* the entry's repository has the copies the run was to make of it
Secured(e) == /\ UsesScratch(e) \/ mirror[Path(e)] >= base[Path(e)].ver
              /\ WantsArchive(e) => archive[Path(e)] >= base[Path(e)].ver

\* What a run has to back up of a repository: it had content and no pieces with a HEAD in
\* the tree when the run began, and stayed on the forge since; the run's listing has it, or
\* nothing left the lists of that listing, and it was of the state asked for.
Owed == {r \in steady : /\ base[r].ver > 0 /\ r \notin broken /\ Spared(r)
                        /\ \/ \E e \in listed : Path(e) = r
                           \/ ~missed /\ Selects(opts.state, base[r].archived)}

\* A run that reports no failure has a copy of every repository it was to back up at
\* least as new as the forge's content when it began, whatever workers share its
\* directory: the tar.gz of an archived one that --archive selects, the mirror of any
\* other (Result.Failed is how the caller finds out, run.go:126-127).
SuccessMeansBackedUp ==
  pc = "done" /\ count.failed = 0 =>
    \A r \in Owed : /\ \E e \in listed : Path(e) = r
                    /\ \A e \in listed : Path(e) = r => Secured(e)

\* The Result accounts for every listed repository: it is skipped, synced or failed,
\* synced and failed only when a later stage failed, archived only when synced.
ResultAccountsForAll ==
  pc = "done" =>
    /\ count.skipped = Cardinality(empties)
    /\ count.synced + count.skipped <= Cardinality(listed)
    /\ count.synced + count.skipped + count.failed >= Cardinality(listed)
    /\ count.archived <= count.synced

\* Progress sees done rise by one at a time and never go back, whichever worker gets
\* the lock first (runCounters, run.go:222-233).
ProgressInOrder ==
  [][last' # last => last' = last + 1
                     \/ (last' = 0 /\ phase' = [e \in Entries |-> "none"])]_vars

\* The counters are ahead of the progress: whatever Progress was told is done is in the
\* tally already, and the last call before Run prunes and returns says done = total.
ProgressCovered ==
  /\ last <= count.skipped + count.synced + count.failed
  /\ pc \in {"prune", "unarchive", "done"} => last = Cardinality(listed)

\* Nothing is pruned while a worker may still write to the tree.
PruneAfterWorkers ==
  pc \in {"prune", "unarchive"} => holder = NoRepo /\ \A e \in Entries : phase[e] \notin Busy

-----------------------------------------------------------------------------
(* Why the progress is in order and prune alone. *)

\* A worker that reports holds progressMu, and n is the next number; only listed entries
\* have a worker, and none is at work once g.Wait has returned (run.go:160-184,
\* 241-249).
ReportsInTurn == /\ \A e \in Entries : phase[e] = "reporting" <=> holder = e
                 /\ holder = NoRepo => last = count.done
                 /\ holder # NoRepo => ticket[holder] = last + 1 /\ count.done = last + 1
WorkersListed == /\ todo \subseteq listed
                 /\ \A e \in todo : phase[e] = "none"
                 /\ pc \in {"idle", "list", "relist", "scan"} =>
                      todo = {} /\ \A e \in Entries : phase[e] = "none"
                 /\ \A e \in Entries : phase[e] # "none" => e \in listed
                 /\ pc \in {"prune", "unarchive", "done"} =>
                      \A e \in Entries : phase[e] \notin Busy
PoolInOrder == ReportsInTurn /\ WorkersListed

-----------------------------------------------------------------------------
(* Why nothing is lost: the invariant NoBackupLost rests on. *)

NotAhead == /\ \A r \in Repos : mirror[r] <= forge[r].ver /\ archive[r] <= forge[r].ver
            /\ \A e \in Entries : scratch[e] <= forge[Path(e)].ver
SteadyOnForge == steady \subseteq OnForge

\* every state a listing is read over has what was there all along
SteadySeen == \A m \in seen, r \in steady : m[r].here
CanonicalComplete == pc = "scan" /\ ~shrunk => steady \subseteq canonical
StaleGone == /\ Reading => stale = {}
             /\ stale \cap canonical = {}
             /\ shrunk \/ stale \cap steady = {}
             /\ hand # NoRepo => opts.prune
PackedFresh == \A e \in Entries : /\ Path(e) \in steady \/ ~opts.prune
                                  /\ Path(e) \notin headed /\ ~Crowded(Path(e))
                                  /\ phase[e] \in {"export", "archive"}
                                  => Packed(e) >= archive[Path(e)]

\* No copy is ahead of the forge; unless something left its lists while it was read, the
\* listing staleness is judged by has every path that stayed on the forge, and none of them
\* is stale (run.go:135-141); and what a lone worker is about to archive, of a directory
\* that is whole, is as new as the archive it replaces (run.go:290-342).
BackupsSafe == /\ NotAhead /\ SteadyOnForge /\ SteadySeen /\ CanonicalComplete
               /\ StaleGone /\ PackedFresh

-----------------------------------------------------------------------------
(* Liveness. *)

\* A run that started comes to an end: the dispatch loop, the pool's slots and
\* progressMu never wait on each other.
RunReturns == (pc = "list") ~> (pc \in {"idle", "done"})

\* When the forge stops changing, repeated runs with --state all, --archive archived and
\* --prune-removed bring the tree in line with it: every repository's copy is current
\* and everything of a gone path is removed.  A directory a failed prune left in
\* pieces is the exception: clone cannot rename over it when its path comes back.
InLine(r) ==
  CASE ~forge[r].here -> /\ mirror[r] = 0 /\ archive[r] = 0
                         /\ r \notin debris \cup hollow
    [] forge[r].here /\ forge[r].archived -> archive[r] = forge[r].ver
    [] OTHER -> mirror[r] = forge[r].ver \/ r \in debris
Converges == <>[](\A r \in Repos : InLine(r))
=============================================================================
