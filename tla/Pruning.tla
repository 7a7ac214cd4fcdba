------------------------------- MODULE Pruning --------------------------------
(***************************************************************************)
(* Listing composed with what a run deletes by it: listRepos, staleMirrors *)
(* and prune of internal/backup/run.go over a tree that earlier runs left, *)
(* with listings that take their time, a skip_mirrors that is switched     *)
(* between two runs, and a GitLab token that gains or loses the right to   *)
(* see a project's wiki.                                                   *)
(*                                                                         *)
(* BackupRun has the workers, the archives and the crashes, and listings   *)
(* that return any answer the clients of Listing may give; here they are   *)
(* those of the clients, page by page, and all the workers of a run are    *)
(* one step.                                                               *)
(***************************************************************************)
EXTENDS Listing

CONSTANT Wikis  \* GitLab projects with a wiki, which is listed and mirrored as well

ASSUME WikiAssumption == Wikis \subseteq Paths

VARIABLES
  disk,     \* what has a mirror in the tree: [path, wiki]
  barred,   \* projects whose wiki GitLab answers with a 403
  stage,    \* where the run is
  opts,     \* its options
  selected, \* what the run's own listing has
  stale,    \* what staleMirrors returned
  lasting,  \* history: paths that were on the forge without interruption since it began
  torn      \* history: something left a list of the StateAll listing while it was read

run == <<disk, barred, stage, opts, selected, stale, lasting, torn>>
prunevars == <<vars, run>>

Repository(p) == [path |-> p, wiki |-> FALSE]
Wiki(p) == [path |-> p, wiki |-> TRUE]
Backups == {Repository(p) : p \in Paths} \cup {Wiki(p) : p \in Wikis}
RunOptions == [state : States, prune : BOOLEAN]
NoOptions == [state |-> "all", prune |-> FALSE]
Stages == {"idle", "list", "relist", "work", "prune"}

\* Every path was backed up at some time, and some are gone: the tree that asks most of prune.
PruningInit ==
  /\ Init
  /\ disk = {b \in Backups : b.wiki => kind = "gitlab"}
  /\ barred = {}
  /\ stage = "idle" /\ opts = NoOptions
  /\ selected = {} /\ stale = {} /\ lasting = {} /\ torn = FALSE

-----------------------------------------------------------------------------
(* The environment. *)

Changes == /\ ForgeChanges
           /\ lasting' = lasting \cap ToSet(order')
           /\ UNCHANGED <<disk, barred, stage, opts, selected, stale, torn>>

\* the user edits the configuration between two runs
SwitchSkipMirrors == /\ Event /\ stage = "idle" /\ kind = "forgejo"
                     /\ skipMirrors' = ~skipMirrors
                     /\ UNCHANGED <<kind, order, arch, client, history, run>>

\* the token's rights on a project change between two runs
SwitchRights(p) == /\ Event /\ stage = "idle" /\ kind = "gitlab"
                   /\ barred' = IF p \in barred THEN barred \ {p} ELSE barred \cup {p}
                   /\ UNCHANGED <<kind, skipMirrors, order, arch, client, history,
                                  disk, stage, opts, selected, stale, lasting, torn>>

-----------------------------------------------------------------------------
(* The run. *)

\* what a listing's pages say is on the forge; a wiki that is barred is taken for none
Reported == LET paths == {repos[i].path : i \in DOMAIN repos}
            IN  {Repository(p) : p \in paths}
                  \cup {Wiki(p) : p \in {q \in paths : kind = "gitlab" /\ q \in Wikis \ barred}}

Start == /\ stage = "idle"
         /\ Begin
         /\ stage' = "list"
         /\ \E b \in BOOLEAN : opts' = [state |-> state', prune |-> b]
         /\ selected' = {} /\ stale' = {}
         /\ lasting' = Here
         /\ UNCHANGED <<disk, barred, torn>>

Fetch == /\ stage \in {"list", "relist"}
         /\ ListStep
         /\ UNCHANGED run

\* the StateAll listing, after a listing of anything less
Relist == /\ stage = "list" /\ pc = "returned" /\ opts.state # "all"
          /\ selected' = Reported
          /\ Begin /\ state' = "all"
          /\ stage' = "relist"
          /\ UNCHANGED <<disk, barred, opts, stale, lasting, torn>>

\* Faulty: staleness is judged by the run's own listing.
Scan_Own == /\ pc = "returned"
            /\ stage = "relist" \/ (stage = "list" /\ opts.state = "all")
            /\ selected' = IF stage = "list" THEN Reported ELSE selected
            /\ stale' = disk \ selected'
            /\ stage' = "work" /\ torn' = shrunk
            /\ UNCHANGED <<vars, disk, barred, opts, lasting>>

\* Faulty: archived repositories of the listing do not count.
Scan_Active == /\ pc = "returned"
               /\ stage = "relist" \/ (stage = "list" /\ opts.state = "all")
               /\ selected' = IF stage = "list" THEN Reported ELSE selected
               /\ stale' = {b \in disk : b \notin Reported \/ b.path \in arch}
               /\ stage' = "work" /\ torn' = shrunk
               /\ UNCHANGED <<vars, disk, barred, opts, lasting>>

Scan == /\ pc = "returned"
        /\ stage = "relist" \/ (stage = "list" /\ opts.state = "all")
        /\ selected' = IF stage = "list" THEN Reported ELSE selected
        /\ stale' = disk \ Reported
        /\ stage' = "work" /\ torn' = shrunk
        /\ UNCHANGED <<vars, disk, barred, opts, lasting>>

\* a run that has returned leaves nothing behind but the tree
Return == /\ stage' = "idle" /\ opts' = NoOptions /\ selected' = {} /\ stale' = {}
          /\ lasting' = {} /\ torn' = FALSE
          /\ pc' = "idle" /\ state' = "all" /\ pass' = FALSE /\ page' = 1 /\ repos' = <<>>
          /\ steady' = {} /\ shrunk' = FALSE /\ grown' = FALSE
          /\ UNCHANGED <<forge, barred>>

\* a listing failed, and Run returns its error
Abort == /\ stage \in {"list", "relist"} /\ pc = "failed"
         /\ disk' = disk
         /\ Return

\* the workers: any of them may fail, and those of repositories that are gone do
Sync == /\ stage = "work"
        /\ \E done \in SUBSET {b \in selected : b.path \in Here} : disk' = disk \cup done
        /\ stage' = "prune"
        /\ UNCHANGED <<vars, barred, opts, selected, stale, lasting, torn>>

\* any removal may fail, and the process may die between two
Prune == /\ stage = "prune"
         /\ \E gone \in SUBSET stale : disk' = disk \ (IF opts.prune THEN gone ELSE {})
         /\ Return

-----------------------------------------------------------------------------
PruningNext == \/ Changes \/ SwitchSkipMirrors \/ \E p \in Wikis : SwitchRights(p)
               \/ Start \/ Fetch \/ Relist \/ Scan \/ Abort \/ Sync \/ Prune

PruningSpec == PruningInit /\ [][PruningNext]_prunevars

-----------------------------------------------------------------------------
(* Properties. *)

\* Every variable stays in its range.
PruningTypeOK == /\ TypeOK
                 /\ disk \subseteq Backups /\ barred \subseteq Wikis
                 /\ stage \in Stages /\ opts \in RunOptions
                 /\ selected \subseteq Backups /\ stale \subseteq disk
                 /\ lasting \subseteq Here /\ torn \in BOOLEAN

\* what the configuration or the token hides from every listing
LeftOut(b) == IF b.wiki THEN b.path \in barred ELSE skipMirrors /\ b.path \in Mirrors

\* Whatever part of the forge a run was asked to mirror, what it calls stale is exactly what
\* is gone or left out, as long as nothing entered or left the lists of the StateAll listing.
StaleIsExact ==
  stage = "work" /\ ~shrunk /\ ~grown => stale = {b \in disk : b.path \notin Here \/ LeftOut(b)}

\* A backup whose repository was on the forge from the first request of the run to this step
\* is pruned for one of three reasons only: something left a list of the StateAll listing
\* while it was read, skip_mirrors leaves the repository out, or its wiki answers with a 403.
PruneSpares ==
  [][\A b \in disk \ disk' : b.path \in lasting => torn \/ LeftOut(b)]_prunevars

\* "deletes a mirror (and its .tar.gz, if archived) once its repository no longer appears on
\* the forge at all" (docs/flags.md:51-53): what was there throughout the run is not pruned.
OnlyGonePruned == [][\A b \in disk \ disk' : b.path \notin lasting]_prunevars
=============================================================================
