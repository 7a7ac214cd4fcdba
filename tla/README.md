# Verification of backup-git-repos

TLA+ models of the program, the TLC runs that check them on small instances, and theorems
about them that TLAPS proves for every value of the constants. Every definition is
translated from the Go source; `PROJECT.json` lists, for each one, the lines it stands for.

## The system

`backup-git-repos` mirrors the git repositories of self-hosted forges. One call of the
command goes through the configured forges in turn; for each one it lists the repositories,
mirrors them in a bounded pool of workers, exports metadata, writes tarballs, and removes
what the forge no longer has. It is run again and again over one backup tree, which is the
only thing it keeps.

| Component | Source | State it keeps | Operations | Module |
|---|---|---|---|---|
| `Runner.Run` | `internal/backup/run.go` | the counters, the listings, the pool; the tree | list, scan, dispatch, mirror, export, archive, tally, report, prune | `BackupRun` |
| `Mirror.Sync` | `mirror.go`, `mirror_lfs.go` | a mirror directory, `dir.partial` | clone, update, LFS fetch | `Mirror`, `Refresh` |
| `Archive` | `archive.go` | `out`, `out.tmp` | walk, write, close, rename | `Archive`, `Publish` |
| `ListRepos` | `forgejo.go`, `gitlab.go`, `github.go` | the page it is at, what it has gathered | a request, a pass, the end | `Listing`, `Pruning` |
| GitLab project details | `gitlab.go`, `wiki.go`, `snippet.go` | one slot per project | a group of lookups | `ProjectDetails` |
| Release, issue and pull request export | `*/release.go`, `*/issue.go`, `*/pull_request.go`, `metadata.go` | the page it is at; a JSON file per item, a file per asset | pages of items, pages of comments, downloads, writes | `Export` |
| Command line | `cli.go`, `main.go` | flags, the forge it is at | options, forges in turn, list, dry run, run, exit status | `Command` |
| Configuration | `config.go`, `cli_config.go` | the file | config init, its prompt, tokens | `Command` |
| The tree | `run.go`, `metadata.go` | mirrors, archives, metadata | where each lies, what a tree reads as | `Layout` |
| Progress line, HTTP helpers | `cli_progress.go`, `httpauth`, `httperr` | none | - | the order of the calls is in `BackupRun` |

How they interact: `runForge` calls `Run` with a `Runner` made of a client (`Lister`,
`Remoter`, `MetadataExporter`s) and a `Mirror`. `Run` calls `ListRepos` once or twice, scans
the tree, and starts `mirrorRepo` for each repository in an `errgroup`. A worker calls
`Sync`, then the exporters, then `Archive` on the directory `Sync` left. The workers share
atomic counters and `progressMu`, under which `Progress` is called. `prune` runs after the
last worker. One context reaches every git command and every HTTP request; a signal cancels
it. The tree is shared with earlier and later runs, and with nothing that keeps two
processes apart.

What is hard about it: the interleavings of loop, workers and lock; a forge that changes
between two requests and between listing and use; git that is killed halfway; git's own
background maintenance under an archive that is being written; a process that dies at any
step and the next one that starts from what it left; and deleting, with all that, only what
is really gone. `PROJECT.json` lists these one by one under `hazards`, at the line where
each bites, with the properties that would find it going wrong.

### What makes each component correct

* **Run**: a path that stays on the forge loses its copies, and a run that reports no failure
  lacks a repository it was asked to back up, only in the cases the next section names; the
  `Result` accounts for every listed repository; `Progress` is called in order and completely;
  nothing is pruned while a worker works; a run ends; repeated runs bring the tree in line
  with a forge that stays as it is.
* **Mirror**: with one `Sync` at a time a directory with a `HEAD` is a finished clone, and a
  `Sync` that succeeds is a snapshot of the remote with its LFS objects; when several overlap
  and leave an unfinished clone behind, at most one of them says that it succeeded; a finished
  mirror stays; repeated `Sync`s recover from what a killed one left.
* **Archive**: a reader sees a whole copy of the mirror or nothing, replaced in one step.
* **ListRepos**: what is on the forge throughout and wanted is in the listing, once, with the
  right flag. True of a forge that stays as it is; the module says what else is true.
* **The tree**: what a run removes belongs to the forge it is at and is gone from it, or read
  as gone for one of the reasons the next section names; what is kept back for `--state` is
  not taken for gone.
* **Command line**: no request is sent while a token is missing; a weaker layer never turns on
  what a stronger one denies; a call that ends well has reached every selected forge, and no
  forge's run touches another's copies; a dry run says what a run does; a configuration
  somebody wrote is replaced only with `--force`.
* **Project details**: the concurrent implementation returns what the serial one would.
* **Exporters**: an export that succeeds has written, of everything that was there
  throughout, a whole file with its comments or assets, whatever an earlier export left.

### What a backup may be lost to, or miss

The properties are stated for what the code does, so each names the cases it does not cover:

* **A torn listing.** A listing is gathered page by page at an offset, on GitLab in two passes.
  When something leaves its lists while it is read (a deletion, a repository archived or
  unarchived), a repository that is there from the first request to the last may be in none of
  the pages. If the `StateAll` listing lacks it, its copies are pruned; if the filtered one does,
  it is passed over and the run still reports success. With `--state active` both listings matter:
  the filtered one may have the repository, so that it is mirrored, and the other one lack it,
  so that the mirror just made is pruned. `Pruning` shows where this comes from, page by page;
  `BackupRun` and `Command` what becomes of it (`shrunk`, `missed`, `torn`).
* **Pieces with a `HEAD`.** `RemoveAll` of a stale mirror stops halfway, and `HEAD` is still
  there. When the path comes back `Sync` takes the directory for a mirror (`mirror.go:46`);
  the update may fail, or repair it, or end well over what is no mirror. Then the run reports
  success, and `Archive` packs the pieces over the archive.
* **Two entries of one path.** Something enters the lists while they are read, and a path is on
  two pages. Two workers then `Sync` one directory, and one of them may rename what the other
  has begun to clone: one fails, and the directory has a `HEAD` and no content, until a later
  update completes it. A run in which that happened reports a failure.
* **Metadata that reads as a repository** (`Mistaken`), and the two settings and rights that
  `PruneSpares` names (`skip_mirrors`, a 403 on a wiki).

## The modules

**`BackupRun`** is `Run`, with the forge and the operating system around it. A repository's
content is a version number; a mirror or an archive is the version it holds. `forge` changes
by `Push`, `Delete`, `Create`, `ToggleArchived`; `Cancel` is the signal, `Crash` the end of
the process, `Start` the next run. `List`, `Relist`, `Scan`, `Skip`, `Dispatch`, `Wait`,
`Return` are the main goroutine, `pc` says where it is. `SyncOK` to `ReportCall` are a worker
(`phase`, one per entry of the listing, `out` is its `mirrorOutcome`): mirroring into the tree
or, for an archived repository that `--archive` selects, into a scratch directory;
exporters; archive; tally; the two halves of `reportDone`, which is one critical section
(`holder`) of several steps. A listing is read over several states of the forge: `Start` and
`List` begin one, `seen` gathers what the forge was like since then, and `List` or `Relist`
ends it with any answer the clients may give over those states. What may be missing or double
is what `Listing` proves of them: nothing is missing unless something left a list
(`OnlyDeletionsHide`, here `shrunk`), nothing is double unless something entered one
(`OnlyCreationsRepeat`, here `grown`), and each entry is as the forge was at one of its
moments. A worker belongs to an entry of the listing, not to a path, so two of them may share a
directory (`Rivals`). `PruneBegin`, `PruneMirror`, `PruneFail`, `PruneArchive` are `prune`, in
which `RemoveAll` may stop halfway and leave `debris`, with a `HEAD` (`headed`) or without.
A worker's `Sync` and `Archive` are one step each with every outcome the modules `Mirror` and
`Archive` allow: success (`Refreshed`), failure with the mirror as it was, failure with the
refs moved (LFS failed, or the refs were done when git was killed), success over pieces with a
`HEAD` (`SyncHollow`), and with two `Sync`s on one directory a mixture of what both read, or
a half-built clone renamed into place (`CloneRace`). `hollow` are the archives packed from
pieces. `steady`, `base` and `broken` are history variables: the paths on the forge without
interruption since the run began, the versions they had, and the pieces with a `HEAD` of then.

**`Mirror`** is `Sync` on one directory, one step per command it runs or file it touches, by
one or more `Syncers`. git is modelled by what the code relies on: `clone` writes a `HEAD`
before it is complete, a fetch reads the remote's refs at once and moves the local ones one
by one, a killed git leaves what it had written and perhaps a ref's lock file; `git lfs fetch`
reads the local refs at once (`ScanLFS`), fetches object after object (`FetchObject`) and is
through when it has them (`LFSDone`), whatever moved the refs meanwhile. `dir.lfs` are the LFS
objects fetched, `dir.by` is whose clone the directory is. An update of an unfinished clone
works, and completes it.

**`Refresh`** is the abstract specification `Mirror` implements while there is one `Sync` at a
time: what somebody sees who opens the mirror at any moment. A call takes the remote's refs at
one moment; a first copy appears whole; in a copy that is there refs move one by one to what
was taken; the call succeeds when all are there, and may break off before. Commands, `.partial`,
lock files, LFS objects and crashes do not show in it.

**`Archive`** is `archive.go` on a mirror made of loose objects and packs, which background
maintenance repacks meanwhile. `WalkLoose` and `WalkPacks` are `sortedPaths`, which sees the
two kinds of directories at different moments; `Write` is `writeEntry` on one of the paths
found, in their order. Refs are in the same position as objects (`packed-refs` sorts before
`refs/`, and is read when its turn comes) and are not modelled a second time.

**`Publish`** is the abstract specification `Archive` implements: a content that changes, and
a published copy that is replaced in one step by the content of that moment.

**`Listing`** is the three `ListRepos` in one module: GitLab with a server-side filter, a
second pass and `x-next-page`; Forgejo with an optional filter, a local skip of mirrors and a
last page that is a short one; GitHub with a local filter. `order` is the forge's list, which
the server cuts at an offset; `Create`, `Delete` and `ToggleArchived` change it between two
requests. A page is the paths whose `Rank` among those the request matches is one of the
page's, and what a client keeps of it is put in the server's order by rank (`InOrder`): the
modules and their proofs count places and never take a sequence apart. `shrunk` and `grown` are history: whether anything has left, or entered, a list the
client pages through.

**`Pruning`** extends `Listing` with what a run deletes by it: `Start`, `Fetch`, `Relist` are
`listRepos` over the clients' own page-by-page listings, `Scan` is `staleMirrors`, `Sync` all
the workers in one step (any may fail), `Prune` is `prune`, of which any removal may fail.
Between two runs the user may switch `skip_mirrors`, and a GitLab token may gain or lose the
right to see a project's wiki, which is a repository of its own. `BackupRun` has what
`Pruning` leaves out, workers, archives and crashes, and its listings are any that the ones
here may be. `lasting` and `torn` are history: the paths on the forge throughout the run, and whether anything left a
list of the `StateAll` listing while it was read.

**`Layout`** is the tree as paths: where a mirror, an archive and a release's asset lie, and
`onDiskPaths` and `staleMirrors`, which read a tree back. A name is the sequence of its parts
between the dots, so suffixes are last elements.

**`Command`** extends `Layout` with the program around `Run`: call after call over one tree, two
forges and one configuration file. `Invoke` is a call; `Resolve`, `Answer`, `Stat`, `Write`
are the configuration's path, the prompt of a first run and `config init`, between any two of
which the user may `Save` a file of their own; `Flags` and `Load` are the two readings of the
file, the layers of an option and the tokens; `NextForge`, `List`, `Fail`, `Finish` the forges
in turn; `Preview` and `PreviewPrune` the dry run; `Relist`, `Scan`, `Work`, `Prune` the few
steps that are left of `Run`. A listing begins with `NextForge`, or with the step that goes on to
`Relist`, and returns at a later one, over the states in `seen`, as in `BackupRun`; which
listing something left while it was read is in `torn`. A path may be listed twice with two
statuses; `Work` is one step, so what two workers do to one directory is `BackupRun`'s. Its `of` says what a node of the tree is a copy of, which the
program cannot see. `plan` and `quiet` are history: what the last dry run of a forge announced
and whether the forge has changed since it began; `steady`, `lacking`, `saved` and `torn`
likewise.
Two assumptions about names the program does not check. `NamesApart`: no forge's directory lies
in another's, nor among the archives. `PathsApart`: a repository has a name, no name on its
path is empty or ends in `.git`, and none lies where another's metadata goes. `Words` are the
words names are made of.

**`ProjectDetails`** is `projectRepos` with `projectDetail`, `wikiRepo`, `snippetRepos` and
`getOptional`: a bounded group of goroutines, each with its slot; the first error cancels the
rest; `Wait` waits for all of them. `Past` are the snippets on the pages a goroutine has read,
`OnPage` those of the next answer.

**`Export`** is the three exporters of the three clients in one module, because they are one
program: pages of items, for each item its comments page by page (reviews on Forgejo,
discussions on GitLab) or its assets, then its file. `forge` and `kind` choose the client and
the exporter, and with them what differs: `x-next-page` or a short page ends a list; GitHub
lists pull requests among the issues and the client skips them; GitLab's system notes are
dropped from a page after it has come; a 403 from GitLab is an empty answer; a release's
assets come with the page, comments are asked for later. An item is a version number and its
parts. `files` and `assets` are the disk, which outlives an export: `Write` and `Download`
truncate and write in place, and `FilesLeft` and `AssetsLeft` are what is there when one of
them stops. `there`, `steady`, `base`, `shrunk`, `short` and `barred` are history. `place` is
`sanitizeName`: two releases may share a directory, an issue or a pull request never does, and
`files` and `assets` are indexed by it. Two asset names of one release that become one are not
modelled.

The `MC*` modules give the constants their values for TLC.

## The runs

Everything named "bound" in a module is there for TLC only; the theorems hold for any bound.

| Run | Instance | What it shows |
|---|---|---|
| `history` | 2 repositories, 3 option sets, 2 versions, 1 event, two workers, at most 2 entries in a listing, any tree and any forge to begin with | Successive runs with a change of the forge, a signal or a crash at any step, listings torn or double included, and every interleaving of loop, workers and lock: `NoBackupLost`, `SuccessMeansBackedUp`, `ResultAccountsForAll`, `ProgressInOrder`, `ProgressCovered`, `PruneAfterWorkers` |
| `live` | 2 repositories, one worker, 1 event | `RunReturns`, `Converges` |
| `mirror` | 2 refs, 2 versions, 2 events, one syncer | `HeadMeansComplete`, `MirrorKept`, `SyncedIsSnapshot`, `SyncedHasLFS`, `Recovers`, and that `Mirror` implements `Refresh` |
| `mirror_overlap` | 1 ref, 1 version, 1 event, two syncers | `HalfBuiltIsTold` |
| `archive` | 3 objects, 2 packs, 3 events | `Covered`, and that `Archive` implements `Publish` |
| `pruning` | 3 paths, one a Forgejo mirror and a project with a wiki, pages of 2, 2 events, all three clients | `OnlyDeletionsHide`, `OnlyCreationsRepeat`, `QuietIsExact`, `StaleIsExact`, `PruneSpares` |
| `project_details` | 3 projects, 2 places, pages of 1, up to 2 snippets | `SameAsSerial`, `NothingLeftRunning`, `Ends` |
| `export` | 2 items, 2 parts, pages of 1, 1 event, all nine exporters | `SuccessMeansExported`, `ClaimsRepaired`, `Ends` |
| `command` | 2 forges, one with two repositories, 8 calls in any order and number, 1 event | `DryRunForetells`, `RemovalsAreRight`, `BackedUp`, `TokensFirst`, `UserConfigKept` |
| `pruning_shift` | violation | a deletion between two pages hides another repository from the listing, and its mirror is pruned (`docs/flags.md:51-53`, `run.go:137-141`) |
| `command_metadata` | violation | with archives beside the mirrors a release asset `src.tar.gz` reads as a stale archive and is pruned (`docs/flags.md:51-53`, `metadata.go:84-88`) |
| `export_claim` | violation | a download that fails in a second export removes an asset that the first one's `release.json` claims (`forgejo/release.go:83-85`) |

Why the bounds are enough. In `history` two repositories are one that changes and one that
does not, or the one that is pruned and the one that is written, or two workers that race for
`progressMu`, or a worker and the loop that reports an empty one, or one that is listed twice
and its two workers; all states of the tree and of the forge are initial states (`HistoryInit`
leaves out those without a version to come, and archives packed from pieces, which the runs
make themselves), so what a longer history leads to is where a behaviour begins. `MaxCopies` is
how often a listing may name a path, and `FewEntries` looks no further than two entries, which
is two workers that meet: one path twice and another one once would be three. The loop that
waits for a place in the pool is in `live`, where there is one place, and where `LiveInit`
begins with a new repository and one that is gone. In `mirror_overlap` one clone, one update
and one push are what two `Sync`s need to cross in all their steps. In `archive` three objects and two packs allow a repack of a repack
under one walk. In `pruning` three
paths in pages of two make a full last page, a short one and, once one is deleted, one that is
full and followed by an empty one; one path is both the mirror and the project with a wiki,
because no client has both; two events hit two different boundaries, or a boundary and the
configuration; the tree has everything in it at the beginning, and runs repeat without bound.
In `command` the two forges have a path of the same name, which is what could be confused
between them, and the first one has a second repository, which a change of the other one may
hide from its listings; `MCInit` begins with a few of the pairs of statuses, and one event
makes more; a call is any of eight, which meet every value of every option, and calls repeat
without bound, so a dry run meets every tree that runs can leave; one event is a change of a
forge or a saved file, at any step. In `export` pages of one make
every boundary a page boundary, two comments of which one is a system note make a page with
nothing to keep before one with something, failures are not counted, and one event is enough
for each kind of change to meet each position of the loop; the exports repeat without bound;
`MCSpec` begins with the comments of an item in one order, and the items as well where none is
passed over, and `Create` and `AddPart` make the others. In `mirror` two refs are what it
takes to be caught between two; versions 1 and 2 with LFS at 1 only make a history that has
more than its tip. `project_details` stops when it has returned, so it runs with
`CHECK_DEADLOCK FALSE`; every other system can always take a step, and deadlock is checked.

Fairness. `BackupRun`'s `Fairness` is weak, on the main goroutine and on each worker: the Go
scheduler runs them, and the operations they wait for end (git and HTTP at `--timeout` or
with the context). `RunReturns` needs no more. `Recurring` adds what only `Converges` needs:
the tool is started again and again, and no listing, `Sync`, archive or removal fails every
time. `Mirror`'s fairness says the same of one directory. `ProjectDetails` and `Export` assume that
requests end; that an export fails is never assumed, save where the forge answers 404. None of them says anything of the environment: a forge may never change, or
stop changing.

`Converges` and `Recovers` name their exceptions, which are what the tool cannot repair by
itself: a directory that a failed prune left in pieces, with a `HEAD` or without, and whose
path comes back, and a lock file that a killed git left.

## The proofs

Each module of proofs is about one module of the model, and each theorem holds for every value
of the constants that satisfies their named assumptions; these say what kind of value a
constant is, save where the list below names another. TLC checked each inductive invariant on
the instance of its module's run before it was proved.

* `BackupRunProofs`: `TypeCorrect`, then `BackupsSafeAlways`, then `NothingLost`. `NoBackupLost`
  is about steps and needs facts about states: that no copy is ahead of the forge (`NotAhead`),
  so a `Sync` never goes back; that a `steady` path is on the forge in every state a listing is
  read over (`SteadySeen`), so a listing that nothing left has it (`CanonicalComplete`) and it
  is not `stale` (`StaleGone`); and that what a lone worker is about to archive, of a directory
  that is no heap of pieces, is at least as new as the archive there is (`PackedFresh`).
  `BackupsSafe` is their conjunction.
  Then the pool: `PoolInOrder` (who reports holds the lock; with the lock free the last number
  passed is `done`; a worker belongs to an entry that has been dispatched) is inductive,
  and gives `PruneAlone` and `ProgressOrdered` for any number of repositories and workers.
  Then the `Result`: `SuccessIsBackup` from `ResultKept`: a repository there throughout is in the
  listing, if nothing left that while it was read (`SteadyListed`), and wherever its worker is, its copies are as new as the run, or
  the worker's outcome says `failed`, or `Result.Failed` counts it (`WorkKept`).
  `EveryRepoCounted` and `ProgressIsCovered` from `TallyKept`: every counter is the size of a
  set of repositories (`CountsAreSizes`), so an `Add` of one worker is a set that grows by one,
  whatever the others do meanwhile; and no worker comes to the tally without having synced or
  failed (`OutcomesTold`).
* `MirrorProofs`: `TypeCorrect`, `MirrorAlwaysKept` and `HalfIsTold` for any number of
  overlapping `Sync`s; `HeadComplete`, `SyncedSnapshot` and `SyncedWithLFS` under the assumption
  that there is one `Sync` at a time, which they need: two may publish a half-built clone, and
  one may move the refs while the other one's `git lfs fetch` works. `Timely` is the
  invariant of the latter: the remote's refs, those git has read and those of a finished clone
  are all of the time of that `Sync`. `Refreshed`, under the same assumption, is the
  refinement: every step of `Mirror` is a step of `Refresh` or leaves what it shows unchanged
  (`SyncRefresh`, `StepRefresh`), for what is renamed is a finished clone (`FinishedRenamed`)
  and a `Sync` at the refs or the LFS objects is at a mirror that is there (`AtMirror`).
* `ArchiveProofs`: `TypeCorrect`, `CoveredAlways`, and `Published`, the refinement: every step
  of `Archive` is a step of `Publish` or leaves what it shows unchanged. The core is that a
  repack moves objects between files without losing any, so everything in the mirror stays in
  the tarball or in a file to be written, unless such a file is gone, and then `writeEntry`
  fails.
* `PruningProofs`, about `Listing` and `Pruning` together: `TypeCorrect`, `NothingMissed`,
  `NothingTwice`, `QuietListing`, `StaleMeansGone`, `PruningSpares`. The argument is about
  ranks: a path's rank among those a request matches falls only when one before it leaves, and
  rises only when one enters (`RankGrows`, `Inserted`, `Removed`). So, while nothing has left a
  list, a path that is owed is listed or its rank lies beyond the pages read (`Found`) and what
  is listed is still there (`Present`); while nothing has entered, what is listed lies on the
  pages read (`Apart`). `Judged` carries this from the listing to `Prune`. `Exact` says of a
  forge that stays as it is what has been gathered, entry by entry. The lemmas before them
  (`Places`, `Ranks`, `RanksOnto`, `SortedPlaces`, `FullPage`, `SortedUnion`) are about any
  sequence without repetitions. Assumed: that the paths are finitely many.
* `ExportProofs`: `TypeCorrect`, `ExportComplete` and `ClaimsRight`, from an invariant in four
  parts. `Typed` is `TypeOK` with the sequences as sequences. `Remembered`: what history says of
  the beginning is still true of the forge, and what a page said of an item is no older than it
  (a file is written from what the page said, long after). `Gathered`: a comment that is due has
  been got or lies behind the pages read, so the last page leaves none, whichever way the forge
  says that it was the last (`PagePlaces`). `Covered`: an item that is owed is settled, or in
  the queue, or behind the pages read; a creation moves it only further back, and a deletion
  while an export works sets `shrunk`. `Settled` includes the assets a `release.json` claims,
  and speaks of the place, so that a release whose directory another one shares is settled by
  the other's file. Assumed: that items and parts are finitely many.
* `ListLemmas`, for these two: what a sequence has where once an element has been put into it
  or taken out, and what an enumeration of a finite set is.
* `DetailsProofs`: `InOrderAlways`, and from it `TypeCorrect`, `NothingRuns` and `SerialResult`.
  `InOrder` says of each goroutine that it has found the project, its wiki and the snippets of
  the pages it has read, in this order and of its own project, and that a filled slot is what
  it found; then the concatenation of the slots is what the serial loop returns.
* `CommandProofs`: `TypeCorrect`, `TokensComeFirst`, `UserFileKept`, `RemovalsRight`,
  `RunBacksUp`, `DryRunTells`. The first half is about `Layout`: two places are the same only if
  forge, repository and extension are (`RootsApart`, `SameNamed`, `RestPlaces`,
  `MetadataApart`), so a run touches no other forge's copies and `staleMirrors` returns no path
  of the listing it is given. `Begun` is what holds before the first forge, `Sound` the types
  with `Placed` (every node of the tree is a copy of a repository, where the layout puts it),
  `Read` that what is `steady` was as it is in every state the listing is read over, `Reported`
  that the listing staleness is judged by is complete unless it is in `torn`, `Advanced` that the
  forges a run is through with are complete, `Foretold` that what a dry run said still holds
  of a forge that has not changed (`Planned`), that the run lists and scans the same (`Known`)
  and does it (`Fulfilled`). Assumed, besides types: `NamesApart` and `PathsApart`.

Every invariant and every property of steps that a passing run checks is proved. Only
model-checked: what is temporal and needs fairness (`RunReturns`, `Converges`, `Recovers`, the
two `Ends`), for liveness and `ENABLED` are beyond this prover. The runs that expect a violation
refute properties without whose exceptions the theorems hold: `PruningSpares`, `NothingLost` and
`RemovalsRight` name what a shifted page hides, `RemovalsRight` excepts metadata that reads as
a repository, and `ClaimsRight` speaks of exports that succeed.

What the models showed and no run states, because it follows from the text of the code:
`README.md:151-152` says of an archived repository "only the tar.gz, no .git alongside it", but
one that was mirrored before it was archived keeps its old `.git` directory, which `mirrorRepo`
does not touch and `prune` keeps for its path is listed. `docs/metadata-export.md:82-88` says
that two releases "never collide on disk", but `sanitizeName` maps `a/b` and `a-b` to one
directory, and that an asset above the limit fails "while the rest of the release still lands",
but `exportRelease` returns at the first error and writes no `release.json`.

## The plan

1. Done: `BackupRun`, `Mirror` with `Refresh`, `Archive` with `Publish`, `Listing`, `Pruning`, `Layout`, `Command`,
   `ProjectDetails`, `Export`, their runs, and the proofs above.
2. That the steps `BackupRun` takes at once are what the modules in detail do. For `Sync` one
   half is done: `Refresh` is what is left of `Mirror` when commands are not told apart. The
   other is the outcomes of a worker's `Sync` against `Refresh`. `List` and `Relist` say what
   `OnlyDeletionsHide`, `OnlyCreationsRepeat` and `QuietIsExact` promise of `Listing`, where
   `PruningProofs` proves them; that the two say the same is read, not checked.

## Not modelled

Credentials, environment variables of git, log lines, the text of messages and the layout of
the progress line: nothing they do changes what is backed up. `testing.go` holds the test
suites that every client runs. What a file system keeps after a power failure (nothing is
synced before a rename) and what a forge reports wrongly (GitHub's size in kilobytes, from
which "empty" is derived) are outside the models; both are listed under `hazards`.

Smaller limits. A server that caps its pages below the size asked for is not modelled. In
`Export` either every release has a directory of its own or all share one (`Places`), nothing in
between; Forgejo's request per review is part of the page of reviews; two asset names that
`sanitizeName` maps to one are left out. In `BackupRun` GitHub's one list is torn by a change
that leaves it as it is (`ToggleArchived`), which allows more than the code does.

Of the configuration, what `LoadConfig` refuses besides a missing token (a kind it does not
know, YAML it cannot read, a bad `--state`) ends the call before its first request and has no
state of its own. A call with no forge to go to, because `--forge` names none of the file's or
the file is the starter, ends well and has done nothing; `BackedUp` says nothing of it. How
viper splits a list in an environment variable is a library's.
