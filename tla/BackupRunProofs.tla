--------------------------- MODULE BackupRunProofs ----------------------------
(* Theorems about BackupRun for every set of repositories, options and bounds. *)
EXTENDS BackupRun, FiniteSetTheorems, TLAPS

-----------------------------------------------------------------------------
(* A part of the state that a step leaves alone keeps its type. *)

LEMMA KeepWorld == WorldOK /\ UNCHANGED world => WorldOK'
  BY DEF WorldOK, world
LEMMA KeepDisk == DiskOK /\ UNCHANGED disk => DiskOK'
  BY DEF DiskOK, disk
LEMMA KeepProcess == ProcessOK /\ UNCHANGED process => ProcessOK'
  BY DEF ProcessOK, process
LEMMA KeepListing == ListingOK /\ UNCHANGED listing /\ Reading' = Reading => ListingOK'
  BY DEF ListingOK, listing
LEMMA KeepWorkers == WorkersOK /\ UNCHANGED workers => WorkersOK'
  BY DEF WorkersOK, workers
LEMMA KeepHistory == HistoryOK /\ UNCHANGED history => HistoryOK'
  BY DEF HistoryOK, history
LEMMA KeepPruning == PruningOK /\ UNCHANGED <<pruning, process>> => PruningOK'
  BY DEF PruningOK, pruning, process

-----------------------------------------------------------------------------
(* Entries and their paths, and the values of Fresh. *)

LEMMA EntryPath == /\ \A e \in Entries : Path(e) \in Repos
                   /\ \A r \in Repos : <<r, 1>> \in Entries /\ Path(<<r, 1>>) = r
  BY BoundAssumption DEF Entries, Path

LEMMA FreshValues == /\ [e \in Entries |-> "none"] \in [Entries -> Phases]
                     /\ [e \in Entries |-> NoOutcome] \in [Entries -> Outcomes]
                     /\ [e \in Entries |-> 0] \in [Entries -> 0..MaxVer]
                     /\ [e \in Entries |-> 0] \in [Entries -> Nat]
                     /\ NoCount \in Counts
                     /\ NoOptions \in Options
  BY BoundAssumption DEF Phases, Busy, NoOutcome, Outcomes, NoCount, Counts, NoOptions,
                         Options, States, Selections

LEMMA ResetOK ==
  ASSUME Reset, seen' \subseteq [Repos -> Contents], seen' # {} <=> Reading'
  PROVE  ListingOK' /\ WorkersOK' /\ cancelled' = FALSE /\ stale' = {} /\ hand' = NoRepo
  BY FreshValues DEF Reset, ListingOK, WorkersOK

LEMMA InitTypeOK == Init => TypeOK
<1> SUFFICES ASSUME Init PROVE TypeOK
  OBVIOUS
<1>1. WorldOK /\ DiskOK
  BY BoundAssumption DEF Init, WorldOK, DiskOK
<1>2. ListingOK /\ WorkersOK /\ PruningOK
  BY FreshValues DEF Init, Fresh, ListingOK, WorkersOK, PruningOK, Reading
<1>3. ProcessOK /\ HistoryOK
  BY FreshValues DEF Init, Fresh, ProcessOK, HistoryOK
<1> QED BY <1>1, <1>2, <1>3 DEF TypeOK

-----------------------------------------------------------------------------
LEMMA EventBudget == WorldOK /\ Event => budget' \in 0..MaxEvents
  BY BoundAssumption DEF WorldOK, Event

\* A listing that is being read sees the forge's new state too.
LEMMA ObservedOK ==
  ASSUME ListingOK, NEW a \in BOOLEAN, NEW b \in BOOLEAN, Observed(a, b),
         forge' \in [Repos -> Contents], pc' = pc
  PROVE  ListingOK'
  BY DEF ListingOK, Observed, Reading

LEMMA EnvironmentTypeOK == TypeOK /\ Environment => TypeOK'
<1> SUFFICES ASSUME TypeOK, Environment PROVE TypeOK'
  OBVIOUS
<1> USE KeepDisk, KeepProcess, KeepPruning, KeepWorkers, KeepHistory, EventBudget
<1>1. ASSUME NEW r \in Repos, Push(r) PROVE TypeOK'
  <2>1. forge' \in [Repos -> Contents]
    BY <1>1, BoundAssumption DEF TypeOK, WorldOK, Push, Contents
  <2>2. ListingOK'
    BY <1>1, <2>1, ObservedOK DEF TypeOK, Push, process
  <2> QED BY <1>1, <2>1, <2>2 DEF TypeOK, WorldOK, Push
<1>2. ASSUME NEW r \in Repos, Delete(r) PROVE TypeOK'
  <2>1. forge' \in [Repos -> Contents]
    BY <1>2 DEF TypeOK, WorldOK, Delete, Contents
  <2>2. HistoryOK'
    BY <1>2 DEF TypeOK, HistoryOK, Delete
  <2>3. ListingOK'
    BY <1>2, <2>1, ObservedOK DEF TypeOK, Delete, process
  <2> QED BY <1>2, <2>1, <2>2, <2>3 DEF TypeOK, WorldOK, Delete
<1>3. ASSUME NEW r \in Repos, Create(r) PROVE TypeOK'
  <2>1. forge' \in [Repos -> Contents]
    BY <1>3 DEF TypeOK, WorldOK, Create, Contents
  <2>2. ListingOK'
    BY <1>3, <2>1, ObservedOK DEF TypeOK, Create, process
  <2> QED BY <1>3, <2>1, <2>2 DEF TypeOK, WorldOK, Create
<1>4. ASSUME NEW r \in Repos, ToggleArchived(r) PROVE TypeOK'
  <2>1. forge' \in [Repos -> Contents]
    BY <1>4 DEF TypeOK, WorldOK, ToggleArchived, Contents
  <2>2. ListingOK'
    BY <1>4, <2>1, ObservedOK DEF TypeOK, ToggleArchived, process
  <2> QED BY <1>4, <2>1, <2>2 DEF TypeOK, WorldOK, ToggleArchived
<1>5. CASE Cancel
  BY <1>5, KeepListing DEF TypeOK, WorldOK, ProcessOK, PruningOK, ListingOK, Reading, Cancel,
                           pruning, listing
<1>6. CASE Crash
  <2>1. ListingOK' /\ WorkersOK' /\ cancelled' = FALSE /\ stale' = {} /\ hand' = NoRepo
    BY <1>6, ResetOK DEF Crash, Reading
  <2> QED BY <1>6, <2>1, FreshValues DEF TypeOK, WorldOK, ProcessOK, PruningOK, Crash
<1> QED BY <1>1, <1>2, <1>3, <1>4, <1>5, <1>6 DEF Environment

-----------------------------------------------------------------------------
LEMMA OptionType == \A o \in OptionSet : o \in Options
  BY OptionAssumption

LEMMA ForgeVersion == WorldOK => \A r \in Repos : forge[r].ver \in 0..MaxVer
  BY DEF WorldOK, Contents

LEMMA StartTypeOK == TypeOK /\ Start => TypeOK'
<1> SUFFICES ASSUME TypeOK, Start PROVE TypeOK'
  OBVIOUS
<1>1. WorldOK' /\ DiskOK'
  BY KeepWorld, KeepDisk DEF TypeOK, Start
<1>2. ListingOK' /\ WorkersOK' /\ cancelled' = FALSE /\ stale' = {} /\ hand' = NoRepo
  BY ResetOK DEF Start, Reading, TypeOK, WorldOK
<1>3. ProcessOK' /\ PruningOK'
  BY <1>2, OptionType DEF Start, ProcessOK, PruningOK
<1>4. HistoryOK'
  BY DEF TypeOK, WorldOK, DiskOK, Start, HistoryOK, OnForge
<1> QED BY <1>1, <1>2, <1>3, <1>4 DEF TypeOK

LEMMA MainLoopTypeOK == TypeOK /\ MainLoop => TypeOK'
<1> SUFFICES ASSUME TypeOK, MainLoop PROVE TypeOK'
  OBVIOUS
<1> USE KeepWorld, KeepDisk, KeepProcess, KeepPruning, KeepWorkers, KeepHistory
<1>1. CASE List
  <2>1. listed' \subseteq Entries /\ archs' \subseteq listed' /\ empties' \subseteq listed'
    BY <1>1 DEF List
  <2>2. canonical' \subseteq Repos
    BY <1>1, <2>1, EntryPath DEF List, TypeOK, ListingOK
  <2>3. seen' \subseteq [Repos -> Contents] /\ (seen' # {} <=> Reading')
    BY <1>1 DEF List, TypeOK, WorldOK, Reading
  <2>4. shrunk' \in BOOLEAN /\ grown' \in BOOLEAN /\ missed' \in BOOLEAN
    BY <1>1 DEF List, TypeOK, ListingOK
  <2>5. ListingOK'
    BY <2>1, <2>2, <2>3, <2>4 DEF ListingOK
  <2>6. ProcessOK' /\ PruningOK'
    BY <1>1 DEF TypeOK, ProcessOK, PruningOK, List, pruning
  <2> QED BY <1>1, <2>5, <2>6 DEF TypeOK, List
<1>2. CASE Relist
  <2>1. ListingOK'
    BY <1>2 DEF TypeOK, ListingOK, Relist, Reading, Sometimes
  <2>2. ProcessOK' /\ PruningOK'
    BY <1>2 DEF TypeOK, ProcessOK, PruningOK, Relist, pruning
  <2> QED BY <1>2, <2>1, <2>2 DEF TypeOK, Relist
<1>3. CASE Scan
  <2>1. PruningOK' /\ ProcessOK'
    BY <1>3 DEF TypeOK, DiskOK, PruningOK, ProcessOK, Scan, OnDisk
  <2>2. WorkersOK'
    BY <1>3 DEF TypeOK, ListingOK, WorkersOK, Scan
  <2>3. ListingOK'
    BY <1>3, KeepListing DEF TypeOK, Scan, Reading
  <2> QED BY <1>3, <2>1, <2>2, <2>3 DEF TypeOK, Scan
<1>4. CASE Abort
  <2>1. ListingOK' /\ WorkersOK' /\ cancelled' = FALSE /\ stale' = {} /\ hand' = NoRepo
    BY <1>4, ResetOK DEF Abort, Reading
  <2> QED BY <1>4, <2>1, FreshValues DEF TypeOK, ProcessOK, PruningOK, Abort
<1>a. ASSUME pc \notin {"list", "relist"}, pc' \notin {"list", "relist"}, UNCHANGED listing
      PROVE  ListingOK'
  BY <1>a, KeepListing DEF TypeOK, Reading
<1>5. ASSUME NEW e \in Entries, Skip(e) PROVE TypeOK'
  <2>1. WorkersOK'
    BY <1>5 DEF TypeOK, WorkersOK, Skip, Counts, Phases, Busy
  <2> QED BY <1>5, <1>a, <2>1 DEF TypeOK, Skip, process
<1>6. ASSUME NEW e \in Entries, Dispatch(e) PROVE TypeOK'
  <2>1. WorkersOK'
    BY <1>6 DEF TypeOK, WorkersOK, Dispatch, Phases, Busy
  <2> QED BY <1>6, <1>a, <2>1 DEF TypeOK, Dispatch, process
<1>7. ASSUME NEW r \in Repos, PruneBegin(r) PROVE TypeOK'
  <2>1. DiskOK' /\ PruningOK'
    BY <1>7, BoundAssumption DEF TypeOK, DiskOK, PruningOK, PruneBegin, process
  <2> QED BY <1>7, <1>a, <2>1 DEF TypeOK, PruneBegin, process
<1>8. CASE Wait
  <2>1. ProcessOK' /\ PruningOK'
    BY <1>8 DEF TypeOK, ProcessOK, PruningOK, Wait, pruning
  <2> QED BY <1>8, <1>a, <2>1 DEF TypeOK, Wait
<1>9. CASE PruneMirror
  <2>1. DiskOK' /\ ProcessOK' /\ PruningOK'
    BY <1>9 DEF TypeOK, DiskOK, ProcessOK, PruningOK, PruneMirror, pruning
  <2>2. WorkersOK'
    BY <1>9 DEF TypeOK, WorkersOK, PruneMirror, Counts
  <2> QED BY <1>9, <1>a, <2>1, <2>2 DEF TypeOK, PruneMirror
<1>10. CASE PruneFail
  <2>1. PruningOK'
    BY <1>10 DEF TypeOK, PruningOK, PruneFail, process
  <2> QED BY <1>10, <1>a, <2>1 DEF TypeOK, PruneFail, process
<1>11. CASE PruneArchive
  <2>1. DiskOK' /\ ProcessOK' /\ PruningOK'
    BY <1>11, BoundAssumption DEF TypeOK, DiskOK, ProcessOK, PruningOK, PruneArchive
  <2> QED BY <1>11, <1>a, <2>1 DEF TypeOK, PruneArchive
<1>12. CASE Return
  <2>1. ProcessOK' /\ PruningOK'
    BY <1>12 DEF TypeOK, ProcessOK, PruningOK, Return, pruning
  <2> QED BY <1>12, <1>a, <2>1 DEF TypeOK, Return
<1> QED BY <1>1, <1>2, <1>3, <1>4, <1>5, <1>6, <1>7, <1>8, <1>9, <1>10, <1>11, <1>12
        DEF MainLoop

-----------------------------------------------------------------------------
\* Adding to four of the counters gives counters.
LEMMA TallyInCounts ==
  ASSUME NEW c \in Counts, NEW s \in Nat, NEW a \in Nat, NEW f \in Nat, NEW e \in Nat
  PROVE  [c EXCEPT !.synced = @ + s, !.archived = @ + a, !.failed = @ + f,
                   !.exported = @ + e] \in Counts
<1> DEFINE c1 == [c EXCEPT !.synced = @ + s]
           c2 == [c1 EXCEPT !.archived = @ + a]
           c3 == [c2 EXCEPT !.failed = @ + f]
           c4 == [c3 EXCEPT !.exported = @ + e]
<1>1. c4 = [c EXCEPT !.synced = @ + s, !.archived = @ + a, !.failed = @ + f, !.exported = @ + e]
  OBVIOUS
<1>2. c1 \in Counts
  BY DEF Counts
<1> HIDE DEF c1
<1>3. c2 \in Counts
  BY <1>2 DEF Counts
<1> HIDE DEF c2
<1>4. c3 \in Counts
  BY <1>3 DEF Counts
<1> HIDE DEF c3
<1>5. c4 \in Counts
  BY <1>4 DEF Counts
<1> HIDE DEF c4
<1> QED BY <1>1, <1>5

\* A Sync of the directory leaves a version of the forge there.
LEMMA RefreshedOK == ASSUME TypeOK, NEW e \in Entries, Refreshed(e), UNCHANGED <<archive, hollow>>
                     PROVE  DiskOK'
<1>1. Path(e) \in Repos
  BY EntryPath
<1>2. Fetched(e) \subseteq 0..MaxVer
  BY <1>1, BoundAssumption DEF Fetched, TypeOK, WorldOK, HistoryOK, Contents
<1> QED BY <1>1, <1>2 DEF Refreshed, TypeOK, DiskOK

LEMMA WorkerTypeOK == ASSUME NEW e \in Entries, TypeOK, Worker(e) PROVE TypeOK'
<1> USE KeepWorld, KeepDisk, KeepProcess, KeepPruning, KeepHistory
<1> USE DEF Phases, Busy
<1>a. UNCHANGED <<listing, process>> => ListingOK'
  BY KeepListing DEF TypeOK, Reading, process
<1>b. Path(e) \in Repos
  BY EntryPath
<1>1. CASE SyncOK(e)
  <2>1. DiskOK'
    BY <1>1, <1>b, RefreshedOK DEF TypeOK, DiskOK, SyncOK
  <2>2. WorkersOK'
    <3>1. out' \in [Entries -> Outcomes]
      BY <1>1 DEF TypeOK, WorkersOK, SyncOK, Outcomes
    <3>2. scratch' \in [Entries -> 0..MaxVer]
      BY <1>1, <1>b, ForgeVersion DEF TypeOK, WorkersOK, SyncOK
    <3> QED BY <1>1, <3>1, <3>2 DEF TypeOK, WorkersOK, SyncOK
  <2> QED BY <1>1, <1>a, <2>1, <2>2 DEF TypeOK, SyncOK
<1>2. CASE SyncFail(e)
  <2>1. DiskOK'
    BY <1>2, RefreshedOK DEF TypeOK, DiskOK, SyncFail
  <2>2. WorkersOK'
    BY <1>2 DEF TypeOK, WorkersOK, SyncFail, Outcomes
  <2> QED BY <1>2, <1>a, <2>1, <2>2 DEF TypeOK, SyncFail
<1>9. CASE SyncHollow(e)
  <2>1. WorkersOK'
    BY <1>9 DEF TypeOK, WorkersOK, SyncHollow, Outcomes
  <2> QED BY <1>9, <1>a, <2>1 DEF TypeOK, SyncHollow
<1>3. CASE Export(e)
  <2>1. opts.kinds \in Nat
    BY DEF TypeOK, ProcessOK, Options
  <2>2. out' \in [Entries -> Outcomes]
    <3>1. \A k \in 0..opts.kinds : [synced |-> TRUE, archived |-> FALSE,
                                    failed |-> k < opts.kinds, exported |-> k] \in Outcomes
      BY <2>1 DEF Outcomes
    <3> QED BY <1>3, <3>1 DEF TypeOK, WorkersOK, Export
  <2>3. WorkersOK'
    BY <1>3, <2>2 DEF TypeOK, WorkersOK, Export
  <2> QED BY <1>3, <1>a, <2>3 DEF TypeOK, Export
<1>4. CASE ArchiveOK(e)
  <2>1. Packed(e) \in 0..MaxVer
    BY <1>b DEF TypeOK, DiskOK, WorkersOK, Packed
  <2>2. Path(e) \in headed /\ ~UsesScratch(e) => Packed(e) = 0
    BY <1>b DEF TypeOK, DiskOK, Packed
  <2>3. DiskOK'
    BY <1>4, <1>b, <2>1, <2>2 DEF TypeOK, DiskOK, ArchiveOK
  <2>4. WorkersOK'
    <3>1. out' \in [Entries -> Outcomes]
      BY <1>4 DEF TypeOK, WorkersOK, ArchiveOK, Outcomes
    <3>2. scratch' \in [Entries -> 0..MaxVer]
      BY <1>4, BoundAssumption DEF TypeOK, WorkersOK, ArchiveOK
    <3> QED BY <1>4, <3>1, <3>2 DEF TypeOK, WorkersOK, ArchiveOK
  <2> QED BY <1>4, <1>a, <2>3, <2>4 DEF TypeOK, ArchiveOK
<1>5. CASE ArchiveFail(e)
  <2>1. WorkersOK'
    <3>1. out' \in [Entries -> Outcomes]
      BY <1>5 DEF TypeOK, WorkersOK, ArchiveFail, Outcomes
    <3>2. scratch' \in [Entries -> 0..MaxVer]
      BY <1>5, BoundAssumption DEF TypeOK, WorkersOK, ArchiveFail
    <3> QED BY <1>5, <3>1, <3>2 DEF TypeOK, WorkersOK, ArchiveFail
  <2> QED BY <1>5, <1>a, <2>1 DEF TypeOK, ArchiveFail
<1>6. CASE Fold(e)
  <2>1. count' \in Counts
    <3>1. One(out[e].synced) \in Nat /\ One(out[e].archived) \in Nat /\ One(out[e].failed) \in Nat
      BY DEF One
    <3>2. out[e].exported \in Nat
      BY DEF TypeOK, WorkersOK, Outcomes
    <3>3. count \in Counts
      BY DEF TypeOK, WorkersOK
    <3> QED BY <1>6, <3>1, <3>2, <3>3, TallyInCounts DEF Fold
  <2>2. WorkersOK'
    BY <1>6, <2>1 DEF TypeOK, WorkersOK, Fold
  <2> QED BY <1>6, <1>a, <2>2 DEF TypeOK, Fold
<1>7. CASE ReportLock(e)
  <2>1. WorkersOK'
    BY <1>7 DEF TypeOK, WorkersOK, ReportLock, Counts
  <2> QED BY <1>7, <1>a, <2>1 DEF TypeOK, ReportLock
<1>8. CASE ReportCall(e)
  <2>1. WorkersOK'
    BY <1>8 DEF TypeOK, WorkersOK, ReportCall
  <2> QED BY <1>8, <1>a, <2>1 DEF TypeOK, ReportCall
<1> QED BY <1>1, <1>2, <1>3, <1>4, <1>5, <1>6, <1>7, <1>8, <1>9 DEF Worker

LEMMA RaceTypeOK == ASSUME NEW e \in Entries, NEW d \in Entries, TypeOK, CloneRace(e, d)
                    PROVE  TypeOK'
<1> USE KeepWorld, KeepProcess, KeepPruning, KeepHistory
<1>1. DiskOK'
  BY EntryPath DEF TypeOK, DiskOK, CloneRace
<1>2. out' \in [Entries -> Outcomes]
  <2> DEFINE told == [out EXCEPT ![e].synced = TRUE]
  <2>1. told \in [Entries -> Outcomes]
    BY DEF TypeOK, WorkersOK, Outcomes
  <2>2. [told EXCEPT ![d].failed = TRUE] \in [Entries -> Outcomes]
    <3> HIDE DEF told
    <3> QED BY <2>1 DEF Outcomes
  <2>3. out' = [told EXCEPT ![d].failed = TRUE]
    BY DEF CloneRace
  <2> QED BY <2>2, <2>3
<1>5. phase' \in [Entries -> Phases]
  BY DEF TypeOK, WorkersOK, CloneRace, Phases, Busy
<1>3. WorkersOK'
  BY <1>2, <1>5 DEF TypeOK, WorkersOK, CloneRace
<1>4. ListingOK'
  BY KeepListing DEF TypeOK, Reading, process, CloneRace
<1> QED BY <1>1, <1>3, <1>4 DEF TypeOK, CloneRace

\* Every variable keeps its type, for any repositories, options and bounds.
THEOREM TypeCorrect == Spec => []TypeOK
<1>1. TypeOK /\ [Next]_vars => TypeOK'
  <2> SUFFICES ASSUME TypeOK, [Next]_vars PROVE TypeOK'
    OBVIOUS
  <2>1. CASE UNCHANGED vars
    BY <2>1, KeepWorld, KeepDisk, KeepProcess, KeepListing, KeepPruning, KeepWorkers,
       KeepHistory DEF TypeOK, Reading, process, vars
  <2> QED BY <2>1, StartTypeOK, EnvironmentTypeOK, MainLoopTypeOK, WorkerTypeOK, RaceTypeOK
          DEF Next
<1> QED BY <1>1, InitTypeOK, PTL DEF Spec

-----------------------------------------------------------------------------
(* The pool of workers: progress is reported in order, and prune works alone. *)

LEMMA ResetPool == TypeOK /\ Reset /\ pc' \in {"idle", "list"} => PoolInOrder'
<1> SUFFICES ASSUME TypeOK, Reset, pc' \in {"idle", "list"} PROVE PoolInOrder'
  OBVIOUS
<1>1. count'.done = 0
  BY DEF Reset, NoCount
<1>2. ReportsInTurn'
  BY <1>1, RepoAssumption DEF Reset, ReportsInTurn
<1>3. WorkersListed'
  BY DEF Reset, WorkersListed, Busy
<1> QED BY <1>2, <1>3 DEF PoolInOrder

LEMMA InitPool == Init => PoolInOrder
<1> SUFFICES ASSUME Init PROVE PoolInOrder
  OBVIOUS
<1>1. count.done = 0
  BY DEF Init, Fresh, NoCount
<1>2. ReportsInTurn
  BY <1>1, RepoAssumption DEF Init, Fresh, ReportsInTurn
<1>3. WorkersListed
  BY DEF Init, Fresh, WorkersListed, Busy
<1> QED BY <1>2, <1>3 DEF PoolInOrder

\* What PoolInOrder reads.
pool == <<pc, listed, todo, phase, holder, last, ticket, count.done>>

LEMMA PoolKept == PoolInOrder /\ UNCHANGED pool => PoolInOrder'
  BY DEF PoolInOrder, ReportsInTurn, WorkersListed, pool

LEMMA EnvironmentPool == TypeOK /\ PoolInOrder /\ Environment => PoolInOrder'
<1> SUFFICES ASSUME TypeOK, PoolInOrder, Environment PROVE PoolInOrder'
  OBVIOUS
<1>1. CASE Crash
  BY <1>1, ResetPool DEF Crash
<1>2. CASE Cancel
  BY <1>2, PoolKept DEF Cancel, pool, listing, workers
<1>3. ASSUME NEW r \in Repos, Push(r) \/ Delete(r) \/ Create(r) \/ ToggleArchived(r)
      PROVE  PoolInOrder'
  BY <1>3, PoolKept DEF Push, Delete, Create, ToggleArchived, Observed, pool, process, workers
<1> QED BY <1>1, <1>2, <1>3 DEF Environment

LEMMA MainLoopPool == TypeOK /\ PoolInOrder /\ MainLoop => PoolInOrder'
<1> SUFFICES ASSUME TypeOK, PoolInOrder, MainLoop PROVE PoolInOrder'
  OBVIOUS
<1> USE DEF PoolInOrder
<1>1. CASE Abort
  BY <1>1, ResetPool DEF Abort
<1>2. CASE List \/ Relist
  <2>1. ReportsInTurn'
    BY <1>2 DEF List, Relist, ReportsInTurn, workers
  <2>2. WorkersListed'
    BY <1>2 DEF List, Relist, WorkersListed, workers, Busy
  <2> QED BY <2>1, <2>2
<1>3. CASE Scan
  BY <1>3 DEF Scan, TypeOK, ListingOK, ReportsInTurn, WorkersListed, listing, Busy
<1>4. ASSUME NEW e \in Entries, Skip(e) \/ Dispatch(e) PROVE PoolInOrder'
  <2>1. count'.done = count.done
    BY <1>4 DEF Skip, Dispatch, TypeOK, WorkersOK, Counts
  <2>2. ReportsInTurn'
    <3>1. phase[e] # "reporting"
      BY <1>4 DEF Skip, Dispatch, PoolInOrder, ReportsInTurn, WorkersListed
    <3> QED BY <1>4, <2>1, <3>1 DEF Skip, Dispatch, ReportsInTurn, TypeOK, WorkersOK
  <2>3. WorkersListed'
    BY <1>4 DEF Skip, Dispatch, WorkersListed, TypeOK, WorkersOK, process, listing, Busy
  <2> QED BY <2>2, <2>3
<1>5. CASE Wait
  BY <1>5 DEF Wait, ReportsInTurn, WorkersListed, listing, workers, Busy
<1>6. ASSUME NEW r \in Repos, PruneBegin(r) PROVE PoolInOrder'
  BY <1>6, PoolKept DEF PruneBegin, pool, process, listing, workers
<1>7. CASE PruneMirror
  <2>1. count'.done = count.done
    BY <1>7 DEF PruneMirror, TypeOK, WorkersOK, Counts
  <2> QED BY <1>7, <2>1 DEF PruneMirror, ReportsInTurn, WorkersListed, listing
<1>8. CASE PruneFail
  BY <1>8, PoolKept DEF PruneFail, pool, process, listing, workers
<1>9. CASE PruneArchive \/ Return
  BY <1>9 DEF PruneArchive, Return, ReportsInTurn, WorkersListed, listing, workers
<1> QED BY <1>1, <1>2, <1>3, <1>4, <1>5, <1>6, <1>7, <1>8, <1>9 DEF MainLoop

LEMMA WorkerPool == ASSUME NEW e \in Entries, TypeOK, PoolInOrder, Worker(e)
                    PROVE  PoolInOrder'
<1> USE DEF PoolInOrder
<1>1. phase[e] \in Busy
  BY DEF Worker, SyncOK, SyncHollow, SyncFail, Export, ArchiveOK, ArchiveFail, Fold,
         ReportLock, ReportCall, Busy
<1>2. WorkersListed'
  BY <1>1 DEF Worker, SyncOK, SyncHollow, SyncFail, Export, ArchiveOK, ArchiveFail, Fold, ReportLock,
         ReportCall, WorkersListed, TypeOK, WorkersOK, process, listing, Busy
<1>3. ReportsInTurn'
  <2>1. CASE SyncOK(e) \/ SyncHollow(e) \/ SyncFail(e) \/ Export(e) \/ ArchiveOK(e) \/ ArchiveFail(e)
    BY <2>1 DEF SyncOK, SyncHollow, SyncFail, Export, ArchiveOK, ArchiveFail, ReportsInTurn, TypeOK,
                WorkersOK
  <2>2. CASE Fold(e)
    <3>1. count'.done = count.done
      BY <2>2 DEF Fold, TypeOK, WorkersOK, Counts
    <3> QED BY <2>2, <3>1 DEF Fold, ReportsInTurn, TypeOK, WorkersOK
  <2>3. CASE ReportLock(e)
    <3>1. count'.done = count.done + 1
      BY <2>3 DEF ReportLock, TypeOK, WorkersOK, Counts
    <3> QED BY <2>3, <3>1, RepoAssumption DEF ReportLock, ReportsInTurn, TypeOK, WorkersOK
  <2>4. CASE ReportCall(e)
    BY <2>4, RepoAssumption DEF ReportCall, ReportsInTurn, TypeOK, WorkersOK
  <2> QED BY <2>1, <2>2, <2>3, <2>4 DEF Worker
<1> QED BY <1>2, <1>3

LEMMA RacePool == ASSUME NEW e \in Entries, NEW d \in Entries, TypeOK, PoolInOrder,
                         CloneRace(e, d)
                  PROVE  PoolInOrder'
<1>1. /\ phase[e] = "start" /\ phase[d] = "start"
      /\ \A f \in Entries : phase'[f] \in {phase[f], "export", "fold"}
                           /\ (f \notin {e, d} => phase'[f] = phase[f])
  BY DEF CloneRace, TypeOK, WorkersOK
<1>2. ReportsInTurn'
  BY <1>1 DEF CloneRace, PoolInOrder, ReportsInTurn
<1>3. WorkersListed'
  <2>1. pc \notin {"idle", "list", "relist", "scan", "prune", "unarchive", "done"}
    BY <1>1 DEF PoolInOrder, WorkersListed, Busy
  <2>2. /\ todo' = todo /\ listed' = listed /\ pc' = pc
        /\ e \notin todo /\ d \notin todo /\ todo \subseteq Entries
    BY <1>1 DEF CloneRace, PoolInOrder, WorkersListed, process, listing, TypeOK, WorkersOK
  <2>3. \A f \in todo : phase'[f] = "none"
    BY <1>1, <2>2 DEF PoolInOrder, WorkersListed
  <2>4. \A f \in Entries : phase'[f] # "none" => f \in listed
    BY <1>1 DEF PoolInOrder, WorkersListed
  <2> QED BY <2>1, <2>2, <2>3, <2>4 DEF PoolInOrder, WorkersListed
<1> QED BY <1>2, <1>3 DEF PoolInOrder

\* Workers report one at a time with the next number, and none is at work after g.Wait.
THEOREM PoolInOrderAlways == Spec => []PoolInOrder
<1>1. TypeOK /\ PoolInOrder /\ [Next]_vars => PoolInOrder'
  <2> SUFFICES ASSUME TypeOK, PoolInOrder, [Next]_vars PROVE PoolInOrder'
    OBVIOUS
  <2>1. CASE UNCHANGED vars
    BY <2>1, PoolKept DEF vars, pool, process, listing, workers
  <2>2. CASE Start
    BY <2>2, ResetPool DEF Start
  <2> QED BY <2>1, <2>2, EnvironmentPool, MainLoopPool, WorkerPool, RacePool DEF Next
<1> QED BY <1>1, InitPool, TypeCorrect, PTL DEF Spec

\* Nothing is pruned while a worker may still write to the tree, however many workers
\* the pool has.
THEOREM PruneAlone == Spec => []PruneAfterWorkers
<1>1. TypeOK /\ PoolInOrder => PruneAfterWorkers
  BY DEF TypeOK, WorkersOK, PoolInOrder, ReportsInTurn, WorkersListed, PruneAfterWorkers, Busy
<1> QED BY <1>1, TypeCorrect, PoolInOrderAlways, PTL

\* One step of ProgressInOrder.
InOrder == last' = last + 1 \/ (last' = 0 /\ phase' = [e \in Entries |-> "none"])

\* Progress sees done rise one at a time within a run, for any number of workers.
THEOREM ProgressOrdered == Spec => ProgressInOrder
<1>1. TypeOK /\ PoolInOrder /\ [Next]_vars => (last' # last => InOrder)
  <2> SUFFICES ASSUME TypeOK, PoolInOrder, [Next]_vars, last' # last PROVE InOrder
    OBVIOUS
  <2>1. CASE Start \/ Crash \/ Abort
    BY <2>1 DEF Start, Crash, Abort, Reset, InOrder
  <2>2. ASSUME NEW e \in Entries, ReportCall(e) PROVE InOrder
    BY <2>2, RepoAssumption DEF ReportCall, PoolInOrder, ReportsInTurn, InOrder
  <2> QED
    BY <2>1, <2>2 DEF Next, Environment, MainLoop, Worker, vars, workers, Push, Delete, Create,
       ToggleArchived, Cancel, List, Relist, Scan, Skip, Dispatch, PruneBegin, Wait,
       PruneMirror, PruneFail, PruneArchive, Return, SyncOK, SyncHollow, SyncFail, CloneRace,
       Export, ArchiveOK, ArchiveFail, Fold, ReportLock
<1>2. TypeOK /\ PoolInOrder /\ [Next]_vars => [last' # last => InOrder]_vars
  BY <1>1
<1> QED BY <1>2, TypeCorrect, PoolInOrderAlways, PTL DEF Spec, ProgressInOrder, InOrder

-----------------------------------------------------------------------------
(* Nothing is lost.  BackupsSafe is inductive over the typed and ordered states. *)

LEMMA VersionTypes ==
  TypeOK => /\ \A r \in Repos : /\ forge[r].ver \in Nat /\ base[r].ver \in Nat
                                /\ mirror[r] \in Nat /\ archive[r] \in Nat
            /\ \A e \in Entries : scratch[e] \in Nat /\ Path(e) \in Repos
  BY BoundAssumption, EntryPath DEF TypeOK, WorldOK, DiskOK, WorkersOK, HistoryOK, Contents

\* A step that leaves the disk, the workers, the listing and the choice of options alone
\* disturbs at most what BackupsSafe says of the forge and of prune.
LEMMA PackedKept ==
  ASSUME PackedFresh, steady' \subseteq steady,
         UNCHANGED <<mirror, archive, headed, phase, scratch, listed, archs, opts>>
  PROVE  PackedFresh'
  BY DEF PackedFresh, Packed, UsesScratch, Wants, Crowded

\* Nothing is packed while no worker is at work.
LEMMA PackedNone == ASSUME \A e \in Entries : phase'[e] \notin {"export", "archive"}
                    PROVE  PackedFresh'
  BY DEF PackedFresh

\* The states a listing is read over, with the one the forge is in now.
LEMMA SeenKept ==
  ASSUME SteadySeen, steady' \subseteq steady, steady' \subseteq OnForge',
         seen' \subseteq seen \cup {forge'}
  PROVE  SteadySeen'
  BY DEF SteadySeen, OnForge

LEMMA ResetSafe ==
  ASSUME TypeOK, BackupsSafe, Reset, steady' \subseteq OnForge, UNCHANGED <<forge, disk>>,
         pc' \in {"idle", "list"}, seen' \subseteq {forge}
  PROVE  BackupsSafe'
<1>1. NotAhead'
  BY VersionTypes DEF BackupsSafe, NotAhead, Reset, disk
<1>2. SteadyOnForge' /\ SteadySeen' /\ CanonicalComplete' /\ StaleGone'
  BY DEF SteadyOnForge, SteadySeen, OnForge, CanonicalComplete, StaleGone, Reset
<1>3. PackedFresh'
  BY PackedNone DEF Reset
<1> QED BY <1>1, <1>2, <1>3 DEF BackupsSafe

LEMMA InitSafe == Init => BackupsSafe
<1> SUFFICES ASSUME Init PROVE BackupsSafe
  OBVIOUS
<1>1. NotAhead
  BY BoundAssumption, EntryPath DEF Init, Fresh, NotAhead, Contents
<1> QED BY <1>1 DEF Init, Fresh, BackupsSafe, SteadyOnForge, SteadySeen, CanonicalComplete,
                    StaleGone, PackedFresh, Reading

LEMMA StartSafe == TypeOK /\ BackupsSafe /\ Start => BackupsSafe'
  BY ResetSafe DEF Start, world

LEMMA EnvironmentSafe == TypeOK /\ PoolInOrder /\ BackupsSafe /\ Environment => BackupsSafe'
<1> SUFFICES ASSUME TypeOK, PoolInOrder, BackupsSafe, Environment PROVE BackupsSafe'
  OBVIOUS
<1> USE DEF BackupsSafe
<1>a. ASSUME NEW r \in Repos, Push(r) \/ Delete(r) \/ Create(r) \/ ToggleArchived(r)
      PROVE  BackupsSafe'
  <2>0. /\ steady' \subseteq steady
        /\ UNCHANGED <<mirror, archive, headed, phase, scratch, listed, archs, opts, pc,
                       canonical, stale, hand>>
        /\ seen' \subseteq seen \cup {forge'}
        /\ shrunk => shrunk'
        /\ pc \notin {"list", "relist"} => shrunk' = shrunk
    BY <1>a DEF Push, Delete, Create, ToggleArchived, Observed, Reading, history, process,
                disk, workers, pruning, TypeOK, ListingOK
  <2>1. NotAhead'
    <3>1. \A s \in Repos : forge'[s].ver = forge[s].ver \/ forge'[s].ver = forge[s].ver + 1
      <4>1. forge \in [Repos -> Contents]
        BY DEF TypeOK, WorldOK
      <4>2. CASE Push(r)
        BY <4>1, <4>2 DEF Push, Contents
      <4>3. CASE Delete(r) \/ Create(r)
        <5>1. \E b : forge' = [forge EXCEPT ![r].here = b]
          BY <4>3 DEF Delete, Create
        <5> QED BY <4>1, <5>1 DEF Contents
      <4>4. CASE ToggleArchived(r)
        <5>1. \E b : forge' = [forge EXCEPT ![r].archived = b]
          BY <4>4 DEF ToggleArchived
        <5> QED BY <4>1, <5>1 DEF Contents
      <4> QED BY <1>a, <4>2, <4>3, <4>4
    <3> QED BY <2>0, <3>1, VersionTypes DEF NotAhead
  <2>2. SteadyOnForge'
    BY <1>a DEF SteadyOnForge, OnForge, TypeOK, WorldOK, Contents, Push, Delete, Create,
                ToggleArchived, history
  <2>3. SteadySeen'
    BY <2>0, <2>2, SeenKept DEF SteadyOnForge
  <2>4. CanonicalComplete' /\ StaleGone'
    BY <2>0 DEF CanonicalComplete, StaleGone, Reading
  <2>5. PackedFresh'
    BY <2>0, PackedKept
  <2> QED BY <2>1, <2>2, <2>3, <2>4, <2>5
<1>1. CASE Cancel
  <2>1. PackedFresh'
    BY <1>1, PackedKept DEF Cancel, disk, listing, workers, history
  <2> QED BY <1>1, <2>1 DEF Cancel, NotAhead, SteadyOnForge, SteadySeen, OnForge,
          CanonicalComplete, StaleGone, Reading, disk, listing, pruning, workers, history
<1>2. CASE Crash
  BY <1>2, ResetSafe DEF Crash, history, SteadyOnForge
<1> QED BY <1>a, <1>1, <1>2 DEF Environment

\* Before the dispatch loop no worker is at work, and nothing is being packed.
LEMMA QuietPool ==
  ASSUME PoolInOrder, pc \in {"idle", "list", "relist", "scan", "prune", "unarchive", "done"},
         NEW e \in Entries
  PROVE  phase[e] \notin Busy
  BY DEF PoolInOrder, WorkersListed, Busy

LEMMA MainLoopSafe == TypeOK /\ PoolInOrder /\ BackupsSafe /\ MainLoop => BackupsSafe'
<1> SUFFICES ASSUME TypeOK, PoolInOrder, BackupsSafe, MainLoop PROVE BackupsSafe'
  OBVIOUS
<1> USE DEF BackupsSafe
<1>a. ASSUME pc \in {"list", "relist", "scan", "prune", "unarchive"}, phase' = phase
      PROVE  PackedFresh'
  BY <1>a, QuietPool, PackedNone DEF Busy
<1>1. CASE List
  <2>1. CanonicalComplete'
    <3> SUFFICES ASSUME opts.state = "all", ~shrunk, NEW r \in steady
                 PROVE  r \in {Path(e) : e \in listed'}
      BY <1>1 DEF List, CanonicalComplete, history
    <3>1. r \in Repos
      BY DEF TypeOK, HistoryOK
    <3>2. r \in Always(opts.state)
      BY <3>1 DEF Always, SteadySeen, Selects
    <3>3. <<r, 1>> \in listed'
      BY <1>1, <3>2 DEF List
    <3> QED BY <3>1, <3>3, EntryPath
  <2>2. PackedFresh'
    BY <1>1, <1>a DEF List, workers
  <2>3. SteadySeen'
    BY <1>1, SeenKept DEF List, SteadyOnForge, OnForge, world, history
  <2>4. StaleGone'
    BY <1>1 DEF List, StaleGone, Reading, pruning, history, TypeOK, PruningOK
  <2> QED BY <1>1, <2>1, <2>2, <2>3, <2>4 DEF List, NotAhead, SteadyOnForge, OnForge,
          world, disk, workers, history
<1>2. CASE Relist
  <2>1. CanonicalComplete'
    <3> SUFFICES ASSUME ~shrunk, NEW r \in steady PROVE r \in canonical'
      BY <1>2 DEF Relist, CanonicalComplete, history
    <3>1. r \in Always("all")
      BY DEF Always, SteadySeen, Selects, TypeOK, HistoryOK
    <3> QED BY <1>2, <3>1 DEF Relist
  <2>2. PackedFresh'
    BY <1>2, <1>a DEF Relist, workers
  <2>3. SteadySeen' /\ StaleGone'
    BY <1>2 DEF Relist, SteadySeen, StaleGone, Reading, pruning, history, TypeOK, PruningOK
  <2> QED BY <1>2, <2>1, <2>2, <2>3 DEF Relist, NotAhead, SteadyOnForge, OnForge,
          world, disk, workers, history
<1>3. CASE Scan
  <2>1. StaleGone'
    <3>1. hand = NoRepo
      BY <1>3 DEF Scan, TypeOK, PruningOK
    <3> QED BY <1>3, <3>1 DEF Scan, StaleGone, CanonicalComplete, Reading, listing, history
  <2>2. PackedFresh'
    BY <1>3, <1>a DEF Scan
  <2> QED BY <1>3, <2>1, <2>2 DEF Scan, NotAhead, SteadyOnForge, SteadySeen, OnForge,
          CanonicalComplete, world, disk, listing, history
<1>4. CASE Abort
  BY <1>4, ResetSafe DEF Abort, world, history, SteadyOnForge
<1>5. ASSUME NEW e \in Entries, Skip(e) \/ Dispatch(e) PROVE BackupsSafe'
  <2>1. PackedFresh'
    BY <1>5 DEF Skip, Dispatch, TypeOK, WorkersOK, PackedFresh, Packed, UsesScratch, Wants,
                Crowded, disk, process, listing, history
  <2> QED BY <1>5, <2>1 DEF Skip, Dispatch, NotAhead, SteadyOnForge, SteadySeen, OnForge,
          CanonicalComplete, StaleGone, Reading, world, disk, process, listing, pruning, history
<1>6. ASSUME NEW r \in Repos, PruneBegin(r) PROVE BackupsSafe'
  <2>1. NotAhead'
    BY <1>6, VersionTypes DEF PruneBegin, TypeOK, DiskOK, NotAhead, world, workers
  <2>2. PackedFresh'
    BY <1>6, <1>a DEF PruneBegin, workers
  <2> QED BY <1>6, <2>1, <2>2 DEF PruneBegin, SteadyOnForge, SteadySeen, OnForge,
          CanonicalComplete, StaleGone, Reading, world, process, listing, history
<1>7. CASE Wait \/ Return
  <2>1. PackedFresh'
    BY <1>7, PackedKept DEF Wait, Return, disk, listing, workers, history
  <2> QED BY <1>7, <2>1 DEF Wait, Return, NotAhead, SteadyOnForge, SteadySeen, OnForge,
          CanonicalComplete, StaleGone, Reading, world, disk, listing, pruning, workers, history
<1>8. CASE PruneMirror
  <2>1. PackedFresh'
    BY <1>8, <1>a DEF PruneMirror
  <2> QED BY <1>8, <2>1 DEF PruneMirror, NotAhead, SteadyOnForge, SteadySeen, OnForge,
          CanonicalComplete, StaleGone, Reading, world, listing, pruning, history
<1>9. CASE PruneFail
  <2>1. PackedFresh'
    BY <1>9, <1>a DEF PruneFail, workers
  <2>2. StaleGone'
    BY <1>9 DEF PruneFail, StaleGone, Reading, process, listing, history
  <2> QED BY <1>9, <2>1, <2>2 DEF PruneFail, NotAhead, SteadyOnForge, SteadySeen, OnForge,
          CanonicalComplete, world, disk, process, listing, workers, history
<1>10. CASE PruneArchive
  <2>1. NotAhead'
    BY <1>10, VersionTypes DEF PruneArchive, TypeOK, DiskOK, NotAhead, world, workers
  <2>2. PackedFresh'
    BY <1>10, <1>a DEF PruneArchive, workers
  <2>3. StaleGone'
    BY <1>10 DEF PruneArchive, StaleGone, Reading, listing, history
  <2> QED BY <1>10, <2>1, <2>2, <2>3 DEF PruneArchive, SteadyOnForge, SteadySeen, OnForge,
          CanonicalComplete, world, listing, history
<1> QED BY <1>1, <1>2, <1>3, <1>4, <1>5, <1>6, <1>7, <1>8, <1>9, <1>10 DEF MainLoop

-----------------------------------------------------------------------------
(* A worker's step. *)

\* What a Sync brings the directory to is no newer than the forge, and the forge's very
\* content when no other worker shares the directory.
LEMMA FetchedVersions ==
  ASSUME TypeOK, PoolInOrder, NEW e \in Entries, phase[e] # "none", NEW v \in Fetched(e)
  PROVE  /\ v \in Nat /\ v <= forge[Path(e)].ver
         /\ v = forge[Path(e)].ver \/ v >= base[Path(e)].ver
         /\ ~Crowded(Path(e)) => v = forge[Path(e)].ver
<1>1. e \in listed
  BY DEF PoolInOrder, WorkersListed
<1>2. ~Crowded(Path(e)) => Rivals(e) = {}
  BY <1>1 DEF Crowded, Rivals
<1> QED BY <1>2, VersionTypes DEF Fetched

\* A worker touches no directory and no archive but its path's.
LEMMA DiskElsewhere ==
  ASSUME TypeOK, NEW e \in Entries, Worker(e), NEW r \in Repos, r # Path(e)
  PROVE  /\ mirror'[r] = mirror[r] /\ archive'[r] = archive[r]
         /\ r \in headed' <=> r \in headed
  BY DEF Worker, SyncOK, SyncHollow, SyncFail, Refreshed, Export, ArchiveOK, ArchiveFail,
         Fold, ReportLock, ReportCall, TypeOK, DiskOK, disk

LEMMA WorkerFrame ==
  ASSUME TypeOK, NEW e \in Entries, Worker(e)
  PROVE  /\ UNCHANGED <<world, process, listing, pruning, history>>
         /\ phase[e] \in Busy
         /\ \A d \in Entries \ {e} : /\ phase'[d] = phase[d] /\ out'[d] = out[d]
                                     /\ scratch'[d] = scratch[d]
  BY DEF Worker, SyncOK, SyncHollow, SyncFail, Export, ArchiveOK, ArchiveFail, Fold,
         ReportLock, ReportCall, TypeOK, WorkersOK, Busy

LEMMA WorkerSafe == ASSUME NEW e \in Entries, TypeOK, PoolInOrder, BackupsSafe, Worker(e)
                    PROVE  BackupsSafe'
<1> USE DEF BackupsSafe
<1>a. Path(e) \in Repos /\ phase[e] # "none" /\ e \in listed
  BY EntryPath, WorkerFrame DEF Busy, PoolInOrder, WorkersListed
<1>1. NotAhead'
  <2>1. CASE SyncOK(e) \/ SyncFail(e)
    <3>1. CASE Refreshed(e) /\ UNCHANGED <<archive, scratch>>
      BY <1>a, <3>1, FetchedVersions, WorkerFrame DEF Refreshed, NotAhead, TypeOK, DiskOK, world
    <3>2. CASE scratch' = [scratch EXCEPT ![e] = forge[Path(e)].ver] /\ UNCHANGED <<mirror, archive>>
      BY <1>a, <3>2, WorkerFrame, VersionTypes DEF NotAhead, TypeOK, WorkersOK, world
    <3>3. CASE UNCHANGED <<mirror, archive, scratch>>
      BY <3>3, WorkerFrame DEF NotAhead, world
    <3> QED BY <2>1, <3>1, <3>2, <3>3 DEF SyncOK, SyncFail
  <2>2. CASE ArchiveOK(e)
    <3>1. Packed(e) <= forge[Path(e)].ver
      BY <1>a DEF Packed, NotAhead
    <3> QED BY <1>a, <2>2, <3>1, VersionTypes, WorkerFrame
        DEF ArchiveOK, NotAhead, TypeOK, DiskOK, WorkersOK, world
  <2>3. CASE ArchiveFail(e)
    BY <2>3, VersionTypes DEF ArchiveFail, NotAhead, TypeOK, WorkersOK, world, disk
  <2>4. CASE SyncHollow(e) \/ Export(e) \/ Fold(e) \/ ReportLock(e) \/ ReportCall(e)
    BY <2>4 DEF SyncHollow, Export, Fold, ReportLock, ReportCall, NotAhead, world, disk
  <2> QED BY <2>1, <2>2, <2>3, <2>4 DEF Worker
<1>2. SteadyOnForge' /\ SteadySeen' /\ CanonicalComplete' /\ StaleGone'
  BY WorkerFrame DEF SteadyOnForge, SteadySeen, OnForge, CanonicalComplete, StaleGone,
     Reading, world, process, listing, pruning, history
<1>3. PackedFresh'
  <2> SUFFICES ASSUME NEW d \in Entries,
                      Path(d) \in steady \/ ~opts.prune, Path(d) \notin headed',
                      ~Crowded(Path(d)), phase'[d] \in {"export", "archive"}
               PROVE  Packed(d)' >= archive'[Path(d)]
    BY WorkerFrame DEF PackedFresh, Crowded, process, listing, history
  <2>a. Packed(d)' = IF UsesScratch(d) THEN scratch'[d] ELSE mirror'[Path(d)]
    BY WorkerFrame DEF Packed, UsesScratch, Wants, process, listing
  <2>1. CASE d # e
    <3>1. phase[d] \in {"export", "archive"} /\ scratch'[d] = scratch[d]
      BY <2>1, WorkerFrame
    <3>2. d \in listed
      BY <3>1 DEF PoolInOrder, WorkersListed
    <3>3. Path(d) # Path(e) /\ Path(d) \in Repos
      BY <1>a, <2>1, <3>2, EntryPath DEF Crowded
    <3> QED BY <2>a, <3>1, <3>3, DiskElsewhere DEF PackedFresh, Packed
  <2>2. CASE d = e
    <3>1. CASE SyncOK(e)
      BY <1>a, <2>a, <2>2, <3>1, FetchedVersions, VersionTypes
      DEF SyncOK, Refreshed, NotAhead, TypeOK, DiskOK, WorkersOK
    <3>2. CASE SyncHollow(e)
      BY <2>2, <3>2 DEF SyncHollow, disk
    <3>3. CASE Export(e)
      BY <2>a, <2>2, <3>3 DEF Export, PackedFresh, Packed, disk
    <3>4. CASE SyncFail(e) \/ ArchiveOK(e) \/ ArchiveFail(e) \/ Fold(e) \/ ReportLock(e)
                 \/ ReportCall(e)
      BY <2>2, <3>4 DEF SyncFail, ArchiveOK, ArchiveFail, Fold, ReportLock, ReportCall, TypeOK,
                        WorkersOK
    <3> QED BY <3>1, <3>2, <3>3, <3>4 DEF Worker
  <2> QED BY <2>1, <2>2
<1> QED BY <1>1, <1>2, <1>3

LEMMA RaceSafe == ASSUME NEW e \in Entries, NEW d \in Entries, TypeOK, PoolInOrder, BackupsSafe,
                         CloneRace(e, d)
                  PROVE  BackupsSafe'
<1> USE DEF BackupsSafe
<1>1. PackedFresh'
  <2> SUFFICES ASSUME NEW f \in Entries,
                      Path(f) \in steady \/ ~opts.prune, Path(f) \notin headed',
                      ~Crowded(Path(f)), phase'[f] \in {"export", "archive"}
               PROVE  Packed(f)' >= archive'[Path(f)]
    BY DEF PackedFresh, Crowded, CloneRace, process, listing, history
  <2>1. f # e /\ f # d
    BY DEF CloneRace, Rivals
  <2>2. phase[f] \in {"export", "archive"}
    BY <2>1 DEF CloneRace, TypeOK, WorkersOK
  <2>3. Path(f) \notin headed
    BY DEF CloneRace
  <2>4. Packed(f)' = Packed(f) /\ archive' = archive
    BY DEF CloneRace, Packed, UsesScratch, Wants, process, listing
  <2> QED BY <2>2, <2>3, <2>4 DEF PackedFresh
<1> QED BY <1>1 DEF CloneRace, NotAhead, SteadyOnForge, SteadySeen, OnForge, CanonicalComplete,
        StaleGone, Reading, world, process, listing, pruning, history

\* The tree never gets ahead of the forge; unless something left the lists of the StateAll
\* listing while it was read, no path that stayed on the forge is stale; and a lone worker
\* on a whole directory archives nothing older than the archive it replaces.
THEOREM BackupsSafeAlways == Spec => []BackupsSafe
<1>1. TypeOK /\ PoolInOrder /\ BackupsSafe /\ [Next]_vars => BackupsSafe'
  <2> SUFFICES ASSUME TypeOK, PoolInOrder, BackupsSafe, [Next]_vars PROVE BackupsSafe'
    OBVIOUS
  <2>1. CASE UNCHANGED vars
    BY <2>1 DEF BackupsSafe, NotAhead, SteadyOnForge, SteadySeen, OnForge, CanonicalComplete,
       StaleGone, Reading, PackedFresh, Packed, UsesScratch, Wants, Crowded, vars, world, disk,
       process, listing, pruning, workers, history
  <2> QED BY <2>1, StartSafe, EnvironmentSafe, MainLoopSafe, WorkerSafe, RaceSafe DEF Next
<1> QED BY <1>1, InitSafe, TypeCorrect, PoolInOrderAlways, PTL DEF Spec

\* prune's next path is not one it is to spare.
LEMMA StaleNotSpared ==
  ASSUME BackupsSafe, opts.prune, NEW r \in stale, Spared(r)
  PROVE  r \notin steady
  BY DEF BackupsSafe, StaleGone, Spared

\* One step of NoBackupLost.
Kept == \A r \in Repos : /\ r \in steady \/ ~opts.prune
                         /\ Spared(r) /\ r \notin headed /\ ~Crowded(r)
          => mirror'[r] >= mirror[r] /\ archive'[r] >= archive[r]

LEMMA UnchangedKept == TypeOK /\ UNCHANGED <<mirror, archive>> => Kept
  BY VersionTypes DEF Kept

LEMMA StepKept == TypeOK /\ PoolInOrder /\ BackupsSafe /\ Next => Kept
<1> SUFFICES ASSUME TypeOK, PoolInOrder, BackupsSafe, Next PROVE Kept
  OBVIOUS
<1>1. CASE Start
  BY <1>1, UnchangedKept DEF Start, disk
<1>2. CASE Environment
  BY <1>2, UnchangedKept DEF Environment, Push, Delete, Create, ToggleArchived, Cancel, Crash,
                             disk
<1>3. CASE MainLoop
  <2>1. ASSUME NEW r \in Repos, PruneBegin(r) PROVE Kept
    <3>1. \A s \in Repos : s \in steady /\ Spared(s) => mirror'[s] = mirror[s]
      BY <2>1, StaleNotSpared DEF PruneBegin, TypeOK, DiskOK
    <3> QED BY <2>1, <3>1, VersionTypes DEF PruneBegin, Kept
  <2>2. CASE PruneArchive
    <3>1. opts.prune /\ hand \in stale
      BY <2>2 DEF PruneArchive, BackupsSafe, StaleGone, TypeOK, PruningOK
    <3>2. \A s \in steady : Spared(s) => archive'[s] = archive[s]
      BY <2>2, <3>1, StaleNotSpared DEF PruneArchive, TypeOK, DiskOK, HistoryOK
    <3> QED BY <2>2, <3>1, <3>2, VersionTypes DEF PruneArchive, Kept
  <2>3. CASE List \/ Relist \/ Scan \/ Abort \/ Wait \/ PruneMirror \/ PruneFail \/ Return
    BY <2>3, UnchangedKept DEF List, Relist, Scan, Abort, Wait, PruneMirror, PruneFail, Return,
                               disk
  <2>4. ASSUME NEW e \in Entries, Skip(e) \/ Dispatch(e) PROVE Kept
    BY <2>4, UnchangedKept DEF Skip, Dispatch, disk
  <2> QED BY <1>3, <2>1, <2>2, <2>3, <2>4 DEF MainLoop
<1>4. ASSUME NEW e \in Entries, Worker(e) PROVE Kept
  <2>a. Path(e) \in Repos /\ phase[e] # "none"
    BY <1>4, EntryPath, WorkerFrame DEF Busy
  <2>1. CASE SyncOK(e) \/ SyncFail(e)
    <3>1. CASE Refreshed(e) /\ UNCHANGED archive
      BY <2>a, <3>1, FetchedVersions, VersionTypes
      DEF Refreshed, BackupsSafe, NotAhead, TypeOK, DiskOK, Kept
    <3> QED BY <2>1, <3>1, UnchangedKept DEF SyncOK, SyncFail
  <2>2. CASE ArchiveOK(e)
    BY <2>a, <2>2, VersionTypes DEF ArchiveOK, BackupsSafe, PackedFresh, TypeOK, DiskOK, Kept
  <2>3. CASE SyncHollow(e) \/ Export(e) \/ ArchiveFail(e) \/ Fold(e) \/ ReportLock(e)
               \/ ReportCall(e)
    BY <2>3, UnchangedKept DEF SyncHollow, Export, ArchiveFail, Fold, ReportLock, ReportCall, disk
  <2> QED BY <1>4, <2>1, <2>2, <2>3 DEF Worker
<1>5. ASSUME NEW e \in Entries, NEW d \in Entries, CloneRace(e, d) PROVE Kept
  BY <1>5, UnchangedKept DEF CloneRace
<1> QED BY <1>1, <1>2, <1>3, <1>4, <1>5 DEF Next

\* No step of any run loses a backup of a path that stayed on the forge since the run began,
\* nor of any path when --prune-removed is off, with the three exceptions NoBackupLost names:
\* a StateAll listing that something left while it was read and that lacks the path, a
\* directory in pieces with a HEAD, and two entries of the path in one listing.
THEOREM NothingLost == Spec => NoBackupLost
<1>1. TypeOK /\ PoolInOrder /\ BackupsSafe /\ [Next]_vars => [Kept]_vars
  BY StepKept
<1> QED BY <1>1, TypeCorrect, PoolInOrderAlways, BackupsSafeAlways, PTL
        DEF Spec, NoBackupLost, Kept


-----------------------------------------------------------------------------
(* What a Result says: a run without a failure has backed everything up, and   *)
(* the counters account for every listed repository.                           *)

\* A worker has added its outcome to the counters.
Tallied == {"report", "reporting", "done"}

\* The Result will say that something failed.
Doomed == count.failed > 0 \/ \E e \in Entries : phase[e] = "fold" /\ out[e].failed

NothingOlder == \A r \in Repos : /\ base[r].ver <= forge[r].ver
                                 /\ \A m \in seen : base[r].ver <= m[r].ver

\* While nothing has left the lists, no steady repository was archived or unarchived.
Undisturbed == pc = "list" /\ ~shrunk =>
                 \A r \in steady, m \in seen \cup {forge} : m[r].archived = base[r].archived
EmptiesNew == \A e \in empties : base[Path(e)].ver = 0
SteadyListed ==
  pc \notin {"idle", "list"} /\ ~missed =>
    \A r \in steady : Selects(opts.state, base[r].archived) => \E e \in listed : Path(e) = r
AllDone == pc \in {"prune", "unarchive", "done"} => \A e \in listed : phase[e] = "done"

\* Until prune, a directory in pieces with a HEAD was so when the run began, or comes of
\* two clones one of which failed.
WrecksTold == pc \in {"list", "relist", "scan", "dispatch"} => headed \subseteq broken \/ Doomed

\* The run is to keep the copies of e's path.
Promised(e) == Path(e) \in steady \ broken /\ Spared(Path(e))
KeptBy(e) == /\ phase[e] \in {"export", "archive"} => Packed(e) >= base[Path(e)].ver
             /\ phase[e] \in Tallied \cup {"fold"} => Secured(e)
WorkKept == Doomed \/ \A e \in Entries : Promised(e) => KeptBy(e)

\* What SuccessMeansBackedUp rests on: nothing a run was to back up is missing from a
\* listing that nothing left (run.go:128-134), and what a worker has passed is secured or
\* the Result will tell of a failure (run.go:160-184, 290-342).
ResultKept == /\ NothingOlder /\ Undisturbed /\ EmptiesNew /\ SteadyListed /\ AllDone
              /\ WrecksTold /\ WorkKept

-----------------------------------------------------------------------------
(* ResultKept is inductive over the typed, safe and ordered states. *)

LEMMA CountTypes == TypeOK => /\ count \in Counts /\ count.failed \in Nat
                              /\ phase \in [Entries -> Phases]
                              /\ out \in [Entries -> Outcomes]
  BY DEF TypeOK, WorkersOK, Counts

\* A repository that uses a scratch directory is archived from there.
LEMMA ScratchArchived == \A e : UsesScratch(e) => WantsArchive(e)
  BY DEF UsesScratch, WantsArchive

\* Before the first worker nothing is promised.
LEMMA WorkNone == ASSUME \A e \in Entries : phase'[e] = "none" PROVE WorkKept'
  BY DEF WorkKept, KeptBy, Tallied

LEMMA ResetResult ==
  ASSUME Reset, pc' \in {"idle", "list"}, NothingOlder', Undisturbed', WrecksTold'
  PROVE  ResultKept'
<1>1. EmptiesNew' /\ SteadyListed' /\ AllDone'
  BY DEF Reset, EmptiesNew, SteadyListed, AllDone
<1>2. WorkKept'
  BY WorkNone DEF Reset
<1> QED BY <1>1, <1>2 DEF ResultKept

LEMMA InitResult == Init => ResultKept
<1> SUFFICES ASSUME Init PROVE ResultKept
  OBVIOUS
<1>1. NothingOlder
  BY BoundAssumption DEF Init, Fresh, NothingOlder, Contents
<1>2. WorkKept
  BY DEF Init, Fresh, WorkKept, KeptBy, Tallied
<1> QED BY <1>1, <1>2 DEF Init, Fresh, ResultKept, EmptiesNew, SteadyListed, AllDone,
                          Undisturbed, WrecksTold

LEMMA StartResult == TypeOK /\ Start => ResultKept'
<1> SUFFICES ASSUME TypeOK, Start PROVE ResultKept'
  OBVIOUS
<1>1. NothingOlder' /\ Undisturbed' /\ WrecksTold'
  BY VersionTypes DEF Start, NothingOlder, Undisturbed, WrecksTold, world, disk
<1> QED BY <1>1, ResetResult DEF Start

\* What WorkKept reads, apart from the steady paths and what left the lists.
work == <<opts, archs, canonical, phase, scratch, mirror, archive, base, broken, out,
          count.failed>>

LEMMA WorkUndisturbed ==
  ASSUME WorkKept, steady' \subseteq steady, shrunk => shrunk', UNCHANGED work
  PROVE  WorkKept'
<1>1. Doomed' <=> Doomed
  BY DEF Doomed, work
<1>2. ASSUME NEW e \in Entries, Promised(e)' PROVE Promised(e)
  BY <1>2 DEF Promised, Spared, work
<1>3. ASSUME NEW e \in Entries, KeptBy(e) PROVE KeptBy(e)'
  BY <1>3 DEF KeptBy, Packed, Secured, UsesScratch, WantsArchive, Wants, work
<1> QED BY <1>1, <1>2, <1>3 DEF WorkKept

\* Only what WrecksTold reads changes, if at all, for the better.
LEMMA WrecksKept ==
  ASSUME WrecksTold, pc' \in {"list", "relist", "scan", "dispatch"} => pc' = pc \/
                       pc \in {"list", "relist", "scan", "dispatch"},
         headed' \subseteq headed, broken' = broken, Doomed => Doomed'
  PROVE  WrecksTold'
  BY DEF WrecksTold

LEMMA SameDoom == UNCHANGED <<phase, out, count.failed>> => (Doomed' <=> Doomed)
  BY DEF Doomed

LEMMA EnvironmentResult == TypeOK /\ ResultKept /\ Environment => ResultKept'
<1> SUFFICES ASSUME TypeOK, ResultKept, Environment PROVE ResultKept'
  OBVIOUS
<1> USE DEF ResultKept
<1>1. ASSUME NEW r \in Repos, Push(r) \/ Delete(r) \/ Create(r) \/ ToggleArchived(r)
      PROVE  ResultKept'
  <2>1. /\ steady' \subseteq steady /\ (shrunk => shrunk')
        /\ UNCHANGED <<listed, archs, empties, canonical, missed, pc, opts, base, broken>>
        /\ UNCHANGED <<disk, workers>>
        /\ seen' \subseteq seen \cup {forge'}
    BY <1>1 DEF Push, Delete, Create, ToggleArchived, Observed, process, history, TypeOK,
                ListingOK
  <2>2. \A s \in Repos : /\ forge'[s].ver \in Nat /\ forge'[s].ver >= forge[s].ver
                         /\ ~Delete(r) /\ ~ToggleArchived(r) =>
                              forge'[s].archived = forge[s].archived
    <3>1. forge \in [Repos -> Contents]
      BY DEF TypeOK, WorldOK
    <3>2. CASE Push(r)
      BY <3>1, <3>2 DEF Push, Contents
    <3>3. CASE Delete(r) \/ Create(r)
      <4>1. \E b : forge' = [forge EXCEPT ![r].here = b]
        BY <3>3 DEF Delete, Create
      <4> QED BY <3>1, <4>1 DEF Contents
    <3>4. CASE ToggleArchived(r)
      <4>1. \E b : forge' = [forge EXCEPT ![r].archived = b]
        BY <3>4 DEF ToggleArchived
      <4> QED BY <3>1, <3>4, <4>1 DEF Contents
    <3> QED BY <1>1, <3>2, <3>3, <3>4
  <2>3. NothingOlder'
    <3>1. \A s \in Repos : base[s].ver <= forge'[s].ver
      BY <2>2, VersionTypes DEF NothingOlder
    <3> QED BY <2>1, <3>1 DEF NothingOlder
  <2>4. Undisturbed'
    <3> SUFFICES ASSUME pc = "list", ~shrunk', NEW s \in steady',
                        NEW m \in seen' \cup {forge'}
                 PROVE  m[s].archived = base[s].archived
      BY <2>1 DEF Undisturbed
    <3>1. ~Delete(r) /\ ~ToggleArchived(r)
      BY DEF Delete, ToggleArchived, Observed, Reading
    <3>2. s \in steady /\ s \in Repos /\ ~shrunk /\ m \in seen \cup {forge'}
      BY <2>1 DEF TypeOK, HistoryOK
    <3> QED BY <2>2, <3>1, <3>2 DEF Undisturbed
  <2>5. WorkKept' /\ WrecksTold'
    BY <2>1, WorkUndisturbed, WrecksKept, SameDoom DEF work, workers, disk
  <2> QED BY <2>1, <2>3, <2>4, <2>5 DEF EmptiesNew, SteadyListed, AllDone, workers
<1>2. CASE Cancel
  <2>1. WorkKept' /\ WrecksTold'
    BY <1>2, WorkUndisturbed, WrecksKept, SameDoom DEF Cancel, work, history, listing, workers,
                                                       disk
  <2> QED BY <1>2, <2>1 DEF Cancel, NothingOlder, Undisturbed, EmptiesNew, SteadyListed,
          AllDone, history, listing, workers
<1>3. CASE Crash
  <2>1. NothingOlder' /\ Undisturbed' /\ WrecksTold'
    BY <1>3 DEF Crash, NothingOlder, Undisturbed, WrecksTold, history
  <2> QED BY <1>3, <2>1, ResetResult DEF Crash
<1> QED BY <1>1, <1>2, <1>3 DEF Environment

LEMMA ListResult ==
  TypeOK /\ BackupsSafe /\ PoolInOrder /\ ResultKept /\ List => ResultKept'
<1> SUFFICES ASSUME TypeOK, BackupsSafe, PoolInOrder, ResultKept, List PROVE ResultKept'
  OBVIOUS
<1> USE DEF ResultKept
<1>1. EmptiesNew'
  <2> SUFFICES ASSUME NEW e \in empties' PROVE base[Path(e)].ver = 0
    BY DEF EmptiesNew, List, history
  <2>1. e \in Entries /\ \E m \in seen : m[Path(e)].ver = 0
    BY DEF List
  <2> QED BY <2>1, VersionTypes DEF NothingOlder
<1>2. SteadyListed'
  <2> SUFFICES ASSUME ~shrunk, NEW r \in steady, Selects(opts.state, base[r].archived)
               PROVE  \E e \in listed' : Path(e) = r
    BY DEF List, SteadyListed, Selects, history
  <2>1. r \in Repos
    BY DEF TypeOK, HistoryOK
  <2>2. \A m \in seen : m[r].here /\ m[r].archived = base[r].archived
    BY DEF List, BackupsSafe, SteadySeen, Undisturbed
  <2>3. r \in Always(opts.state)
    BY <2>1, <2>2 DEF Always, Selects
  <2>4. <<r, 1>> \in listed'
    BY <2>3 DEF List
  <2> QED BY <2>1, <2>4, EntryPath
<1>3. WorkKept'
  <2>1. \A e \in Entries : phase[e] = "none"
    BY DEF List, PoolInOrder, WorkersListed
  <2> QED BY <2>1, WorkNone DEF List, workers
<1>4. WrecksTold'
  BY WrecksKept, SameDoom DEF List, workers, disk, history
<1> QED BY <1>1, <1>2, <1>3, <1>4 DEF List, NothingOlder, Undisturbed, AllDone, world, history

LEMMA MainLoopResult ==
  TypeOK /\ BackupsSafe /\ PoolInOrder /\ ResultKept /\ MainLoop => ResultKept'
<1> SUFFICES ASSUME TypeOK, BackupsSafe, PoolInOrder, ResultKept, MainLoop
             PROVE  ResultKept'
  OBVIOUS
<1> USE DEF ResultKept
<1>1. CASE Relist
  <2>1. WorkKept'
    <3>1. \A e \in Entries : phase[e] = "none"
      BY <1>1 DEF Relist, PoolInOrder, WorkersListed
    <3> QED BY <1>1, <3>1, WorkNone DEF Relist, workers
  <2>2. WrecksTold'
    BY <1>1, WrecksKept, SameDoom DEF Relist, workers, disk, history
  <2> QED BY <1>1, <2>1, <2>2 DEF Relist, NothingOlder, Undisturbed, EmptiesNew,
          SteadyListed, AllDone, world, workers, history
<1>2. CASE Scan
  <2>1. WorkKept' /\ WrecksTold'
    BY <1>2, WorkUndisturbed, WrecksKept, SameDoom DEF Scan, work, listing, disk, history
  <2> QED BY <1>2, <2>1 DEF Scan, NothingOlder, Undisturbed, EmptiesNew, SteadyListed, AllDone,
          world, listing, history
<1>3. CASE Abort
  <2>1. NothingOlder' /\ Undisturbed' /\ WrecksTold'
    BY <1>3 DEF Abort, NothingOlder, Undisturbed, WrecksTold, history, world
  <2> QED BY <1>3, <2>1, ResetResult DEF Abort
<1>4. ASSUME NEW e \in Entries, Skip(e) PROVE ResultKept'
  <2>1. base[Path(e)].ver = 0
    BY <1>4 DEF Skip, EmptiesNew
  <2>2. Secured(e) /\ phase[e] = "none"
    BY <1>4, <2>1, VersionTypes DEF Secured, Skip, PoolInOrder, WorkersListed
  <2>3. count'.failed = count.failed
    BY <1>4, CountTypes DEF Skip, Counts
  <2>4. Doomed' <=> Doomed
    BY <1>4, <2>2, <2>3, CountTypes DEF Skip, Doomed
  <2>5. ASSUME NEW d \in Entries, Promised(d)', Promised(d) => KeptBy(d) PROVE KeptBy(d)'
    <3>1. Promised(d) /\ Packed(d)' = Packed(d) /\ (Secured(d)' <=> Secured(d))
      BY <1>4, <2>5 DEF Skip, Promised, Spared, Packed, Secured, UsesScratch, WantsArchive, Wants,
                        process, listing, disk, history
    <3>2. CASE d = e
      BY <1>4, <2>2, <3>1, <3>2, CountTypes DEF Skip, KeptBy
    <3>3. CASE d # e
      BY <1>4, <2>5, <3>1, <3>3, CountTypes DEF Skip, KeptBy, history
    <3> QED BY <3>2, <3>3
  <2>6. WorkKept'
    BY <2>4, <2>5 DEF WorkKept
  <2>7. WrecksTold'
    BY <1>4, <2>4, WrecksKept DEF Skip, process, disk, history
  <2> QED BY <1>4, <2>6, <2>7 DEF Skip, NothingOlder, Undisturbed, EmptiesNew, SteadyListed,
          AllDone, world, process, listing, history
<1>5. ASSUME NEW e \in Entries, Dispatch(e) PROVE ResultKept'
  <2>1. phase[e] = "none" /\ phase' = [phase EXCEPT ![e] = "start"] /\ UNCHANGED <<out, count>>
    BY <1>5 DEF Dispatch, PoolInOrder, WorkersListed
  <2>2. Doomed' <=> Doomed
    BY <2>1, CountTypes DEF Doomed
  <2>3. ASSUME NEW d \in Entries, Promised(d)', Promised(d) => KeptBy(d) PROVE KeptBy(d)'
    <3>1. Promised(d) /\ Packed(d)' = Packed(d) /\ (Secured(d)' <=> Secured(d)) /\ base' = base
      BY <1>5, <2>3 DEF Dispatch, Promised, Spared, Packed, Secured, UsesScratch, WantsArchive,
                        Wants, process, listing, disk, history
    <3> QED BY <2>1, <2>3, <3>1, CountTypes DEF KeptBy, Tallied
  <2>4. WorkKept'
    BY <2>2, <2>3 DEF WorkKept
  <2>5. WrecksTold'
    BY <1>5, <2>2, WrecksKept DEF Dispatch, process, disk, history
  <2> QED BY <1>5, <2>4, <2>5 DEF Dispatch, NothingOlder, Undisturbed, EmptiesNew, SteadyListed,
          AllDone, world, process, listing, history
<1>6. CASE Wait \/ Return
  <2>1. WorkKept' /\ WrecksTold'
    BY <1>6, WorkUndisturbed, WrecksKept, SameDoom DEF Wait, Return, work, listing, disk,
                                                       workers, history
  <2> QED BY <1>6, <2>1 DEF Wait, Return, NothingOlder, Undisturbed, EmptiesNew, SteadyListed,
          AllDone, world, listing, workers, history
<1>7. ASSUME NEW r \in Repos, PruneBegin(r) PROVE ResultKept'
  <2>1. ASSUME NEW e \in Entries, Promised(e)' PROVE Promised(e) /\ Path(e) # r
    <3>1. Promised(e)
      BY <1>7, <2>1 DEF PruneBegin, Promised, Spared, process, listing, history
    <3> QED BY <1>7, <3>1, StaleNotSpared DEF PruneBegin, Promised
  <2>2. Doomed' <=> Doomed
    BY <1>7, SameDoom DEF PruneBegin, workers
  <2>3. ASSUME NEW e \in Entries, Promised(e)', KeptBy(e) PROVE KeptBy(e)'
    <3>1. mirror'[Path(e)] = mirror[Path(e)]
      BY <1>7, <2>1, <2>3, VersionTypes DEF PruneBegin, TypeOK, DiskOK
    <3> QED BY <1>7, <2>3, <3>1 DEF PruneBegin, KeptBy, Packed, Secured, UsesScratch,
            WantsArchive, Wants, process, listing, workers, history
  <2>4. WorkKept'
    BY <2>1, <2>2, <2>3 DEF WorkKept
  <2> QED BY <1>7, <2>4 DEF PruneBegin, NothingOlder, Undisturbed, EmptiesNew, SteadyListed,
          AllDone, WrecksTold, world, process, listing, workers, history
<1>8. CASE PruneMirror
  <2>1. count'.failed = count.failed
    BY <1>8, CountTypes DEF PruneMirror, Counts
  <2>2. WorkKept'
    BY <1>8, <2>1, WorkUndisturbed DEF PruneMirror, work, listing, history
  <2> QED BY <1>8, <2>2 DEF PruneMirror, NothingOlder, Undisturbed, EmptiesNew, SteadyListed,
          AllDone, WrecksTold, world, listing, history
<1>9. CASE PruneFail
  <2>1. WorkKept'
    BY <1>9, WorkUndisturbed DEF PruneFail, work, process, listing, disk, workers, history
  <2> QED BY <1>9, <2>1 DEF PruneFail, NothingOlder, Undisturbed, EmptiesNew, SteadyListed,
          AllDone, WrecksTold, world, process, listing, workers, history
<1>10. CASE PruneArchive
  <2>1. opts.prune /\ hand \in stale /\ hand \in Repos
    BY <1>10 DEF PruneArchive, BackupsSafe, StaleGone, TypeOK, PruningOK
  <2>2. ASSUME NEW e \in Entries, Promised(e)' PROVE Promised(e) /\ Path(e) # hand
    <3>1. Promised(e)
      BY <1>10, <2>2 DEF PruneArchive, Promised, Spared, listing, history
    <3> QED BY <2>1, <3>1, StaleNotSpared DEF Promised
  <2>3. Doomed' <=> Doomed
    BY <1>10, SameDoom DEF PruneArchive, workers
  <2>4. ASSUME NEW e \in Entries, Promised(e)', KeptBy(e) PROVE KeptBy(e)'
    <3>1. archive'[Path(e)] = archive[Path(e)]
      BY <1>10, <2>2, <2>4, VersionTypes DEF PruneArchive, TypeOK, DiskOK
    <3> QED BY <1>10, <2>4, <3>1 DEF PruneArchive, KeptBy, Packed, Secured, UsesScratch,
            WantsArchive, Wants, listing, workers, history
  <2>5. WorkKept'
    BY <2>2, <2>3, <2>4 DEF WorkKept
  <2> QED BY <1>10, <2>5 DEF PruneArchive, NothingOlder, Undisturbed, EmptiesNew, SteadyListed,
          AllDone, WrecksTold, world, listing, workers, history
<1> QED BY <1>1, <1>2, <1>3, <1>4, <1>5, <1>6, <1>7, <1>8, <1>9, <1>10, ListResult DEF MainLoop

-----------------------------------------------------------------------------
(* A worker's step. *)

\* A failure is never taken back: it is on its way into Result.Failed, or there.
LEMMA DoomStays == ASSUME TypeOK, NEW e \in Entries, Worker(e), Doomed PROVE Doomed'
<1>1. CASE Fold(e)
  <2>1. count'.failed = count.failed + One(out[e].failed)
    BY <1>1, CountTypes DEF Fold, Counts
  <2> QED BY <1>1, <2>1, CountTypes DEF Fold, Doomed, One
<1>2. CASE ReportLock(e)
  <2>1. count'.failed = count.failed
    BY <1>2, CountTypes DEF ReportLock, Counts
  <2> QED BY <1>2, <2>1, CountTypes DEF ReportLock, Doomed
<1>3. CASE ~Fold(e) /\ ~ReportLock(e)
  <2>1. phase[e] # "fold" /\ count' = count
    BY <1>3 DEF Worker, SyncOK, SyncHollow, SyncFail, Export, ArchiveOK, ArchiveFail, ReportCall
  <2> QED BY <2>1, WorkerFrame DEF Doomed
<1> QED BY <1>1, <1>2, <1>3

LEMMA FailureDooms ==
  ASSUME TypeOK, NEW e \in Entries, SyncFail(e) \/ ArchiveFail(e) PROVE Doomed'
  BY CountTypes DEF SyncFail, ArchiveFail, Doomed, Outcomes

LEMMA PromiseFrame ==
  ASSUME TypeOK, NEW e \in Entries, Worker(e), NEW d \in Entries
  PROVE  /\ Promised(d)' <=> Promised(d)
         /\ UsesScratch(d)' <=> UsesScratch(d)
         /\ WantsArchive(d)' <=> WantsArchive(d)
         /\ base' = base
  BY WorkerFrame DEF Promised, Spared, UsesScratch, WantsArchive, Wants, process, listing, history

\* A step of e's worker keeps what the run promises of the path of any d, be it another
\* worker's, or one that shares e's directory.
LEMMA CopiesKept ==
  ASSUME TypeOK, PoolInOrder, NothingOlder, NEW e \in Entries, Worker(e), NEW d \in Entries,
         Promised(e) => KeptBy(e), Promised(d)
  PROVE  /\ mirror'[Path(d)] = mirror[Path(d)] \/ mirror'[Path(d)] >= base[Path(d)].ver
         /\ archive'[Path(d)] = archive[Path(d)] \/ archive'[Path(d)] >= base[Path(d)].ver
<1>a. /\ Path(d) \in Repos /\ Path(e) \in Repos /\ phase[e] # "none"
      /\ Path(d) = Path(e) => Promised(e)
  BY EntryPath, WorkerFrame DEF Busy, Promised
<1>1. CASE Path(d) # Path(e)
  BY <1>a, <1>1, DiskElsewhere
<1>2. CASE Path(d) = Path(e)
  <2>1. CASE SyncOK(e) \/ SyncFail(e)
    <3>1. CASE Refreshed(e) /\ archive' = archive
      BY <1>a, <1>2, <3>1, FetchedVersions, VersionTypes DEF Refreshed, NothingOlder, TypeOK,
                                                             DiskOK
    <3> QED BY <2>1, <3>1 DEF SyncOK, SyncFail
  <2>2. CASE ArchiveOK(e)
    <3>1. Packed(e) >= base[Path(e)].ver
      BY <1>a, <1>2, <2>2 DEF ArchiveOK, KeptBy
    <3> QED BY <1>a, <1>2, <2>2, <3>1 DEF ArchiveOK, TypeOK, DiskOK
  <2>3. CASE SyncHollow(e) \/ Export(e) \/ ArchiveFail(e) \/ Fold(e) \/ ReportLock(e)
               \/ ReportCall(e)
    BY <2>3 DEF SyncHollow, Export, ArchiveFail, Fold, ReportLock, ReportCall, disk
  <2> QED BY <2>1, <2>2, <2>3 DEF Worker
<1> QED BY <1>1, <1>2

\* What e's own worker goes on to.
LEMMA OwnKept ==
  ASSUME TypeOK, PoolInOrder, NothingOlder, WrecksTold, ~Doomed, NEW e \in Entries, Worker(e),
         ~Doomed', Promised(e), KeptBy(e)
  PROVE  KeptBy(e)'
<1> USE DEF Tallied
<1>a. /\ Path(e) \in Repos /\ forge[Path(e)].ver >= base[Path(e)].ver
      /\ phase[e] # "none" /\ ~SyncFail(e) /\ ~ArchiveFail(e)
  BY EntryPath, WorkerFrame, FailureDooms, VersionTypes DEF Busy, NothingOlder
<1>b. Packed(e)' = IF UsesScratch(e) THEN scratch'[e] ELSE mirror'[Path(e)]
  BY PromiseFrame DEF Packed
<1>c. Secured(e)' <=> /\ UsesScratch(e) \/ mirror'[Path(e)] >= base[Path(e)].ver
                      /\ WantsArchive(e) => archive'[Path(e)] >= base[Path(e)].ver
  BY PromiseFrame DEF Secured
<1>1. CASE SyncOK(e)
  <2>1. Packed(e)' >= base[Path(e)].ver /\ phase'[e] = "export"
    BY <1>a, <1>b, <1>1, FetchedVersions, VersionTypes
    DEF SyncOK, Refreshed, TypeOK, DiskOK, WorkersOK
  <2> QED BY <2>1, PromiseFrame DEF KeptBy
<1>2. CASE SyncHollow(e)
  <2>1. pc \in {"list", "relist", "scan", "dispatch"}
    BY <1>2, QuietPool DEF SyncHollow, Busy, TypeOK, ProcessOK
  <2> QED BY <1>2, <2>1 DEF SyncHollow, WrecksTold, Promised
<1>3. CASE Export(e)
  <2>1. phase'[e] = IF WantsArchive(e) THEN "archive" ELSE "fold"
    BY <1>3 DEF Export, TypeOK, WorkersOK
  <2>2. Packed(e) >= base[Path(e)].ver /\ UNCHANGED <<scratch, mirror, archive>>
    BY <1>3 DEF Export, KeptBy, disk
  <2>3. Packed(e)' = Packed(e)
    BY <1>b, <2>2 DEF Packed
  <2>4. ~WantsArchive(e) => Secured(e)'
    BY <1>c, <2>2, ScratchArchived DEF Packed
  <2> QED BY <2>1, <2>2, <2>3, <2>4, PromiseFrame DEF KeptBy
<1>4. CASE ArchiveOK(e)
  <2>1. /\ phase'[e] = "fold" /\ archive'[Path(e)] = Packed(e) /\ mirror' = mirror
        /\ Packed(e) >= base[Path(e)].ver
    BY <1>a, <1>4 DEF ArchiveOK, KeptBy, TypeOK, DiskOK, WorkersOK
  <2>2. Secured(e)'
    BY <1>c, <2>1 DEF Packed
  <2> QED BY <2>1, <2>2 DEF KeptBy
<1>5. CASE Fold(e) \/ ReportLock(e) \/ ReportCall(e)
  <2>1. /\ phase[e] \in Tallied \cup {"fold"} /\ phase'[e] \in Tallied
        /\ UNCHANGED <<mirror, archive>>
    BY <1>5 DEF Fold, ReportLock, ReportCall, TypeOK, WorkersOK, disk
  <2> QED BY <1>c, <2>1 DEF KeptBy, Secured
<1> QED BY <1>a, <1>1, <1>2, <1>3, <1>4, <1>5 DEF Worker

LEMMA WorkerResult ==
  ASSUME TypeOK, PoolInOrder, ResultKept, NEW e \in Entries, Worker(e)
  PROVE  ResultKept'
<1> USE DEF ResultKept
<1>1. WorkKept'
  <2> SUFFICES ASSUME ~Doomed', NEW d \in Entries, Promised(d)' PROVE KeptBy(d)'
    BY DEF WorkKept
  <2>1. ~Doomed /\ Promised(d)
    BY DoomStays, PromiseFrame
  <2>2. KeptBy(d) /\ (Promised(e) => KeptBy(e))
    BY <2>1 DEF WorkKept
  <2>3. CASE d = e
    BY <2>1, <2>2, <2>3, OwnKept
  <2>4. CASE d # e
    <3>1. phase'[d] = phase[d] /\ scratch'[d] = scratch[d]
      BY <2>4, WorkerFrame
    <3>2. /\ mirror'[Path(d)] = mirror[Path(d)] \/ mirror'[Path(d)] >= base[Path(d)].ver
          /\ archive'[Path(d)] = archive[Path(d)] \/ archive'[Path(d)] >= base[Path(d)].ver
      BY <2>1, <2>2, CopiesKept
    <3> QED BY <2>2, <3>1, <3>2, PromiseFrame DEF KeptBy, Packed, Secured
  <2> QED BY <2>3, <2>4
<1>2. WrecksTold'
  <2>1. headed' \subseteq headed
    BY DEF Worker, SyncOK, SyncHollow, SyncFail, Refreshed, Export, ArchiveOK, ArchiveFail, Fold,
           ReportLock, ReportCall, disk
  <2> QED BY <2>1, DoomStays, WorkerFrame, WrecksKept DEF process, history
<1>3. AllDone'
  BY WorkerFrame DEF AllDone, PoolInOrder, WorkersListed, process, listing
<1> QED BY <1>1, <1>2, <1>3, WorkerFrame DEF NothingOlder, Undisturbed, EmptiesNew, SteadyListed,
        world, process, listing, history

LEMMA RaceResult ==
  ASSUME TypeOK, PoolInOrder, ResultKept, NEW e \in Entries, NEW d \in Entries, CloneRace(e, d)
  PROVE  ResultKept'
<1> USE DEF ResultKept
<1>1. Doomed'
  <2>1. phase'[d] = "fold" /\ out'[d].failed
    BY CountTypes DEF CloneRace, Rivals, Outcomes
  <2> QED BY <2>1 DEF Doomed
<1>2. pc \notin {"prune", "unarchive", "done"}
  BY QuietPool DEF CloneRace, Busy
<1> QED BY <1>1, <1>2 DEF CloneRace, WorkKept, WrecksTold, AllDone, NothingOlder, Undisturbed,
        EmptiesNew, SteadyListed, world, process, listing, history

\* In every state a run has reached, what a worker has passed is secured or the Result will
\* tell of a failure, and nothing that was there throughout is missing from a listing that
\* nothing left.
THEOREM ResultKeptAlways == Spec => []ResultKept
<1>1. TypeOK /\ BackupsSafe /\ PoolInOrder /\ ResultKept /\ [Next]_vars => ResultKept'
  <2> SUFFICES ASSUME TypeOK, BackupsSafe, PoolInOrder, ResultKept, [Next]_vars
               PROVE  ResultKept'
    OBVIOUS
  <2>1. CASE UNCHANGED vars
    <3>1. WorkKept' /\ WrecksTold'
      BY <2>1, WorkUndisturbed, WrecksKept, SameDoom
      DEF ResultKept, vars, work, process, listing, disk, workers, history
    <3> QED BY <2>1, <3>1 DEF ResultKept, NothingOlder, Undisturbed, EmptiesNew, SteadyListed,
            AllDone, vars, world, process, listing, workers, history
  <2> QED BY <2>1, StartResult, EnvironmentResult, MainLoopResult, WorkerResult, RaceResult
      DEF Next
<1> QED BY <1>1, InitResult, TypeCorrect, BackupsSafeAlways, PoolInOrderAlways, PTL DEF Spec

\* A run that reports no failure has backed up everything it owed, for any forge, options,
\* number of workers and interleaving of pushes, signals and crashes, listings that shift
\* as they are read, pieces a failed prune left and paths listed twice included.
THEOREM SuccessIsBackup == Spec => []SuccessMeansBackedUp
<1>1. TypeOK /\ PoolInOrder /\ ResultKept => SuccessMeansBackedUp
  <2> SUFFICES ASSUME TypeOK, PoolInOrder, ResultKept, pc = "done", count.failed = 0, NEW r \in Owed
               PROVE  /\ \E e \in listed : Path(e) = r
                      /\ \A e \in listed : Path(e) = r => Secured(e)
    BY DEF SuccessMeansBackedUp
  <2>1. r \in steady \ broken /\ Spared(r) /\ \E e \in listed : Path(e) = r
    BY DEF Owed, ResultKept, SteadyListed
  <2>2. \A e \in listed : e \in Entries /\ phase[e] = "done"
    BY DEF ResultKept, AllDone, TypeOK, ListingOK
  <2>3. ~Doomed
    BY <2>2, CountTypes DEF Doomed, PoolInOrder, WorkersListed
  <2> QED BY <2>1, <2>2, <2>3 DEF ResultKept, WorkKept, Promised, KeptBy, Tallied
<1> QED BY <1>1, TypeCorrect, PoolInOrderAlways, ResultKeptAlways, PTL
-----------------------------------------------------------------------------
(* The counters are the sizes of sets of entries. *)

Reported == {e \in Entries : phase[e] \in {"reporting", "done"}}
Skipped == {e \in empties : phase[e] # "none"}
Folded == {e \in Entries \ empties : phase[e] \in Tallied}
Synced == {e \in Folded : out[e].synced}
Failed == {e \in Folded : out[e].failed}
Archived == {e \in Folded : out[e].archived}

CountsAreSizes == /\ count.done = Cardinality(Reported)
                  /\ count.skipped = Cardinality(Skipped)
                  /\ count.synced = Cardinality(Synced)
                  /\ count.failed = Cardinality(Failed)
                  /\ count.archived = Cardinality(Archived)

\* No worker ends without having synced its repository or failed, none archives what it
\* has not synced, and an empty repository has no worker (run.go:160-184, 261-342).
OutcomesTold == \A e \in Entries :
  /\ out[e].archived => out[e].synced
  /\ phase[e] \in {"export", "archive"} => out[e].synced
  /\ e \notin empties /\ phase[e] \in Tallied \cup {"fold"} => out[e].synced \/ out[e].failed
  /\ e \in empties => phase[e] \in Tallied \cup {"none"}

TallyKept == CountsAreSizes /\ OutcomesTold

\* What TallyKept reads.
tally == <<phase, out, empties, count.done, count.skipped, count.synced, count.failed,
           count.archived>>

LEMMA TallyUndisturbed == TallyKept /\ UNCHANGED tally => TallyKept'
<1> SUFFICES ASSUME TallyKept, UNCHANGED tally PROVE TallyKept'
  OBVIOUS
<1>1. /\ Reported' = Reported /\ Skipped' = Skipped /\ Synced' = Synced
      /\ Failed' = Failed /\ Archived' = Archived
  BY DEF tally, Reported, Skipped, Folded, Synced, Failed, Archived
<1> QED BY <1>1 DEF TallyKept, CountsAreSizes, OutcomesTold, tally

LEMMA FiniteEntries == IsFiniteSet(Entries)
<1>1. IsFiniteSet(1..MaxCopies)
  BY BoundAssumption, FS_Interval
<1>2. IsFiniteSet(Repos)
  BY RepoAssumption
<1> QED BY ONLY <1>1, <1>2, FS_Product DEF Entries

\* One more entry adds one, and none adds nothing.
LEMMA SizeOfMore ==
  ASSUME NEW S \in SUBSET Entries, NEW e \in Entries, e \notin S, NEW b \in BOOLEAN
  PROVE  Cardinality(IF b THEN S \cup {e} ELSE S) = Cardinality(S) + One(b)
<1>1. IsFiniteSet(S) /\ Cardinality(S) \in Nat
  BY FiniteEntries, FS_Subset, FS_CardinalityType
<1>2. Cardinality(S \cup {e}) = Cardinality(S) + 1
  BY <1>1, FS_AddElement
<1> QED BY <1>1, <1>2 DEF One

\* Before the dispatch loop there is nothing to count.
LEMMA TallyNothing ==
  ASSUME count \in Counts, phase \in [Entries -> Phases], \A e \in Entries : phase[e] = "none",
         empties \subseteq Entries, \A e \in Entries : out[e].archived => out[e].synced,
         count.done = 0, count.skipped = 0, count.synced = 0, count.failed = 0,
         count.archived = 0
  PROVE  TallyKept
<1>1. Reported = {} /\ Skipped = {} /\ Synced = {} /\ Failed = {} /\ Archived = {}
  BY DEF Reported, Skipped, Folded, Synced, Failed, Archived, Tallied
<1> QED BY <1>1, FS_EmptySet DEF TallyKept, CountsAreSizes, OutcomesTold, Tallied

LEMMA InitTally == Init => TallyKept
<1> SUFFICES ASSUME Init PROVE TallyKept
  OBVIOUS
<1>1. count \in Counts /\ phase \in [Entries -> Phases]
  BY FreshValues DEF Init, Fresh
<1> QED BY <1>1, TallyNothing DEF Init, Fresh, NoCount, NoOutcome

LEMMA ResetTally == Reset => TallyKept'
<1> SUFFICES ASSUME Reset PROVE TallyKept'
  OBVIOUS
<1>1. Reported' = {} /\ Skipped' = {} /\ Synced' = {} /\ Failed' = {} /\ Archived' = {}
  BY DEF Reset, Reported, Skipped, Folded, Synced, Failed, Archived, Tallied
<1>2. /\ count'.done = 0 /\ count'.skipped = 0 /\ count'.synced = 0 /\ count'.failed = 0
      /\ count'.archived = 0
  BY DEF Reset, NoCount
<1>3. OutcomesTold'
  BY DEF Reset, OutcomesTold, NoOutcome, Tallied
<1> QED BY <1>1, <1>2, <1>3, FS_EmptySet DEF TallyKept, CountsAreSizes

LEMMA EnvironmentTally == TallyKept /\ Environment => TallyKept'
  BY ResetTally, TallyUndisturbed DEF Environment, Crash, Cancel, Push, Delete, Create,
     ToggleArchived, Observed, tally, listing, workers

\* A listing comes before any worker.
LEMMA ListTally == TypeOK /\ PoolInOrder /\ TallyKept /\ List => TallyKept'
<1> SUFFICES ASSUME TypeOK, PoolInOrder, TallyKept, List PROVE TallyKept'
  OBVIOUS
<1>1. /\ \A e \in Entries : phase[e] = "none"
      /\ UNCHANGED <<count, phase, out>>
  BY DEF List, PoolInOrder, WorkersListed, workers
<1>2. /\ Reported = {} /\ Skipped = {} /\ Synced = {} /\ Failed = {} /\ Archived = {}
      /\ empties \subseteq Entries
  BY <1>1 DEF Reported, Skipped, Folded, Synced, Failed, Archived, Tallied, TypeOK, ListingOK
<1>3. empties' \subseteq Entries
  BY DEF List
<1>4. Reported' = {} /\ Skipped' = {} /\ Synced' = {} /\ Failed' = {} /\ Archived' = {}
  BY <1>1, <1>3 DEF Reported, Skipped, Folded, Synced, Failed, Archived, Tallied
<1>5. OutcomesTold'
  BY <1>1, <1>3 DEF OutcomesTold, TallyKept, Tallied
<1> QED BY <1>1, <1>2, <1>4, <1>5 DEF TallyKept, CountsAreSizes

LEMMA SkipTally == ASSUME TypeOK, PoolInOrder, TallyKept, NEW e \in Entries, Skip(e)
                   PROVE  TallyKept'
<1> USE DEF Tallied
<1>1. /\ phase[e] = "none" /\ e \in empties
      /\ phase' = [phase EXCEPT ![e] = "report"] /\ UNCHANGED <<out, empties>>
  BY DEF Skip, PoolInOrder, WorkersListed, listing
<1>2. phase \in [Entries -> Phases] /\ empties \subseteq Entries /\ count \in Counts
  BY DEF TypeOK, WorkersOK, ListingOK
<1>3. /\ count'.skipped = count.skipped + 1 /\ count'.done = count.done
      /\ count'.synced = count.synced /\ count'.failed = count.failed
      /\ count'.archived = count.archived
  BY <1>2 DEF Skip, Counts
<1>4. Skipped' = Skipped \cup {e} /\ e \notin Skipped /\ Skipped \in SUBSET Entries
  BY <1>1, <1>2 DEF Skipped
<1>5. /\ Reported' = Reported /\ Folded' = Folded
      /\ Synced' = Synced /\ Failed' = Failed /\ Archived' = Archived
  BY <1>1, <1>2 DEF Reported, Folded, Synced, Failed, Archived
<1>6. Cardinality(Skipped') = Cardinality(Skipped) + 1
  BY <1>4, SizeOfMore DEF One
<1>7. OutcomesTold'
  BY <1>1, <1>2 DEF OutcomesTold, TallyKept
<1> QED BY <1>3, <1>5, <1>6, <1>7 DEF TallyKept, CountsAreSizes

LEMMA MainLoopTally ==
  TypeOK /\ PoolInOrder /\ TallyKept /\ MainLoop => TallyKept'
<1> SUFFICES ASSUME TypeOK, PoolInOrder, TallyKept, MainLoop PROVE TallyKept'
  OBVIOUS
<1>1. CASE Abort
  BY <1>1, ResetTally DEF Abort
<1>2. ASSUME NEW e \in Entries, Dispatch(e) PROVE TallyKept'
  <2>1. /\ phase[e] = "none" /\ e \notin empties
        /\ phase' = [phase EXCEPT ![e] = "start"] /\ UNCHANGED <<out, empties, count>>
    BY <1>2 DEF Dispatch, PoolInOrder, WorkersListed, listing
  <2>2. phase \in [Entries -> Phases] /\ empties \subseteq Entries
    BY DEF TypeOK, WorkersOK, ListingOK
  <2>3. /\ Reported' = Reported /\ Skipped' = Skipped /\ Folded' = Folded
        /\ Synced' = Synced /\ Failed' = Failed /\ Archived' = Archived
    BY <2>1, <2>2 DEF Reported, Skipped, Folded, Synced, Failed, Archived, Tallied
  <2>4. OutcomesTold'
    BY <2>1, <2>2 DEF OutcomesTold, TallyKept, Tallied
  <2> QED BY <2>1, <2>3, <2>4 DEF TallyKept, CountsAreSizes
<1>3. CASE PruneMirror
  <2>1. /\ count'.done = count.done /\ count'.skipped = count.skipped
        /\ count'.synced = count.synced /\ count'.failed = count.failed
        /\ count'.archived = count.archived
    BY <1>3 DEF PruneMirror, TypeOK, WorkersOK, Counts
  <2> QED BY <1>3, <2>1, TallyUndisturbed DEF PruneMirror, tally, listing
<1>4. CASE Relist \/ Scan \/ Wait \/ PruneFail \/ PruneArchive \/ Return
  BY <1>4, TallyUndisturbed DEF Relist, Scan, Wait, PruneFail, PruneArchive, Return, tally,
                                listing, workers
<1>5. ASSUME NEW r \in Repos, PruneBegin(r) PROVE TallyKept'
  BY <1>5, TallyUndisturbed DEF PruneBegin, tally, listing, workers
<1> QED BY <1>1, <1>2, <1>3, <1>4, <1>5, ListTally, SkipTally DEF MainLoop

\* Up to its tally a worker's outcome counts nowhere.
LEMMA UntalliedStep ==
  ASSUME TypeOK, TallyKept, NEW e \in Entries,
         SyncOK(e) \/ SyncHollow(e) \/ SyncFail(e) \/ Export(e) \/ ArchiveOK(e) \/ ArchiveFail(e)
  PROVE  TallyKept'
<1> USE DEF Tallied
<1>1. /\ phase[e] \in {"start", "export", "archive"}
      /\ phase'[e] \in {"export", "archive", "fold"}
      /\ \A s \in Entries \ {e} : phase'[s] = phase[s] /\ out'[s] = out[s]
      /\ UNCHANGED <<empties, count>>
  BY DEF SyncOK, SyncHollow, SyncFail, Export, ArchiveOK, ArchiveFail, TypeOK, WorkersOK, listing
<1>2. e \notin empties /\ empties \subseteq Entries
  BY <1>1 DEF TallyKept, OutcomesTold, TypeOK, ListingOK
<1>3. /\ Reported' = Reported /\ Skipped' = Skipped /\ Folded' = Folded /\ e \notin Folded
  BY <1>1, <1>2 DEF Reported, Skipped, Folded
<1>4. Synced' = Synced /\ Failed' = Failed /\ Archived' = Archived
  BY <1>1, <1>3 DEF Synced, Failed, Archived, Folded
<1>5. /\ out'[e].archived => out'[e].synced
      /\ phase'[e] \in {"export", "archive"} => out'[e].synced
      /\ out'[e].synced \/ out'[e].failed
  <2>1. /\ out[e].archived => out[e].synced
        /\ phase[e] \in {"export", "archive"} => out[e].synced
    BY DEF TallyKept, OutcomesTold
  <2>2. CASE SyncOK(e) \/ SyncHollow(e)
    BY <2>1, <2>2, CountTypes DEF SyncOK, SyncHollow, Outcomes
  <2>3. CASE SyncFail(e)
    BY <2>1, <2>3, CountTypes DEF SyncFail, Outcomes
  <2>4. CASE Export(e)
    BY <2>1, <2>4, CountTypes DEF Export, Outcomes
  <2>5. CASE ArchiveOK(e) \/ ArchiveFail(e)
    BY <2>1, <2>5, CountTypes DEF ArchiveOK, ArchiveFail, Outcomes
  <2> QED BY <2>2, <2>3, <2>4, <2>5
<1>6. OutcomesTold'
  BY <1>1, <1>2, <1>5 DEF OutcomesTold, TallyKept
<1> QED BY <1>1, <1>3, <1>4, <1>6 DEF TallyKept, CountsAreSizes

\* Two workers whose clones race leave the counters alone, and one of them has failed.
LEMMA RaceTally ==
  ASSUME TypeOK, TallyKept, NEW e \in Entries, NEW d \in Entries, CloneRace(e, d)
  PROVE  TallyKept'
<1> USE DEF Tallied
<1>1. /\ phase[e] = "start" /\ phase[d] = "start" /\ e # d
      /\ phase'[e] = "export" /\ phase'[d] = "fold"
      /\ out'[e].synced /\ out'[d].failed
      /\ out'[e].archived = out[e].archived /\ out'[d].archived = out[d].archived
      /\ out'[d].synced = out[d].synced
      /\ \A s \in Entries \ {e, d} : phase'[s] = phase[s] /\ out'[s] = out[s]
      /\ UNCHANGED <<empties, count>>
  BY CountTypes DEF CloneRace, Rivals, Outcomes, listing
<1>2. e \notin empties /\ d \notin empties /\ empties \subseteq Entries
  BY <1>1 DEF TallyKept, OutcomesTold, TypeOK, ListingOK
<1>3. /\ Reported' = Reported /\ Skipped' = Skipped /\ Folded' = Folded
      /\ e \notin Folded /\ d \notin Folded
  BY <1>1, <1>2 DEF Reported, Skipped, Folded
<1>4. Synced' = Synced /\ Failed' = Failed /\ Archived' = Archived
  BY <1>1, <1>3 DEF Synced, Failed, Archived, Folded
<1>5. OutcomesTold'
  BY <1>1, <1>2 DEF OutcomesTold, TallyKept
<1> QED BY <1>1, <1>3, <1>4, <1>5 DEF TallyKept, CountsAreSizes

\* The values of four counters after runRepo has added to them.
LEMMA TallyValues ==
  ASSUME NEW c \in Counts, NEW s \in Nat, NEW a \in Nat, NEW f \in Nat, NEW x \in Nat
  PROVE  LET d == [c EXCEPT !.synced = @ + s, !.archived = @ + a, !.failed = @ + f,
                            !.exported = @ + x]
         IN  /\ d.synced = c.synced + s /\ d.archived = c.archived + a
             /\ d.failed = c.failed + f /\ d.skipped = c.skipped /\ d.done = c.done
  BY DEF Counts

LEMMA FoldTally == ASSUME TypeOK, TallyKept, NEW e \in Entries, Fold(e) PROVE TallyKept'
<1> USE DEF Tallied
<1>1. /\ phase[e] = "fold" /\ phase' = [phase EXCEPT ![e] = "report"]
      /\ UNCHANGED <<out, empties>>
  BY DEF Fold, listing
<1>2. phase \in [Entries -> Phases] /\ empties \subseteq Entries /\ e \notin empties
  BY <1>1 DEF TypeOK, WorkersOK, ListingOK, TallyKept, OutcomesTold
<1>3. out[e].synced \in BOOLEAN /\ out[e].archived \in BOOLEAN /\ out[e].failed \in BOOLEAN
  BY DEF TypeOK, WorkersOK, Outcomes
<1>4. Reported' = Reported /\ Skipped' = Skipped /\ Folded' = Folded \cup {e} /\ e \notin Folded
  BY <1>1, <1>2 DEF Reported, Skipped, Folded
<1>5. /\ Synced' = IF out[e].synced THEN Synced \cup {e} ELSE Synced
      /\ Failed' = IF out[e].failed THEN Failed \cup {e} ELSE Failed
      /\ Archived' = IF out[e].archived THEN Archived \cup {e} ELSE Archived
  BY <1>1, <1>4 DEF Synced, Failed, Archived
<1>6. /\ Synced \in SUBSET Entries /\ Failed \in SUBSET Entries /\ Archived \in SUBSET Entries
      /\ e \notin Synced /\ e \notin Failed /\ e \notin Archived
  BY <1>4 DEF Synced, Failed, Archived, Folded
<1>7. /\ Cardinality(Synced') = Cardinality(Synced) + One(out[e].synced)
      /\ Cardinality(Failed') = Cardinality(Failed) + One(out[e].failed)
      /\ Cardinality(Archived') = Cardinality(Archived) + One(out[e].archived)
  BY <1>3, <1>5, <1>6, SizeOfMore
<1>8. /\ count'.synced = count.synced + One(out[e].synced)
      /\ count'.failed = count.failed + One(out[e].failed)
      /\ count'.archived = count.archived + One(out[e].archived)
      /\ count'.skipped = count.skipped /\ count'.done = count.done
  <2>1. One(out[e].synced) \in Nat /\ One(out[e].archived) \in Nat /\ One(out[e].failed) \in Nat
    BY DEF One
  <2>2. out[e].exported \in Nat /\ count \in Counts
    BY DEF TypeOK, WorkersOK, Outcomes
  <2> QED BY <2>1, <2>2, TallyValues DEF Fold
<1>9. OutcomesTold'
  BY <1>1, <1>2 DEF OutcomesTold, TallyKept
<1> QED BY <1>4, <1>7, <1>8, <1>9 DEF TallyKept, CountsAreSizes

LEMMA ReportTally == ASSUME TypeOK, TallyKept, NEW e \in Entries, ReportLock(e) \/ ReportCall(e)
                     PROVE  TallyKept'
<1> USE DEF Tallied
<1>1. /\ phase[e] \in {"report", "reporting"} /\ phase'[e] \in {"reporting", "done"}
      /\ \A s \in Entries \ {e} : phase'[s] = phase[s]
      /\ UNCHANGED <<out, empties>>
  BY DEF ReportLock, ReportCall, TypeOK, WorkersOK, listing
<1>2. empties \subseteq Entries
  BY DEF TypeOK, ListingOK
<1>3. /\ Skipped' = Skipped /\ Folded' = Folded /\ Synced' = Synced /\ Failed' = Failed
      /\ Archived' = Archived
  BY <1>1, <1>2 DEF Skipped, Folded, Synced, Failed, Archived
<1>4. /\ count'.done = Cardinality(Reported') /\ count'.skipped = count.skipped
      /\ count'.synced = count.synced /\ count'.failed = count.failed
      /\ count'.archived = count.archived
  <2>1. CASE ReportLock(e)
    <3>1. Reported' = Reported \cup {e} /\ e \notin Reported /\ Reported \in SUBSET Entries
      BY <1>1, <2>1 DEF Reported, ReportLock
    <3>2. Cardinality(Reported') = Cardinality(Reported) + 1
      BY <3>1, SizeOfMore DEF One
    <3> QED BY <2>1, <3>2 DEF ReportLock, TypeOK, WorkersOK, Counts, TallyKept,
                              CountsAreSizes
  <2>2. CASE ReportCall(e)
    <3>1. Reported' = Reported
      BY <1>1, <2>2 DEF Reported, ReportCall
    <3> QED BY <2>2, <3>1 DEF ReportCall, TallyKept, CountsAreSizes
  <2> QED BY <2>1, <2>2
<1>5. OutcomesTold'
  BY <1>1 DEF OutcomesTold, TallyKept
<1> QED BY <1>3, <1>4, <1>5 DEF TallyKept, CountsAreSizes

\* In every state the counters of Result are the numbers of the entries that have been
\* counted, and an outcome says no more than happened.
THEOREM TallyKeptAlways == Spec => []TallyKept
<1>1. TypeOK /\ PoolInOrder /\ TallyKept /\ [Next]_vars => TallyKept'
  <2> SUFFICES ASSUME TypeOK, PoolInOrder, TallyKept, [Next]_vars
               PROVE  TallyKept'
    OBVIOUS
  <2>1. CASE UNCHANGED vars
    BY <2>1, TallyUndisturbed DEF vars, tally, listing, workers
  <2>2. CASE Start
    BY <2>2, ResetTally DEF Start
  <2> QED BY <2>1, <2>2, EnvironmentTally, MainLoopTally, UntalliedStep, FoldTally,
          ReportTally, RaceTally DEF Next, Worker
<1> QED BY <1>1, InitTally, TypeCorrect, PoolInOrderAlways, PTL DEF Spec

-----------------------------------------------------------------------------
(* The sizes, compared. *)

LEMMA SetSizes == ASSUME TypeOK
                  PROVE  \A S \in {Reported, Skipped, Synced, Failed, Archived, listed, empties} :
                           IsFiniteSet(S) /\ Cardinality(S) \in Nat /\ S \subseteq Entries
<1>1. \A S \in {Reported, Skipped, Synced, Failed, Archived, listed, empties} : S \subseteq Entries
  BY DEF TypeOK, ListingOK, Reported, Skipped, Synced, Failed, Archived, Folded
<1> QED BY <1>1, FiniteEntries, FS_Subset, FS_CardinalityType

\* Three sets are together no smaller than one they cover.
LEMMA SizeOfCover ==
  ASSUME NEW A, NEW B, NEW C, IsFiniteSet(A), IsFiniteSet(B), IsFiniteSet(C),
         NEW S \in SUBSET (A \cup B \cup C)
  PROVE  Cardinality(S) <= Cardinality(A) + Cardinality(B) + Cardinality(C)
<1>1. /\ IsFiniteSet(A \cup B)
      /\ Cardinality(A \cup B) = Cardinality(A) + Cardinality(B) - Cardinality(A \cap B)
  BY FS_Union
<1>2. /\ IsFiniteSet(A \cup B \cup C)
      /\ Cardinality(A \cup B \cup C)
           = Cardinality(A \cup B) + Cardinality(C) - Cardinality((A \cup B) \cap C)
  BY <1>1, FS_Union
<1>3. /\ Cardinality(A \cap B) \in Nat /\ Cardinality((A \cup B) \cap C) \in Nat
      /\ Cardinality(A) \in Nat /\ Cardinality(B) \in Nat /\ Cardinality(C) \in Nat
      /\ Cardinality(S) \in Nat
  BY <1>1, <1>2, FS_Intersection, FS_Subset, FS_CardinalityType
<1>4. Cardinality(S) <= Cardinality(A \cup B \cup C)
  BY <1>2, FS_Subset
<1> QED BY <1>1, <1>2, <1>3, <1>4

\* Whatever Progress was told is done has been skipped, synced or has failed.
LEMMA ReportedCovered ==
  ASSUME TypeOK, TallyKept
  PROVE  count.done <= count.skipped + count.synced + count.failed
<1>1. Reported \in SUBSET (Skipped \cup Synced \cup Failed)
  BY DEF Reported, Skipped, Synced, Failed, Folded, Tallied, TallyKept, OutcomesTold
<1> QED BY <1>1, SetSizes, SizeOfCover DEF TallyKept, CountsAreSizes

\* The Result of a run accounts for every listed repository, for any forge and pool.
THEOREM EveryRepoCounted == Spec => []ResultAccountsForAll
<1>1. TypeOK /\ PoolInOrder /\ ResultKept /\ TallyKept => ResultAccountsForAll
  <2> SUFFICES ASSUME TypeOK, PoolInOrder, ResultKept, TallyKept, pc = "done"
               PROVE  /\ count.skipped = Cardinality(empties)
                      /\ count.synced + count.skipped <= Cardinality(listed)
                      /\ count.synced + count.skipped + count.failed >= Cardinality(listed)
                      /\ count.archived <= count.synced
    BY DEF ResultAccountsForAll
  <2> USE DEF TallyKept, CountsAreSizes
  <2>1. /\ empties \subseteq listed /\ listed \subseteq Entries
        /\ \A e \in listed : phase[e] = "done"
        /\ \A e \in Entries : phase[e] # "none" => e \in listed
    BY DEF TypeOK, ListingOK, ResultKept, AllDone, PoolInOrder, WorkersListed
  <2>2. Skipped = empties
    BY <2>1 DEF Skipped
  <2>3. Synced \cup Skipped \in SUBSET listed /\ Synced \cap Skipped = {}
    BY <2>1, <2>2 DEF Synced, Folded, Tallied
  <2>4. Cardinality(Synced \cup Skipped) = Cardinality(Synced) + Cardinality(Skipped)
    <3>1. Cardinality(Synced \cup Skipped)
            = Cardinality(Synced) + Cardinality(Skipped) - Cardinality({})
      BY <2>3, SetSizes, FS_Union
    <3> QED BY <3>1, FS_EmptySet, SetSizes
  <2>5. Cardinality(Synced \cup Skipped) <= Cardinality(listed)
    BY <2>3, SetSizes, FS_Subset
  <2>6. listed \in SUBSET (Synced \cup Skipped \cup Failed)
    BY <2>1, <2>2 DEF Synced, Failed, Folded, Tallied, OutcomesTold
  <2>7. Cardinality(Archived) <= Cardinality(Synced)
    <3>1. Archived \in SUBSET Synced
      BY DEF Archived, Synced, Folded, OutcomesTold
    <3> QED BY <3>1, SetSizes, FS_Subset
  <2>8. Cardinality(listed) <= Cardinality(Synced) + Cardinality(Skipped) + Cardinality(Failed)
    BY <2>6, SetSizes, SizeOfCover
  <2>9. Cardinality(listed) \in Nat /\ Cardinality(Synced) \in Nat
        /\ Cardinality(Skipped) \in Nat /\ Cardinality(Failed) \in Nat
    BY SetSizes
  <2> QED BY <2>2, <2>4, <2>5, <2>7, <2>8, <2>9
<1> QED BY <1>1, TypeCorrect, PoolInOrderAlways, ResultKeptAlways, TallyKeptAlways, PTL

\* The counters are ahead of what Progress was told, and when Run prunes and returns it
\* was told that everything is done.
THEOREM ProgressIsCovered == Spec => []ProgressCovered
<1>1. TypeOK /\ PoolInOrder /\ ResultKept /\ TallyKept => ProgressCovered
  <2> SUFFICES ASSUME TypeOK, PoolInOrder, ResultKept, TallyKept PROVE ProgressCovered
    OBVIOUS
  <2>1. last \in Nat /\ count \in Counts
    BY DEF TypeOK, WorkersOK
  <2>2. last <= count.done
    BY <2>1 DEF PoolInOrder, ReportsInTurn, Counts
  <2>3. last <= count.skipped + count.synced + count.failed
    BY <2>1, <2>2, ReportedCovered DEF Counts
  <2>4. ASSUME pc \in {"prune", "unarchive", "done"} PROVE last = Cardinality(listed)
    <3>1. holder = NoRepo
      BY <2>4 DEF TypeOK, WorkersOK, PoolInOrder, ReportsInTurn, WorkersListed, Busy
    <3>2. Reported = listed
      BY <2>4 DEF Reported, TypeOK, ListingOK, ResultKept, AllDone, PoolInOrder,
                  WorkersListed
    <3> QED BY <3>1, <3>2 DEF PoolInOrder, ReportsInTurn, TallyKept, CountsAreSizes
  <2> QED BY <2>3, <2>4 DEF ProgressCovered
<1> QED BY <1>1, TypeCorrect, PoolInOrderAlways, ResultKeptAlways, TallyKeptAlways, PTL
==============================================================================
