------------------------------- MODULE Archive --------------------------------
(***************************************************************************)
(* Archive of internal/backup/archive.go: it walks a mirror's directory,   *)
(* writes the files it found to out.tmp one by one, and renames that over  *)
(* out.  Meanwhile the maintenance that git remote update starts in the    *)
(* background may repack the mirror: a file the walk found is gone when    *)
(* its turn comes, or one has appeared that the walk did not see.  The     *)
(* process may die at any step, and the next Archive finds its files.      *)
(*                                                                         *)
(* The mirror is a set of files, each holding git objects: a loose file    *)
(* holds one, a pack any number.                                           *)
(***************************************************************************)
EXTENDS Naturals, FiniteSets

CONSTANTS Objects,   \* git objects
          Packs,     \* names of pack files
          None,      \* stands for "no file"
          MaxEvents  \* bound: pushes, repacks and crashes together

\* a tarball: what it holds, and whether both writers' trailers are written
Tarballs == [holds : SUBSET Objects, closed : BOOLEAN]
EmptyFile == [holds |-> {}, closed |-> FALSE]

ASSUME ArchiveAssumption == /\ \A t \in Tarballs : t # None
                            /\ \A S \in SUBSET Objects : S # None
                            /\ MaxEvents \in Nat

VARIABLES
  loose,   \* objects in loose files (objects/xx/...)
  packs,   \* [Packs -> the objects in the pack, {} for no such file] (objects/pack/...)
  budget,  \* events left
  out,     \* the archive: None or a tarball
  tmp,     \* out + ".tmp"
  pc,      \* where Archive is
  todo     \* files the walk found that are not written yet

vars == <<loose, packs, budget, out, tmp, pc, todo>>
mirror == <<loose, packs>>

Files == [loose : Objects] \cup [pack : Packs]
InMirror == loose \cup UNION {packs[p] : p \in Packs}

LooseFiles == [loose : loose]
PackFiles == {f \in [pack : Packs] : packs[f.pack] # {}}
Exists(f) == f \in LooseFiles \cup PackFiles
Holds(f) == IF f \in [loose : Objects] THEN {f.loose} ELSE packs[f.pack]

Init == /\ loose \in SUBSET Objects /\ loose # {}
        /\ packs = [p \in Packs |-> {}]
        /\ budget = MaxEvents
        /\ out = None /\ tmp = None
        /\ pc = "idle" /\ todo = {}

-----------------------------------------------------------------------------
(* The environment.  Every event but Delete is bounded by MaxEvents. *)

Event == budget > 0 /\ budget' = budget - 1

\* a Sync brings new objects; the worker that archives is the one that syncs, so not
\* while Archive is at work
Fetch == /\ Event /\ pc = "idle"
         /\ \E o \in Objects \ InMirror : loose' = loose \cup {o}
         /\ UNCHANGED <<packs, out, tmp, pc, todo>>

\* background maintenance writes a pack of everything
Repack == /\ Event
          /\ \E p \in Packs : /\ packs[p] = {}
                              /\ packs' = [packs EXCEPT ![p] = InMirror]
          /\ UNCHANGED <<loose, out, tmp, pc, todo>>

\* and removes a file once a pack holds what is in it
Delete(f) == /\ Exists(f)
             /\ \E p \in Packs : f # [pack |-> p] /\ Holds(f) \subseteq packs[p]
             /\ IF f \in LooseFiles
                THEN loose' = loose \ {f.loose} /\ UNCHANGED packs
                ELSE packs' = [packs EXCEPT ![f.pack] = {}] /\ UNCHANGED loose
             /\ UNCHANGED <<budget, out, tmp, pc, todo>>

\* the process dies; the files stay
Crash == /\ Event /\ pc # "idle"
         /\ pc' = "idle" /\ todo' = {}
         /\ UNCHANGED <<mirror, out, tmp>>

-----------------------------------------------------------------------------
(* Archive. *)

\* sortedPaths comes to objects/xx, which sort before objects/pack
WalkLoose == /\ pc = "idle"
             /\ todo' = LooseFiles
             /\ pc' = "walk"
             /\ UNCHANGED <<mirror, budget, out, tmp>>

\* sortedPaths comes to objects/pack
WalkPacks == /\ pc = "walk"
             /\ todo' = todo \cup PackFiles
             /\ pc' = "create"
             /\ UNCHANGED <<mirror, budget, out, tmp>>

\* os.Create truncates what an earlier Archive left
Create == /\ pc = "create"
          /\ tmp' = EmptyFile
          /\ pc' = "write"
          /\ UNCHANGED <<mirror, budget, out, todo>>

\* Faulty: a file that is gone is skipped.
Write_SkipsGone(f) == /\ pc = "write" /\ f \in todo
                      /\ tmp' = [tmp EXCEPT !.holds = @ \cup IF Exists(f) THEN Holds(f) ELSE {}]
                      /\ todo' = todo \ {f}
                      /\ UNCHANGED <<mirror, budget, out, pc>>

\* writeEntry copies a file the walk found, in the order of the paths
Write(f) == /\ pc = "write" /\ f \in todo
            /\ f \in [pack : Packs] => todo \subseteq [pack : Packs]
            /\ Exists(f)
            /\ tmp' = [tmp EXCEPT !.holds = @ \cup Holds(f)]
            /\ todo' = todo \ {f}
            /\ UNCHANGED <<mirror, budget, out, pc>>

\* Faulty: the writers are not closed before the rename.
Close_Deferred == /\ pc = "write" /\ todo = {}
                  /\ pc' = "rename"
                  /\ UNCHANGED <<mirror, budget, out, tmp, todo>>

\* the tar writer, the gzip writer and the file are closed
Close == /\ pc = "write" /\ todo = {}
         /\ tmp' = [tmp EXCEPT !.closed = TRUE]
         /\ pc' = "rename"
         /\ UNCHANGED <<mirror, budget, out, todo>>

\* os.Rename(tmp, out)
Rename == /\ pc = "rename"
          /\ out' = tmp /\ tmp' = None
          /\ pc' = "idle"
          /\ UNCHANGED <<mirror, budget, todo>>

\* a step fails, writeEntry on a file that is gone included: before the rename Archive
\* removes out.tmp, whoever wrote it, and the removal may fail; a failing rename leaves it
Fail == /\ pc # "idle"
        /\ tmp' \in IF pc = "rename" THEN {tmp} ELSE {tmp, None}
        /\ pc' = "idle" /\ todo' = {}
        /\ UNCHANGED <<mirror, budget, out>>

-----------------------------------------------------------------------------
Step == WalkLoose \/ WalkPacks \/ Create \/ (\E f \in todo : Write(f)) \/ Close \/ Rename

Next == Fetch \/ Repack \/ (\E f \in LooseFiles \cup PackFiles : Delete(f)) \/ Crash
        \/ Step \/ Fail

Spec == Init /\ [][Next]_vars

-----------------------------------------------------------------------------
\* Every variable stays in its range, the files to write are paths of the mirror, and
\* what is about to be renamed over out is closed.
TypeOK == /\ loose \subseteq Objects /\ packs \in [Packs -> SUBSET Objects]
          /\ budget \in 0..MaxEvents
          /\ out \in Tarballs \cup {None} /\ tmp \in Tarballs \cup {None}
          /\ pc \in {"idle", "walk", "create", "write", "rename"}
          /\ todo \subseteq Files
          /\ pc = "write" => tmp # None
          /\ pc = "rename" => tmp # None /\ tmp.closed

\* Why the archive is whole although the mirror is repacked under the walk
\* (archive.go:49-117): as long as no file the walk found is gone, everything in the
\* mirror is in the tarball or in a file still to be written, and nothing else is.
Gone == \E f \in todo : ~Exists(f)
Pending == UNION {Holds(f) : f \in todo}
Covered == /\ pc = "walk" => LooseFiles \subseteq todo
           /\ pc = "create" => Gone \/ InMirror \subseteq Pending
           /\ pc = "write" => /\ Gone \/ InMirror \subseteq tmp.holds \cup Pending
                              /\ tmp.holds \subseteq InMirror
           /\ pc = "rename" => tmp.holds = InMirror
           /\ out # None => out.closed

\* "a crash mid-write never leaves a truncated archive where a good one was", and an
\* archive made while background maintenance repacks the mirror holds every object.
Promise == INSTANCE Publish WITH
             Contents <- SUBSET Objects,
             content <- InMirror,
             published <- IF out = None THEN None ELSE IF out.closed THEN out.holds ELSE {}
ImplementsPublish == Promise!Spec
=============================================================================
