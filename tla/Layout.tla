-------------------------------- MODULE Layout --------------------------------
(***************************************************************************)
(* Where a repository's mirror, archive and metadata lie in the backup     *)
(* tree, and which repositories a tree reads as (internal/backup/run.go,   *)
(* internal/backup/metadata.go).                                           *)
(*                                                                         *)
(* A name is the sequence of its parts between the dots, <<"repo", "git">> *)
(* for repo.git, with "tar.gz" as one part; a path is a sequence of names; *)
(* a tree is a set of nodes [at, dir, of]: the files, and the directories  *)
(* that are mirrors. The directories above a node are there as well. "of"  *)
(* says what a node is a copy of, which the program cannot see.            *)
(***************************************************************************)
EXTENDS Naturals, Sequences, SequencesExt

Named(path, ext) == Front(path) \o <<Append(Last(path), ext)>>

mirrorPath(dest, path) == dest \o Named(path, "git")
archivePath(archiveDir, path) == archiveDir \o Named(path, "tar.gz")
metadataDir(dest, path) == dest \o Named(path, "metadata")

\* an asset of a release, in the directory of the release's tag
AssetPath(dest, path, tag, asset) ==
  metadataDir(dest, path) \o <<<<"releases">>, tag, <<"assets">>, asset>>

-----------------------------------------------------------------------------
(* Reading a tree. *)

\* everything WalkDir comes by: the nodes, and the directories above them
Entries(tree) ==
  {[at |-> n.at, dir |-> n.dir] : n \in tree}
    \cup UNION {{[at |-> SubSeq(n.at, 1, k), dir |-> TRUE] : k \in 1..Len(n.at) - 1} : n \in tree}

HasSuffix(name, ext) == Len(name) > 1 /\ Last(name) = ext
TrimSuffix(path) == Front(path) \o <<Front(Last(path))>>
Below(root, at) == IsStrictPrefix(root, at)

\* the repository paths that the entries below root with this suffix stand for
onDiskPaths(tree, root, ext, dir) ==
  LET matches == {e \in Entries(tree) : e.dir = dir /\ Below(root, e.at) /\ HasSuffix(Last(e.at), ext)}
      skipped(e) == \E d \in matches : d.dir /\ Below(d.at, e.at)
  IN  {TrimSuffix(SubSeq(e.at, Len(root) + 1, Len(e.at))) : e \in {m \in matches : ~skipped(m)}}

\* the paths with a mirror or an archive that the forge no longer reports
staleMirrors(tree, dest, archiveDir, wanted) ==
  (onDiskPaths(tree, dest, "git", TRUE) \cup onDiskPaths(tree, archiveDir, "tar.gz", FALSE)) \ wanted

\* what is written takes the place of what was there
Put(tree, nodes) == {n \in tree : \A m \in nodes : m.at # n.at} \cup nodes
=============================================================================
