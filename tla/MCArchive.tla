------------------------------ MODULE MCArchive -------------------------------
(* Instances of Archive for TLC. *)
EXTENDS Archive, TLC

Symmetric == Permutations(Objects) \cup Permutations(Packs)
=============================================================================
