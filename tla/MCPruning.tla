------------------------------ MODULE MCPruning -------------------------------
(* Instances of Pruning for TLC. *)
EXTENDS Pruning, TLC

Symmetric == Permutations(Paths \ (Mirrors \cup Wikis))
=============================================================================
