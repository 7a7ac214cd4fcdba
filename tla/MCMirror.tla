------------------------------- MODULE MCMirror -------------------------------
(* Instances of Mirror for TLC. *)
EXTENDS Mirror, TLC

MCLfsVersions == {1}
=============================================================================
