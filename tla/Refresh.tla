------------------------------- MODULE Refresh --------------------------------
(***************************************************************************)
(* What Sync promises of a mirror (mirror.go:34-39, 57-59), seen by        *)
(* somebody who opens it at any moment, one call after another: there is   *)
(* no mirror, or there is one, which appears whole; refs move to what the  *)
(* remote had at one moment of the call, which is over when all are there; *)
(* a call that breaks off leaves each ref at one of the two.               *)
(***************************************************************************)
CONSTANTS Refs, Versions

VARIABLES source, \* [Refs -> version on the remote]
          copy,   \* the mirror's refs, when there is a mirror
          call,   \* a call is under way, or how the last one ended
          taken   \* what the call has read of the remote, when it has

vars == <<source, copy, call, taken>>

Init == source \in [Refs -> Versions] /\ copy = {} /\ call = "idle" /\ taken = {}

Change == source' \in [Refs -> Versions] /\ UNCHANGED <<copy, call, taken>>

Begin == call # "running" /\ call' = "running" /\ taken' = {} /\ UNCHANGED <<source, copy>>

Take == call = "running" /\ taken = {} /\ taken' = {source} /\ UNCHANGED <<source, copy, call>>

\* the first copy
Appear == /\ call = "running" /\ copy = {} /\ taken # {}
          /\ copy' = taken /\ UNCHANGED <<source, call, taken>>

\* one ref of a copy there was
Move == /\ call = "running"
        /\ \E f \in Refs, c \in copy, t \in taken : copy' = {[c EXCEPT ![f] = t[f]]}
        /\ UNCHANGED <<source, call, taken>>

Succeed == /\ call = "running" /\ taken # {} /\ copy = taken
           /\ call' = "ok" /\ taken' = {} /\ UNCHANGED <<source, copy>>

Break == call = "running" /\ call' = "idle" /\ taken' = {} /\ UNCHANGED <<source, copy>>

Next == Change \/ Begin \/ Take \/ Appear \/ Move \/ Succeed \/ Break

Spec == Init /\ [][Next]_vars
=============================================================================
