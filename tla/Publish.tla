------------------------------- MODULE Publish --------------------------------
(***************************************************************************)
(* What Archive promises of the file it writes (archive.go:15-17), seen by *)
(* a reader at any moment: the file is missing, or it is a whole copy of   *)
(* the content that was current at some moment since the file before it,   *)
(* replaced in one step.  A crash is not a step of its own: it never shows. *)
(***************************************************************************)
CONSTANTS Contents, \* what there may be to publish
          None      \* nothing published

VARIABLES content,   \* what a publication would copy now
          published  \* the reader's view

vars == <<content, published>>

Init == content \in Contents /\ published = None

\* the content moves on
Change == content' \in Contents /\ UNCHANGED published

\* one step replaces whatever is published
Replace == published' = content /\ UNCHANGED content

Next == Change \/ Replace

Spec == Init /\ [][Next]_vars
=============================================================================
