------------------------------- MODULE MCExport -------------------------------
(* Instances of Export for TLC. *)
EXTENDS Export, TLC

\* Lists in one order each, save where it matters which of two items is the pull request;
\* comments and assets in one order.
MCInit == /\ Init
          /\ (\E i \in Items : Skips(i)) \/ list = SetToSeq(There)
          /\ \A i \in Items : parts[i] = SetToSeq(ToSet(parts[i]))
MCSpec == MCInit /\ [][Next]_vars /\ WF_vars(Step)

\* One exporter of one client, for the run that looks for a counterexample.
OneInit == Init /\ forge = "forgejo" /\ kind = "releases"
OneSpec == OneInit /\ [][Next]_vars
=============================================================================
