----------------------------- MODULE MCBackupRun -----------------------------
(* Instances of BackupRun for TLC. *)
EXTENDS BackupRun, TLC

\* Every option that changes what a run does, in as few combinations as meet them all.
MCOptions == {[state |-> "all", archive |-> "archived", prune |-> TRUE, kinds |-> 1],
              [state |-> "active", archive |-> "all", prune |-> TRUE, kinds |-> 0],
              [state |-> "archived", archive |-> "active", prune |-> FALSE, kinds |-> 0]}
OneOption == {[state |-> "all", archive |-> "archived", prune |-> TRUE, kinds |-> 0]}

\* For the safety run: the forge can still move on from what the tree has, and archives that
\* were packed from pieces are left to the runs themselves.
HistoryInit == Init /\ hollow = {} /\ \A r \in Repos : forge[r].ver < MaxVer
HistorySpec == HistoryInit /\ [][Next]_vars

\* Two workers are enough to meet each other: two paths once, or one path twice.
FewEntries == Cardinality(listed) <= 2

\* For the liveness run: a new repository, and a path that is gone from the forge with a
\* mirror and an archive in the tree.  What other trees hold comes up in later runs.
New == CHOOSE r \in Repos : TRUE
LiveInit == /\ Init
            /\ \A r \in Repos : /\ forge[r] = [here |-> r = New, archived |-> FALSE, ver |-> 1]
                                /\ mirror[r] = IF r = New THEN 0 ELSE 1
                                /\ archive[r] = mirror[r]
            /\ debris = {} /\ hollow = {}
LiveSpec == LiveInit /\ [][Next]_vars /\ Fairness /\ Recurring

Symmetric == Permutations(Repos)
=============================================================================
