------------------------------ MODULE MCCommand -------------------------------
(* Instances of Command for TLC. *)
EXTENDS Command, TLC

MCWords == {"f1", "f2", "g", "repo", "other", "v1", "src"}
MCNames == <<<<<<"f1">>>>, <<<<"f2">>>>>>
repo == <<<<"g">>, <<"repo">>>>
other == <<<<"g">>, <<"other">>>>
MCHosted == <<{repo, other}, {repo}>>
MCTokens == <<{"command", "env"}, {"env"}>>
MCTag == <<"v1">>
MCAsset == <<"src", "tar.gz">>

\* Every option that changes what a command does, in as few combinations as meet them all.
Run == [cmd |-> "run", only |-> {}, state |-> "all", archive |-> "none", beside |-> FALSE,
        releases |-> FALSE, prune |-> "yes", env |-> "unset", dry |-> FALSE, force |-> FALSE]
Beside == [Run EXCEPT !.archive = "all", !.beside = TRUE, !.releases = TRUE]
Active == [Run EXCEPT !.state = "active", !.archive = "archived", !.prune = "unset", !.env = "yes"]
Denied == [Run EXCEPT !.only = {2}, !.state = "archived", !.archive = "archived", !.prune = "no", !.env = "yes"]
Dry(c) == [c EXCEPT !.dry = TRUE]
ListCall == [Run EXCEPT !.cmd = "list", !.prune = "unset"]
InitCall == [ListCall EXCEPT !.cmd = "init"]
MCCalls == {Beside, Active, Denied, Dry(Active), Dry(Beside), ListCall, InitCall,
            [InitCall EXCEPT !.force = TRUE]}
PruneCalls == {Beside}

\* The first forge has a second repository, which its pages may miss; the others begin as a
\* few of the pairs there are.
MCInit == /\ Init
          /\ forge[1][other] = "active"
          /\ <<forge[1][repo], forge[2][repo]>> \in
               {<<"archived", "empty">>, <<"empty", "active">>, <<"gone", "archived">>}
MCSpec == MCInit /\ [][Next]_vars
=============================================================================
