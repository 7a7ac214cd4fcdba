-------------------------------- MODULE Export --------------------------------
(***************************************************************************)
(* The MetadataExporters of the three clients (issue.go, pull_request.go   *)
(* and release.go of internal/forgejo, internal/gitlab, internal/github),  *)
(* with the files internal/backup/metadata.go writes for them: page after  *)
(* page of items, for each item its comments, again page after page, or    *)
(* its assets, and then the item's file.  All of it is written in place,   *)
(* and an export works on the files that earlier ones left.                *)
(*                                                                         *)
(* An item is an issue, a pull request or a release.  Its parts are the    *)
(* comments (reviews on Forgejo, discussions on GitLab) or the assets.     *)
(* Everything else in it is a version number that grows with every edit.   *)
(***************************************************************************)
EXTENDS Naturals, FiniteSets, Sequences, SequencesExt

CONSTANTS Items,      \* numbers of issues and pull requests, or tags of releases
          PRs,        \* items that are pull requests, where issues are asked for
          Parts,      \* comments or assets
          System,     \* comments GitLab wrote itself
          PageSize,   \* entries per page
          MaxVer,     \* bound: versions of an item
          MaxEvents   \* bound: changes of the forge, missing permissions and crashes

ASSUME ExportAssumption == /\ IsFiniteSet(Items) /\ IsFiniteSet(Parts)
                           /\ PRs \subseteq Items /\ System \subseteq Parts
                           /\ PageSize \in Nat \ {0}
                           /\ MaxVer \in Nat /\ MaxEvents \in Nat

Forges == {"forgejo", "gitlab", "github"}
Kinds == {"issues", "pull-requests", "releases"}

VARIABLES
  forge,   \* which client
  kind,    \* which of its exporters
  place,   \* [Items -> where its file lies]
  list,    \* the repository's items, in the order the server lists them
  ver,     \* [Items -> version of the item]
  parts,   \* [Items -> its parts, in the order the server lists them]
  budget,  \* events left
  files,   \* [Items -> the JSON file in this place]
  assets,  \* [Items -> [Parts -> what is at the asset's path in this place]]
  pc,      \* where Export is
  page,    \* the page of items it is at
  queue,   \* items of that page it is not through with, as they were when it was fetched
  more,    \* that page was not the last
  sub,     \* the page of comments, or the asset, it is at
  got,     \* the parts it has got of the item it is at
  there,   \* history: items on the forge throughout the export
  steady,  \* history: [Items -> parts the item had throughout]
  base,    \* history: [Items -> version at the beginning]
  shrunk,  \* history: an item has left the list
  short,   \* history: items that have lost a part
  barred   \* history: an answer was 403

server == <<forge, kind, place, list, ver, parts, budget>>
disk == <<files, assets>>
loop == <<page, queue, more>>
history == <<there, steady, base, shrunk, short, barred>>
vars == <<server, disk, pc, loop, sub, got, history>>

\* A JSON file: missing, truncated, or whole with what it says of the item.
NoFile == [state |-> "none", of |-> {}, ver |-> 0, parts |-> {}]
Truncated == [NoFile EXCEPT !.state = "part"]
Whole(i, v, P) == [state |-> "whole", of |-> {i}, ver |-> v, parts |-> P]

\* GitHub lists pull requests among the issues; the others are asked for issues only
Lists == IF kind # "issues" \/ forge = "github" THEN Items ELSE Items \ PRs
Skips(i) == kind = "issues" /\ forge = "github" /\ i \in PRs

There == ToSet(list)
Active == {"page", "item", "parts", "write"}

\* releaseDir: sanitizeName may turn the tags of two releases into one name; an issue or a
\* pull request has its number
Places == {[i \in Items |-> i]}
            \cup IF kind = "releases" THEN {[i \in Items |-> j] : j \in Items} ELSE {}

\* A fresh directory, and any repository.
Init == /\ forge \in Forges /\ kind \in Kinds /\ place \in Places
        /\ \E S \in SUBSET Lists : list \in SetToSeqs(S)
        /\ ver = [i \in Items |-> 0]
        /\ parts \in [Items -> UNION {SetToSeqs(P) : P \in SUBSET Parts}]
        /\ \A i \in Items \ There : parts[i] = <<>>
        /\ budget = MaxEvents
        /\ files = [i \in Items |-> NoFile]
        /\ assets = [i \in Items |-> [p \in Parts |-> "none"]]
        /\ pc = "idle" /\ page = 1 /\ queue = <<>> /\ more = FALSE /\ sub = 1 /\ got = {}
        /\ there = {} /\ steady = [i \in Items |-> {}] /\ base = [i \in Items |-> 0]
        /\ shrunk = FALSE /\ short = {} /\ barred = FALSE

\* a step after which the history tells nothing
Forget == /\ there' = {} /\ steady' = [i \in Items |-> {}] /\ base' = [i \in Items |-> 0]
          /\ shrunk' = FALSE /\ short' = {} /\ barred' = FALSE

-----------------------------------------------------------------------------
(* The forge changes. *)

Event == budget > 0 /\ budget' = budget - 1

Create(i) == /\ Event /\ i \in Lists \ There
             /\ \E n \in 1..Len(list) + 1 : list' = InsertAt(list, n, i)
             /\ UNCHANGED <<forge, kind, place, ver, parts, disk, pc, loop, sub, got, history>>

Edit(i) == /\ Event /\ i \in There /\ ver[i] < MaxVer
           /\ ver' = [ver EXCEPT ![i] = @ + 1]
           /\ UNCHANGED <<forge, kind, place, list, parts, disk, pc, loop, sub, got, history>>

Delete(i) == /\ Event
             /\ \E n \in DOMAIN list : list[n] = i /\ list' = RemoveAt(list, n)
             /\ parts' = [parts EXCEPT ![i] = <<>>]
             /\ there' = there \ {i} /\ shrunk' = (shrunk \/ pc \in Active)
             /\ UNCHANGED <<forge, kind, place, ver, disk, pc, loop, sub, got, steady, base,
                            short, barred>>

AddPart(i, p) == /\ Event /\ i \in There /\ p \notin ToSet(parts[i])
                 /\ parts' = [parts EXCEPT ![i] = Append(@, p)]
                 /\ UNCHANGED <<forge, kind, place, list, ver, disk, pc, loop, sub, got, history>>

RemovePart(i, p) == /\ Event
                    /\ \E n \in DOMAIN parts[i] :
                         parts[i][n] = p /\ parts' = [parts EXCEPT ![i] = RemoveAt(@, n)]
                    /\ steady' = [steady EXCEPT ![i] = @ \ {p}]
                    /\ short' = IF pc \in Active THEN short \cup {i} ELSE short
                    /\ UNCHANGED <<forge, kind, place, list, ver, disk, pc, loop, sub, got, there,
                                   base, shrunk, barred>>

-----------------------------------------------------------------------------
(* Pages: of the list, and of an item's comments. *)

Smaller(m, n) == IF m < n THEN m ELSE n
PageOf(s, n) == SubSeq(s, (n - 1) * PageSize + 1, Smaller(n * PageSize, Len(s)))

\* x-next-page on GitLab, a short page on the others
LastPage(s, n) == IF forge = "gitlab" THEN Len(s) <= n * PageSize
                  ELSE Len(PageOf(s, n)) < PageSize

Keeps(p) == ~(forge = "gitlab" /\ kind # "releases" /\ p \in System)

-----------------------------------------------------------------------------
(* Export. *)

\* a step after which Export's own variables are gone
Leave == page' = 1 /\ queue' = <<>> /\ more' = FALSE /\ sub' = 1 /\ got' = {}

Begin == /\ pc \notin Active
         /\ pc' = "page" /\ Leave
         /\ there' = There /\ steady' = [i \in Items |-> ToSet(parts[i])] /\ base' = ver
         /\ shrunk' = FALSE /\ short' = {} /\ barred' = FALSE
         /\ UNCHANGED <<server, disk>>

\* a page of items arrives
FetchPage == /\ pc = "page"
             /\ LET new == PageOf(list, page)
                    Seen(i) == [item |-> i, ver |-> ver[i], parts |-> parts[i]]
                IN  queue' = [n \in DOMAIN new |-> Seen(new[n])]
             /\ more' = ~LastPage(list, page)
             /\ pc' = "item"
             /\ UNCHANGED <<server, disk, page, sub, got, history>>

\* the page is through: the next one, or Export returns
NextPage == /\ pc = "item" /\ queue = <<>> /\ more
            /\ pc' = "page" /\ page' = page + 1
            /\ UNCHANGED <<server, disk, queue, more, sub, got, history>>
Return == /\ pc = "item" /\ queue = <<>> /\ ~more
          /\ pc' = "ok" /\ Leave
          /\ UNCHANGED <<server, disk, history>>

It == Head(queue)

\* exportIssue of GitHub passes over a pull request
Skip == /\ pc = "item" /\ queue # <<>> /\ Skips(It.item)
        /\ queue' = Tail(queue)
        /\ UNCHANGED <<server, disk, pc, page, more, sub, got, history>>

\* Faulty: what was got of the item before is kept.
Open_KeepsGot == /\ pc = "item" /\ queue # <<>> /\ ~Skips(It.item)
                 /\ sub' = 1
                 /\ pc' = "parts"
                 /\ UNCHANGED <<server, disk, loop, got, history>>

Open == /\ pc = "item" /\ queue # <<>> /\ ~Skips(It.item)
        /\ sub' = 1 /\ got' = {}
        /\ pc' = "parts"
        /\ UNCHANGED <<server, disk, loop, history>>

\* Faulty: the last page is judged after the system notes are gone.
Comments_LastKept ==
  /\ pc = "parts" /\ kind # "releases" /\ It.item \in There
  /\ LET new == {p \in ToSet(PageOf(parts[It.item], sub)) : Keeps(p)}
     IN  /\ got' = got \cup new
         /\ IF Cardinality(new) < PageSize
            THEN pc' = "write" /\ UNCHANGED sub
            ELSE sub' = sub + 1 /\ UNCHANGED pc
  /\ UNCHANGED <<server, disk, loop, history>>

\* Faulty: the same page is asked for again.
Comments_SamePage ==
  /\ pc = "parts" /\ kind # "releases" /\ It.item \in There
  /\ got' = got \cup {p \in ToSet(PageOf(parts[It.item], sub)) : Keeps(p)}
  /\ pc' = IF LastPage(parts[It.item], sub) THEN "write" ELSE "parts"
  /\ UNCHANGED <<server, disk, loop, sub, history>>

\* a page of comments arrives
Comments ==
  /\ pc = "parts" /\ kind # "releases" /\ It.item \in There
  /\ got' = got \cup {p \in ToSet(PageOf(parts[It.item], sub)) : Keeps(p)}
  /\ IF LastPage(parts[It.item], sub)
     THEN pc' = "write" /\ UNCHANGED sub
     ELSE sub' = sub + 1 /\ UNCHANGED pc
  /\ UNCHANGED <<server, disk, loop, history>>

\* WriteReleaseAsset of the next asset of the release, as the page had it
Download ==
  /\ pc = "parts" /\ kind = "releases" /\ sub <= Len(It.parts)
  /\ LET p == It.parts[sub]
     IN  /\ p \in ToSet(parts[It.item])
         /\ assets' = [assets EXCEPT ![place[It.item]][p] = "whole"]
         /\ got' = got \cup {p}
  /\ sub' = sub + 1
  /\ UNCHANGED <<server, files, pc, loop, history>>
Downloaded ==
  /\ pc = "parts" /\ kind = "releases" /\ sub > Len(It.parts)
  /\ pc' = "write"
  /\ UNCHANGED <<server, disk, loop, sub, got, history>>

\* WriteIssue, WritePullRequest, WriteRelease
Write == /\ pc = "write"
         /\ files' = [files EXCEPT ![place[It.item]] = Whole(It.item, It.ver, got)]
         /\ queue' = Tail(queue)
         /\ pc' = "item"
         /\ UNCHANGED <<server, assets, page, more, sub, got, history>>

\* getOptional: a 403 from GitLab is an empty answer without a next page
Forbidden ==
  /\ Event /\ forge = "gitlab" /\ barred' = TRUE
  /\ \/ /\ pc = "page"
        /\ queue' = <<>> /\ more' = FALSE /\ pc' = "item"
     \/ /\ pc = "parts" /\ kind # "releases"
        /\ pc' = "write" /\ UNCHANGED <<queue, more>>
  /\ UNCHANGED <<forge, kind, place, list, ver, parts, disk, page, sub, got, there, steady,
                 base, shrunk, short>>

\* What a step that stops leaves: a JSON file is truncated first and then written; an asset
\* that was being downloaded is removed, or left in part when the removal or the closing is
\* what failed.
Downloading == pc = "parts" /\ kind = "releases" /\ sub <= Len(It.parts)
FilesLeft == {files} \cup IF pc = "write" THEN {[files EXCEPT ![place[It.item]] = Truncated]} ELSE {}
AssetsLeft(left) ==
  {assets} \cup IF Downloading
                THEN {[assets EXCEPT ![place[It.item]][It.parts[sub]] = s] : s \in left} ELSE {}

\* a request or a write is under way
Fallible == \/ pc \in {"page", "write"}
            \/ pc = "parts" /\ (kind # "releases" \/ Downloading)

\* Faulty: a download that fails leaves a file that is not whole, which counts.
Fail_Goes_On == /\ Fallible
                /\ files' \in FilesLeft /\ assets' \in AssetsLeft({"none", "part"})
                /\ IF Downloading
                   THEN got' = got \cup {It.parts[sub]} /\ sub' = sub + 1 /\ UNCHANGED pc
                   ELSE pc' = "failed" /\ UNCHANGED <<got, sub>>
                /\ UNCHANGED <<server, loop, history>>

\* a request, a download or a write fails, or the run's context is done: Export returns
\* the error
Fail == /\ Fallible
        /\ files' \in FilesLeft /\ assets' \in AssetsLeft({"none", "part"})
        /\ pc' = "failed" /\ Leave /\ Forget
        /\ UNCHANGED server

\* 404: the issue or pull request is gone, or the release does not have the asset any more
NotFound == /\ pc = "parts"
            /\ IF kind = "releases"
               THEN Downloading /\ It.parts[sub] \notin ToSet(parts[It.item])
               ELSE It.item \notin There
            /\ Fail

\* the process dies
Crash == /\ Event /\ pc \in Active
         /\ files' \in FilesLeft /\ assets' \in AssetsLeft({"part"})
         /\ pc' = "idle" /\ Leave /\ Forget
         /\ UNCHANGED <<forge, kind, place, list, ver, parts>>

-----------------------------------------------------------------------------
Step == \/ FetchPage \/ NextPage \/ Return \/ Skip \/ Open
        \/ Comments \/ Download \/ NotFound \/ Downloaded \/ Write

Next == \/ \E i \in Items : Create(i) \/ Edit(i) \/ Delete(i)
                            \/ \E p \in Parts : AddPart(i, p) \/ RemovePart(i, p)
        \/ Begin \/ Step \/ Fail \/ Forbidden \/ Crash

\* Requests are answered, with an error if need be: at the per-repository timeout at the
\* latest.
Spec == Init /\ [][Next]_vars /\ WF_vars(Step)

-----------------------------------------------------------------------------
File == [state : {"none", "part", "whole"}, of : SUBSET Items, ver : 0..MaxVer, parts : SUBSET Parts]

\* Every variable stays in its range; while an item's parts are gathered there is an item,
\* and a file says of an item what it was at some time.
TypeOK == /\ forge \in Forges /\ kind \in Kinds
          /\ There \subseteq Items /\ ver \in [Items -> 0..MaxVer]
          /\ \A i \in Items : ToSet(parts[i]) \subseteq Parts
          /\ budget \in 0..MaxEvents
          /\ files \in [Items -> File] /\ place \in Places
          /\ \A d \in Items : \A i \in files[d].of : place[i] = d /\ files[d].ver <= ver[i]
          /\ assets \in [Items -> [Parts -> {"none", "part", "whole"}]]
          /\ pc \in Active \cup {"idle", "ok", "failed"}
          /\ pc \in {"parts", "write"} => queue # <<>>
          /\ page \in Nat \ {0} /\ sub \in Nat \ {0} /\ more \in BOOLEAN
          /\ got \subseteq Parts
          /\ pc = "parts" /\ kind = "releases" =>
               sub <= Len(It.parts) + 1 /\ got = {It.parts[n] : n \in 1..sub - 1}
          /\ there \subseteq There
          /\ steady \in [Items -> SUBSET Parts] /\ base \in [Items -> 0..MaxVer]
          /\ shrunk \in BOOLEAN /\ short \subseteq Items /\ barred \in BOOLEAN

\* The items an export that succeeds must have gone through: nothing that left the list or
\* their comments hid them, and GitLab never answered 403.
Owed == IF pc = "ok" /\ ~shrunk /\ ~barred THEN there \ short ELSE {}

\* Of each of them there is a whole file, as new as the item was at the beginning and with
\* every comment or asset it had throughout, whatever earlier exports left in its place:
\* what is created meanwhile hides nothing, and neither does a page without anything to
\* keep (Export and its pages, issue.go, pull_request.go, release.go). Of releases whose
\* tags sanitizeName turns into one name there is one such file, and no mixture.
Alone(i) == \A j \in Items \ {i} : place[j] # place[i]
SuccessMeansExported ==
  \A i \in Owed : ~Skips(i) =>
     LET file == files[place[i]]
     IN  /\ file.state = "whole" /\ (Alone(i) => file.of = {i})
         /\ i \in file.of => /\ file.ver >= base[i]
                            /\ {p \in steady[i] : Keeps(p)} \subseteq file.parts

\* After an export that succeeds the assets a release.json claims are there and whole, an
\* earlier export that broke off in the middle of them included (metadata.go:338-349).
ClaimsRepaired ==
  kind = "releases" =>
    \A i \in Owed : LET d == place[i] IN \A p \in files[d].parts : assets[d][p] = "whole"

\* "a partial failure downloading one asset never leaves a release.json on disk claiming an
\* asset that isn't actually there" (forgejo/release.go:83-85, and the other two).
ClaimsHold ==
  kind = "releases" => \A i \in Items : \A p \in files[i].parts : assets[i][p] = "whole"

\* An export ends, whatever is created while it pages through the lists.
Ends == (pc = "page") ~> (pc \notin Active)
=============================================================================
