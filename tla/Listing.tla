------------------------------- MODULE Listing --------------------------------
(***************************************************************************)
(* ListRepos of the three forge clients (internal/forgejo/forgejo.go,      *)
(* internal/gitlab/gitlab.go, internal/github/github.go): page after page  *)
(* of a list that the server cuts at an offset, while repositories are     *)
(* created, removed, archived and unarchived between the requests.         *)
(*                                                                         *)
(* What a client adds to a page of GitLab projects (wikis and snippets) is *)
(* the subject of ProjectDetails; here a page's projects are all there is. *)
(***************************************************************************)
EXTENDS Naturals, FiniteSets, Sequences, SequencesExt

CONSTANTS Paths,     \* repository paths
          Mirrors,   \* those Forgejo reports as mirrors of an upstream
          PageSize,  \* entries the client asks for, and the server gives, per page
          MaxEvents  \* bound: changes of the forge

ASSUME ListingAssumption == /\ IsFiniteSet(Paths) /\ Mirrors \subseteq Paths
                            /\ PageSize \in Nat \ {0}
                            /\ MaxEvents \in Nat

Kinds == {"forgejo", "gitlab", "github"}
States == {"all", "active", "archived"}

VARIABLES
  kind,        \* which client
  skipMirrors, \* Forgejo's SkipMirrors
  order,       \* the forge's repositories, in the order the server lists them
  arch,        \* those archived
  budget,      \* changes left
  pc,          \* where ListRepos is
  state,       \* its argument
  pass,        \* GitLab: the value of the archived parameter
  page,        \* the page it is at
  repos,       \* what it has gathered: paths with the archived flag they were seen with
  steady,      \* history: paths that were on the forge, unchanged, since it began
  shrunk,      \* history: a path has left a list it pages through
  grown        \* history: a path has entered one

forge == <<kind, skipMirrors, order, arch, budget>>
client == <<pc, state, pass, page, repos>>
history == <<steady, shrunk, grown>>
vars == <<forge, client, history>>

Here == ToSet(order)
Place(p) == CHOOSE i \in DOMAIN order : order[i] = p

\* some of the forge's repositories in the order the server lists them
Rank(S, p) == Cardinality({q \in S : Place(q) <= Place(p)})
InOrder(S) == [k \in 1..Cardinality(S) |-> CHOOSE p \in S : Rank(S, p) = k]

Init == /\ kind \in Kinds
        /\ skipMirrors \in BOOLEAN /\ (kind # "forgejo" => ~skipMirrors)
        /\ \E S \in SUBSET Paths : order \in SetToSeqs(S)
        /\ arch \in SUBSET Here
        /\ budget = MaxEvents
        /\ pc = "idle" /\ state = "all" /\ pass = FALSE /\ page = 1 /\ repos = <<>>
        /\ steady = {} /\ shrunk = FALSE /\ grown = FALSE

-----------------------------------------------------------------------------
(* The server. *)

WantsState(archived) == \/ state = "all"
                        \/ state = "active" /\ ~archived
                        \/ state = "archived" /\ archived

\* the server filters what it lists by the request's archived parameter
Filtered == \/ kind = "gitlab"
            \/ kind = "forgejo" /\ state # "all"

\* Faulty: the request to GitLab has no archived parameter.
Matches_NoArchived(p) == CASE kind = "forgejo" -> WantsState(p \in arch)
                           [] OTHER -> TRUE

Matches(p) == CASE kind = "gitlab" -> (p \in arch) = pass
                [] kind = "forgejo" -> WantsState(p \in arch)
                [] OTHER -> TRUE
Matching == {p \in Here : Matches(p)}

\* a page, and whether x-next-page names another
Entries == {p \in Matching : Rank(Matching, p) \in (page - 1) * PageSize + 1..page * PageSize}
HasNext == Cardinality(Matching) > page * PageSize

-----------------------------------------------------------------------------
(* The forge changes. *)

Event == budget > 0 /\ budget' = budget - 1

Create(p) == /\ Event /\ p \notin Here
             /\ \E i \in 1..Len(order) + 1 : order' = InsertAt(order, i, p)
             /\ grown' = TRUE
             /\ UNCHANGED <<kind, skipMirrors, arch, client, steady, shrunk>>

Delete(p) == /\ Event /\ p \in Here
             /\ order' = RemoveAt(order, Place(p))
             /\ arch' = arch \ {p}
             /\ steady' = steady \ {p} /\ shrunk' = TRUE
             /\ UNCHANGED <<kind, skipMirrors, client, grown>>

ToggleArchived(p) == /\ Event /\ p \in Here
                     /\ arch' = IF p \in arch THEN arch \ {p} ELSE arch \cup {p}
                     /\ steady' = steady \ {p}
                     /\ shrunk' = (shrunk \/ Filtered) /\ grown' = (grown \/ Filtered)
                     /\ UNCHANGED <<kind, skipMirrors, order, client>>

-----------------------------------------------------------------------------
(* ListRepos. *)

\* Faulty: a StateAll listing of GitLab starts with the archived projects only.
Begin_OnePass == /\ pc # "fetch"
                 /\ pc' = "fetch" /\ state' \in States
                 /\ pass' = (kind = "gitlab" /\ state' # "active")
                 /\ page' = 1 /\ repos' = <<>>
                 /\ steady' = Here /\ shrunk' = FALSE /\ grown' = FALSE
                 /\ UNCHANGED forge

\* Faulty: pages are counted from zero.
Begin_FromZero == /\ pc # "fetch"
                  /\ pc' = "fetch" /\ state' \in States
                  /\ pass' = (kind = "gitlab" /\ state' = "archived")
                  /\ page' = 0 /\ repos' = <<>>
                  /\ steady' = Here /\ shrunk' = FALSE /\ grown' = FALSE
                  /\ UNCHANGED forge

Begin == /\ pc # "fetch"
         /\ pc' = "fetch" /\ state' \in States
         /\ pass' = (kind = "gitlab" /\ state' = "archived")
         /\ page' = 1 /\ repos' = <<>>
         /\ steady' = Here /\ shrunk' = FALSE /\ grown' = FALSE
         /\ UNCHANGED forge

\* what the client keeps of a page
Keeps(p) == CASE kind = "forgejo" -> ~(skipMirrors /\ p \in Mirrors)
              [] kind = "github" -> WantsState(p \in arch)
              [] OTHER -> TRUE
Seen(names) == [i \in DOMAIN names |-> [path |-> names[i], archived |-> names[i] \in arch]]
Kept == Seen(InOrder({p \in Entries : Keeps(p)}))

\* Faulty: an empty page after the filter ends the listing.
LastPage_Kept == IF kind = "gitlab" THEN ~HasNext ELSE Len(Kept) < PageSize

\* the page is the last of its list
LastPage == IF kind = "gitlab" THEN ~HasNext ELSE Cardinality(Entries) < PageSize

\* a page arrives and is not the last
NextPage == /\ pc = "fetch" /\ ~LastPage
            /\ repos' = repos \o Kept
            /\ page' = page + 1
            /\ UNCHANGED <<forge, pc, state, pass, history>>

\* the last page of the active projects arrives, and the archived ones are next
NextPass == /\ pc = "fetch" /\ LastPage
            /\ kind = "gitlab" /\ state = "all" /\ ~pass
            /\ repos' = repos \o Kept
            /\ pass' = TRUE /\ page' = 1
            /\ UNCHANGED <<forge, pc, state, history>>

\* the last page arrives, and ListRepos returns
Finish == /\ pc = "fetch" /\ LastPage
          /\ ~(kind = "gitlab" /\ state = "all" /\ ~pass)
          /\ repos' = repos \o Kept
          /\ pc' = "returned"
          /\ UNCHANGED <<forge, state, pass, page, history>>

\* a request, a project's details or GitHub's scope check fails: no repositories at all
Fail == /\ pc = "fetch"
        /\ repos' = <<>>
        /\ pc' = "failed"
        /\ UNCHANGED <<forge, state, pass, page, history>>

-----------------------------------------------------------------------------
ForgeChanges == \E p \in Paths : Create(p) \/ Delete(p) \/ ToggleArchived(p)
ListStep == NextPage \/ NextPass \/ Finish \/ Fail
Next == ForgeChanges \/ Begin \/ ListStep

Spec == Init /\ [][Next]_vars

-----------------------------------------------------------------------------
(* Properties. *)

Entry == [path : Paths, archived : BOOLEAN]
Listed == {repos[i].path : i \in DOMAIN repos}

\* Every variable stays in its range.
TypeOK == /\ kind \in Kinds /\ skipMirrors \in BOOLEAN
          /\ ToSet(order) \subseteq Paths /\ arch \subseteq Here
          /\ budget \in 0..MaxEvents
          /\ pc \in {"idle", "fetch", "returned", "failed"}
          /\ state \in States /\ pass \in BOOLEAN /\ page \in Nat \ {0}
          /\ ToSet(repos) \subseteq Entry
          /\ steady \subseteq Here /\ shrunk \in BOOLEAN /\ grown \in BOOLEAN

\* what the caller asked for among the repositories that did not change meanwhile
Wanted == {p \in steady : WantsState(p \in arch) /\ ~(skipMirrors /\ p \in Mirrors)}

\* A listing during which nothing left the lists it pages through has every wanted
\* repository, whatever was created meanwhile: an entry moves to a later page, never to
\* one already fetched.
OnlyDeletionsHide == pc = "returned" /\ ~shrunk => Wanted \subseteq Listed

\* A listing during which nothing entered those lists names no repository twice, whatever
\* was deleted meanwhile; two entries of one path would be two workers on one mirror.
OnlyCreationsRepeat == pc = "returned" /\ ~grown => IsInjective([i \in DOMAIN repos |-> repos[i].path])

\* A listing of a forge that stays as it is has what the caller asked for, in the
\* server's order and with the right archived flags: GitLab's active projects before
\* the archived ones.
Reference ==
  LET Part(a) == InOrder({p \in Wanted : (p \in arch) = a})
  IN  Seen(IF kind = "gitlab" THEN Part(FALSE) \o Part(TRUE) ELSE InOrder(Wanted))
QuietIsExact == pc = "returned" /\ steady = Here /\ ~shrunk /\ ~grown => repos = Reference
=============================================================================
