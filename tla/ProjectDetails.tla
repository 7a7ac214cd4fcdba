---------------------------- MODULE ProjectDetails ----------------------------
(***************************************************************************)
(* projectRepos of internal/gitlab/gitlab.go, with wiki.go and snippet.go: *)
(* a bounded group of goroutines asks for the wiki and the snippets of     *)
(* every project of a page, each puts its repositories into the slot of    *)
(* its project, and the first error cancels the rest.                      *)
(*                                                                         *)
(* Projects are the page's entries, 1 to N.  A repository is the project   *)
(* itself, its wiki or one of its snippets.  getOptional is in wiki and    *)
(* barred: a 403 counts as an empty answer.  A request still answered      *)
(* after the cancellation is allowed for: its answer may be on its way.    *)
(***************************************************************************)
EXTENDS Integers, FiniteSets, Sequences, SequencesExt

CONSTANTS N,           \* projects on the page
          Limit,       \* projectDetailConcurrency
          SnippetPage, \* snippets per page
          MaxSnippets  \* bound: snippets of a project

ASSUME DetailsAssumption == /\ N \in Nat /\ MaxSnippets \in Nat
                            /\ Limit \in Nat \ {0} /\ SnippetPage \in Nat \ {0}

Projects == 1..N

VARIABLES
  wiki,      \* [Projects -> what GitLab answers about its wiki]
  snippets,  \* [Projects -> number of snippets]
  barred,    \* projects whose snippets GitLab answers 403 for
  pc,        \* where projectRepos is
  next,      \* the project the loop is at
  phase,     \* [Projects -> where its goroutine is]
  page,      \* [Projects -> the page of snippets it asks for]
  found,     \* [Projects -> repositories it has found]
  results,   \* [Projects -> its slot]
  cancelled, \* the group's context is cancelled
  returned   \* what projectRepos returns

server == <<wiki, snippets, barred>>
vars == <<server, pc, next, phase, page, found, results, cancelled, returned>>

Part(i, kind, id) == [project |-> i, kind |-> kind, id |-> id]
Snippet(i, id) == Part(i, "snippet", id)

Init == /\ wiki \in [Projects -> {"pages", "empty", "forbidden"}]
        /\ snippets \in [Projects -> 0..MaxSnippets]
        /\ barred \in SUBSET Projects
        /\ pc = "dispatch" /\ next = 1
        /\ phase = [i \in Projects |-> "none"]
        /\ page = [i \in Projects |-> 1]
        /\ found = [i \in Projects |-> <<>>]
        /\ results = [i \in Projects |-> <<>>]
        /\ cancelled = FALSE
        /\ returned = <<>>

\* Faulty: a goroutine that fails keeps its place in the group.
Working_Leak == {i \in Projects : phase[i] \notin {"none", "done"}}

\* the goroutines that hold a place in the group
Working == {i \in Projects : phase[i] \in {"wiki", "snippets"}}

-----------------------------------------------------------------------------
(* The loop. *)

\* g.Go starts the next project's goroutine, once there is room
Go == /\ pc = "dispatch" /\ next \in Projects
      /\ Cardinality(Working) < Limit
      /\ phase' = [phase EXCEPT ![next] = "wiki"]
      /\ found' = [found EXCEPT ![next] = <<Part(next, "project", 0)>>]
      /\ next' = next + 1
      /\ UNCHANGED <<server, pc, page, results, cancelled, returned>>

\* Faulty: the first error is returned at once.
Wait_Eager == /\ pc = "dispatch" /\ next \notin Projects
              /\ cancelled \/ Working = {}
              /\ pc' = IF cancelled THEN "failed" ELSE "returned"
              /\ returned' = IF cancelled THEN <<>> ELSE FlattenSeq(results)
              /\ UNCHANGED <<server, next, phase, page, found, results, cancelled>>

\* g.Wait returns, with the first error if there was one
Wait == /\ pc = "dispatch" /\ next \notin Projects
        /\ Working = {}
        /\ pc' = IF cancelled THEN "failed" ELSE "returned"
        /\ returned' = IF cancelled THEN <<>> ELSE FlattenSeq(results)
        /\ UNCHANGED <<server, next, phase, page, found, results, cancelled>>

-----------------------------------------------------------------------------
(* A goroutine: projectDetail. *)

\* wikiRepo: the first page of the wiki, 403 like an empty one
Wiki(i) == /\ phase[i] = "wiki"
           /\ found' = IF wiki[i] = "pages"
                       THEN [found EXCEPT ![i] = Append(@, Part(i, "wiki", 0))]
                       ELSE found
           /\ phase' = [phase EXCEPT ![i] = "snippets"]
           /\ UNCHANGED <<server, pc, next, page, results, cancelled, returned>>

Past(i) == (page[i] - 1) * SnippetPage
OnPage(i) == LET left == IF i \in barred THEN 0 ELSE snippets[i] - Past(i)
             IN  [k \in 1..(IF left < SnippetPage THEN left ELSE SnippetPage) |->
                    Snippet(i, Past(i) + k)]

\* Faulty: off by one, a page past the last is asked for.
HasNext_Past(i) == i \notin barred /\ snippets[i] >= page[i] * SnippetPage

HasNext(i) == i \notin barred /\ snippets[i] > page[i] * SnippetPage

\* Faulty: what a goroutine found is put into the first free slot.
Snippets_AnySlot(i) ==
  /\ phase[i] = "snippets"
  /\ found' = [found EXCEPT ![i] = @ \o OnPage(i)]
  /\ IF HasNext(i)
     THEN page' = [page EXCEPT ![i] = @ + 1] /\ UNCHANGED <<phase, results>>
     ELSE /\ \E k \in Projects : /\ results[k] = <<>>
                                 /\ \A j \in 1..(k - 1) : results[j] # <<>>
                                 /\ results' = [results EXCEPT ![k] = found'[i]]
          /\ phase' = [phase EXCEPT ![i] = "done"]
          /\ UNCHANGED page
  /\ UNCHANGED <<server, pc, next, cancelled, returned>>

\* snippetRepos: a page of snippets; after the last one the project's slot is filled
Snippets(i) ==
  /\ phase[i] = "snippets"
  /\ found' = [found EXCEPT ![i] = @ \o OnPage(i)]
  /\ IF HasNext(i)
     THEN page' = [page EXCEPT ![i] = @ + 1] /\ UNCHANGED <<phase, results>>
     ELSE /\ results' = [results EXCEPT ![i] = found'[i]]
          /\ phase' = [phase EXCEPT ![i] = "done"]
          /\ UNCHANGED page
  /\ UNCHANGED <<server, pc, next, cancelled, returned>>

\* Faulty: a request that fails counts as an empty answer.
Fail_Ignored(i) == /\ i \in Working
                   /\ phase' = [phase EXCEPT ![i] = "error"]
                   /\ UNCHANGED <<server, pc, next, page, found, results, cancelled, returned>>

\* a request fails, or is cancelled: the goroutine returns the error
Fail(i) == /\ i \in Working
           /\ phase' = [phase EXCEPT ![i] = "error"]
           /\ cancelled' = TRUE
           /\ UNCHANGED <<server, pc, next, page, found, results, returned>>

-----------------------------------------------------------------------------
Step(i) == Wiki(i) \/ Snippets(i) \/ Fail(i)

Next == Go \/ Wait \/ \E i \in Projects : Step(i)

\* Requests end: the HTTP client gives up with the run's context at the latest.
Spec == Init /\ [][Next]_vars /\ WF_vars(Go \/ Wait) /\ \A i \in Projects : WF_vars(Step(i))

-----------------------------------------------------------------------------
\* Every variable stays in its range; no page past a project's last snippet is asked
\* for, and a slot holds what its own project's goroutine found.
TypeOK == /\ pc \in {"dispatch", "returned", "failed"}
          /\ next \in 1..N + 1
          /\ phase \in [Projects -> {"none", "wiki", "snippets", "done", "error"}]
          /\ cancelled \in BOOLEAN
          /\ \A i \in Projects : /\ page[i] = 1 \/ (page[i] - 1) * SnippetPage < snippets[i]
                                /\ ToSet(found[i]) \subseteq [project : {i}, id : 0..MaxSnippets,
                                                              kind : {"project", "wiki", "snippet"}]
                                /\ results[i] \in {<<>>, found[i]}

\* "the final order is the same page order callers already saw from the serial
\* implementation" (gitlab.go:147-150), and nothing a project has is missing from it:
\* its wiki, and the snippets of every page.
Serial(i) == <<Part(i, "project", 0)>>
             \o (IF wiki[i] = "pages" THEN <<Part(i, "wiki", 0)>> ELSE <<>>)
             \o (IF i \in barred THEN <<>> ELSE [k \in 1..snippets[i] |-> Snippet(i, k)])
SameAsSerial == pc = "returned" => returned = FlattenSeq([i \in Projects |-> Serial(i)])

\* "Wait still blocks until each of them has actually returned, so nothing is left
\* running in the background" (gitlab.go:143-145).
NothingLeftRunning == pc # "dispatch" => Working = {}

\* A page is resolved or fails, however its requests fail and whatever the limit.
Ends == <>(pc \in {"returned", "failed"})
=============================================================================
