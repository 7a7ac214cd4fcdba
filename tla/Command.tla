------------------------------- MODULE Command --------------------------------
(***************************************************************************)
(* The command line, call after call over one backup tree and one          *)
(* configuration file (internal/backup/cli.go, config.go, cli_config.go):  *)
(* the starter file and who may overwrite it, tokens, flag and environment *)
(* and file, the forges in turn, the dry run and the run it foretells.     *)
(*                                                                         *)
(* What Run does to one forge is in BackupRun; here it is a few steps, its *)
(* workers one of them. A repository is gone, empty, active or archived. A *)
(* listing begins at one step and returns at a later one, what it says of  *)
(* the forges that change meanwhile being all that Listing allows.         *)
(***************************************************************************)
EXTENDS Layout

CONSTANTS Words,     \* what names are made of, beside the program's own parts of them
          Names,     \* the forges' names in the file, in its order, as paths below dest
          Hosted,    \* the paths each of them may have
          Tokens,    \* what each entry sets of "command", "literal", "env"
          Calls,     \* the calls to make
          Tag, Asset, \* of the one release of a repository
          MaxEvents  \* bound: changes of the forges and saves of the file

Text == Words \cup {"git", "tar.gz", "metadata", "archive", "releases", "assets"}
Forges == DOMAIN Names
Layers == {"unset", "yes", "no"}
Statuses == {"gone", "empty", "active", "archived"}
Files == [what : {"none", "part", "starter", "mine"}, prune : Layers]

CallType == [cmd : {"run", "list", "init"}, only : SUBSET Forges, state : {"all", "active", "archived"},
             archive : {"none", "all", "active", "archived"}, beside : BOOLEAN, releases : BOOLEAN,
             prune : Layers, env : Layers, dry : BOOLEAN, force : BOOLEAN]

ASSUME CommandAssumption == /\ Names \in Seq(Seq(Seq(Text)))
                            /\ Hosted \in [Forges -> SUBSET Seq(Seq(Text))]
                            /\ Tag \in Seq(Text) /\ Asset \in Seq(Text)
                            /\ Tokens \in [Forges -> SUBSET {"command", "literal", "env"}]
                            /\ Calls \subseteq CallType
                            /\ MaxEvents \in Nat

\* No forge's directory lies in another's, nor any among the archives. The program does not
\* look, and where it is not so the forges prune each other's mirrors.
ASSUME NamesApart ==
  /\ \A f, g \in Forges : f # g => ~IsPrefix(Names[f], Names[g])
  /\ \A f \in Forges : Names[f] # <<>> /\ Names[f][1] # <<"archive">>

\* A repository has a name, no name on its path is empty or ends in .git (run.go:488: "a
\* bare mirror never nests another one inside it"), and no repository of a forge lies where
\* the metadata of another one goes. The program leaves this to the forges.
ASSUME PathsApart ==
  \A f \in Forges : \A p \in Hosted[f] :
    /\ p # <<>> /\ \A k \in DOMAIN p : p[k] # <<>> /\ ~HasSuffix(p[k], "git")
    /\ \A q \in Hosted[f] : ~IsPrefix(Named(p, "metadata"), q)

VARIABLES
  forge,    \* the status of every path of every forge
  disk,     \* the backup tree
  config,   \* the configuration file
  budget,   \* changes left
  stage,    \* where the command is
  call,     \* how it was called
  prune,    \* --prune-removed as resolved
  loaded,   \* forges in the configuration it has read
  at,       \* the forge it is at
  seen,     \* its states since the listing being read began
  listed,   \* the listing: path and status
  canonical, \* the paths of the StateAll listing
  stale,    \* what staleMirrors returned
  lines,    \* what it has done to the forge, or says it would
  clean,    \* nothing has failed
  contacted, \* forges it has sent a request to
  outcome,  \* how it ended
  steady,   \* history: paths of each forge that have not changed since the call began
  lacking,  \* history: forges of the file whose token is missing
  quiet,    \* history: forges that have not changed since their last dry run began
  plan,     \* history: the last dry run of each forge
  saved,    \* history: the user saved the file after config init looked for it
  torn      \* history: the listings, by stage and forge, that something left while they were read

NoCall == [cmd |-> "none"]
NoLines == [clone |-> {}, update |-> {}, skip |-> {}, archive |-> {}, prune |-> {}]
NoPlan == [call |-> NoCall, prune |-> FALSE, lines |-> NoLines]

world == <<forge, disk, config, budget>>
front == <<call, prune, loaded, clean, contacted>>
turn == <<at, seen, listed, canonical, stale, lines>>
history == <<steady, lacking, quiet, plan, saved, torn>>
vars == <<world, stage, outcome, front, turn, history>>

Goto(s) == stage' = s /\ UNCHANGED outcome
Exit(how) == stage' = "exit" /\ outcome' = how

Init == /\ forge \in {s \in [Forges -> UNION {[Hosted[f] -> Statuses] : f \in Forges}] :
                        \A f \in Forges : DOMAIN s[f] = Hosted[f]}
        /\ disk = {}
        /\ config \in [what : {"none", "mine"}, prune : {"unset"}]
        /\ budget = MaxEvents
        /\ stage = "idle" /\ call = NoCall
        /\ prune = FALSE /\ loaded = 0 /\ at = 0 /\ seen = {} /\ listed = {} /\ canonical = {}
        /\ stale = {} /\ lines = NoLines /\ clean = TRUE /\ contacted = {} /\ outcome = "none"
        /\ steady = [f \in Forges |-> {}] /\ lacking = {} /\ quiet = {}
        /\ plan = [f \in Forges |-> NoPlan] /\ saved = FALSE /\ torn = {}

-----------------------------------------------------------------------------
(* The environment. *)

Event == budget > 0 /\ budget' = budget - 1

Reading(f) == stage \in {"list", "relist"} /\ f = at

\* A repository that is deleted leaves the forge's list, and one that is archived or
\* unarchived the one of GitLab's two, or of Forgejo's filtered ones, that it was in.
Leaves(s, t) == s # "gone" /\ (t = "gone" \/ ((s = "archived") # (t = "archived")))

Change(f, p) == /\ Event
                /\ \E s \in Statuses \ {forge[f][p]} :
                     /\ forge' = [forge EXCEPT ![f][p] = s]
                     /\ torn' = IF Reading(f) /\ Leaves(forge[f][p], s) THEN torn \cup {<<stage, f>>} ELSE torn
                /\ seen' = IF Reading(f) THEN seen \cup {forge'[f]} ELSE seen
                /\ steady' = [steady EXCEPT ![f] = @ \ {p}]
                /\ quiet' = quiet \ {f}
                /\ UNCHANGED <<disk, config, stage, outcome, front, at, listed, canonical, stale, lines,
                               lacking, plan, saved>>

\* the user saves a configuration of their own
Save == /\ Event
        /\ \E p \in Layers : config' = [what |-> "mine", prune |-> p]
        /\ saved' = (stage = "write")
        /\ UNCHANGED <<forge, disk, stage, outcome, front, turn, steady, lacking, quiet, plan, torn>>

\* what a process that has ended leaves behind is the world
Gone == /\ stage' = "idle" /\ outcome' = "none"
        /\ call' = NoCall /\ prune' = FALSE /\ loaded' = 0 /\ clean' = TRUE /\ contacted' = {}
        /\ at' = 0 /\ seen' = {} /\ listed' = {} /\ canonical' = {} /\ stale' = {} /\ lines' = NoLines
        /\ lacking' = {} /\ steady' = [f \in Forges |-> {}]
        /\ saved' = FALSE /\ torn' = {}
        /\ UNCHANGED world

\* it dies, perhaps in the middle of a forge
Crash == /\ stage \notin {"idle", "exit"}
         /\ Gone
         /\ plan' = [f \in Forges |-> IF f = at THEN NoPlan ELSE plan[f]]
         /\ quiet' = quiet \ {at}

Return == /\ stage = "exit"
          /\ Gone
          /\ UNCHANGED <<plan, quiet>>

-----------------------------------------------------------------------------
(* A call, up to its configuration. *)

Invoke(c) == /\ stage = "idle"
             /\ call' = c
             /\ Goto(IF c.cmd = "init" THEN "stat" ELSE "resolve")
             /\ steady' = [f \in Forges |-> Hosted[f]]
             /\ UNCHANGED <<forge, disk, config, budget, prune, loaded, clean, contacted, turn,
                            lacking, quiet, plan, saved, torn>>

\* resolveConfigPath finds a file, or offers to write one if the terminal is interactive
Resolve == /\ stage = "resolve"
           /\ \/ config.what # "none" /\ Goto("flags")
              \/ config.what = "none" /\ (Goto("prompt") \/ Exit("error"))
           /\ UNCHANGED <<world, front, turn, history>>

\* the user answers, in their own time
Answer == /\ stage = "prompt"
          /\ Goto("stat") \/ Exit("error")
          /\ UNCHANGED <<world, front, turn, history>>

Forced == call.cmd = "init" /\ call.force

\* Faulty: the prompt has looked already, and config init does not look again.
Stat_Prompted == /\ stage = "stat"
                 /\ \/ (Forced \/ call.cmd # "init" \/ config.what = "none") /\ Goto("write")
                    \/ ~Forced /\ call.cmd = "init" /\ config.what # "none" /\ Exit("error")
                 /\ UNCHANGED <<world, front, turn, history>>

\* config init looks for a file it must not overwrite
Stat == /\ stage = "stat"
        /\ \/ (Forced \/ config.what = "none") /\ Goto("write")
           \/ ~Forced /\ config.what # "none" /\ Exit("error")
        /\ UNCHANGED <<world, front, turn, history>>

\* and writes the starter file in place, all of it or a part; after a prompt the command
\* ends with an error all the same
Write == /\ stage = "write"
         /\ \E what \in {"starter", "part", "none"} :
              /\ config' = IF what = "none" THEN config ELSE [what |-> what, prune |-> "unset"]
              /\ Exit(IF what = "starter" /\ call.cmd = "init" THEN "ok" ELSE "error")
         /\ UNCHANGED <<forge, disk, budget, front, turn, history>>

-----------------------------------------------------------------------------
(* Options and tokens. *)

\* Faulty: the environment wins over the flag.
Resolved_EnvFirst(flag, env, file) == \/ env = "yes"
                                      \/ env = "unset" /\ flag = "yes"
                                      \/ env = "unset" /\ flag = "unset" /\ file = "yes"

\* flag, environment variable, file, built-in default
Resolved(flag, env, file) == \/ flag = "yes"
                             \/ flag = "unset" /\ env = "yes"
                             \/ flag = "unset" /\ env = "unset" /\ file = "yes"

\* buildViper reads the file for the first time
Flags == /\ stage = "flags"
         /\ prune' = Resolved(call.prune, call.env, config.prune)
         /\ Goto("load")
         /\ UNCHANGED <<world, call, loaded, clean, contacted, turn, history>>

\* resolveToken, when of the commands and the variables those in "works" give a token
HasToken(sources, works) == \/ "command" \in sources \cap works
                            \/ sources = {"literal"}
                            \/ sources = {"env"} /\ "env" \in works

\* Faulty: a token that cannot be resolved is found when its forge's turn comes.
Load_Lazily == /\ stage = "load"
               /\ \E works \in SUBSET {"command", "env"} :
                    lacking' = IF config.what = "mine" THEN {f \in Forges : ~HasToken(Tokens[f], works)}
                                                       ELSE {}
               /\ loaded' = (IF config.what = "mine" THEN Len(Names) ELSE 0) /\ Goto("next")
               /\ UNCHANGED <<world, call, prune, clean, contacted, turn, steady, quiet, plan, saved, torn>>

\* LoadConfig reads it again, and resolves every forge's token; the starter file has a
\* destination and no forge, a part of it perhaps not even that
Load == /\ stage = "load"
        /\ \E works \in SUBSET {"command", "env"} :
             lacking' = IF config.what = "mine" THEN {f \in Forges : ~HasToken(Tokens[f], works)}
                                                ELSE {}
        /\ \/ /\ config.what = "mine" /\ lacking' = {}
              /\ loaded' = Len(Names) /\ Goto("next")
           \/ config.what # "mine" /\ Goto("next") /\ UNCHANGED loaded
           \/ (lacking' # {} \/ config.what = "part") /\ Exit("error") /\ UNCHANGED loaded
        /\ UNCHANGED <<world, call, prune, clean, contacted, turn, steady, quiet, plan, saved, torn>>

-----------------------------------------------------------------------------
(* The forges in turn. *)

Dest(f) == Names[f]

ArchiveDir(f) == (IF call.beside THEN <<>> ELSE <<<<"archive">>>>) \o Names[f]

Selected(f) == call.only = {} \/ f \in call.only
After == {f \in at + 1..loaded : Selected(f)}
Between == stage \in {"next", "ran"}

\* a dry run of a forge foretells the next run, and no second one
Spend == /\ plan' = [plan EXCEPT ![at] = NoPlan]
         /\ quiet' = quiet \ {at}
NextTurn == listed' = {} /\ canonical' = {} /\ stale' = {} /\ lines' = NoLines

\* ListRepos is called: the first request goes out
NextForge == /\ Between
             /\ \E f \in After : (\A g \in After : f <= g) /\ at' = f
             /\ NextTurn /\ seen' = {forge[at']}
             /\ contacted' = contacted \cup {at'}
             /\ Goto("list")
             /\ \/ stage = "ran" /\ Spend
                \/ /\ stage = "next" /\ call.dry
                   /\ plan' = [plan EXCEPT ![at'] = NoPlan] /\ quiet' = quiet \cup {at'}
                \/ stage = "next" /\ ~call.dry /\ UNCHANGED <<plan, quiet>>
             /\ UNCHANGED <<world, call, prune, loaded, clean, steady, lacking, saved, torn>>

Finish == /\ Between /\ After = {}
          /\ Exit("ok")
          /\ NextTurn /\ UNCHANGED <<at, seen>>
          /\ IF stage = "ran" THEN Spend ELSE UNCHANGED <<plan, quiet>>
          /\ UNCHANGED <<world, front, steady, lacking, saved, torn>>

WantsState(s) == call.state = "all" \/ ((call.state = "archived") = (s = "archived"))
WantsArchive(s) == \/ call.archive = "all"
                   \/ /\ call.archive \in {"active", "archived"}
                      /\ (call.archive = "archived") = (s = "archived")

PathsOf(repos) == {r.path : r \in repos}

\* Faulty: the forge's list holds what has been deleted.
Sometimes_Deleted == {r \in [path : Hosted[at], status : Statuses] : \E m \in seen : m[r.path] = r.status}

\* what the pages may say, each fetched at some moment of the listing, and the paths they
\* name, of the given statuses, unless something has left the lists they are cut from
Sometimes == {r \in [path : Hosted[at], status : Statuses \ {"gone"}] : \E m \in seen : m[r.path] = r.status}
Always(S) == {p \in Hosted[at] : \A m \in seen : m[p] \in S}

\* ListRepos of list, of a dry run, and of Run returns, with one entry or, of a repository
\* that has changed, two for a path. The request of a second listing follows at once.
List == /\ stage = "list"
        /\ listed' \in SUBSET {r \in Sometimes : WantsState(r.status)}
        /\ <<stage, at>> \in torn \/ Always({s \in Statuses \ {"gone"} : WantsState(s)}) \subseteq PathsOf(listed')
        /\ canonical' = IF call.state = "all" THEN PathsOf(listed') ELSE {}
        /\ Goto(CASE call.cmd = "list" -> "next"
                   [] call.dry -> "preview"
                   [] OTHER -> IF call.state = "all" THEN "scan" ELSE "relist")
        /\ seen' = IF stage' = "relist" THEN {forge[at]} ELSE {}
        /\ UNCHANGED <<world, front, at, stale, lines, history>>

\* the StateAll listing that staleness is judged by
Relist == /\ stage = "relist"
          /\ canonical' \in SUBSET PathsOf(Sometimes)
          /\ <<stage, at>> \in torn \/ Always(Statuses \ {"gone"}) \subseteq canonical'
          /\ Goto("scan") /\ seen' = {}
          /\ UNCHANGED <<world, front, at, listed, stale, lines, history>>

\* Faulty: a forge that cannot be listed is passed over.
Fail_PassOver == /\ stage \in {"list", "relist", "scan"}
                 /\ Goto("next") /\ seen' = {}
                 /\ UNCHANGED <<world, front, at, listed, canonical, stale, lines, history>>

\* a listing or a scan fails: the command ends, and the forges after this one are not reached
Fail == /\ stage \in {"list", "relist", "scan"}
        /\ Exit("error") /\ seen' = {}
        /\ UNCHANGED <<world, front, at, listed, canonical, stale, lines, history>>

Todo == {r \in listed : r.status # "empty"}

\* an archived repository that is archived is mirrored into a scratch directory, from nothing
Scratch(s) == s = "archived" /\ WantsArchive(s)

\* the mirror, the archive and the exported asset of a repository
Copies(f, p, s) ==
  LET node(where, dir) == [at |-> where, dir |-> dir, of |-> [forge |-> f, path |-> p]]
  IN  {n \in {node(mirrorPath(Dest(f), p), TRUE)} : ~Scratch(s)}
        \cup {n \in {node(archivePath(ArchiveDir(f), p), FALSE)} : WantsArchive(s)}
        \cup {n \in {node(AssetPath(Dest(f), p, Tag, Asset), FALSE)} : call.releases}

-----------------------------------------------------------------------------
(* The dry run. *)

\* Faulty: what is in the tree decides for every repository.
Clones_NoScratch(r) == \A n \in disk : n.at # mirrorPath(Dest(at), r.path)

\* dryRunAction
Clones(r) == \/ r.status = "archived" /\ WantsArchive(r.status)
             \/ \A n \in disk : n.at # mirrorPath(Dest(at), r.path)
Announced == [clone |-> PathsOf({r \in Todo : Clones(r)}), update |-> PathsOf({r \in Todo : ~Clones(r)}),
              skip |-> PathsOf(listed \ Todo), archive |-> PathsOf({r \in Todo : WantsArchive(r.status)}),
              prune |-> {}]

Foretell(l) == plan' = [plan EXCEPT ![at] = [call |-> [call EXCEPT !.dry = FALSE],
                                             prune |-> prune, lines |-> l]]

\* dryRunForge says what it would do to each repository, from what is in the tree
Preview == /\ stage = "preview"
           /\ lines' = Announced
           /\ \/ ~prune /\ Goto("next") /\ Foretell(lines')
              \/ prune /\ Goto(IF call.state = "all" THEN "scan" ELSE "relist") /\ UNCHANGED plan
           /\ seen' = IF stage' = "relist" THEN {forge[at]} ELSE {}
           /\ UNCHANGED <<world, front, at, listed, canonical, stale, steady, quiet, lacking, saved, torn>>

\* dryRunPrune adds what it would prune
PreviewPrune == /\ stage = "scan" /\ call.dry
                /\ lines' = [lines EXCEPT !.prune =
                                staleMirrors(disk, Dest(at), ArchiveDir(at), canonical)]
                /\ Foretell(lines')
                /\ Goto("next")
                /\ UNCHANGED <<world, front, at, seen, listed, canonical, stale, steady, quiet, lacking, saved, torn>>

-----------------------------------------------------------------------------
(* Run. *)

Scan == /\ stage = "scan" /\ ~call.dry
        /\ stale' = staleMirrors(disk, Dest(at), ArchiveDir(at), canonical)
        /\ Goto("work")
        /\ UNCHANGED <<world, front, at, seen, listed, canonical, lines, history>>

\* what the workers did: a Sync clones where there is no mirror yet
Did(done) ==
  LET dirs(r) == {n.at : n \in {c \in Copies(at, r.path, r.status) : c.dir}}
      files(r) == {n.at : n \in {c \in Copies(at, r.path, r.status) : ~c.dir}}
      updated == {r \in done : \E n \in disk : n.at \in dirs(r)}
  IN  [clone |-> PathsOf(done \ updated), update |-> PathsOf(updated), skip |-> PathsOf(listed \ Todo),
       archive |-> PathsOf({r \in done : archivePath(ArchiveDir(at), r.path) \in files(r)}), prune |-> {}]

\* what the forge still has
There == {p \in Hosted[at] : forge[at][p] # "gone"}

\* the workers: some fail, those of repositories that are gone among them
Work == /\ stage = "work"
        /\ \E done \in SUBSET {r \in Todo : r.path \in There} :
             /\ disk' = Put(disk, UNION {Copies(at, r.path, r.status) : r \in done})
             /\ lines' = Did(done)
             /\ clean' = (clean /\ done = Todo)
        /\ Goto("prune")
        /\ UNCHANGED <<forge, config, budget, call, prune, loaded, contacted,
                       at, seen, listed, canonical, stale, history>>

\* prune removes what it can of each stale path, the mirror before the archive
Prune == /\ stage = "prune"
         /\ \E gone \in SUBSET (IF prune THEN stale ELSE {}) : \E unarchived \in SUBSET gone :
              /\ disk' = {n \in disk : /\ \A p \in gone : ~IsPrefix(mirrorPath(Dest(at), p), n.at)
                                      /\ \A p \in unarchived : n.at # archivePath(ArchiveDir(at), p)}
              /\ lines' = [lines EXCEPT !.prune = gone]
              /\ clean' = (clean /\ unarchived = IF prune THEN stale ELSE {})
         /\ Goto("ran")
         /\ UNCHANGED <<forge, config, budget, call, prune, loaded, contacted,
                        at, seen, listed, canonical, stale, history>>

-----------------------------------------------------------------------------
Next == \/ \E f \in Forges : \E p \in Hosted[f] : Change(f, p)
        \/ Save \/ Crash \/ Return
        \/ \E c \in Calls : Invoke(c)
        \/ Resolve \/ Answer \/ Stat \/ Write \/ Flags \/ Load
        \/ NextForge \/ Finish \/ List \/ Relist \/ Fail \/ Preview \/ PreviewPrune
        \/ Scan \/ Work \/ Prune

Spec == Init /\ [][Next]_vars

-----------------------------------------------------------------------------
(* Properties. *)

Paths == UNION {Hosted[f] : f \in Forges}
PathSets == SUBSET Seq(Seq(Text))
LinesType == [clone : PathSets, update : PathSets, skip : PathSets, archive : PathSets, prune : PathSets]

\* Every variable stays in its range, and at most one copy of anything lies in one place.
TypeOK == /\ \A f \in Forges : forge[f] \in [Hosted[f] -> Statuses]
          /\ \A n \in disk : n.dir \in BOOLEAN /\ n.of.forge \in Forges /\ n.of.path \in Paths
          /\ \A m, n \in disk : m.at = n.at => m = n
          /\ config \in Files /\ budget \in 0..MaxEvents
          /\ call \in Calls \cup {NoCall} /\ (call = NoCall <=> stage = "idle")
          /\ prune \in BOOLEAN /\ loaded \in 0..Len(Names) /\ at \in 0..loaded
          /\ \A m \in seen : m \in [Hosted[at] -> Statuses]
          /\ (seen # {} <=> stage \in {"list", "relist"})
          /\ \A r \in listed : r.path \in Paths /\ r.status \in Statuses \ {"gone"}
          /\ canonical \subseteq Paths
          /\ lines \in LinesType /\ \A f \in Forges : plan[f].lines \in LinesType
          /\ clean \in BOOLEAN /\ contacted \subseteq 1..loaded
          /\ outcome \in {"none", "ok", "error"} /\ (outcome # "none" <=> stage = "exit")
          /\ \A f \in Forges : steady[f] \subseteq Hosted[f]
          /\ quiet \subseteq Forges /\ lacking \subseteq Forges /\ saved \in BOOLEAN
          /\ torn \subseteq {"list", "relist"} \X Forges

\* What a dry run says of a forge is what a run with the same options does to it, if
\* nothing fails and neither the forge nor its part of the tree changes in between: two
\* pieces of code that list, look and scan for themselves (cli.go:487-575 and run.go).
DryRunForetells ==
  stage = "ran" /\ clean /\ at \in quiet /\ plan[at].call = call /\ plan[at].prune = prune
    => lines = plan[at].lines

\* a file below a .metadata directory that onDiskPaths takes for a repository
Mistaken(n) ==
  /\ \E i \in DOMAIN n.at : HasSuffix(n.at[i], "metadata")
  /\ \/ HasSuffix(Last(n.at), "tar.gz") /\ call.beside
     \/ \E i \in DOMAIN n.at : HasSuffix(n.at[i], "git")

OnForge(n) == n.of.path \in steady[n.of.forge] /\ forge[n.of.forge][n.of.path] # "gone"

\* the listing that staleness is judged by may lack what is on the forge (run pruning_shift)
Judged == <<IF call.state = "all" THEN "list" ELSE "relist", at>>
Missed(p) == Judged \in torn /\ p \notin canonical

\* What a run removes, or writes over, belongs to the forge it is at and is gone from it; it
\* was asked for by a layer that no stronger one denies. The exceptions are metadata whose
\* names read as a mirror or as an archive (OnlyGoneRemoved), and a repository that the
\* StateAll listing lacks since another one left the list between two of its pages.
RemovalsAreRight ==
  [][\A n \in disk \ disk' :
       /\ n.of.forge = at
       /\ OnForge(n) => Mistaken(n) \/ Missed(n.of.path)
       /\ call.prune # "no" /\ (call.prune = "unset" => call.env # "no")]_vars

\* Nothing left the forge's list while a listing of it was read that can hide a repository
\* from the run, or give its copies to prune.
Whole(f) == <<"list", f>> \notin torn /\ (prune => <<"relist", f>> \notin torn)

\* A run that ends well and in which nothing failed has the repositories of every selected
\* forge, each forge's own, with the archives and assets it was asked for: none of the
\* forges was passed over, and no later one took an earlier one's away. A forge whose list
\* something left while it was read is the exception: there a repository may be passed
\* over, or be mirrored and then pruned.
BackedUp ==
  outcome = "ok" /\ call.cmd = "run" /\ ~call.dry /\ clean =>
    \A f \in 1..loaded : \A p \in steady[f] :
      LET s == forge[f][p]
      IN  Selected(f) /\ Whole(f) /\ s \in {"active", "archived"} /\ WantsState(s)
            => \A n \in Copies(f, p, s) : n \in disk \/ Mistaken(n)

\* No forge is sent a request while a token of the file, a forge's that is not selected
\* included, is missing: "Failing before touching the network beats a 401 partway through a
\* run" (internal/backup/config.go:75-76).
TokensFirst == contacted # {} => lacking = {}

\* A configuration the user wrote is replaced only if they said --force, or saved it in
\* between config init's look and its write; one they save while the prompt waits is safe.
UserConfigKept == [][config.what = "mine" /\ config'.what # "mine" => Forced \/ saved]_vars

\* "deletes a mirror (and its .tar.gz, if archived) once its repository no longer appears on
\* the forge at all" (docs/flags.md:51-53): nothing else is deleted.
OnlyGoneRemoved == [][\A n \in disk \ disk' : ~OnForge(n)]_vars
=============================================================================
