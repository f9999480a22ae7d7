----------------------------- MODULE ConfigLoad -----------------------------
(***************************************************************************)
(* The loading of the configuration (src/buildrunner/config/): the global  *)
(* files, each behind a chain of redirects, are scrubbed and merged in     *)
(* their order and under the options of the command line; then the run     *)
(* file is fetched, its version checked and its steps put in the order of  *)
(* their dependencies.                                                     *)
(*                                                                         *)
(* What a file renders to is chosen when it is fetched: the template may   *)
(* depend on the environment and on the files read before.  A value is     *)
(* told by the source it comes from.                                       *)
(***************************************************************************)
EXTENDS Naturals, SequencesExt

CONSTANTS
  NGlobal,    \* the global files, the first of them the master
  NShared,    \* files that are only reached by a redirect
  ScanKeys,   \* keys of the section "security-scan"
  Aliases,    \* keys of the section "local-files"
  NSteps,     \* bound on the steps of the run file
  MaxDepends  \* bound on the dependencies of a step

ASSUME ConfigLoadAssumption ==
  /\ NGlobal \in Nat \ {0}
  /\ {NShared, NSteps, MaxDepends} \subseteq Nat
  /\ ScanKeys \cap Aliases = {}

Master == 1
RunFile == NGlobal + 1
Files == 1..(RunFile + NShared)
Overrides == NGlobal + 1  \* as a source: the command line
Sources == 1..Overrides

Keys == [scan |-> ScanKeys, local |-> Aliases]
Sections == DOMAIN Keys

\* A path of local-files may be the user's own, one the user may not mount, or one that
\* lies outside the home directory and does not exist.
Paths == {"own", "foreign", "missing"}
Values == [scan |-> {"given"}, local |-> Paths]

\* What a file says of a section: nothing, null, or a dictionary.
Absent(s) == [kind |-> "absent", at |-> [k \in Keys[s] |-> "none"]]
Null(s) == [Absent(s) EXCEPT !.kind = "null"]
Mentions(s) ==
  {Absent(s), Null(s)} \cup [kind : {"dict"}, at : [Keys[s] -> Values[s] \cup {"none"}]]
Contents == [scan : Mentions("scan"), local : Mentions("local")]
Nothing == [scan |-> Absent("scan"), local |-> Absent("local")]

Names == 1..(NSteps + 1)  \* of steps; those above the number of steps are defined nowhere
Independent == [has |-> FALSE, on |-> << >>]
Depends == {Independent} \cup
  [has : {TRUE}, on : {s \in BoundedSeq(Names, MaxDepends) : IsInjective(s)}]
Versions == {"none", "word", "quoted", "old", "new", "future"}
Unread == [version |-> "none", steps |-> 0, depends |-> << >>]

VARIABLES
  phase,    \* where the loading is
  next,     \* the global file that is loaded, or is next
  url,      \* fetch_file
  visited,  \* the files of the chain of redirects
  context,  \* the merged sections, with the source of each value
  run,      \* the run file: its version, its steps, and what those that were looked at depend on
  ready,    \* the nodes the sorter has ready
  waiting,  \* the predecessors each node waits for
  order,    \* ordered_steps, and at last the steps
  read      \* history: what each source said

chain == <<url, visited>>
sorter == <<ready, waiting>>
vars == <<phase, next, url, visited, context, run, ready, waiting, order, read>>

Phases == {"files", "fetch", "overrides", "global", "fetchRun", "version", "order",
           "sort", "run", "requested", "done", "failed"}

TypeOK ==
  /\ phase \in Phases
  /\ next \in 1..(NGlobal + 1)
  /\ url \in Files /\ visited \subseteq Files
  /\ \A s \in Sections :
       /\ context[s].kind \in {"absent", "null", "dict"}
       /\ context[s].at \in [Keys[s] -> Values[s] \cup {"none"}]
       /\ context[s].from \in [Keys[s] -> Sources \cup {0}]
  /\ run.version \in Versions /\ run.steps \in 0..NSteps
  /\ run.depends \in Seq(Depends) /\ Len(run.depends) <= run.steps
  /\ ready \in Seq(Names)
  /\ waiting \in [Names -> 0..MaxDepends]
  /\ order \in Seq(1..NSteps) /\ Len(order) <= NSteps
  /\ read \in [Sources -> Contents]

Empty(s) == [kind |-> "absent", at |-> [k \in Keys[s] |-> "none"],
             from |-> [k \in Keys[s] |-> 0]]

Init ==
  /\ phase = "files" /\ next = 1
  /\ url = Master /\ visited = {}
  /\ context = [s \in Sections |-> Empty(s)]
  /\ run = Unread
  /\ ready = << >> /\ waiting = [n \in Names |-> 0] /\ order = << >>
  /\ read = [i \in Sources |-> Nothing]

Fail == phase' = "failed" /\ UNCHANGED <<next, chain, context, run, sorter, order, read>>

-----------------------------------------------------------------------------
(* The global files. *)

\* An entry of local-files that is not the user's own is dropped.
ScrubLocalFiles(mention) ==
  [kind |-> "dict",
   at |-> [a \in Aliases |-> IF mention.at[a] = "own" THEN "own" ELSE "none"]]

\* The master keeps its local-files; those of any other file are scrubbed, and always a
\* dictionary afterwards.
Scrub(i, content) ==
  IF i = Master THEN content
  ELSE [content EXCEPT !.local = ScrubLocalFiles(content.local)]

\* A section that is null has no items, and a path that does not exist cannot be looked at.
ScrubRaises(i, content) ==
  /\ i # Master
  /\ \/ content.local.kind = "null"
     \/ \E a \in Aliases : content.local.at[a] = "missing"

Given(s, b, i) ==
  [kind |-> b.kind, at |-> b.at,
   from |-> [k \in Keys[s] |-> IF b.at[k] = "none" THEN 0 ELSE i]]

\* Mutant of Merge: a key that is there already stays as it is.
MergeFirstWins(s, a, b, i) ==
  CASE b.kind = "absent" -> a
    [] a.kind = "dict" /\ b.kind = "dict" ->
         [kind |-> "dict",
          at |-> [k \in Keys[s] |-> IF a.at[k] = "none" THEN b.at[k] ELSE a.at[k]],
          from |-> [k \in Keys[s] |->
                      IF a.at[k] = "none" /\ b.at[k] # "none" THEN i ELSE a.from[k]]]
    [] OTHER -> Given(s, b, i)

\* Two dictionaries are merged key by key, anything else is replaced.
Merge(s, a, b, i) ==
  CASE b.kind = "absent" -> a
    [] a.kind = "dict" /\ b.kind = "dict" ->
         [kind |-> "dict",
          at |-> [k \in Keys[s] |-> IF b.at[k] = "none" THEN a.at[k] ELSE b.at[k]],
          from |-> [k \in Keys[s] |-> IF b.at[k] = "none" THEN a.from[k] ELSE i]]
    [] OTHER -> Given(s, b, i)

DeepMergeDicts(content, i) ==
  context' = [s \in Sections |-> Merge(s, context[s], content[s], i)]

\* Mutant of SkipFile: the files are counted from zero.
SkipFileUnbounded ==
  /\ phase = "files"
  /\ next' = next + 1
  /\ UNCHANGED <<phase, chain, context, run, sorter, order, read>>

\* A file that does not exist is passed over.
SkipFile ==
  /\ phase = "files" /\ next <= NGlobal
  /\ next' = next + 1
  /\ UNCHANGED <<phase, chain, context, run, sorter, order, read>>

BeginFile ==
  /\ phase = "files" /\ next <= NGlobal
  /\ phase' = "fetch" /\ url' = next /\ visited' = {}
  /\ UNCHANGED <<next, context, run, sorter, order, read>>

ReadFile ==
  /\ phase = "fetch"
  /\ \E content \in Contents :
       IF ScrubRaises(next, content) THEN Fail
       ELSE /\ phase' = "files" /\ next' = next + 1
            /\ url' = Master /\ visited' = {}
            /\ DeepMergeDicts(Scrub(next, content), next)
            /\ read' = [read EXCEPT ![next] = content]
            /\ UNCHANGED <<run, sorter, order>>

FilesRead ==
  /\ phase = "files" /\ next > NGlobal
  /\ phase' = "overrides"
  /\ UNCHANGED <<next, chain, context, run, sorter, order, read>>

\* The command line gives keys of the security scan, or nothing.
Options == {Nothing} \cup
  {[Nothing EXCEPT !.scan = m] : m \in {d \in Mentions("scan") : "given" \in Range(d.at)}}

MergeOverrides ==
  /\ phase = "overrides"
  /\ \E content \in Options :
       /\ phase' = "global"
       /\ DeepMergeDicts(content, Overrides)
       /\ read' = [read EXCEPT ![Overrides] = content]
       /\ UNCHANGED <<next, chain, run, sorter, order>>

\* The merged dictionary becomes a GlobalConfig, which must have a security scan and nothing
\* of the wrong type; from here on nobody changes it.
ValidateGlobal ==
  /\ phase = "global"
  /\ \/ Fail
     \/ /\ context.scan.kind # "null"
        /\ phase' \in {"fetchRun", "done"}  \* some commands need no run file
        /\ url' = RunFile /\ visited' = {}
        /\ context' = [s \in Sections |-> Empty(s)]
        /\ read' = [i \in Sources |-> Nothing]
        /\ UNCHANGED <<next, run, sorter, order>>

-----------------------------------------------------------------------------
(* The chain of redirects behind a file. *)

\* Mutant of Visit: only the file itself is remembered.
VisitFirst == IF visited = {} THEN {url} ELSE visited

Visit == visited \cup {url}

\* The file has a redirect: all else in it is ignored.
Redirect ==
  /\ phase \in {"fetch", "fetchRun"}
  /\ \E target \in Files :
       IF target \in Visit THEN Fail
       ELSE /\ visited' = Visit /\ url' = target
            /\ UNCHANGED <<phase, next, context, run, sorter, order, read>>

\* The file cannot be fetched, or is no template that renders to YAML.
FetchFails == phase \in {"fetch", "fetchRun"} /\ Fail

-----------------------------------------------------------------------------
(* The run file. *)

ReadRunFile ==
  /\ phase = "fetchRun"
  /\ phase' = "version"
  /\ url' = Master /\ visited' = {}
  /\ \E n \in 0..NSteps, version \in Versions :
       /\ run' = [version |-> version, steps |-> n, depends |-> << >>]
       /\ order' = [i \in 1..n |-> i]
  /\ UNCHANGED <<next, context, sorter, read>>

ValidateVersion ==
  /\ phase = "version"
  /\ IF run.version \in {"future", "word"} THEN Fail
     ELSE /\ phase' = "order"
          /\ UNCHANGED <<next, chain, context, run, sorter, order, read>>

\* The sorter learns of a step with its dependencies in their order; one with an empty list
\* of them is not added.
Adds(i) ==
  LET d == run.depends[i]
  IN  IF d.has /\ d.on = << >> THEN << >> ELSE <<i>> \o d.on

\* The elements of S in the order of their ranks.
Ranked(S, rank) ==
  CHOOSE s \in SetToSeqs(S) : \A i, j \in DOMAIN s : i < j => rank[s[i]] <= rank[s[j]]

Nodes == UNION {ToSet(Adds(i)) : i \in DOMAIN run.depends}

\* The place at which the file first names a node.
FirstNamed(n) ==
  LET i == Min({j \in DOMAIN run.depends : n \in ToSet(Adds(j))})
  IN  (MaxDepends + 1) * i + Min({j \in DOMAIN Adds(i) : Adds(i)[j] = n})

DependsOn(i, d) == i \in DOMAIN run.depends /\ d \in ToSet(run.depends[i].on)
InCycle(C) == \A i \in C : \E d \in C : DependsOn(i, d)
HasCycle == \E C \in SUBSET Nodes : C # {} /\ InCycle(C)

\* The next step of the file is looked at.
AddStep ==
  /\ phase = "order" /\ run.version \in {"none", "old", "new"} /\ Len(run.depends) < run.steps
  /\ \E d \in Depends : run' = [run EXCEPT !.depends = Append(@, d)]
  /\ UNCHANGED <<phase, next, chain, context, sorter, order, read>>

\* Mutant of Predecessors: each call of add starts to count anew.
PredecessorsOnce(n) ==
  IF n \in DOMAIN run.depends /\ run.depends[n].on # << >> THEN 1 ELSE 0

\* What a node waits for; each call of add counts another one.
Predecessors(n) == IF n \in DOMAIN run.depends THEN Len(run.depends[n].on) ELSE 0

\* A version below 2.0, or none, leaves the steps as they are, whatever they depend on.
KeepOrder ==
  /\ phase = "order" /\ run.version \in {"none", "old"} /\ Len(run.depends) = run.steps
  /\ phase' = "run"
  /\ UNCHANGED <<next, chain, context, run, sorter, order, read>>

\* A number in quotes passed the check of the version and cannot be compared here.
VersionNotComparable == phase = "order" /\ run.version = "quoted" /\ Fail

BeginSort ==
  /\ phase = "order" /\ run.version = "new" /\ Len(run.depends) = run.steps
  /\ IF HasCycle THEN Fail
     ELSE /\ phase' = "sort"
          /\ waiting' = [n \in Names |-> Predecessors(n)]
          /\ ready' = Ranked({n \in Nodes : waiting'[n] = 0}, [n \in Nodes |-> FirstNamed(n)])
          /\ order' = << >>
          /\ UNCHANGED <<next, chain, context, run, read>>

\* The places of the nodes that are done and release a node.
Releasing(n) == {i \in DOMAIN ready : DependsOn(n, ready[i])}
Released(n) == Cardinality(Releasing(n))

\* The nodes that wait for none but those, each after the last of them that releases it, and
\* in the order of the file those that the same one releases.
NextReady ==
  LET free == {n \in Names : Releasing(n) # {} /\ waiting[n] = Released(n)}
  IN  Ranked(free, [n \in free |-> (NSteps + 2) * Max(Releasing(n)) + n])

\* The ready nodes are placed as a group; then they are done.
PlaceReady ==
  /\ phase = "sort" /\ ready # << >>
  /\ IF ToSet(ready) \subseteq DOMAIN run.depends
     THEN /\ order' = order \o ready
          /\ ready' = NextReady
          /\ waiting' = [n \in Names |-> waiting[n] - Released(n)]
          /\ UNCHANGED <<phase, next, chain, context, run, read>>
     ELSE Fail  \* one of them is not defined

EndSort ==
  /\ phase = "sort" /\ ready = << >>
  /\ phase' = "run"
  /\ UNCHANGED <<next, chain, context, run, sorter, order, read>>

\* A Config needs steps, and nothing else that is wrong.
ValidateRun ==
  /\ phase = "run"
  /\ \/ Fail
     \/ /\ order # << >>
        /\ phase' = "requested"
        /\ UNCHANGED <<next, chain, context, run, sorter, order, read>>

\* The steps named on the command line must be among them.
CheckRequested ==
  /\ phase = "requested"
  /\ \E steps \in SUBSET Names :
       IF steps \subseteq ToSet(order)
       THEN /\ phase' = "done"
            /\ UNCHANGED <<next, chain, context, run, sorter, order, read>>
       ELSE Fail

-----------------------------------------------------------------------------
Load ==
  \/ SkipFile \/ BeginFile \/ ReadFile \/ FilesRead \/ MergeOverrides \/ ValidateGlobal
  \/ Redirect \/ FetchFails
  \/ ReadRunFile \/ ValidateVersion
  \/ KeepOrder \/ VersionNotComparable \/ AddStep \/ BeginSort \/ PlaceReady \/ EndSort
  \/ ValidateRun \/ CheckRequested

Stopped == phase \in {"done", "failed"} /\ UNCHANGED vars

Next == Load \/ Stopped
Spec == Init /\ [][Next]_vars
FairSpec == Spec /\ WF_vars(Load)

-----------------------------------------------------------------------------
(* Properties. *)

\* The source whose value counts: the last that may give one, unless a later source has the
\* section as null.
Permitted(i, s, k) ==
  LET value == read[i][s].at[k] IN value # "none" /\ (value \in {"foreign", "missing"} => i = Master)
LastGiven(s, k) ==
  Max({0} \cup {i \in Sources : /\ Permitted(i, s, k)
                               /\ \A j \in Sources : j > i => read[j][s].kind # "null"})

\* Each value of the global configuration is that of the last source that gives it and may:
\* the command line over the files, a later file over an earlier one, key by key within a
\* section (_deep_merge_dicts), and a path of local-files that is not the user's own only
\* from the master file (load_global_config_files).  docs/global-configuration.rst has the
\* last file that has a section replace all of it.
LastMentionWins ==
  phase = "global" =>
    \A s \in Sections : \A k \in Keys[s] :
      LET i == LastGiven(s, k) IN
        /\ context[s].from[k] = i
        /\ context[s].at[k] = IF i = 0 THEN "none" ELSE read[i][s].at[k]

Before(x, y) ==
  \E i, j \in DOMAIN order : i < j /\ order[i] = x /\ order[j] = y

\* The configured steps are those of the file, each once, and in a file of version 2.0 or
\* higher each after the steps it depends on (README.rst, Steps Dependencies); a step is
\* lost only where its list of dependencies is empty and no step depends on it
\* (_reorder_dependency_steps).  In any other file they are as they were, although steps may
\* depend on others: where README.rst has an error.
StepsInOrder ==
  phase = "requested" =>
    /\ IF run.version = "new"
       THEN \A i \in ToSet(order) : \A d \in ToSet(run.depends[i].on) : Before(d, i)
       ELSE order = [i \in 1..run.steps |-> i]
    /\ IsInjective(order)
    /\ ToSet(order) = {i \in 1..run.steps :
         ~(/\ run.version = "new"
           /\ run.depends[i].has /\ run.depends[i].on = << >>
           /\ \A j \in DOMAIN run.depends : i \notin ToSet(run.depends[j].on))}

\* Loading ends, whatever redirects to what (_fetch_template).
LoadEnds == <>(phase \in {"done", "failed"})

=============================================================================
