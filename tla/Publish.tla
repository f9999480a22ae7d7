------------------------------ MODULE Publish ------------------------------
(***************************************************************************)
(* From the push and commit attributes of the steps to the registry: the   *)
(* default tag (config/loader.py), the validation of the tags              *)
(* (config/validation.py, config/models.py), the tags that the tasks set   *)
(* and register and the scans they wait for (steprunner/tasks/push.py),    *)
(* and the push phase (BuildRunner.run, MultiplatformImageBuilder.push).   *)
(*                                                                         *)
(* There is one repository.  The configuration may spell it as it is, with *)
(* upper case letters, or with a tag of its own, and all of these are the  *)
(* same to the push task but not to the validation.  A reference is thus a *)
(* tag; an image is the step that made it with the form that is tagged: of *)
(* its build the manifest of "all" platforms or the "one" image that       *)
(* docker has, or what its run has left in the "end".                      *)
(***************************************************************************)
EXTENDS Integers, SequencesExt

CONSTANTS
  NSteps,     \* the number of steps that have such an attribute, if there are so many
  MaxEntries, \* bound on the entries of all push and commit attributes
  MaxTags,    \* bound on the tags of all entries
  Spellings,  \* the ways to write the repository, of "plain", "upper" and "inline"
  MaxScore,   \* the largest score of a scan
  ScanEnabled, ScanThreshold \* security_scan of the global configuration; 0: no threshold

ASSUME PublishAssumption ==
  /\ NSteps \in Nat /\ MaxEntries \in Nat /\ MaxTags \in Nat /\ MaxScore \in Nat
  /\ Spellings \subseteq {"plain", "upper", "inline"}
  /\ ScanEnabled \in BOOLEAN /\ ScanThreshold \in 0..MaxScore

OwnTag == "own"
BuildTag == "build"
Refs == {OwnTag, BuildTag}
Steps == 1..NSteps
Platforms == {"native", "foreign"}
Unset == -1
None == <<0, "none">>
Images == {None} \cup (Steps \X {"all", "one", "end"})
Verdicts == {"none", "off", "passed", "failed"}

\* "platforms": the build names platforms; "buildx": it does not, but is not left to the
\* legacy builder either; "buildxRun": such a build and a run; "docker": a build of the
\* legacy builder, an import too; "run": a run, with such a build or none; "xfail": such a
\* build and a run that fails and is excused.
Kinds == {"platforms", "buildx", "buildxRun", "docker", "run", "xfail"}
Tasks == {"push", "commit"}
Entries == [step : Steps, task : Tasks, repository : Spellings,
            tags : {<<>>, <<OwnTag>>, <<BuildTag>>, <<OwnTag, BuildTag>>}]

VARIABLES
  kind,       \* of each step
  entries,    \* of the push and commit attributes, in the order in which they run
  phase,
  at,         \* the entry that is being worked at
  scores,     \* history: the scores of the images that the scan of each entry went by
  limit,      \* history: the threshold that the scan of each entry had, 0 for none
  verdict,    \* history: what came of the scan of each entry
  local,      \* the image that docker has under each reference
  tagged,     \* tagged_images of the built images: pairs of a step and a reference
  registered, \* repo_tags_to_push
  sent,       \* the number of uploads made
  registry    \* the image that the remote repository has under each reference

config == <<kind, entries>>
scanning == <<scores, limit, verdict>>
uploading == <<sent, registry>>
vars == <<kind, entries, phase, at, scores, limit, verdict, local, tagged, registered,
          sent, registry>>

TypeOK ==
  /\ kind \in [Steps -> Kinds]
  /\ entries \in Seq(Entries) /\ Len(entries) <= MaxEntries
  /\ phase \in {"config", "rejected", "tag", "scan", "next", "push", "failed", "done"}
  /\ at \in 1..(Len(entries) + 1) /\ (phase \in {"scan", "next"} => at <= Len(entries))
  /\ scores \in [1..MaxEntries -> {<<>>} \cup [Platforms -> 0..MaxScore] \cup [{"native"} -> 0..MaxScore]]
  /\ limit \in [1..MaxEntries -> 0..MaxScore] /\ verdict \in [1..MaxEntries -> Verdicts]
  /\ local \in [Refs -> Images] /\ registry \in [Refs -> Images]
  /\ tagged \in Seq(Steps \X Refs)
  /\ registered \in Seq(Refs)
  /\ sent \in 0..(Len(tagged) + Len(registered))

Init ==
  /\ kind \in [Steps -> Kinds] /\ entries = <<>>
  /\ phase = "config" /\ at = 1
  /\ scores = [i \in 1..MaxEntries |-> <<>>]
  /\ limit = [i \in 1..MaxEntries |-> 0] /\ verdict = [i \in 1..MaxEntries |-> "none"]
  /\ local = [r \in Refs |-> None] /\ registry = [r \in Refs |-> None]
  /\ tagged = <<>> /\ registered = <<>> /\ sent = 0

-----------------------------------------------------------------------------
(* The configuration. *)

\* The build tag is added to the tags of an entry that does not disable it.
WithBuildTag(tags, addBuildTag) ==
  IF addBuildTag /\ ~Contains(tags, BuildTag) THEN Append(tags, BuildTag) ELSE tags

\* The entries of a step run in order, those of push before those of commit.
RunsAfter(step, task, entry) ==
  \/ step > entry.step
  \/ step = entry.step /\ (task = "commit" \/ entry.task = "push")

TagsAdded(tags) == FoldLeft(LAMBDA n, entry : n + Len(entry.tags), Len(tags), entries)

AddEntry(step, task, repository, given, addBuildTag) ==
  /\ phase = "config" /\ Len(entries) < MaxEntries
  /\ TagsAdded(WithBuildTag(given, addBuildTag)) <= MaxTags
  /\ IF entries = <<>> THEN step = 1
     ELSE RunsAfter(step, task, Last(entries)) /\ step <= Last(entries).step + 1
  /\ entries' = Append(entries, [step |-> step, task |-> task, repository |-> repository,
                                 tags |-> WithBuildTag(given, addBuildTag)])
  /\ UNCHANGED <<kind, phase, at, scanning, local, tagged, registered, uploading>>

\* The references of an entry as they are written.
Written(entry) == {<<entry.repository, tag>> : tag \in ToSet(entry.tags)}

\* The step of an entry names platforms; what validation goes by.
IsMultiPlatform(entry) == kind[entry.step] = "platforms"

\* Mutant of DuplicateTag: only the steps with platforms are looked at.
DuplicateTagOfPlatforms(e, f) ==
  /\ e.task = "push" /\ f.task = "push"
  /\ IsMultiPlatform(e) /\ IsMultiPlatform(f)
  /\ Written(e) \cap Written(f) # {}

\* A tag pushed by a step with platforms must not be pushed by any other entry; commits
\* are not looked at, and tags are compared as they are written.
DuplicateTag(e, f) ==
  /\ e.task = "push" /\ f.task = "push"
  /\ IsMultiPlatform(e) \/ IsMultiPlatform(f)
  /\ Written(e) \cap Written(f) # {}

Valid ==
  /\ \A i \in DOMAIN entries : entries[i].tags # <<>>
  /\ \A i, j \in DOMAIN entries : i # j => ~DuplicateTag(entries[i], entries[j])

Validate ==
  /\ phase = "config" /\ entries # <<>>
  /\ phase' = IF Valid THEN "tag" ELSE "rejected"
  /\ UNCHANGED <<config, at, scanning, local, tagged, registered, uploading>>

-----------------------------------------------------------------------------
(* The push and commit tasks. *)

Entry == entries[at]

\* The tags of an entry once the tag in its repository is moved to the others.
TagsOf(entry) ==
  IF entry.repository = "inline" /\ ~Contains(entry.tags, OwnTag)
  THEN Append(entry.tags, OwnTag) ELSE entry.tags

\* The step has left a mp_built_image in the context, which goes before all others.
Built(step) == kind[step] \in {"platforms", "buildx", "buildxRun"}

\* Mutant of ImageToUse: the image of the build, although there was a run.
ImageOfBuild(step) == <<step, "one">>

\* The image that docker has of a step: what the run has left, if it has succeeded, else
\* the image of the build.
ImageToUse(step) == <<step, IF kind[step] = "run" THEN "end" ELSE "one">>

Working == at <= Len(entries)

\* The tags are added to the built image; they are set in docker at the end of the task.
TagBuiltImage ==
  /\ phase = "tag" /\ Working /\ Built(Entry.step)
  /\ tagged' = tagged \o [k \in DOMAIN TagsOf(Entry) |-> <<Entry.step, TagsOf(Entry)[k]>>]
  /\ phase' = IF Entry.task = "push" THEN "scan" ELSE "next"
  /\ UNCHANGED <<config, at, scanning, local, registered, uploading>>

\* The image is tagged in docker, and the tags of a push are registered before its scan.
TagImage ==
  /\ phase = "tag" /\ Working /\ ~Built(Entry.step)
  /\ local' = [r \in Refs |-> IF Contains(TagsOf(Entry), r) THEN ImageToUse(Entry.step)
                                                            ELSE local[r]]
  /\ IF Entry.task = "push"
     THEN phase' = "scan" /\ registered' = registered \o TagsOf(Entry)
     ELSE phase' = "next" /\ UNCHANGED registered
  /\ UNCHANGED <<config, at, scanning, tagged, uploading>>

\* What a push sets in its security-scan replaces what the global configuration has.
MergeScanConfig(enabled, threshold) ==
  [enabled |-> IF enabled = Unset THEN ScanEnabled ELSE enabled = 1,
   threshold |-> IF threshold = Unset THEN ScanThreshold ELSE threshold]

\* The images that the scan of an entry looks at: each of a built image's, or the local one.
Scanned(entry) == IF Built(entry.step) THEN Platforms ELSE {"native"}

\* Mutant of Blocks: the threshold itself is let through.
BlocksAbove(threshold, score) == threshold > 0 /\ score > threshold

Blocks(threshold, score) == threshold > 0 /\ score >= threshold

ScanGoesOn(v) == phase' = "next" /\ verdict' = [verdict EXCEPT ![at] = v]

\* Mutant of ScanFails: a scan that fails is logged.
ScanFailureLogged == ScanGoesOn("failed")

ScanFails == phase' = "failed" /\ verdict' = [verdict EXCEPT ![at] = "failed"]

\* A scan is made without a threshold too, but its scores then decide nothing.
ScanImages(threshold) ==
  \/ threshold = 0 /\ ScanGoesOn("passed") /\ UNCHANGED scores
  \/ threshold > 0 /\ \E found \in [Scanned(Entry) -> 0..MaxScore] :
       /\ scores' = [scores EXCEPT ![at] = found]
       /\ IF \E p \in Scanned(Entry) : Blocks(threshold, found[p])
          THEN ScanFails ELSE ScanGoesOn("passed")

\* A scan that is enabled may not be possible.
Scan ==
  /\ phase = "scan"
  /\ \E enabled \in {Unset, 0, 1}, threshold \in {Unset} \cup 0..MaxScore :
       LET scan == MergeScanConfig(enabled, threshold) IN
       IF scan.enabled
       THEN /\ limit' = [limit EXCEPT ![at] = scan.threshold]
            /\ ScanImages(scan.threshold) \/ (ScanFails /\ UNCHANGED scores)
       ELSE ScanGoesOn("off") /\ UNCHANGED <<limit, scores>>
  /\ UNCHANGED <<config, at, local, tagged, registered, uploading>>

EndOfTask ==
  at < Len(entries) =>
    entries[at + 1].step # Entry.step \/ entries[at + 1].task # Entry.task

\* After the last entry of a task, the native image of a built image is tagged in docker
\* with all the tags that the image has so far.
NextEntry ==
  /\ phase = "next"
  /\ phase' = "tag" /\ at' = at + 1
  /\ local' = [r \in Refs |-> IF EndOfTask /\ Contains(tagged, <<Entry.step, r>>)
                              THEN <<Entry.step, "one">> ELSE local[r]]
  /\ UNCHANGED <<config, scanning, tagged, registered, uploading>>

\* A task fails otherwise: a tag that docker refuses, or whatever else a step does.
TaskFails ==
  /\ phase = "tag" \/ (phase = "next" /\ EndOfTask /\ Built(Entry.step))
  /\ phase' = "failed"
  /\ UNCHANGED <<config, at, scanning, local, tagged, registered, uploading>>

-----------------------------------------------------------------------------
(* The push phase. *)

BeginPush ==
  /\ phase = "tag" /\ ~Working
  /\ phase' = "push"
  /\ UNCHANGED <<config, at, scanning, local, tagged, registered, uploading>>

PlatformUploads == [k \in DOMAIN tagged |-> <<tagged[k][2], <<tagged[k][1], "all">>>>]
DockerUploads == [k \in DOMAIN registered |-> <<registered[k], local[registered[k]]>>]

\* Mutant of Uploads: what docker has is pushed first.
UploadsDockerFirst == DockerUploads \o PlatformUploads

\* The tags of built images, of commits too, and then the registered ones, which docker
\* resolves when it pushes them.
Uploads == PlatformUploads \o DockerUploads

\* Mutant of Upload: the push phase does not end after the last upload.
UploadOnceMore ==
  /\ phase = "push"
  /\ sent' = sent + 1
  /\ IF sent < Len(Uploads)
     THEN registry' = [registry EXCEPT ![Uploads[sent + 1][1]] = Uploads[sent + 1][2]]
     ELSE UNCHANGED registry
  /\ UNCHANGED <<config, phase, at, scanning, local, tagged, registered>>

Upload ==
  /\ phase = "push" /\ sent < Len(Uploads)
  /\ sent' = sent + 1
  /\ registry' = [registry EXCEPT ![Uploads[sent + 1][1]] = Uploads[sent + 1][2]]
  /\ UNCHANGED <<config, phase, at, scanning, local, tagged, registered>>

\* An upload fails: the rest is not tried, and what was uploaded stays.
UploadFails ==
  /\ phase = "push" /\ sent < Len(Uploads)
  /\ phase' = "failed"
  /\ UNCHANGED <<config, at, scanning, local, tagged, registered, uploading>>

EndPush ==
  /\ phase = "push" /\ sent = Len(Uploads)
  /\ phase' = "done"
  /\ UNCHANGED <<config, at, scanning, local, tagged, registered, uploading>>

Ended ==
  /\ phase \in {"rejected", "failed", "done"}
  /\ UNCHANGED vars

Next ==
  \/ \E step \in Steps, task \in Tasks, repository \in Spellings,
        given \in {<<>>, <<OwnTag>>}, addBuildTag \in BOOLEAN :
       AddEntry(step, task, repository, given, addBuildTag)
  \/ Validate
  \/ TagBuiltImage \/ TagImage \/ Scan \/ NextEntry \/ TaskFails
  \/ BeginPush \/ Upload \/ UploadFails \/ EndPush
  \/ Ended

Spec == Init /\ [][Next]_vars

-----------------------------------------------------------------------------
(* Properties. *)

Naming(ref) == {i \in DOMAIN entries : Contains(TagsOf(entries[i]), ref)}
PushedByDocker(i) == entries[i].task = "push" /\ ~Built(entries[i].step)

Pushing(ref) == {i \in Naming(ref) : entries[i].task = "push"}

HasRun(step) == kind[step] \in {"buildxRun", "run", "xfail"}

\* README.rst: a push stands for the end state of the run, if the step has one, else for the
\* image of the build; a commit is for later steps.  So a reference is that of the last push.
Documented(ref) ==
  IF Pushing(ref) = {} THEN None
  ELSE LET step == entries[Max(Pushing(ref))].step IN
       <<step, IF HasRun(step) THEN "end" ELSE IF Built(step) THEN "all" ELSE "one">>

\* Where the code departs from that.  The commit of a built image is pushed with its pushes
\* (push.py:344).  A push takes the image of the build although there is a run: a built
\* image goes before it (push.py:331), and a run that xfail excuses leaves nothing.  And
\* docker pushes what a later entry, a commit or a built image's, has tagged since.
CommitPushed(ref) ==
  \E i \in Naming(ref) : entries[i].task = "commit" /\ Built(entries[i].step)
EndStateIgnored(ref) ==
  \E i \in Pushing(ref) : kind[entries[i].step] \in {"buildxRun", "xfail"}
Retagged(ref) ==
  \E i, j \in Naming(ref) : i < j /\ PushedByDocker(i) /\ ~PushedByDocker(j)

\* There, the repository has what docker has of the last entry that names the reference, if
\* docker pushes it, and else the manifest of the last built image.
Departed(ref) ==
  IF \E i \in Naming(ref) : PushedByDocker(i)
  THEN ImageToUse(entries[Max(Naming(ref))].step)
  ELSE LET built == {i \in Naming(ref) : Built(entries[i].step)} IN
       IF built = {} THEN None ELSE <<entries[Max(built)].step, "all">>

\* When the push phase is over, each reference stands for the image that README.rst promises
\* or, in the three cases in which the code departs from it, for the one that is said above:
\* although tags are set twice, in docker and in the list of the built images, are
\* overwritten by later steps, and are resolved only when they are pushed.
PublishedImage ==
  phase = "done" =>
    \A ref \in Refs :
      registry[ref] = IF CommitPushed(ref) \/ EndStateIgnored(ref) \/ Retagged(ref)
                      THEN Departed(ref) ELSE Documented(ref)

PartsOf(image) == IF image[2] = "all" THEN Platforms ELSE {"native"}

\* What is uploaded under a reference comes after the scans (push.py, _security_scan) of all
\* pushes that name it, of which none failed or was left out.  It is below the threshold of
\* the pushes of its step on every platform.  And if no scan has passed it, a push that
\* scans nothing put it there or a commit, which docker pushes under another step's tag.
UploadsScanned ==
  \A ref \in Refs : registry[ref] # None =>
    LET image == registry[ref]
        own == {i \in Naming(ref) : entries[i].step = image[1]} IN
    /\ \A i \in Pushing(ref) : verdict[i] \in {"off", "passed"}
    /\ \A i \in own : verdict[i] = "passed" /\ limit[i] > 0 =>
         \A p \in PartsOf(image) : scores[i][p] < limit[i]
    /\ \E i \in own : verdict[i] \in {"off", "passed"} \/ entries[i].task = "commit"

\* Two entries name a reference in a way that validation does not see.
Hidden(e, f, ref) ==
  \/ e.task = "commit" \/ f.task = "commit"
  \/ e.repository # f.repository
  \/ ref \notin ToSet(e.tags) \/ ref \notin ToSet(f.tags)

\* Once the manifest of a step with platforms is in the repository, no other image of the
\* run takes its reference, unless another step names it in a way that validation
\* (validate_push) lets pass: in a commit, or in another spelling.
ManifestKept ==
  [][\A ref \in Refs :
       registry[ref] # None /\ kind[registry[ref][1]] = "platforms"
         /\ registry'[ref] # registry[ref]
       => \E i, j \in Naming(ref) :
            /\ entries[i].step = registry[ref][1] /\ entries[j].step # registry[ref][1]
            /\ Built(entries[j].step) \/ PushedByDocker(j)
            /\ Hidden(entries[i], entries[j], ref)]_vars
=============================================================================
