------------------------------ MODULE BuildRun ------------------------------
(***************************************************************************)
(* One run of a build: BuildRunner.run (src/buildrunner/__init__.py), the  *)
(* tasks of each of its steps (steprunner/__init__.py) and what the tasks  *)
(* leave for one another, for the push phase and for the final cleanup.    *)
(*                                                                         *)
(* The configuration is read only, so it is chosen as the run meets it:    *)
(* which steps are selected, which tasks a step has, which of them fail.   *)
(* A push or a commit names one repository with one tag.  The containers   *)
(* behind a task are in ContainerCleanup, the caches in CacheArchive.      *)
(***************************************************************************)
EXTENDS Naturals, Sequences

CONSTANTS
  NSteps,        \* the steps of the configuration
  Kinds,         \* the kinds of task each step may be configured with
  TaskErrors,    \* the errors a task may raise
  Images,        \* ids of the images the run may make, one of them each
  Elsewhere,     \* images the docker daemon may pull
  NoImage,       \* None
  RegistryImage  \* a reference into the registry of the multi-platform builds

Order == <<"remote", "build", "run", "push", "commit", "pypi-push">>
AllImages == Images \cup Elsewhere
AllKinds == {Order[i] : i \in DOMAIN Order}
Errors == {"processing", "config", "notFound", "other"}
BuildRunnerErrors == {"processing", "config"}

ASSUME BuildRunAssumption ==
  /\ NSteps \in Nat
  /\ Kinds \in [1..NSteps -> SUBSET AllKinds]
  /\ TaskErrors \subseteq Errors
  /\ Images \cap Elsewhere = {}
  /\ {NoImage, RegistryImage} \cap (Images \cup Elsewhere) = {}
  /\ RegistryImage # NoImage

VARIABLES
  opts,       \* --push, --cleanup-images and use-legacy-builder
  phase,      \* where the run is
  step,       \* the step it is at
  pos,        \* the last entry of TASK_MAPPINGS the step has looked at
  tasks,      \* _tasks: the kinds of the tasks the step has constructed
  ctx,        \* _context, and what the step's configuration says of it
  err,        \* the exception being propagated or handled
  exitCode,   \* exit_code, where 0 is None; at last the status of the process
  archive,    \* the file of the source archive: _source_archive names it once it is filled
  source,     \* the source image exists
  generated,  \* generated_images
  removed,    \* removed_images
  mpTags,     \* the tagged images of the multi-platform builds, in order
  toPush,     \* repo_tags_to_push
  packages,   \* pypi_packages
  pushed,     \* what the push phase has pushed so far
  left,       \* how much the running loop of a cleanup has left to do
  local,      \* the docker daemon: the images it holds,
  ancestors,  \*   the images each image there has been is built on,
  built,      \*   the images its build cache may return,
  tagged,     \*   the images that have a name (the code's committed_images)
  temp,       \*   and the one that has the temporary name of a post-build
  failures,   \* history: the failures of tasks, with the kind of each
  live,       \* history: tasks constructed and not yet cleaned up
  aborted,    \* history: err left the finally block of the run
  mishap      \* history: docker refused something for reasons of its own

plan == <<opts, step, pos, tasks>>
queue == <<mpTags, toPush, packages>>
docker == <<local, ancestors, built, tagged, temp>>
files == <<archive, source>>
images == <<generated, removed>>
history == <<failures, live, aborted, mishap>>
vars == <<opts, phase, step, pos, tasks, ctx, err, exitCode, archive, source,
          generated, removed, mpTags, toPush, packages, pushed, left, local,
          ancestors, built, tagged, temp, failures, live, aborted, mishap>>

Phases == {"open", "steps", "tasks", "task", "post", "clean", "push", "except",
           "finally", "source", "images", "files", "exited"}
Tags == (1..NSteps) \X {"push", "commit", "pypi-push"}

EmptyContext ==
  [mp |-> FALSE, image |-> NoImage, platforms |-> FALSE, runner |-> FALSE,
   base |-> NoImage, commit |-> NoImage, runImage |-> NoImage, xfail |-> FALSE]

TypeOK ==
  /\ opts \in [push : BOOLEAN, cleanup : BOOLEAN, legacy : BOOLEAN]
  /\ phase \in Phases
  /\ step \in 1..(NSteps + 1)
  /\ pos \in 0..Len(Order)
  /\ tasks \in Seq(AllKinds)
  /\ ctx \in [mp : BOOLEAN, image : Images \cup {NoImage, RegistryImage},
              platforms : BOOLEAN, runner : BOOLEAN, base : AllImages \cup {NoImage},
              commit : Images \cup {NoImage}, runImage : Images \cup {NoImage},
              xfail : BOOLEAN]
  /\ err \in Errors \cup {"none"}
  /\ exitCode \in {0, 1, 78}
  /\ archive \in {"none", "unnamed", "named"} /\ source \in BOOLEAN
  /\ generated \in Seq(AllImages) /\ removed \subseteq AllImages
  /\ mpTags \in Seq(Tags) /\ toPush \in Seq(Tags) /\ packages \in Seq(Tags)
  /\ pushed \in Seq(Tags)
  /\ left \in Nat
  /\ local \subseteq AllImages
  /\ DOMAIN ancestors \subseteq AllImages
  /\ ancestors \in [DOMAIN ancestors -> SUBSET AllImages]
  /\ built \subseteq Images /\ tagged \subseteq local
  /\ temp \in local \cup {NoImage}
  /\ failures \subseteq AllKinds \X Errors
  /\ live \subseteq (1..NSteps) \X AllKinds
  /\ aborted \in BOOLEAN /\ mishap \in BOOLEAN

Init ==
  /\ opts \in [push : BOOLEAN, cleanup : BOOLEAN, legacy : BOOLEAN]
  /\ phase = "open" /\ step = 1 /\ pos = 0 /\ tasks = <<>>
  /\ ctx = EmptyContext /\ err = "none" /\ exitCode = 0
  /\ archive = "none" /\ source = FALSE
  /\ generated = <<>> /\ removed = {}
  /\ mpTags = <<>> /\ toPush = <<>> /\ packages = <<>> /\ pushed = <<>>
  /\ left = 0
  /\ local = {} /\ ancestors = [i \in Elsewhere |-> {}]
  /\ built = {} /\ tagged = {} /\ temp = NoImage
  /\ failures = {} /\ live = {} /\ aborted = FALSE /\ mishap = FALSE

Kind == Order[pos]
InTask(k) == phase = "task" /\ Kind = k
-----------------------------------------------------------------------------
(* The docker daemon. *)

Line(base) == IF base = NoImage THEN {} ELSE {base} \cup ancestors[base]
Descendants(i) == {d \in local : i \in ancestors[d]}
Named(i) == i \in tagged \/ i = temp

\* What a Dockerfile or the image attribute of a run may name: nothing the
\* run deals with, an image from elsewhere, or one that an earlier step tagged.
Bases == {NoImage} \cup Elsewhere \cup tagged

\* A new image on base, which is pulled if need be.  Its id, which covers the time it was
\* made at, is not that of an image there has been.
Produce(i, base) ==
  /\ i \in Images \ DOMAIN ancestors
  /\ local' = local \cup {i} \cup ({base} \ {NoImage})
  /\ ancestors' = [d \in DOMAIN ancestors \cup {i} |->
                     IF d = i THEN Line(base) ELSE ancestors[d]]

\* A build may also return the image of an earlier one.
Build(i, base) ==
  \/ Produce(i, base) /\ built' = built \cup {i} /\ tagged' = tagged \cup ({base} \cap Elsewhere)
  \/ i \in built \cap local /\ ancestors[i] = Line(base)
     /\ UNCHANGED <<local, ancestors, tagged, built>>

\* Removing an image prunes the unnamed images that were only there for it.
Prunable(i) ==
  {a \in ancestors[i] : \A b \in {a} \cup (ancestors[i] \cap Descendants(a)) :
                           ~Named(b) /\ Descendants(b) \subseteq {i} \cup ancestors[i]}
Delete(i) ==
  /\ local' = local \ ({i} \cup Prunable(i))
  /\ tagged' = tagged \ {i}
  /\ temp' = IF temp = i THEN NoImage ELSE temp
  /\ UNCHANGED <<ancestors, built>>

-----------------------------------------------------------------------------
(* How a task ends. *)

\* Mutant of Excused: xfail shields every task of the step.
ExcusedTask(kind, e) == ctx.xfail /\ e \in BuildRunnerErrors

Excused(kind, e) == kind = "run" /\ ctx.xfail /\ e \in BuildRunnerErrors

NextTask == phase' = "tasks" /\ UNCHANGED <<err, left>>
Succeed == NextTask /\ UNCHANGED failures

Fail(e) == phase' = "clean" /\ err' = e /\ left' = Len(tasks)
Raise(kind, e) ==
  /\ failures' = failures \cup {<<kind, e>>}
  /\ IF Excused(kind, e) THEN NextTask ELSE Fail(e)

-----------------------------------------------------------------------------
(* The steps. *)

\* The multi-platform builder is left, whose __exit__ makes a client and stops the registry:
\* what that raises replaces the exception e.
Leave(e) == phase' = "except" /\ err' \in {e, "config", "other"}

\* The source archive is made first.  Its temporary file is not removed when tar fails, and
\* _source_archive is not set yet.
Open ==
  /\ phase = "open"
  /\ \/ archive' = "named" /\ phase' = "steps" /\ UNCHANGED err
     \/ archive' \in {"none", "unnamed"} /\ Leave("other")
  /\ UNCHANGED <<plan, ctx, exitCode, source, images, queue, pushed, left, docker, history>>

\* Mutant of SkipStep: the loop runs past the last step.
SkipStepAlways ==
  /\ phase = "steps"
  /\ step' = step + 1
  /\ UNCHANGED <<opts, phase, pos, tasks, ctx, err, exitCode, files, images, queue,
                 pushed, left, docker, history>>

\* steps_to_run, when it is given, leaves the step out.
SkipStep ==
  /\ phase = "steps" /\ step <= NSteps
  /\ step' = step + 1
  /\ UNCHANGED <<opts, phase, pos, tasks, ctx, err, exitCode, files, images, queue,
                 pushed, left, docker, history>>

\* The constructor of the step runner makes the results directory.
BeginStep ==
  /\ phase = "steps" /\ step <= NSteps
  /\ \/ phase' = "tasks" /\ UNCHANGED err
     \/ Leave("other")
  /\ UNCHANGED <<plan, ctx, exitCode, files, images, queue, pushed, left, docker, history>>

\* Entry p is the next one the step configures.
Constructible(p) == phase = "tasks" /\ p > pos /\ Order[p] \in Kinds[step]
Constructed(p) ==
  /\ Constructible(p)
  /\ phase' = "task" /\ pos' = p
  /\ tasks' = Append(tasks, Order[p])
  /\ live' = live \cup {<<step, Order[p]>>}

\* A step whose build names platforms may not have a run task.
ConstructTask(p) ==
  /\ Order[p] # "build"
  /\ Order[p] = "run" => ~ctx.platforms
  /\ Constructed(p)
  /\ \E xfail \in BOOLEAN :
       /\ xfail => Order[p] = "run"
       /\ ctx' = [ctx EXCEPT !.xfail = @ \/ xfail]
  /\ UNCHANGED <<opts, step, err, exitCode, files, images, queue, pushed, left,
                 docker, failures, aborted, mishap>>

\* A single-platform build first pulls the images of its cache_from.
ConstructBuild(p) ==
  /\ Order[p] = "build"
  /\ Constructed(p)
  /\ \/ \E platforms \in BOOLEAN :
          /\ ctx' = [ctx EXCEPT !.platforms = platforms]
          /\ UNCHANGED <<generated, docker>>
     \/ \E i \in Elsewhere :
          /\ local' = local \cup {i} /\ tagged' = tagged \cup {i}
          /\ generated' = Append(generated, i)
          /\ UNCHANGED <<ctx, ancestors, built, temp>>
  /\ UNCHANGED <<opts, step, err, exitCode, files, removed, queue, pushed, left,
                 failures, aborted, mishap>>

\* The task is not in _tasks yet, and xfail does not cover its constructor.
ConstructFails(p, e) ==
  /\ Constructible(p)
  /\ Fail(e)
  /\ failures' = failures \cup {<<Order[p], e>>}
  /\ UNCHANGED <<plan, ctx, exitCode, files, images, queue, pushed, docker,
                 live, aborted, mishap>>

\* A task raises before it has changed anything, a run after it may have had
\* the source image made, a post-build after it may have lost the image it
\* committed and could not name.
TaskFails(e) ==
  /\ phase \in {"task", "post"}
  /\ Raise(Kind, e)
  /\ source' \in {source, source \/ Kind = "run"}
  /\ mishap' \in {mishap, mishap \/ (phase = "post" /\ temp = NoImage)}
  /\ UNCHANGED <<plan, ctx, exitCode, archive, images, queue, pushed, docker,
                 live, aborted>>

-----------------------------------------------------------------------------
(* The tasks. *)

Remote ==
  /\ InTask("remote")
  /\ Succeed
  /\ UNCHANGED <<plan, ctx, exitCode, files, images, queue, pushed, docker,
                 live, aborted, mishap>>

\* With platforms, or without the legacy builder, the image goes to the
\* registry of the builds, and num_built_images counts it.
BuildMultiPlatform ==
  /\ InTask("build")
  /\ ctx.platforms \/ ~opts.legacy
  /\ Succeed
  /\ ctx' = [ctx EXCEPT !.mp = TRUE, !.image = RegistryImage]
  /\ UNCHANGED <<plan, exitCode, files, images, queue, pushed, docker,
                 live, aborted, mishap>>

BuildLegacy(i) ==
  /\ InTask("build")
  /\ ~ctx.platforms /\ opts.legacy
  /\ \E base \in Bases : Build(i, base)
  /\ Succeed
  /\ ctx' = [ctx EXCEPT !.image = i]
  /\ generated' = Append(generated, i)
  /\ UNCHANGED <<plan, exitCode, files, removed, queue, pushed, temp,
                 live, aborted, mishap>>

BuildImport(i) ==
  /\ InTask("build")
  /\ ~ctx.platforms
  /\ Produce(i, NoImage)
  /\ Succeed
  /\ ctx' = [ctx EXCEPT !.image = i]
  /\ UNCHANGED <<plan, exitCode, files, images, queue, pushed, built, tagged, temp,
                 live, aborted, mishap>>

\* The container ran and exited with 0; a post-build may follow.
Run ==
  /\ InTask("run")
  /\ \E base \in Bases \cup ({ctx.image} \cap Images) :
       /\ ctx' = [ctx EXCEPT !.runner = TRUE, !.base = base]
       /\ local' = local \cup ({base} \ {NoImage})
       /\ tagged' = tagged \cup ({base} \cap Elsewhere)
  /\ source' = TRUE
  /\ \/ Succeed
     \/ phase' = "post" /\ UNCHANGED <<err, left, failures>>
  /\ UNCHANGED <<plan, exitCode, archive, images, queue, pushed, ancestors, built, temp,
                 live, aborted, mishap>>

\* DockerRunner.commit, which makes the image once.
Commit(i) ==
  IF ctx.commit = NoImage THEN Produce(i, ctx.base)
                          ELSE i = ctx.commit /\ UNCHANGED <<local, ancestors>>

CommitForPostBuild(i) ==
  /\ phase = "post" /\ temp = NoImage
  /\ Commit(i)
  /\ ctx' = [ctx EXCEPT !.commit = i]
  /\ temp' = i
  /\ UNCHANGED <<plan, phase, err, exitCode, files, images, queue, pushed, left, built, tagged,
                 history>>

PostBuild(i) ==
  /\ phase = "post" /\ temp # NoImage
  /\ Build(i, temp)
  /\ Succeed
  /\ ctx' = [ctx EXCEPT !.runImage = i]
  /\ generated' = Append(generated, i)
  /\ UNCHANGED <<plan, exitCode, files, removed, queue, pushed, temp,
                 live, aborted, mishap>>

Tagging == phase = "task" /\ Kind \in {"push", "commit"}

\* Both tasks add a tagged image to the build; then the push task scans it,
\* and both name it for the native platform.
TagMultiPlatform ==
  /\ Tagging /\ ctx.mp
  /\ mpTags' = Append(mpTags, <<step, Kind>>)
  /\ Succeed \/ \E e \in {"processing", "other"} : Raise(Kind, e)
  /\ UNCHANGED <<plan, ctx, exitCode, files, images, toPush, packages, pushed, docker,
                 live, aborted, mishap>>

\* The post-build image, else what the run left, else the image of the build.
ImageToUse(i) ==
  IF ctx.runImage # NoImage \/ ~ctx.runner
  THEN /\ i = IF ctx.runImage # NoImage THEN ctx.runImage ELSE ctx.image
       /\ UNCHANGED <<ctx, local, ancestors>>
  ELSE /\ ctx' = [ctx EXCEPT !.commit = i]
       /\ Commit(i)

\* The image is to be cleaned up before it is tagged; the tag is to be pushed
\* before the image is scanned.
TagImage(i) ==
  /\ Tagging /\ ~ctx.mp
  /\ ImageToUse(i)
  /\ generated' = Append(generated, i)
  /\ \/ /\ tagged' = tagged \cup {i}
        /\ toPush' = IF Kind = "push" THEN Append(toPush, <<step, Kind>>) ELSE toPush
        /\ Succeed \/ \E e \in {"processing", "other"} : Kind = "push" /\ Raise(Kind, e)
     \/ Raise(Kind, "other") /\ UNCHANGED <<tagged, toPush>>
  /\ UNCHANGED <<plan, exitCode, files, removed, mpTags, packages, pushed, built, temp,
                 live, aborted, mishap>>

TagNothing ==
  /\ Tagging /\ ~ctx.mp /\ ~ctx.runner /\ ctx.image = NoImage
  /\ Raise(Kind, "processing")
  /\ UNCHANGED <<plan, ctx, exitCode, files, images, queue, pushed, docker,
                 live, aborted, mishap>>

\* The packages among the step's artifacts, if it has any.
PypiPush ==
  /\ InTask("pypi-push")
  /\ Succeed
  /\ \/ opts.push /\ packages' = Append(packages, <<step, Kind>>)
     \/ UNCHANGED packages
  /\ UNCHANGED <<plan, ctx, exitCode, files, images, mpTags, toPush, pushed, docker,
                 live, aborted, mishap>>

TasksDone ==
  /\ phase = "tasks"
  /\ phase' = "clean" /\ left' = Len(tasks)
  /\ UNCHANGED <<plan, ctx, err, exitCode, files, images, queue, pushed, docker, history>>
-----------------------------------------------------------------------------
(* The cleanup of a step. *)

Cleaning == Len(tasks) - left + 1

\* The last step of a run task's cleanup is to remove the temporary name of
\* its post-build, and with it an image that has no other use.
ReleaseTemp ==
  IF temp \notin tagged /\ Descendants(temp) = {}
  THEN Delete(temp)
  ELSE temp' = NoImage /\ UNCHANGED <<local, ancestors, built, tagged>>

\* Mutant of CleanTask: an exception ends the loop.
CleanTaskOrStop ==
  /\ phase = "clean" /\ left > 0
  /\ \/ left' = left - 1 /\ live' = live \ {<<step, tasks[Cleaning]>>}
     \/ left' = 0 /\ live' = live \ {<<step, tasks[Cleaning]>>}
  /\ UNCHANGED <<plan, phase, ctx, err, exitCode, files, images, queue, pushed, docker,
                 failures, aborted, mishap>>

\* A cleanup that raises is logged, and the loop goes on to the next task; one
\* of a run task may then not have reached the temporary name.
CleanTask ==
  /\ phase = "clean" /\ left > 0
  /\ left' = left - 1
  /\ live' = live \ {<<step, tasks[Cleaning]>>}
  /\ IF tasks[Cleaning] = "run" /\ temp # NoImage
     THEN \/ ReleaseTemp /\ UNCHANGED mishap
          \/ /\ tagged' = tagged \cup {temp} /\ temp' = NoImage /\ mishap' = TRUE
             /\ UNCHANGED <<local, ancestors, built>>
     ELSE UNCHANGED <<docker, mishap>>
  /\ UNCHANGED <<plan, phase, ctx, err, exitCode, files, images, queue, pushed,
                 failures, aborted>>

EndStep ==
  /\ phase = "clean" /\ left = 0
  /\ IF err = "none" THEN phase' = "steps" /\ step' = step + 1 /\ UNCHANGED err
                     ELSE Leave(err) /\ UNCHANGED step
  /\ pos' = 0 /\ tasks' = <<>> /\ ctx' = EmptyContext
  /\ UNCHANGED <<opts, exitCode, files, images, queue, pushed, left, docker, history>>

-----------------------------------------------------------------------------
(* The push phase, and the handlers of the run. *)

Queue == mpTags \o toPush \o packages

\* Without --push the builder is left at once.
Finalize ==
  /\ phase = "steps" /\ step = NSteps + 1
  /\ \/ phase' = (IF opts.push THEN "push" ELSE "finally") /\ UNCHANGED err
     \/ ~opts.push /\ \E e \in {"config", "other"} : Leave(e)
  /\ UNCHANGED <<plan, ctx, exitCode, files, images, queue, pushed, left, docker, history>>

PushNext ==
  /\ phase = "push" /\ Len(pushed) < Len(Queue)
  /\ pushed' = Append(pushed, Queue[Len(pushed) + 1])
  /\ UNCHANGED <<plan, phase, ctx, err, exitCode, files, images, queue, left, docker, history>>

\* A push that fails, the client or the uploader it needs, or at last the builder's __exit__.
PushFails(e) ==
  /\ phase = "push"
  /\ phase' = "except" /\ err' = e
  /\ UNCHANGED <<plan, ctx, exitCode, files, images, queue, pushed, left, docker, history>>

Pushed ==
  /\ phase = "push" /\ Len(pushed) = Len(Queue)
  /\ phase' = "finally"
  /\ UNCHANGED <<plan, ctx, err, exitCode, files, images, queue, pushed, left, docker, history>>

\* Mutant of Except: no handler for what is not a BuildRunnerError.
ExceptBuildRunnerError ==
  /\ phase = "except"
  /\ exitCode' = CASE err \in {"config", "notFound"} -> 78
                   [] err = "processing" -> 1
                   [] OTHER -> exitCode
  /\ phase' = "finally"
  /\ UNCHANGED <<plan, ctx, err, files, images, queue, pushed, left, docker, history>>

\* EX_CONFIG for a configuration error and for an image not found.
Except ==
  /\ phase = "except"
  /\ exitCode' = IF err \in {"config", "notFound"} THEN 78 ELSE 1
  /\ phase' = "finally"
  /\ UNCHANGED <<plan, ctx, err, files, images, queue, pushed, left, docker, history>>

-----------------------------------------------------------------------------
(* The finally block of the run: what raises in it skips the rest. *)

\* main catches a BuildRunnerConfigurationError; any other exception ends the interpreter.
Abort(e) ==
  /\ phase' = "exited" /\ aborted' = TRUE /\ err' = e
  /\ exitCode' = IF e = "config" THEN 78 ELSE 1
Continue(next) == phase' = next /\ UNCHANGED <<exitCode, aborted, err>>

\* The manifest of the artifacts is written and a client is made.
BeginFinally ==
  /\ phase = "finally"
  /\ Continue("source") \/ \E e \in {"config", "other"} : Abort(e)
  /\ UNCHANGED <<plan, ctx, files, images, queue, pushed, left, docker,
                 failures, live, mishap>>

\* Mutant of RemoveSourceImage: a build that failed keeps its source image.
RemoveSourceAfterSuccess ==
  /\ phase = "source"
  /\ source' = (source /\ exitCode # 0)
  /\ Continue("images")
  /\ left' = IF opts.cleanup THEN Len(generated) ELSE 0
  /\ UNCHANGED <<plan, ctx, archive, images, queue, pushed, docker, failures, live, mishap>>

\* Only ImageNotFound is caught.
RemoveSourceImage ==
  /\ phase = "source"
  /\ \/ /\ source' = FALSE
        /\ Continue("images")
        /\ left' = IF opts.cleanup THEN Len(generated) ELSE 0
     \/ source /\ Abort("other") /\ UNCHANGED <<source, left>>
  /\ UNCHANGED <<plan, ctx, archive, images, queue, pushed, docker, failures, live, mishap>>

\* Mutant of RemoveImage: from the first generated image to the last.
RemoveImageForward ==
  /\ phase = "images" /\ left > 0
  /\ left' = left - 1
  /\ LET i == generated[Len(generated) - left + 1] IN
       IF i \in local \ removed /\ Descendants(i) = {}
       THEN Delete(i) /\ removed' = removed \cup {i}
       ELSE UNCHANGED <<docker, removed>>
  /\ UNCHANGED <<plan, phase, ctx, err, exitCode, files, generated, queue, pushed, history>>

\* From the last generated image to the first.  An image with descendants
\* cannot be removed, not even by force; any exception is logged.
RemoveImage ==
  /\ phase = "images" /\ left > 0
  /\ left' = left - 1
  /\ LET i == generated[left] IN
       IF i \in local \ removed /\ Descendants(i) = {}
       THEN \/ Delete(i) /\ removed' = removed \cup {i} /\ UNCHANGED mishap
            \/ mishap' = TRUE /\ UNCHANGED <<docker, removed>>
       ELSE UNCHANGED <<docker, removed, mishap>>
  /\ UNCHANGED <<plan, phase, ctx, err, exitCode, files, generated, queue, pushed, failures, live,
                 aborted>>

\* The source archive, when it has a name, and the other temporary files.
RemoveFiles ==
  /\ phase = "images" /\ left = 0
  /\ \/ archive' = (IF archive = "named" THEN "none" ELSE archive) /\ Continue("exited")
     \/ Abort("other") /\ UNCHANGED archive
  /\ UNCHANGED <<plan, ctx, source, images, queue, pushed, left, docker,
                 failures, live, mishap>>

Exited == phase = "exited" /\ UNCHANGED vars

Task ==
  \/ Remote \/ BuildMultiPlatform \/ Run \/ TagMultiPlatform \/ TagNothing \/ PypiPush
  \/ \E i \in Images : BuildLegacy(i) \/ BuildImport(i) \/ CommitForPostBuild(i)
                         \/ PostBuild(i) \/ TagImage(i)
  \/ \E e \in TaskErrors : TaskFails(e)
Steps ==
  \/ Open \/ SkipStep \/ BeginStep
  \/ \E p \in DOMAIN Order :
       \/ ConstructTask(p) \/ ConstructBuild(p)
       \/ \E e \in {"config", "other"} : ConstructFails(p, e)
  \/ TasksDone \/ CleanTask \/ EndStep
Finish ==
  \/ Finalize \/ PushNext \/ Pushed \/ Except
  \/ \E e \in {"processing", "config", "other"} : PushFails(e)
  \/ BeginFinally \/ RemoveSourceImage \/ RemoveImage \/ RemoveFiles

Next == Task \/ Steps \/ Finish \/ Exited

Spec == Init /\ [][Next]_vars

-----------------------------------------------------------------------------
(* Properties. *)

\* Something is pushed only when no task of the run has failed but a run task
\* with xfail, and with an error xfail covers: the tags that a step registered
\* before a later task, a security scan or a later step failed stay unpushed.
NothingPushedAfterFailure ==
  pushed # <<>> => \A f \in failures : f[1] = "run" /\ f[2] \in BuildRunnerErrors

\* Every task that was constructed is cleaned up before the next step or the
\* end of the run begins, whatever failed, cleanups of its step included.
TasksCleanedUp == phase \notin {"tasks", "task", "post", "clean"} => live = {}

\* The status of the process is 0 only if nothing failed but what xfail covers, and then all
\* that was to be pushed is; it is EX_CONFIG when the last exception is an error in the
\* configuration, wherever it was raised, or an image that was not there.  A run task with
\* xfail that succeeds counts as a success, against README.rst:489-491.
ExitCodeFaithful ==
  phase = "exited" =>
    /\ exitCode = 0 =>
         /\ err = "none"
         /\ \A f \in failures : f[1] = "run" /\ f[2] \in BuildRunnerErrors
         /\ opts.push => pushed = Queue
    /\ exitCode = 78 <=> err \in {"config", "notFound"}
    /\ err # "none" => exitCode # 0

\* With --cleanup-images, no image the run made and listed outlives it unless
\* docker refused a call for its own reasons: going backwards over the list,
\* the last attempt at an image comes after those at what was built on it,
\* however often it was listed.  (An image pulled for cache_from may be listed
\* after what was built on it, and stays.)
GeneratedImagesRemoved ==
  phase = "exited" /\ opts.cleanup /\ ~aborted /\ ~mishap =>
    \A n \in DOMAIN generated : generated[n] \in Images => generated[n] \notin local

\* The source image outlives the run only when an exception left its finally block, and so
\* does the source archive, but for one that could not be filled: the file that tar left then
\* stays for good, in a run that failed before it had done anything else.
TemporariesRemoved ==
  phase = "exited" /\ ~aborted =>
    /\ ~source
    /\ archive = "none" \/ (archive = "unnamed" /\ exitCode # 0 /\ step = 1 /\ failures = {})

-----------------------------------------------------------------------------
(* What the documentation says and the code does not do. *)

\* README.rst: "The 'commit' attribute is used to tag the image to be used in
\* later steps, while the 'push' attribute is used to tag the image and push
\* it."
CommitStaysLocal == \A n \in DOMAIN pushed : pushed[n][2] # "commit"
=============================================================================
