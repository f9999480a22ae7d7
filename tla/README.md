# A TLA+ specification of buildrunner

buildrunner runs the steps of a build in Docker containers: it builds images,
runs commands in containers with injected sources, caches and services, tags
and pushes images, and cleans up after itself. This directory holds TLA+ models
of the parts of it whose correctness depends on order, failure and concurrency,
the TLC configurations that check them, and proofs of their main properties.

All paths below are relative to `src/`, source lines to the commit at hand.

## The system

| component | state it keeps | operations | hard behaviour | what makes it correct |
|---|---|---|---|---|
| Build run, `buildrunner/__init__.py` | images generated and removed, tags and packages to push, source archive and image, exit code | `run`: steps, push phase, handlers, finally block | a failure at any point, the order of the final removals, the exit code that is left | nothing is pushed after a failure, what the run made is removed, the exit status tells the truth |
| Step runner, `steprunner/__init__.py` | tasks of a step, the context they share | construct, run, excuse (xfail), clean up | failures of tasks, of constructors and of cleanups | every task is cleaned up once, xfail covers only what it should |
| Tasks, `steprunner/tasks/*.py` | the task's own resources, references in the context | `run`, `cleanup` | the choice of the image to tag, post-builds, partial effects | the image tagged is the step's result |
| Container registry, `cleanup.py` | ids of live containers, a client, a flag | register, unregister, sweep on exit and signal | a signal between any two steps of the main program | no container is left without a known cause |
| Docker runner, `docker/runner.py` | one container, its committed image | start, run, restore and save caches, commit, cleanup | refused removals, timeouts and retries | containers are removed, caches are whole |
| Cache archives, `utils.py`, `docker/runner.py` | files shared by all builds of a host, flocks | look up, restore, save, clean | several processes, truncation before locking, buffered writes, retries, killed processes | readers and writers exclude each other, a settled archive is whole |
| Docker daemon proxy, `docker/daemon.py` | one container | start, stop | start without registration | as for containers |
| SSH agent proxy, `sshagent/` | a container, an SSH connection, an agent with keys, a thread per channel | start with backoff, stop | channels opened and ended while the agent is closed, two threads that stop one channel | the stop ends, threads end, keys are forgotten |
| Multi-platform builder, `docker/multiplatform_image_builder.py` | a local registry, built images with tags, build threads and their queue | start and stop of the registry, parallel builds, push with retries | threads that fail, images that never report, retries of a push | every platform is built or the build fails, every tag is pushed or the run fails |
| Configuration, `config/` | merged global and run configuration | load, merge, reorder by `depends`, validate, fetch | order of steps, redirects, the precedence of sources | the values are those of the source that counts, the steps are those configured, each after its dependencies |
| Tags and uploads, `config/validation.py`, `tasks/push.py`, `__init__.py` | tags per step, tags to push, what docker and the registry have under them | default tags, validation, tagging, scans, uploads | one reference named by several steps in several spellings; a tag resolved long after its scan | each reference stands for the image the configuration promises, and none that a scan has stopped |
| Command line, loggers, provisioners, legacy builder, errors | little or none | - | - | - |

They interact by calls in one thread: the command line installs the signal
handlers, loads the configuration and calls `BuildRunner.run`, which makes a
`BuildStepRunner` for each step, which makes the tasks; tasks own
`DockerRunner`s and proxies, and register their containers. Concurrency comes
from five sides: signals interrupt the main thread; service containers and
multi-platform builds have threads; the SSH agent has a transport thread and a
thread per channel; build processes on one host share the cache directory; and
the Docker daemon answers as it likes.

## The modules

| module | models | checked by | proved in |
|---|---|---|---|
| `ContainerCleanup` | `cleanup.py` and the owners of containers | `cleanup` | `ContainerCleanupProofs` |
| `CacheArchive` | restore and save of one cache archive over file locks | `cache`, `cache_truncated` | `CacheArchiveProofs` |
| `BuildRun` (`MCBuildRun` gives its constants) | `BuildRunner.run`, `BuildStepRunner.run` and what tasks leave for one another | `build_run`, `build_commit` | `BuildRunProofs` |
| `MultiPlatformBuild` | `MultiplatformImageBuilder` and the tags its callers add | `multi_platform`, `push_retry` | `MultiPlatformBuildProofs` |
| `PlatformBuilds` | what that builder promises the steps of a build, abstractly | `multi_platform` (as `KeepsPromise`) | `MultiPlatformBuildProofs` |
| `RunTask` | one run task, from its constructor to `__del__` | `run_task`, `run_attach` | `RunTaskProofs` |
| `ConfigLoad` | the loading of the global files and of the run file | `config_load` | `ConfigLoadProofs` |
| `Publish` | tags from the configuration to the registry, over all steps | `publish` | `PublishProofs` |
| `SSHAgent` | the SSH agent, its connection and its threads | `ssh_agent` | `SSHAgentProofs` |

### ContainerCleanup

The containers a build may start are constants, by kind of owner: `Runners`
(`DockerRunner`, which raises a refused removal), `Proxies` (the daemon proxy,
the SSH agent and the source container, which swallow it) and `Registries` (the
registry of the multi-platform builder, created and started by one call, which
may fail half way: `RunRegistryFails`).
`daemon` is the Docker daemon's view; `registered`, `client` and `done` are the
globals of `cleanup.py`; `handle` says which owner still holds an id;
`inflight` and `removing` are the program counter inside a start and a removal.
`main` is the phase of the process: a `Signal` moves it to the handler, from
which it never returns, since the handler ends in `os._exit` on the main thread.
Every main step is an action, so a signal falls between any two of them.
`sweep` is what the loop of `_force_cleanup_all` has still to visit.

`OrphansAccountedFor` names all the reasons for which a container outlives the
process. `CleanExit` is the promise of an undisturbed exit, though the cleanup
of any owner may be skipped. `SignalEndsProcess` is liveness.

### CacheArchive

`Builds` are processes. A file is a sequence of chunks marked with the build
that wrote it; `path` is the inode the archive's name refers to, so that a build
may go on with a file that `--clean-cache` has unlinked. Opening, locking,
reading, writing, unlocking and closing are separate actions, in the order of
`_acquire_flock_open` and `release_flock`. `tail` is the part of the archive that
is still in Python's buffer when the lock is released. Locks are `flock`s on the
inode. `tries` counts the attempts of the `retry` decorators; `mishaps` bounds
the timeouts and killed processes together. What docker raises besides a timeout
needs no bound, since nothing tries again after it: `RestoreError` and `SaveError`
unlock and close the file as it then is.

That an exclusive lock excludes the others is what the model assumes of `flock`.
The properties are about what the code makes of it: `ReaderLockGuardsData` and
`WriterLockGuardsData` say who may change the file while a build holds its lock,
and fail when a save asks for the lock of a restore. `SettledArchiveComplete`
says that an archive nobody writes is whole. `spoilt` marks the files of which
this cannot be asked: those to which a save was cut short, by an error of docker, a
timeout or the end of its process, was tried again, or began before another had
closed. The mark is taken off when a save begins the file anew and alone: the
next save repairs what the last has left, and `--clean-cache` gives the archive
another file.

`RestoredFromOneSave` is about what a build gets out of all this: `got` is what
it has put into its container, by one or two uploads of what is left of one file
object, while the file may be emptied, rewritten and abandoned by a killed
process.

The lookup by prefix is reduced to its result, whether a file is found; the lock
on the history log is reduced to `SkipSave`, the save that does not take place.

### BuildRun

The variables are the attributes of `BuildRunner` (`generated`, `removed`,
`toPush`, `packages`, `archive`, `source`, `exitCode`), the tags of the
multi-platform builder (`mpTags`), the locals of `BuildStepRunner.run` (`tasks`,
`ctx`, `pos`) and the part of the Docker daemon the final removals depend on:
which images it holds, what each is built on, which have a name, and which its
build cache may return again. An image with descendants cannot be removed; a
removal prunes unnamed ancestors. The id of an image that is gone is not given
to another one, so `ancestors` is kept for every image there has been. `phase` is
the place in the code; `left` counts down the loop over the tasks or the images.

The configuration is read only, hence chosen lazily: a step is selected or not,
any of the kinds `Kinds[step]` is configured or not, `xfail` is set or not. Each
repository is named with one tag, so that a push or commit task registers one
tag. Every task may raise; constructors may raise; the finally block may raise
at each of its calls. Exceptions are told apart as the handlers do, which decides
the exit status: 78 for an error in the configuration or an image not found, also
where it comes out of the builder's `__exit__` (`Leave`, `Finalize`, `PushFails`) or
out of the finally block, where only `main` is left to catch it (`Abort`).
`archive` tells the temporary file that tar has filled, whose name the run knows,
from one it has not (`"unnamed"`), which nothing removes.

`NothingPushedAfterFailure`, `TasksCleanedUp`, `ExitCodeFaithful`,
`GeneratedImagesRemoved` and `TemporariesRemoved` relate the end of the run to
the history of the tasks. `CommitStaysLocal` quotes the documentation and is
refuted, see below.

### MultiPlatformBuild and PlatformBuilds

One `MultiplatformImageBuilder` over a run: `_built_images` is the number
`current`, the `platforms` asked of each build and its `images` and `tagged`
images; `queue` and `unclaimed` are the locals of `build_multiple_images`. `pc`
and `tries` are the threads of the current build; each step of
`_build_single_image` (build and load, push, find the digest and report it) is
an action, so that the threads interleave with each other and with the main
thread at every call to docker. An image is the number of the attempt that built
it, which stands for its digest: what is `local`, `stored` in the build registry
and behind a `remote` tag can be told apart when attempts differ. A
`DockerException` may hide a push that succeeded. Any other exception ends the
thread, and nobody hears of it but through `unclaimed`.

`registry` is `"external"` when a build registry is configured, which then
keeps what is pushed to it, and `"stray"` when the registry's container runs but
an assertion on its ports failed. `at` and `pushTries` are the place in the loops
of `push`. The callers are the tasks: `AddTags` is the push or commit task with
the local tags it makes, `BeginPush` the push phase of the run, `Leave` an end of
the run without one.

`PlatformBuilds` says what all this is for in three actions: a build is asked
for, ends whole or fails, and is published whole, if no build failed. `Outcome`
and the instance `Promise` are the refinement mapping: a build runs from its
listing to its last claim, and what a tag offers are the platforms in its
manifest. The threads, the retries and the registry are stuttering steps.

Left out: the mode without threads, which no caller asks for; a platform named
twice, which makes the assertion on the claims fail; a thread that cannot be
started; the choice of builders and caches.

### RunTask

One task object. `phase` is the place of the main thread in the constructor, in
`run`, in `wait`, in `cleanup` and in `__del__`; `err` says that `run` was left by
an exception. `daemon` is docker's view of the containers, by their role: the
services, the source, the ssh agent, the daemon proxy, the build container, the
tester of a port and the lister of the artifacts. `held` is the attribute of the
owner that keeps the id, `registered` the list of `cleanup.py`. Services open
their port and end between any two steps of the task. `checks` stands for the
time a wait has: it is looked at after a check that failed. `mode` is the choice
between commands and attaching to the container.

What docker refuses is collected in `refused`, and the place where an exception
cuts the cleanup short in `cut`; `Rank` is the order of the cleanup. With these
`LeftoversExplained` says why a container, the network or the temporary tag may
survive the task, and that the exit hook knows of every container that runs on
and was not refused.
`TeardownOrder` is the order itself, of the containers and of the network after
them, `WaitsHonest` and `WaitEnds` are about the
waits, `ArtifactsGathered` is the comment at `run.py:1151`. `misread` marks the
behaviours in which a status that could not be had was taken for the end of a
container: `run_attach` shows what comes of it.

Left out: the assembly of arguments, the names of artifacts, a second port of
one service, the containers that a service or a build container is configured to
have spawned (that docker refuses to remove them is an outcome of `NotRemoved`,
in which their spawner stays as it is, and registered: `Spawners`), and the threads
that log the services, whose exceptions are lost and whose effects are logs. An
image that was committed and could not be tagged is left out as well.

### ConfigLoad

One load, from the list of global files to the steps that are asked for. `next`
is the place in the list of files, `url` and `visited` the locals of
`_fetch_template`, whose recursion over redirects is the action `Redirect`. What
a file says is chosen when it is read. Two sections stand for all: a
dictionary of scalars (`security-scan`), which the command line may override, and
`local-files`, which is scrubbed in every file but the master. A section is absent,
null or a dictionary, which are the cases `_deep_merge_dicts` tells apart, and
`context` keeps with each value the source it came from; `read` remembers what each
source said. A path of `local-files` is the user's own, somebody else's, or missing.

The steps of the run file are numbers in their order. `AddStep` looks at the
next step and what it depends on, whatever the version of the file; with a version
below 2.0, or none, the steps then stay in their order (`KeepOrder`). `BeginSort` is
`prepare`, and each `PlaceReady` a round of the loop over `get_ready` and `done`.
`Nodes`, `Predecessors`, `Released` and `NextReady` follow
`graphlib.TopologicalSorter`: nodes in the order in which they were first named,
counters of predecessors, and groups in which each node comes after the last node
that released it. Where the code has lists and dictionaries that grow in that order,
`Ranked` sorts the set of their elements by its rank (`FirstNamed`, or the place of
the last release), which TLC evaluates and a proof can reason about. A step with an
empty list of dependencies is not added, a name that no step has fails in the loop,
a version given as a quoted number passes one comparison and fails the other.

`LastMentionWins` compares the merge with a definition that does not merge: the
last source that gives a key and may, unless a later one has the section as
null. `StepsInOrder` compares the loop with the dependencies themselves, says
which steps are lost, and that a file of another version keeps its order. Both
are what the code and its tests do, and not what the documentation says, see
below. `LoadEnds` is about circles of redirects.

Left out: the Jinja context, which only feeds the templates, and the shape of
fields, which `ValidateGlobal` and `ValidateRun` may reject at will.

### Publish

What becomes of the `push` and `commit` attributes of all steps, without the
failures `BuildRun` deals with and the threads `MultiPlatformBuild` deals with.
There is one repository, which may be written in several ways. The `kind` of a
step is what its build and its run leave in the context: a multi-platform build, a
buildx build alone or with a run, a legacy build, a run, or a build with a run that
xfail has excused. An image is the step that made it with its form: the
manifest of `"all"` platforms, the `"one"` image of the build that docker has, or
the `"end"` state of the run. `AddEntry` is an entry of the configuration with its
default tag, `Validate` the comparison of tags as they are written; `TagBuiltImage`
and `TagImage` are the two branches of the task, `ImageToUse` the choice of the
second, `Scan` what either waits for, `NextEntry` with `EndOfTask` the tagging of
the native image by `tag_native_platform`. `verdict`, `limit` and `scores` are what
has come of the scan of each entry: none yet, none asked for, passed or failed.
`local` is docker's view of the references, `tagged` the tags of the built images,
`registered` is `repo_tags_to_push`. `Upload` goes over the manifests first and then
over the registered tags, which docker resolves only then. The global scan
configuration is a constant, the settings of a push are chosen: together they
reach all merged values.

`PublishedImage` compares the registry, reference by reference, with what
`README.rst` promises (`Documented`): the image of the last push that names the
reference, which is the end state of the run if the step has one; a commit
publishes nothing. Where the code departs from that, the property names the
case, and what is published in it: the commit of a built image is pushed
(`CommitPushed`), the end state of the run is passed over (`EndStateIgnored`), or
a later entry has given the reference to another image (`Retagged`).

`UploadsScanned` says that nothing is uploaded under a pushed reference before
all scans of the pushes that name it, or after one of them has failed; that what is
there is below the threshold of the pushes of its own step; and that an image which
no scan has passed was put there by a commit or by a push that scans
nothing. The last is a limit of the code: a step that commits under a reference
which an earlier step pushes has its image pushed, and nothing scans it.

`ManifestKept` says that the validation does protect the manifests it means to
protect, and names what it cannot see: commits, and tags that become equal only
after the validation.

Of two entries of one task on one repository only the last has its artifact in
the list of artifacts; this is not modelled.

### SSHAgent

`main` is the main thread from the proxy's `start` to the end of its `stop`;
`backoff` and `previousBackoff` are the locals of `_try_connect`. The threads of
`_connection_threads` are numbered in the order of the list; `pc`, `exit` and
`held` are the place, `_exit` and `_remote_channel` of each. The loop of
`CustomSSHAgent.close` is `StopThread`, `CloseThread` and `ForgetThread`, which
interleave with the `stop` a thread calls for itself (`StopSelf`, `CloseSelf`,
`ForgetSelf`): the test for the channel, the call on it and its deletion are
three steps in both. `AppendThread` and `StartThread` are the handler, on the
transport thread. The container opens channels, sends parts of requests, ends
channels with or without an eof, and drops the connection, at any time.
`close` runs twice, once for the proxy and once within `SSHClient.close`;
`cut` remembers which of them was left by an exception.

`AgentEnds` says that the stop ends, and what has ended with it. The threads are
no daemons: one that is left keeps the process from exiting.

## The runs

| run | expects | states | question |
|---|---|---|---|
| `cleanup` | pass | 488,000 | can a container be lost, can a signal fail to end the process? |
| `cache` | pass | 692,000 | who changes an archive under a lock, is a settled archive whole, is what is restored of one piece, do waits end? |
| `cache_truncated` | violation | - | does the shared lock of a reader hold back a save? |
| `build_run` | pass | 3,122,000 | is what is pushed, removed and reported what the outcomes call for? |
| `build_commit` | violation | - | does a commit stay local? |
| `multi_platform` | pass | 741,000 | are builds whole and digests current, do builds end, what is left behind, is the promise kept? |
| `push_retry` | violation | - | is a push that times out retried? |
| `run_task` | pass | 494,000 | what does a run task leave behind, in what order does it clean up, do waits end and mean what they say? |
| `run_attach` | violation | - | does attaching last until the container exits? |
| `config_load` | pass | 345,000 | which source's values count, in which order do the steps run, does loading end? |
| `publish` | pass | 5,671,000 | does each reference stand for what is promised in the end, can an image be there that a scan has stopped or not seen, who may take the reference of a manifest? |
| `ssh_agent` | pass | 742,000 | does the stop of the agent end, and what with it? |

The violations are disagreements of the code with its documentation:

* `docker/runner.py:469`: a saving build "will block until the lock is
  released"; it empties the file before it asks for the lock (`utils.py:233`).
* `README.rst:978`: a commit tags an image "to be used in later steps"; a
  commit of a multi-platform build is pushed with the rest (`push.py:344`).
* `multiplatform_image_builder.py:657`: an exception for the timeout of a push
  "may be caught and retried"; the decorator that retries names the builtin
  `TimeoutError` (line 647), the one that times out raises its own.
* `docker/runner.py:793`: attaching goes on "until the container exits"; an
  error of docker in the poll of its status ends it (lines 735-741, 772), and the
  exit code read then is that of a container that runs.

Other differences are stated within a property that holds, which describes what the
code does and names the difference:

* `README.rst:489`: a success under xfail "will result in a failure"; it does
  not (`steprunner/__init__.py:110`). `ExitCodeFaithful` lets such a run end with 0.
* `__init__.py:539`: the run removes "any temporary files that we created"; the
  file of a source archive that tar failed to fill is not among them (line 267).
  `TemporariesRemoved` exempts the `"unnamed"` archive.
* `README.rst:982`: "the end state of the run container is used for committing or
  pushing"; after a buildx build, and after a run that xfail excuses, the image of
  the build is (`push.py:331`). `PublishedImage` has it as `EndStateIgnored`, and
  the commit that is pushed as `CommitPushed`.
* `docs/global-configuration.rst:157`: of a main section in several files "the
  last one read in is used"; dictionaries are merged key by key (`loader.py:304`).
  `LastMentionWins` speaks of keys.
* `README.rst:481`: "an buildrunner error will occur" if `depends` is present
  without version 2.0; the steps stay in their order (`loader.py:173`), the last
  case of `StepsInOrder`. A step with `depends: []` is dropped when no other step
  depends on it (`Adds`), which is a case of it too.
* `docs/common-issues.rst:90`: the handler "force-removes all registered
  containers"; a second signal makes it stop half way (`cleanup.py:59`), one of
  the causes in `OrphansAccountedFor`.

### Bounds

* `cleanup`: two runners, one proxy, one registry: each kind of owner, and two
  containers of one kind for the races between them; two signals, the second of
  which can interrupt the first's handler; a third behaves as the second.
* `cache`: two builds, an archive of two chunks (a first and a last one), two
  tries, two mishaps (both tries of one call can time out, or one process be
  killed under the lock of another that then times out), one cleaning. No
  symmetry, because of liveness.
* `build_run`: two steps: the first may register tags and leave images, the
  second may build on them and fail in each kind of task; two images made by the
  run and one from elsewhere: enough for an image, one built on it and a base
  that is listed for removal too. The images made are symmetric. Tasks raise an
  error that xfail covers (`processing`) or one it does not (`notFound`); the
  other two kinds come from constructors and from the push phase.
* `multi_platform`: two builds, so that the second uses the registry of the
  first and may fail after it was tagged; two platforms, one of them native, so
  that threads race and one may die alone; two attempts of threads and pushes
  (the code has five): the first, which is retried, and the last, which is not;
  two tags of a build. No symmetry, because of liveness and of `Native`.
* `config_load`: three global files (the master, which is not scrubbed, and two
  that are, for the order of these), one file that is reached only by
  redirects besides them, so that chains join and close; two keys of one section,
  one that is overridden and one that is not, and one alias; three steps with up
  to two dependencies each: chains, forks, joins, cycles, groups of two, and a
  fourth name that no step has. Null and missing sections multiply the cases,
  not the sizes.
* `publish`: two steps of any of the six kinds, three entries, so that two of one
  task, or of one step, meet one of another; two tags, one the default, of which
  all entries together have at most three before a tag in the repository is added
  (`MaxTags`), so that an entry may have both while others share one of them;
  a repository written plainly or with the tag in it (a repository in capital letters
  is another spelling of the same reference, as that one is); scores of zero and one
  with thresholds of zero (none) and one, at which equality and absence are told
  apart, for two platforms.
* `ssh_agent`: two channels, for the loop over the list and a thread that is
  appended while it runs; the backoff of the
  code, which gives six attempts.
* `run_task`: two services, for their order and because a wait for the second
  may see the first end; two checks of a port, the first of which is repeated
  and the last of which is not.

### Fairness

`ContainerCleanup` assumes weak fairness of the sweep and of the exit only: each
call to the daemon returns or raises, and nothing else can block the handler.
Nothing is assumed of the main program. `CacheArchive` assumes it of the steps
of each build that hold or wait for a lock: calls to Docker under a lock are cut
off by `timeout_decorator`, and the kernel wakes the waiters of a lock; nothing
is assumed of the commands between restore and save, or of mishaps.
`BuildRun` states no liveness and needs no fairness. `MultiPlatformBuild`
assumes weak fairness of the steps of `build_multiple_images` and of each thread:
every call to docker returns or raises, and threads are scheduled. That a thread
gives up after its last attempt is not assumed but follows from `tries`; nothing
is assumed of the steps between builds. `RunTask` assumes weak fairness of the
steps of a wait, since starting, probing and removing a tester are calls that
return or raise, and of the cleanup; nothing is assumed of the services: a wait
ends because its checks are counted.
`ConfigLoad` assumes weak fairness of the loading as a whole, one thread whose
fetches return or raise; that redirects come to an end follows from `visited`.
`SSHAgent` assumes it of the main thread, of the transport thread's start of a
thread it has listed, and of each connection thread: threads are scheduled, and the
calls of paramiko they make return. Nothing is assumed of the container. `Publish`
states no liveness.

In `ContainerCleanup` and `CacheArchive` the processes end, and in `SSHAgent` the
threads, so deadlock is not checked there; `BuildRun`, `MultiPlatformBuild`,
`ConfigLoad`, `Publish` and `RunTask` stutter explicitly in their last
state, and a deadlock anywhere else is an error of the run: the assertions on
claims and digests that the code makes are guards there.

## The proofs

Every theorem holds for all values of the constants that satisfy the named
assumption of its module; nothing else is assumed. An invariant of a run is
seldom inductive, and each module says with which parts it becomes so. A theorem
"of" a liveness property is its safety part: that what is waited for is there, or
that the steps which may still come before the end are fewer after each one.

| module | theorems |
|---|---|
| `ContainerCleanupProofs` | `TypeCorrect`, `OrphansExplained`, `CleanExitHolds`; `SignalOnlySweeps`, of `SignalEndsProcess` |
| `CacheArchiveProofs` | `TypeCorrect`, `ReaderLockGuards`, `WriterLockGuards`, `SettledComplete`, `RestoresOneSave`; `ArchivesBounded`; `NoCircularWait`, `SavesRunOut` and `RestoresRunOut`, of `LockWaitEnds` |
| `BuildRunProofs` | `TypeCorrect`, `PushesOnlyAfterSuccess`, `EveryTaskCleanedUp`, `TemporariesGone`, `ExitCodeTold`, `GeneratedImagesGone` |
| `MultiPlatformBuildProofs` | `TypeCorrect`, `InputsKept`, `BuildsComplete`, `DigestsHold`, `PushesComplete`, `LeftoversHaveCauses`, the refinement `PromiseKept`; `CallsFindTheirInputs` and `ThreadsRunOut`, of `BuildEnds` |
| `RunTaskProofs` | `TypeCorrect`, `WaitsAreHonest`, `FailedTaskGathers`, `LeftoversHaveCauses`, the action property `TeardownInOrder`; `WaitsRunOut`, of `WaitEnds` |
| `PublishProofs` | `TypeCorrect`, `NothingUnscanned`, `PromiseKept`, the action property `ManifestsKept` |
| `SSHAgentProofs` | `TypeCorrect`; `StopTellsAll`, of `AgentEnds` |
| `ConfigLoadProofs` | `TypeCorrect`, `LastWins`, `StepsSorted`; `LoadAdvances`, of `LoadEnds` |

* `ContainerCleanupProofs`, for any sets of containers and any number of
  signals: `IInv` adds to the type invariant that every live
  container is registered or on its way there (`Coverage`), that one being
  unregistered has been removed or refused (`RemovedBeforeUnregister`), that a
  sweep covers what was registered when it began (`SweepCovers`), and that an
  exit without a signal went through the atexit hook (`UndisturbedExit`).
  `SignalOnlySweeps` adds that the handler, once entered, is not left but by the
  end (`HandlerTakesOver`).
* `CacheArchiveProofs`, for any number of builds and any sizes. `LockInv`
  strengthens the exclusion of locks (`LockExclusion`) by the relation of phases and
  locks (`PhaseLocks`), by the inodes that are left and by the tries that are left,
  which also bound the file numbers for the type invariant. `SettledComplete` needs
  to know where each saver is in its archive (`CursorInv`), and of every file
  (`FileInv`) that it is spoilt or complete, or that somebody waits for it who will
  write all of it, or that one build, alone at it, has written a first part.
  `WriterLockGuards` needs no more than `LockInv`: a build writes only with an
  exclusive lock, of which there is one. `RestoresOneSave` rests on `RestoreInv`:
  what a reader has received last is the chunk before its position (`Follows`), or
  the file has been emptied under it (`Emptied`) and stays empty until its lock is
  gone; a build that has itself come to save finds only unbroken files.
  `NoCircularWait` follows from `PhaseLocks`; `SavesRunOut` counts the chunks a save
  has left with all its attempts. `RestoresRunOut` needs a bound on files that
  others write meanwhile, `ArchivesBounded`: a save's place is bounded by the tries
  it has used (`SizeInv`), and nobody writes from another's place.
* `BuildRunProofs`, for configurations of any length, any images and any
  repositories. `FailureInv` says that a failure xfail
  does not cover is an exception on its way out, and that the push phase comes
  after all tasks; `CleanupInv` that the tasks still to be cleaned up are in
  the part of the list the loop of the cleanup has left; `FilesInv` the order of
  the final removals, and that an archive without a name means that no step has
  begun (`NamelessInv`); `QueueInv`, over `FailureInv`, that what has been pushed is
  a prefix of what is to be pushed; `OutcomeInv` what the exit code knows of the
  last exception, and what `main` makes of one out of the finally block.
  `GeneratedImagesGone` needs all that is known of images, `RunInv`: the loop over
  the list goes backwards and docker refuses an image that another is built on, so
  an image has to be listed after those it is built on (`ListInv`), an image that is
  not listed has to serve one that is, so that removing that one prunes it, or to
  have a temporary name that its task takes away (`TempInv`); what one task of a
  step hands to the next is not pruned before it is listed (`ContextInv`); ancestry
  is transitive and without circles (`LineageInv`); and what the loop is past is
  gone (`RemovalInv`). None of these is inductive without the others. The proof did
  not go through while the model let the id of a removed image be given to a new
  one: a listed id could then come to stand for an image that is built on a later
  one. TLC finds that with three images and four steps, beyond the bounds of the
  run; the model was wrong, since docker's ids are digests, and `ancestors` was
  changed.
* `MultiPlatformBuildProofs`, for any platforms, builds, attempts and tags.
  `TypeInv` adds to the types what each phase knows of threads, registry and
  Dockerfile (`PhaseInv`). `AccountInv` is the accounting of references: every
  platform of the current build is either claimed or in
  `image_info_by_image_ref`, and as many images are claimed as platforms are
  gone from there; earlier builds are complete. `DigestInv` adds to
  `DigestsCurrent` that who reported a digest is done and pushes no more, and
  that there are no images before the registry starts. `PushInv` says that a push
  begins with whole builds and settled tags and that all that is behind its place
  names the images of its build. `LocalInv` says of a local image whose it is
  and what the loop of `__exit__` has left. `PromiseKept` is the refinement: one
  lemma shows that each step is a step of `PlatformBuilds` or stutters
  (`StepPromise`), with `AccountInv` for the wholeness of what is published.
  `CallsFindTheirInputs` says that the guards by which the model lets a call
  happen only with its inputs there never hold one back; its `NeedInv`
  knows that each thread has built what it pushes and pushed what it inspects, that
  the queue has one digest of each thread, and that a registry that is not known
  to the builder is met by no call. `ThreadsRunOut` counts the calls a thread
  has left.
* `RunTaskProofs`, for any services and any number of checks. `WaitInv` says
  that every port waited for so far has been open at a check, but for the one
  being waited for; `ArtifactsInv` that a failed task is on its way to its
  artifacts or has been there. `TaskInv` is about the end: what the cleanup has come
  past is gone or was refused, wherever an exception cuts it short (`ChainInv`);
  what runs is known to its owner, and to the exit hook or refused (`HeldInv`);
  testers and the lister are removed where they are used (`OddInv`); a network that
  is left has a member left in it (`NetworkInv`). Of `TeardownInOrder` the network
  is a part of its own: only `Delete` removes it (`NetworkByDelete`), when the
  cleanup is over, and `ChainInv` says what is left then (`NetworkLast`).
  `WaitsRunOut` counts the steps a wait has left.
* `PublishProofs`, for any steps, entries, tags and spellings. Entries run
  in the order of their steps (`OrderInv`), and what is said of
  the configuration stays (`PhaseInv`). The list of the tagged images and that of the
  registered references hold what the entries so far call for (`TaggedInv`,
  `RegisteredInv`); docker has under a reference a single image, of the latest
  step that has named it (`LocalInv`, `SingleInv`);
  the repository has what the last upload has put there
  (`SentInv`); and every push that has been worked at has a verdict, a passed one
  with all scores below its threshold (`ScanInv`). `NothingUnscanned` then has to
  know whose image a reference stands for after the uploads (`NamedInv`): that of an
  entry that names it, worked at before them. That the greatest element of a set of
  numbers exists, which the promise of a reference speaks of, is the
  well-foundedness of the numbers below a bound.
* `SSHAgentProofs`, for any number of channels and any backoff. The loop of
  `close` is within its list, which only grows (`PlaceInv`). `StopTellsAll` says
  that after the stop each thread is told to end, unless the second pass was cut
  short, and the keys are forgotten, unless both were. It needs to know that no
  thread comes after the client has joined its transport thread (`ThreadsInv`), what
  each pass has done when it ends or is cut (`PassInv`), and that the second one has
  told the threads it is past (`ToldInv`).
* `ConfigLoadProofs`, for any numbers of files, steps and dependencies, and any
  keys. `KeyInv` says of each key that the source
  the merge keeps with it is the last of the givers, of those read so far;
  `MergeKeepsLast` is the step, for any mention and any earlier value; `Stands`
  says what scrubbing leaves of a mention. `LastWins` follows since
  the sources still to come have said nothing. `StepsSorted` rests on `SortInv`:
  what is ready are the nodes that are not placed and depend on placed ones
  only, and the counter of a node is the number of its dependencies that are not placed
  (`Sorting`). That a round keeps this relates what the round takes off a
  counter, a number of places in a sequence, to a difference of sets
  (`ReleasedCountsDeps`, by a bijection);
  that nothing is left over when no node is ready is where
  the search for cycles is needed (`EndSortSortInv`). That a finite set can be
  arranged by ranks at all is shown by a smallest set that cannot (`Sortable`), since
  the library's induction is out of reach. `TypeCorrect` follows: a counter is
  the size of a set of dependencies, and an order without repetition is
  no longer than there are steps. `LoadAdvances` orders the states of the loading by
  its stages and, within a stage, by what it has read or placed: a file that is
  fetched was not visited before (`FreshInv`), and a round with anything ready
  places something.

Only model-checked is liveness itself (`SignalEndsProcess`, `LockWaitEnds`,
`BuildEnds`, `WaitEnds`, `LoadEnds`, `AgentEnds`): fairness speaks of what is
enabled, which is out of the prover's reach. The theorems give what it takes from
the states: that what is counted runs out and that nobody waits for a waiter. That a
step is taken at all while something is left is what the runs show.

## Assumptions about what is not in the repository

* `flock` is on the inode, shared locks exclude exclusive ones, closing a file
  releases its lock; `portalocker.unlock` does not flush Python's buffer.
* `docker.from_env()` returns a client without `remove_container`, unlike the
  `APIClient` that `buildrunner.docker.new_client` returns.
* `docker rmi`, even by force, refuses an image that another is built on, and
  prunes unnamed ancestors; intermediate images of a failed legacy build are left out.
* A signal handler runs on the main thread between two bytecodes.
* `timeout_decorator.timeout`, without arguments beyond the seconds, raises
  `timeout_decorator.TimeoutError`, an `AssertionError`; the builtin
  `TimeoutError` may come from the call itself.
* `docker buildx imagetools create` makes a manifest whole or not at all, also
  when its caller gave up waiting.
* The source container and the daemon proxy run a shell without a terminal and
  end at once; the lister is not in the network of the step. A network that no
  running container is in can be removed.
* docker reports the exit code 0 of a container that runs.
* `graphlib.TopologicalSorter` counts a predecessor each time it is named, keeps
  nodes in the order of their first mention, and raises in `prepare` on a cycle.
* paramiko calls the handler for a channel on the transport thread;
  `SSHClient.close` joins that thread, closes the channels and calls `close` of
  the agent once more. Closing a channel from this side, or losing the
  connection, is not an eof. A read on a channel returns or raises once the
  channel has ended.

## The plan

1. Done: `ContainerCleanup`, `CacheArchive`, `BuildRun` with their proofs.
2. Done: `MultiPlatformBuild` and its promise `PlatformBuilds`, with the proof of
   the refinement.
3. Done: `RunTask`, `ConfigLoad`, `Publish`, `SSHAgent`, with proofs of all the
   safety properties their runs check, and the safety parts of the liveness properties
   of all modules.
4. Left: the abstract specifications that a proof of refinement would be worth
   for: an archive that is whole or absent, over `CacheArchive`, and a registry
   that has what the last entry promises, over `Publish`. For `RunTask`, the steps
   of `TaskInv` are long, and its stages (`ChainInv`) could become a table that
   the model shares with the proof.

## Not modelled

The parsing of command lines and of scan reports, the Jinja context, the shape
of configuration fields, the streaming of output, provisioners and loggers keep
no state that other parts depend on. The protocols of the fetchers, the assembly
of build contexts and of the arguments of containers, and the commands of the
remote and PyPI tasks are I/O, of which the modules have the outcomes. The rule
that a multi-platform image is not tagged again
(`validate_multiplatform_are_not_retagged`) reads Dockerfiles and can only reject
a configuration. Packaging, scripts and examples are not part of the program's
logic.
