------------------------- MODULE MultiPlatformBuild -------------------------
(***************************************************************************)
(* MultiplatformImageBuilder (src/buildrunner/docker/                      *)
(* multiplatform_image_builder.py) over one run: the registry it starts,   *)
(* the builds, each with one thread per platform and a queue from the      *)
(* threads to the main thread, the tags and the push.                      *)
(*                                                                         *)
(* The reference of an intermediate image is determined by its build and   *)
(* its platform, hence a pair of these; an image is the number of the      *)
(* attempt that built it, 0 where there is none.  The builder starts no    *)
(* other container: ContainerCleanup has what becomes of the registry      *)
(* after the process.                                                      *)
(***************************************************************************)
EXTENDS Naturals, Sequences, FiniteSets

CONSTANTS
  NBuilds,    \* bound on the builds of the run
  Platforms,  \* the platforms they may name
  Native,     \* those among them that match this machine
  Tries,      \* attempts of a thread
  PushTries,  \* attempts of a push
  MaxTags     \* bound on the tagged images of a build

ASSUME MultiPlatformAssumption ==
  /\ NBuilds \in Nat /\ MaxTags \in Nat
  /\ Native \subseteq Platforms
  /\ IsFiniteSet(Platforms)
  /\ Tries \in Nat \ {0} /\ PushTries \in Nat \ {0}

VARIABLES
  main,       \* where the main thread is
  current,    \* how many builds _built_images holds: the last one is current
  platforms,  \* the platforms of each build
  pc,         \* the threads of the current build,
  tries,      \*   and the attempts each of them has
  queue,      \* the queue of image references and digests
  unclaimed,  \* image_info_by_image_ref
  images,     \* images_by_platform of each build, in the order of its keys
  dockerfile, \* the Dockerfile of the current build: "temporary" is one to remove
  tagged,     \* how many tagged_images each build has
  left,       \* how many of them tag_native_platform has left
  registry,   \* the build registry
  stored,     \* what is in it
  local,      \* the intermediate images in the docker daemon
  remote,     \* what is behind the tags of each build, as platforms and images
  at,         \* the build and the tag the push is at
  pushTries,  \* the attempts it has for this tag
  failure,    \* history: what ended the run early
  refused     \* history: docker refused to remove something

threads == <<pc, tries, queue>>
build == <<current, platforms, unclaimed, images, dockerfile>>
push == <<remote, at, pushTries>>
history == <<failure, refused>>
vars == <<main, current, platforms, pc, tries, queue, unclaimed, images, dockerfile,
          tagged, left, registry, stored, local, remote, at, pushTries, failure, refused>>

Refs == (1..NBuilds) \X Platforms
Places == (1..NBuilds) \X (1..MaxTags)
Entries == Platforms \X (1..Tries)
Active == {"build", "push", "inspect"}

TypeOK ==
  /\ main \in {"idle", "registry", "join", "claim", "tag", "push", "closing",
               "stopping", "exited"}
  /\ current \in 0..NBuilds
  /\ platforms \in [1..NBuilds -> SUBSET Platforms]
  /\ pc \in [Platforms -> Active \cup {"none", "done", "dead"}]
  /\ tries \in [Platforms -> 1..Tries]
  /\ queue \in Seq(Entries)
  /\ unclaimed \subseteq Platforms
  /\ images \in [1..NBuilds -> Seq(Entries)]
  /\ dockerfile \in {"none", "given", "temporary"}
  /\ tagged \in [1..NBuilds -> 0..MaxTags]
  /\ left \in 0..MaxTags
  /\ registry \in {"off", "on", "external", "stray"}
  /\ stored \in [Refs -> 0..Tries]
  /\ local \in [Refs -> 0..Tries]
  /\ remote \in [Places -> SUBSET Entries]
  /\ at \in (1..(NBuilds + 1)) \X (1..(MaxTags + 1))
  /\ pushTries \in 1..PushTries
  /\ failure \in {"none", "build", "docker", "timeout"}
  /\ refused \in BOOLEAN

Init ==
  /\ main = "idle" /\ current = 0
  /\ platforms = [b \in 1..NBuilds |-> {}]
  /\ pc = [p \in Platforms |-> "none"] /\ tries = [p \in Platforms |-> Tries]
  /\ queue = <<>> /\ unclaimed = {}
  /\ images = [b \in 1..NBuilds |-> <<>>]
  /\ dockerfile = "none"
  /\ tagged = [b \in 1..NBuilds |-> 0] /\ left = 0
  /\ registry \in {"off", "external"}
  /\ stored = [r \in Refs |-> 0] /\ local = [r \in Refs |-> 0]
  /\ remote = [bt \in Places |-> {}]
  /\ at = <<1, 1>> /\ pushTries = PushTries
  /\ failure = "none" /\ refused = FALSE

RegistryUp == registry \in {"on", "external"}
Claimed(b) == {images[b][i][1] : i \in DOMAIN images[b]}
Ref(p) == <<current, p>>

Fail(cause) == main' = "closing" /\ failure' = cause

-----------------------------------------------------------------------------
(* A build, up to its threads. *)

\* The build is listed before anything of it can fail.  One platform is left
\* of them when multi-platform builds are disabled.
BeginBuild ==
  /\ main = "idle" /\ current < NBuilds
  /\ main' = "registry"
  /\ current' = current + 1
  /\ \E P \in (SUBSET Platforms) \ {{}} :
       /\ platforms' = [platforms EXCEPT ![current + 1] = P]
       /\ unclaimed' = P
  /\ dockerfile' \in {"given", "temporary"}
  /\ UNCHANGED <<threads, images, tagged, left, registry, stored, local, push, history>>

\* Mutant of StartRegistry: every build starts a registry of its own.
StartRegistryAgain ==
  /\ main = "registry" /\ registry # "external"
  /\ registry' = "on"
  /\ stored' = [r \in Refs |-> 0]
  /\ UNCHANGED <<main, build, threads, tagged, left, local, push, history>>

StartRegistry ==
  /\ main = "registry" /\ registry = "off"
  /\ registry' = "on"
  /\ stored' = [r \in Refs |-> 0]
  /\ UNCHANGED <<main, build, threads, tagged, left, local, push, history>>

\* It is not allowed here, it does not start, or its ports are not those
\* expected: then it runs, and the builder does not know.
RegistryFails ==
  /\ main = "registry" /\ registry = "off"
  /\ registry' \in {"off", "stray"}
  /\ Fail("build")
  /\ UNCHANGED <<build, threads, tagged, left, stored, local, push, refused>>

StartThreads ==
  /\ main = "registry" /\ RegistryUp
  /\ main' = "join"
  /\ pc' = [p \in Platforms |-> IF p \in platforms[current] THEN "build" ELSE "none"]
  /\ tries' = [p \in Platforms |-> Tries]
  /\ queue' = <<>>
  /\ UNCHANGED <<build, tagged, left, registry, stored, local, push, history>>

-----------------------------------------------------------------------------
(* The thread of a platform: _build_single_image. *)

Move(p, next) == pc' = [pc EXCEPT ![p] = next]

BuildImage(p) ==
  /\ pc[p] = "build" /\ dockerfile # "none"
  /\ Move(p, "push")
  /\ local' = [local EXCEPT ![Ref(p)] = Tries - tries[p] + 1]
  /\ UNCHANGED <<main, build, tries, queue, tagged, left, registry, stored, push, history>>

PushImage(p) ==
  /\ pc[p] = "push" /\ RegistryUp /\ local[Ref(p)] # 0
  /\ Move(p, "inspect")
  /\ stored' = [stored EXCEPT ![Ref(p)] = local[Ref(p)]]
  /\ UNCHANGED <<main, build, tries, queue, tagged, left, registry, local, push, history>>

\* The digest is the one the registry has.
ReportDigest(p) ==
  /\ pc[p] = "inspect" /\ RegistryUp /\ stored[Ref(p)] # 0
  /\ Move(p, "done")
  /\ queue' = Append(queue, <<p, stored[Ref(p)]>>)
  /\ UNCHANGED <<main, build, tries, tagged, left, registry, stored, local, push, history>>

\* Mutant of DockerError: the attempts are not counted.
DockerErrorUncounted(p) ==
  /\ pc[p] \in Active
  /\ Move(p, "build")
  /\ UNCHANGED <<main, build, tries, queue, tagged, left, registry, stored, local,
                 push, history>>

\* Mutant of DockerError: one attempt too many.
DockerErrorOnceMore(p) ==
  /\ pc[p] \in Active
  /\ tries' = [tries EXCEPT ![p] = @ - 1]
  /\ Move(p, IF tries[p] > 0 THEN "build" ELSE "dead")
  /\ UNCHANGED <<main, build, queue, tagged, left, registry, stored, local, push, history>>

\* A DockerException starts the attempt over; a push may have succeeded
\* nevertheless.  After the last attempt the thread dies of the exception.
DockerError(p) ==
  /\ pc[p] \in Active
  /\ IF tries[p] > 1
     THEN Move(p, "build") /\ tries' = [tries EXCEPT ![p] = @ - 1]
     ELSE Move(p, "dead") /\ UNCHANGED tries
  /\ \/ UNCHANGED stored
     \/ /\ pc[p] = "push" /\ RegistryUp /\ local[Ref(p)] # 0
        /\ stored' = [stored EXCEPT ![Ref(p)] = local[Ref(p)]]
  /\ UNCHANGED <<main, build, queue, tagged, left, registry, local, push, history>>

\* Any other exception: the context cannot be copied (another thread may be
\* removing its own copy of it), or the digest cannot be found.
ThreadError(p) ==
  /\ pc[p] \in {"build", "inspect"}
  /\ Move(p, "dead")
  /\ UNCHANGED <<main, build, tries, queue, tagged, left, registry, stored, local,
                 push, history>>
-----------------------------------------------------------------------------
(* The rest of the build. *)

\* Mutant of Join: the main thread waits for the first thread only.
JoinFirst ==
  /\ main = "join"
  /\ \E p \in Platforms : pc[p] \in {"done", "dead"}
  /\ main' = "claim"
  /\ UNCHANGED <<build, threads, tagged, left, registry, stored, local, push, history>>

Join ==
  /\ main = "join"
  /\ \A p \in Platforms : pc[p] \notin Active
  /\ main' = "claim"
  /\ UNCHANGED <<build, threads, tagged, left, registry, stored, local, push, history>>

\* The code asserts that the entry has not been claimed.
Claim ==
  /\ main = "claim" /\ queue # <<>>
  /\ Head(queue)[1] \in unclaimed
  /\ images' = [images EXCEPT ![current] = Append(@, Head(queue))]
  /\ unclaimed' = unclaimed \ {Head(queue)[1]}
  /\ queue' = Tail(queue)
  /\ UNCHANGED <<main, current, platforms, pc, tries, dockerfile, tagged, left, registry,
                 stored, local, push, history>>

\* Mutant of EndClaims: no assertion that nothing is unclaimed.
EndClaimsUnchecked ==
  /\ main = "claim" /\ queue = <<>>
  /\ main' = "idle" /\ dockerfile' = "none" /\ unclaimed' = {}
  /\ UNCHANGED <<current, platforms, threads, images, tagged, left, registry, stored,
                 local, push, history>>

\* The temporary Dockerfile of a build that failed stays.
EndClaims ==
  /\ main = "claim" /\ queue = <<>>
  /\ IF unclaimed = {}
     THEN main' = "idle" /\ dockerfile' = "none" /\ UNCHANGED failure
     ELSE Fail("build") /\ UNCHANGED dockerfile
  /\ UNCHANGED <<current, platforms, unclaimed, images, threads, tagged, left, registry,
                 stored, local, push, refused>>

-----------------------------------------------------------------------------
(* Tags. *)

\* A push or commit task adds its repositories; then the tags are for the
\* local daemon too, unless a security scan ends the task first.
AddTags ==
  /\ main = "idle" /\ current > 0
  /\ \E n \in 1..(MaxTags - tagged[current]) :
       /\ tagged' = [tagged EXCEPT ![current] = @ + n]
       /\ left' = tagged[current] + n
  /\ \/ main' = "tag" /\ UNCHANGED failure
     \/ Fail("docker")
  /\ UNCHANGED <<build, threads, registry, stored, local, push, refused>>

\* The native image is the last that matches this machine, or else the first.
IsNative(i) ==
  LET matching == {j \in DOMAIN images[current] : images[current][j][1] \in Native}
  IN  IF matching = {} THEN i = 1
      ELSE i \in matching /\ \A j \in matching : j <= i

\* It is pulled, tagged, and its own reference removed, for each tagged image.
TagNative(i) ==
  /\ left > 0
  /\ IsNative(i)
  /\ LET ref == Ref(images[current][i][1]) IN
       /\ RegistryUp /\ stored[ref] # 0
       /\ local' = [local EXCEPT ![ref] = 0]
  /\ left' = left - 1
  /\ UNCHANGED <<main, build, threads, tagged, registry, stored, push, history>>

\* Any of the calls may fail, before or after the pull.
TagNativeFails(i) ==
  /\ left > 0
  /\ IsNative(i)
  /\ Fail("docker")
  /\ LET ref == Ref(images[current][i][1]) IN
       local' \in {local, [local EXCEPT ![ref] = stored[ref]]}
  /\ UNCHANGED <<build, threads, tagged, left, registry, stored, push, refused>>

TagsDone ==
  /\ main = "tag" /\ left = 0
  /\ main' = "idle"
  /\ UNCHANGED <<build, threads, tagged, left, registry, stored, local, push, history>>

-----------------------------------------------------------------------------
(* The push. *)

BeginPush ==
  /\ main = "idle" /\ current > 0
  /\ main' = "push"
  /\ UNCHANGED <<build, threads, tagged, left, registry, stored, local, push, history>>

Pushing == main = "push" /\ at[1] <= current /\ at[2] <= tagged[at[1]]

\* The manifest is made in the remote registry from the references of the build.
Create ==
  /\ RegistryUp
  /\ \A p \in Claimed(at[1]) : stored[<<at[1], p>>] # 0
  /\ remote' = [remote EXCEPT ![at] = {<<p, stored[<<at[1], p>>]>> : p \in Claimed(at[1])}]

PushTag ==
  /\ Pushing
  /\ Create
  /\ at' = <<at[1], at[2] + 1>>
  /\ pushTries' = PushTries
  /\ UNCHANGED <<main, build, threads, tagged, left, registry, stored, local, history>>

\* Mutant of NextBuild: the last tag of a build is left out.
NextBuildEarly ==
  /\ main = "push" /\ at[1] <= current /\ at[2] >= tagged[at[1]]
  /\ at' = <<at[1] + 1, 1>>
  /\ UNCHANGED <<main, build, threads, tagged, left, registry, stored, local, remote,
                 pushTries, history>>

\* A build without tags is not pushed.
NextBuild ==
  /\ main = "push" /\ at[1] <= current /\ at[2] > tagged[at[1]]
  /\ at' = <<at[1] + 1, 1>>
  /\ UNCHANGED <<main, build, threads, tagged, left, registry, stored, local, remote,
                 pushTries, history>>

\* The builtin TimeoutError is retried; the one that timeout_decorator raises
\* after PUSH_TIMEOUT is another class.  The manifest may have been made.
PushTimesOut(class) ==
  /\ Pushing
  /\ Create \/ UNCHANGED remote
  /\ IF class = "builtin" /\ pushTries > 1
     THEN pushTries' = pushTries - 1 /\ UNCHANGED <<main, failure>>
     ELSE Fail("timeout") /\ UNCHANGED pushTries
  /\ UNCHANGED <<build, threads, tagged, left, registry, stored, local, at, refused>>

PushFails ==
  /\ Pushing
  /\ Fail("docker")
  /\ UNCHANGED <<build, threads, tagged, left, registry, stored, local, push, refused>>

Pushed ==
  /\ main = "push" /\ at[1] > current
  /\ main' = "closing"
  /\ UNCHANGED <<build, threads, tagged, left, registry, stored, local, push, history>>

-----------------------------------------------------------------------------
(* __exit__. *)

\* The steps are over or one of them failed elsewhere, and nothing is pushed.
Leave ==
  /\ main = "idle"
  /\ main' = "closing"
  /\ UNCHANGED <<build, threads, tagged, left, registry, stored, local, push, history>>

\* Mutant of RemoveImages: only the images of the last build are removed.
RemoveImagesOfLast ==
  /\ main = "closing"
  /\ main' = "stopping"
  /\ local' = [r \in Refs |-> IF r[1] = current /\ r[2] \in Claimed(r[1]) THEN 0 ELSE local[r]]
  /\ UNCHANGED <<build, threads, tagged, left, registry, stored, push, history>>

\* The images that were claimed; a removal that fails is logged.
RemoveImages ==
  /\ main = "closing"
  /\ main' = "stopping"
  /\ \E kept \in SUBSET {r \in Refs : r[2] \in Claimed(r[1]) /\ local[r] # 0} :
       /\ local' = [r \in Refs |-> IF r[2] \in Claimed(r[1]) \ {p \in Platforms : <<r[1], p>> \in kept}
                                   THEN 0 ELSE local[r]]
       /\ refused' = (refused \/ kept # {})
  /\ UNCHANGED <<build, threads, tagged, left, registry, stored, push, failure>>

\* Without a client neither images nor registry are removed.
NoClient ==
  /\ main = "closing"
  /\ main' = "exited" /\ refused' = TRUE
  /\ UNCHANGED <<build, threads, tagged, left, registry, stored, local, push, failure>>

\* Only the registry that the builder knows to be running is stopped.
StopRegistry ==
  /\ main = "stopping"
  /\ main' = "exited"
  /\ \/ registry = "on" /\ registry' = "off" /\ stored' = [r \in Refs |-> 0] /\ UNCHANGED refused
     \/ registry = "on" /\ refused' = TRUE /\ UNCHANGED <<registry, stored>>
     \/ registry # "on" /\ UNCHANGED <<registry, stored, refused>>
  /\ UNCHANGED <<build, threads, tagged, left, local, push, failure>>

Exited == main = "exited" /\ UNCHANGED vars

-----------------------------------------------------------------------------
Thread(p) ==
  BuildImage(p) \/ PushImage(p) \/ ReportDigest(p) \/ DockerError(p) \/ ThreadError(p)
MainBuild ==
  StartRegistry \/ RegistryFails \/ StartThreads \/ Join \/ Claim \/ EndClaims
TagStep ==
  \/ AddTags \/ TagsDone
  \/ main = "tag" /\ \E i \in DOMAIN images[current] : TagNative(i) \/ TagNativeFails(i)
PushStep ==
  \/ BeginPush \/ PushTag \/ NextBuild \/ PushFails \/ Pushed
  \/ \E class \in {"builtin", "decorator"} : PushTimesOut(class)
Exit == Leave \/ RemoveImages \/ NoClient \/ StopRegistry

Next ==
  \/ \E p \in Platforms : Thread(p)
  \/ BeginBuild \/ MainBuild \/ TagStep \/ PushStep \/ Exit \/ Exited

Spec == Init /\ [][Next]_vars

\* Every call to docker returns or raises, and the main thread has nothing else
\* to wait for than its threads.
FairSpec == Spec /\ WF_vars(MainBuild) /\ \A p \in Platforms : WF_vars(Thread(p))

-----------------------------------------------------------------------------
(* Properties. *)

\* While a thread may need them, the Dockerfile is there and the registry runs:
\* no interleaving of the main thread with its threads removes them earlier.
ThreadsKeepInputs ==
  \A p \in Platforms : pc[p] \in Active => dockerfile # "none" /\ RegistryUp

\* A digest that was reported or claimed is that of the image the registry has
\* under its reference, whatever attempts failed before and after they pushed,
\* and as long as the registry runs.
DigestsCurrent ==
  RegistryUp =>
    /\ \A b \in 1..NBuilds : \A i \in DOMAIN images[b] :
         images[b][i][2] = stored[<<b, images[b][i][1]>>]
    /\ \A i \in DOMAIN queue : queue[i][2] = stored[Ref(queue[i][1])]

\* A build returns only with exactly one image for each of its platforms,
\* whichever of its threads failed and in whatever order they ended.
ReturnedComplete ==
  main \in {"idle", "tag", "push"} =>
    \A b \in 1..current :
      /\ Claimed(b) = platforms[b]
      /\ Len(images[b]) = Cardinality(platforms[b])

\* Once push has returned, every tag names exactly the images of its build.
PushComplete ==
  at[1] > current =>
    \A b \in 1..current : \A t \in 1..tagged[b] :
      remote[<<b, t>>] = {images[b][i] : i \in DOMAIN images[b]}

\* An intermediate image that outlives the run is one docker refused to remove
\* or of a platform that its failed build never claimed.
LeftoversExplained ==
  main = "exited" =>
    \A r \in Refs : local[r] # 0 => refused \/ (r[1] = current /\ r[2] \in unclaimed)

\* A build ends: no retry goes on for ever and the join is no deadlock.
BuildEnds == main = "registry" ~> main \in {"idle", "closing"}

\* The builder keeps the promise of PlatformBuilds.
Outcome(b) ==
  IF b > current THEN "none"
  ELSE IF b = current /\ main \in {"registry", "join", "claim"} THEN "running"
  ELSE IF b = current /\ unclaimed # {} THEN "failed"
  ELSE "built"

Promise ==
  INSTANCE PlatformBuilds WITH
    asked <- platforms,
    outcome <- [b \in 1..NBuilds |-> Outcome(b)],
    published <- [bt \in Places |-> {e[1] : e \in remote[bt]}]
KeepsPromise == Promise!Spec

\* multiplatform_image_builder.py: "This method will time out if it takes too
\* long. An exception may be caught and retried for the timeout": a timeout
\* ends the run only after the last attempt.
TimeoutsRetried == failure = "timeout" => pushTries = 1
=============================================================================
