------------------------------ MODULE RunTask ------------------------------
(***************************************************************************)
(* One run task (src/buildrunner/steprunner/tasks/run.py): its network and *)
(* containers, the wait for the ports of services, the build container and *)
(* its exit code, artifacts, post-build, and the chain of its cleanup.     *)
(*                                                                         *)
(* The steps are those of the main thread.  Services and docker go on      *)
(* between them.  What a signal between any two calls to docker does is in *)
(* ContainerCleanup, what a push or commit task makes of the result in     *)
(* BuildRun, the caches in CacheArchive.                                   *)
(***************************************************************************)
EXTENDS Naturals

CONSTANTS
  NServices,  \* bound on the services of the step, in their order
  MaxChecks   \* the checks of a port that fit into its timeout

ASSUME RunTaskAssumption == NServices \in Nat /\ MaxChecks \in Nat \ {0}

Service(i) == <<"service", i>>
Services == {Service(i) : i \in 1..NServices}
Source == <<"source", 0>>
Agent == <<"agent", 0>>
Proxy == <<"proxy", 0>>
Build == <<"build", 0>>
Tester == <<"tester", 0>>    \* of the port, one at a time
Lister == <<"lister", 0>>    \* of the artifacts
Containers == Services \cup {Source, Agent, Proxy, Build, Tester, Lister}
Network == <<"network", 0>>
Image == <<"image", 0>>      \* the temporary tag of a post-build

VARIABLES
  phase,      \* where the task is
  err,        \* whether run is left by an exception
  daemon,     \* the state of each container
  registered, \* the containers known to cleanup.py
  held,       \* the containers whose owner has an id
  proxyMade,  \* whether _dockerdaemonproxy is set
  svc,        \* services begun
  waited,     \* those of them with wait_for
  port,       \* whether the port of each service is open
  checks,     \* checks of the current wait
  mode,       \* how the build container runs: "commands" or "attach"
  exitCode,   \* exit_code; "unknown" is a None read from docker
  network,    \* whether the network exists
  tag,        \* whether the temporary tag exists
  opened,     \* history: services whose port was open at a check
  gathered,   \* history: the artifacts were looked at
  misread,    \* history: a failed status was taken for the end of a container
  refused,    \* history: what docker refused to do, or to do with what it has spawned
  cut         \* history: where the cleanup was left by an exception

service == <<svc, waited, checks>>
run == <<mode, exitCode, gathered>>
names == <<network, tag>>
vars == <<phase, err, daemon, registered, held, proxyMade, svc, waited, port, checks, mode,
          exitCode, network, tag, opened, gathered, misread, refused, cut>>

Starting == {"new", "source", "agent", "proxy", "services"}
Waiting == {"check", "probe", "probing"}
Running == {"build", "restore", "running", "save", "stop", "artifacts", "listing",
            "code", "post"}
Cleaning == {"cleanBuild", "cleanServices", "cleanProxy", "cleanAgent", "cleanSource",
             "cleanImages"}
Phases == Starting \cup Waiting \cup Running \cup {"ended"} \cup Cleaning \cup {"cleaned", "gone"}
Things == Containers \cup {Network, Image}

TypeOK ==
  /\ phase \in Phases
  /\ err \in BOOLEAN /\ proxyMade \in BOOLEAN
  /\ daemon \in [Containers -> {"none", "created", "running", "exited"}]
  /\ registered \subseteq Containers
  /\ held \subseteq Containers
  /\ svc \in 0..NServices
  /\ waited \subseteq 1..NServices
  /\ port \in [1..NServices -> BOOLEAN]
  /\ checks \in 1..MaxChecks
  /\ mode \in {"none", "commands", "attach"}
  /\ exitCode \in {"none", "zero", "nonzero", "unknown"}
  /\ network \in BOOLEAN /\ tag \in BOOLEAN
  /\ opened \subseteq 1..NServices
  /\ gathered \in BOOLEAN /\ misread \in BOOLEAN
  /\ refused \subseteq Things
  /\ cut \in Containers \cup {Image, Network}

Init ==
  /\ phase = "new" /\ err = FALSE
  /\ daemon = [c \in Containers |-> "none"]
  /\ registered = {} /\ held = {} /\ proxyMade = FALSE
  /\ svc = 0 /\ waited = {} /\ checks = 1
  /\ port = [i \in 1..NServices |-> FALSE]
  /\ mode = "none" /\ exitCode = "none"
  /\ network = FALSE /\ tag = FALSE
  /\ opened = {} /\ gathered = FALSE /\ misread = FALSE
  /\ refused = {}
  /\ cut = Network  \* nothing of the chain

-----------------------------------------------------------------------------
(* Containers. *)

Raise(next) == phase' = next /\ err' = TRUE
Proceed(next) == phase' = next /\ UNCHANGED err
Live(c) == daemon[c] # "none"

\* Create, start, register: the owner knows the id once it is created.
Started(c) ==
  /\ daemon' = [daemon EXCEPT ![c] = "running"]
  /\ held' = held \cup {c}
  /\ registered' = registered \cup {c}

\* The image is missing, or the container is created and does not start.
StartFails(c) ==
  \/ UNCHANGED <<daemon, held, registered>>
  \/ /\ daemon' = [daemon EXCEPT ![c] = "created"]
     /\ held' = held \cup {c}
     /\ UNCHANGED registered

\* The containers that may be configured to spawn others.
Spawners == Services \cup {Build}

\* DockerRunner.cleanup, and what the proxies do: whatever docker answers, the container
\* is unregistered, unless docker already refuses to remove what it has spawned.
Removed(c) ==
  /\ daemon' = [daemon EXCEPT ![c] = "none"]
  /\ held' = held \ {c}
  /\ registered' = registered \ {c}
  /\ UNCHANGED refused
NotRemoved(c) ==
  /\ registered' = registered \ {c} \/ (c \in Spawners /\ UNCHANGED registered)
  /\ refused' = refused \cup {c}
  /\ UNCHANGED <<daemon, held>>

\* A provisioner fails: the container is removed, or that fails too.
ProvisionFails(c) ==
  \/ UNCHANGED <<daemon, held, registered, refused>>
  \/ /\ daemon' = [daemon EXCEPT ![c] = "running"]
     /\ held' = held \cup {c}
     /\ refused' = refused \cup {c}
     /\ UNCHANGED registered

-----------------------------------------------------------------------------
(* What the build container needs. *)

\* A constructor that raises leaves no task to clean up.
Construct ==
  /\ phase = "new"
  /\ \/ Proceed("source") /\ network' = TRUE
     \/ Raise("cleaned") /\ UNCHANGED network
  /\ UNCHANGED <<daemon, registered, held, proxyMade, service, port, run, tag, opened,
                 misread, refused, cut>>

StartSource ==
  /\ phase = "source"
  /\ \/ Started(Source) /\ Proceed("agent")
     \/ StartFails(Source) /\ Raise("ended")
  /\ UNCHANGED <<proxyMade, service, port, run, names, opened, misread, refused, cut>>

\* The connection to the agent may fail after all its attempts.
StartAgent ==
  /\ phase = "agent"
  /\ \/ UNCHANGED <<daemon, held, registered>> /\ Proceed("proxy")
     \/ Started(Agent) /\ (Proceed("proxy") \/ Raise("ended"))
     \/ StartFails(Agent) /\ Raise("ended")
  /\ UNCHANGED <<proxyMade, service, port, run, names, opened, misread, refused, cut>>

StartProxy ==
  /\ phase = "proxy"
  /\ proxyMade' = TRUE
  /\ \/ Started(Proxy) /\ Proceed("services")
     \/ StartFails(Proxy) /\ Raise("ended")
  /\ UNCHANGED <<service, port, run, names, opened, misread, refused, cut>>

StartService ==
  /\ phase = "services" /\ svc < NServices
  /\ svc' = svc + 1
  /\ \/ /\ Started(Service(svc + 1))
        /\ \/ Proceed("services") /\ UNCHANGED <<waited, checks>>
           \/ Proceed("check") /\ waited' = waited \cup {svc + 1} /\ checks' = 1
        /\ UNCHANGED refused
     \/ StartFails(Service(svc + 1)) /\ Raise("ended") /\ UNCHANGED <<waited, checks, refused>>
     \/ ProvisionFails(Service(svc + 1)) /\ Raise("ended") /\ UNCHANGED <<waited, checks>>
  /\ UNCHANGED <<proxyMade, port, run, names, opened, misread, cut>>

\* What the build container needs of its services may not be had.
ServicesDone ==
  /\ phase = "services"
  /\ Proceed("build") \/ Raise("ended")
  /\ UNCHANGED <<daemon, registered, held, proxyMade, service, port, run, names, opened,
                 misread, refused, cut>>

-----------------------------------------------------------------------------
(* wait: the port of the service just begun, one for each service. *)

\* A container that is gone ends the wait.
CheckService ==
  /\ phase = "check"
  /\ \/ daemon[Service(svc)] = "running" /\ Proceed("probe")
     \/ Raise("ended")
  /\ UNCHANGED <<daemon, registered, held, proxyMade, service, port, run, names, opened,
                 misread, refused, cut>>

\* The tester that does not start is removed, as far as it was created.
StartTester ==
  /\ phase = "probe"
  /\ \/ Started(Tester) /\ Proceed("probing") /\ UNCHANGED refused
     \/ UNCHANGED <<daemon, registered, held, refused>> /\ Raise("ended")
     \/ /\ daemon' = [daemon EXCEPT ![Tester] = "created"]
        /\ held' = held \cup {Tester}
        /\ refused' = refused \cup {Tester}
        /\ UNCHANGED registered /\ Raise("ended")
  /\ UNCHANGED <<proxyMade, service, port, run, names, opened, misread, cut>>

\* Mutant of Found: an exit code that is not known counts as success.
FoundUnlessRefused(code) ==
  IF code # "nonzero" THEN Proceed("services") /\ UNCHANGED checks
  ELSE IF checks = MaxChecks THEN Raise("ended") /\ UNCHANGED checks
  ELSE Proceed("check") /\ checks' = checks + 1

\* Mutant of Found: one check too many.
FoundOnceMore(code) ==
  IF code = "zero" THEN Proceed("services") /\ UNCHANGED checks
  ELSE IF checks > MaxChecks THEN Raise("ended") /\ UNCHANGED checks
  ELSE Proceed("check") /\ checks' = checks + 1

\* Mutant of Found: the time is not looked at.
FoundOrForever(code) ==
  IF code = "zero" THEN Proceed("services") /\ UNCHANGED checks
  ELSE Proceed("check") /\ UNCHANGED checks

\* The next step of the loop: the timeout is looked at after a failed check.
Found(code) ==
  IF code = "zero" THEN Proceed("services") /\ UNCHANGED checks
  ELSE IF checks = MaxChecks THEN Raise("ended") /\ UNCHANGED checks
  ELSE Proceed("check") /\ checks' = checks + 1

\* The tester ends with the state of the port, or its status cannot be had; a
\* status that cannot be had while it runs is taken for its end, and docker says
\* 0 of a container that runs.
Probe(code, early) ==
  /\ phase = "probing"
  /\ code \in IF early THEN {"zero", "unknown"}
              ELSE {"unknown", IF port[svc] THEN "zero" ELSE "nonzero"}
  /\ misread' = (misread \/ early)
  /\ opened' = IF port[svc] THEN opened \cup {svc} ELSE opened
  /\ \/ Removed(Tester) /\ Found(code)
     \/ (Removed(Tester) \/ NotRemoved(Tester)) /\ Raise("ended") /\ UNCHANGED checks
  /\ UNCHANGED <<proxyMade, svc, waited, port, run, names, cut>>

\* Services go their own way.
ServiceOpens(i) ==
  /\ daemon[Service(i)] = "running" /\ ~port[i]
  /\ port' = [port EXCEPT ![i] = TRUE]
  /\ UNCHANGED <<phase, err, daemon, registered, held, proxyMade, service, run, names,
                 opened, misread, refused, cut>>

ServiceExits(i) ==
  /\ daemon[Service(i)] = "running"
  /\ daemon' = [daemon EXCEPT ![Service(i)] = "exited"]
  /\ port' = [port EXCEPT ![i] = FALSE]
  /\ UNCHANGED <<phase, err, registered, held, proxyMade, service, run, names, opened,
                 misread, refused, cut>>

-----------------------------------------------------------------------------
(* The build container. *)

StartBuild ==
  /\ phase = "build"
  /\ \/ Started(Build) /\ Proceed("restore") /\ UNCHANGED refused
     \/ StartFails(Build) /\ Raise("stop") /\ UNCHANGED refused
     \/ ProvisionFails(Build) /\ Raise("stop")
  /\ UNCHANGED <<proxyMade, service, port, run, names, opened, misread, cut>>

\* The caches of the task.
RestoreCaches ==
  /\ phase = "restore"
  /\ \/ Proceed("running") /\ mode' \in {"commands", "attach"}
     \/ Raise("stop") /\ UNCHANGED mode
  /\ UNCHANGED <<daemon, registered, held, proxyMade, service, port, exitCode, names,
                 opened, gathered, misread, refused, cut>>

\* The first command that fails is the last.
Command ==
  /\ phase = "running" /\ mode = "commands"
  /\ \/ exitCode' = "zero" /\ (Proceed("running") \/ Proceed("save"))
     \/ exitCode' = "nonzero" /\ Proceed("save")
     \/ Raise("stop") /\ UNCHANGED exitCode
  /\ UNCHANGED <<daemon, registered, held, proxyMade, service, port, mode, names, opened,
                 gathered, misread, refused, cut>>

\* attach_until_finished: as with the tester, a status that cannot be had is
\* taken for the end.
Attach ==
  /\ phase = "running" /\ mode = "attach"
  /\ \/ /\ daemon' = [daemon EXCEPT ![Build] = "exited"]
        /\ exitCode' \in {"zero", "nonzero", "unknown"}
        /\ Proceed("save") /\ UNCHANGED misread
     \/ /\ exitCode' \in {"zero", "unknown"} /\ misread' = TRUE
        /\ Proceed("save") /\ UNCHANGED daemon
     \/ Raise("stop") /\ UNCHANGED <<daemon, exitCode, misread>>
  /\ UNCHANGED <<registered, held, proxyMade, service, port, mode, names, opened, gathered,
                 refused, cut>>

\* Errors in saving the caches are ignored.
SaveCaches ==
  /\ phase = "save"
  /\ Proceed("stop")
  /\ UNCHANGED <<daemon, registered, held, proxyMade, service, port, run, names, opened,
                 misread, refused, cut>>

\* Mutant of Stop: a task that failed is left at once.
StopAndCheck ==
  /\ phase = "stop"
  /\ daemon' = IF daemon[Build] = "running" THEN [daemon EXCEPT ![Build] = "exited"] ELSE daemon
  /\ IF err \/ exitCode # "zero" THEN Raise("ended") ELSE Proceed("artifacts")
  /\ UNCHANGED <<registered, held, proxyMade, service, port, run, names, opened, misread,
                 refused, cut>>

\* The finally block; a stop that fails replaces the exception.
Stop ==
  /\ phase = "stop"
  /\ \/ /\ daemon' = IF daemon[Build] = "running"
                     THEN [daemon EXCEPT ![Build] = "exited"] ELSE daemon
        /\ Proceed(IF err THEN "ended" ELSE "artifacts")
        /\ UNCHANGED refused
     \/ Build \in held /\ Raise("ended") /\ refused' = refused \cup {Build} /\ UNCHANGED daemon
  /\ UNCHANGED <<registered, held, proxyMade, service, port, run, names, opened, misread, cut>>

-----------------------------------------------------------------------------
(* What comes of it. *)

\* The lister is used for the ownership of the files before it is removed: one
\* that did not start is not removed.
StartLister ==
  /\ phase = "artifacts"
  /\ \/ UNCHANGED <<daemon, held, registered>> /\ Proceed("code")
     \/ Started(Lister) /\ Proceed("listing")
     \/ StartFails(Lister) /\ Raise("ended")
  /\ gathered' = TRUE
  /\ UNCHANGED <<proxyMade, service, port, mode, exitCode, names, opened, misread, refused, cut>>

ListArtifacts ==
  /\ phase = "listing"
  /\ \/ Removed(Lister) /\ (Proceed("code") \/ Raise("ended"))
     \/ NotRemoved(Lister) /\ Raise("ended")
     \/ UNCHANGED <<daemon, held, registered, refused>> /\ Raise("ended")
  /\ UNCHANGED <<proxyMade, service, port, run, names, opened, misread, cut>>

CheckCode ==
  /\ phase = "code"
  /\ IF exitCode # "zero" THEN Raise("ended") ELSE Proceed("ended") \/ Proceed("post")
  /\ UNCHANGED <<daemon, registered, held, proxyMade, service, port, run, names, opened,
                 misread, refused, cut>>

\* The commit refuses a container that runs.
PostBuild ==
  /\ phase = "post"
  /\ \/ daemon[Build] = "exited" /\ tag' = TRUE /\ (Proceed("ended") \/ Raise("ended"))
     \/ Raise("ended") /\ UNCHANGED tag
  /\ UNCHANGED <<daemon, registered, held, proxyMade, service, port, run, network, opened,
                 misread, refused, cut>>

-----------------------------------------------------------------------------
(* cleanup, after the later tasks of the step, and the end of the object. *)

Cut(c) == phase' = "cleaned" /\ cut' = c /\ UNCHANGED err

BeginCleanup ==
  /\ phase = "ended"
  /\ Proceed("cleanBuild")
  /\ UNCHANGED <<daemon, registered, held, proxyMade, service, port, run, names, opened,
                 misread, refused, cut>>

\* The cleanup of a DockerRunner raises what docker refuses.
CleanBuild ==
  /\ phase = "cleanBuild"
  /\ \/ Build \notin held /\ UNCHANGED <<daemon, held, registered, refused, cut>>
        /\ Proceed("cleanServices")
     \/ Build \in held /\ Removed(Build) /\ Proceed("cleanServices") /\ UNCHANGED cut
     \/ Build \in held /\ NotRemoved(Build) /\ Cut(Build)
  /\ UNCHANGED <<proxyMade, service, port, run, names, opened, misread>>

\* Mutant of CleanService: in the order in which they were started.
CleanServiceForward(i) ==
  /\ phase = "cleanServices" /\ Service(i) \in held
  /\ \A j \in 1..(i - 1) : Service(j) \notin held
  /\ \/ Removed(Service(i)) /\ UNCHANGED <<phase, err, cut>>
     \/ NotRemoved(Service(i)) /\ Cut(Service(i))
  /\ UNCHANGED <<proxyMade, service, port, run, names, opened, misread>>

\* In the reverse order.
CleanService(i) ==
  /\ phase = "cleanServices" /\ Service(i) \in held
  /\ \A j \in (i + 1)..NServices : Service(j) \notin held
  /\ \/ Removed(Service(i)) /\ UNCHANGED <<phase, err, cut>>
     \/ NotRemoved(Service(i)) /\ Cut(Service(i))
  /\ UNCHANGED <<proxyMade, service, port, run, names, opened, misread>>

\* Mutant of ServicesCleaned: after the last service.
LastServiceCleaned ==
  /\ phase = "cleanServices" /\ Service(svc) \notin held
  /\ Proceed("cleanProxy")
  /\ UNCHANGED <<daemon, registered, held, proxyMade, service, port, run, names, opened,
                 misread, refused, cut>>

ServicesCleaned ==
  /\ phase = "cleanServices" /\ Services \cap held = {}
  /\ Proceed("cleanProxy")
  /\ UNCHANGED <<daemon, registered, held, proxyMade, service, port, run, names, opened,
                 misread, refused, cut>>

\* A proxy without a container raises an exception over its log message.
CleanProxy ==
  /\ phase = "cleanProxy"
  /\ \/ ~proxyMade /\ UNCHANGED <<daemon, held, registered, refused, cut>> /\ Proceed("cleanAgent")
     \/ proxyMade /\ Proxy \notin held /\ Cut(Proxy)
        /\ UNCHANGED <<daemon, held, registered, refused>>
     \/ /\ Proxy \in held /\ (Removed(Proxy) \/ NotRemoved(Proxy))
        /\ Proceed("cleanAgent") /\ UNCHANGED cut
  /\ UNCHANGED <<proxyMade, service, port, run, names, opened, misread>>

\* The agent's and the source container: what is refused is logged.
CleanQuietly(c, here, next) ==
  /\ phase = here
  /\ \/ c \notin held /\ UNCHANGED <<daemon, held, registered, refused>>
     \/ c \in held /\ (Removed(c) \/ NotRemoved(c))
  /\ Proceed(next)
  /\ UNCHANGED <<proxyMade, service, port, run, names, opened, misread, cut>>
CleanAgent == CleanQuietly(Agent, "cleanAgent", "cleanSource")
CleanSource == CleanQuietly(Source, "cleanSource", "cleanImages")

CleanImages ==
  /\ phase = "cleanImages"
  /\ \/ tag' = FALSE /\ Proceed("cleaned") /\ UNCHANGED <<refused, cut>>
     \/ tag /\ UNCHANGED tag /\ Cut(Image) /\ refused' = refused \cup {Image}
  /\ UNCHANGED <<daemon, registered, held, proxyMade, service, port, run, network, opened,
                 misread>>

\* Containers that run keep docker from removing their network; those of source
\* and proxy end at once, and the lister is not in it.
Members == Services \cup {Agent, Build, Tester}
InNetwork == {c \in Members : daemon[c] = "running"}

\* __del__
Delete ==
  /\ phase = "cleaned"
  /\ Proceed("gone")
  /\ \/ InNetwork = {} /\ network' = FALSE /\ UNCHANGED refused
     \/ network /\ InNetwork # {} /\ UNCHANGED <<network, refused>>
     \/ network /\ refused' = refused \cup {Network} /\ UNCHANGED network
  /\ UNCHANGED <<daemon, registered, held, proxyMade, service, port, run, tag, opened,
                 misread, cut>>

Gone == phase = "gone" /\ UNCHANGED vars

-----------------------------------------------------------------------------
Prepare == Construct \/ StartSource \/ StartAgent \/ StartProxy \/ StartService \/ ServicesDone
Wait ==
  \/ CheckService \/ StartTester
  \/ \E code \in {"zero", "nonzero", "unknown"}, early \in BOOLEAN : Probe(code, early)
RunBuild == StartBuild \/ RestoreCaches \/ Command \/ Attach \/ SaveCaches \/ Stop
Collect == StartLister \/ ListArtifacts \/ CheckCode \/ PostBuild
Cleanup ==
  \/ BeginCleanup \/ CleanBuild \/ ServicesCleaned \/ CleanProxy
  \/ CleanAgent \/ CleanSource \/ CleanImages \/ Delete
  \/ \E i \in 1..NServices : CleanService(i)
ServiceStep == \E i \in 1..NServices : ServiceOpens(i) \/ ServiceExits(i)

Next == Prepare \/ Wait \/ RunBuild \/ Collect \/ Cleanup \/ ServiceStep \/ Gone

Spec == Init /\ [][Next]_vars

\* A check of a port ends, and so does each call of the cleanup.
FairSpec == Spec /\ WF_vars(Wait) /\ WF_vars(Cleanup)

-----------------------------------------------------------------------------
(* Properties. *)

\* The order of the cleanup.
Rank(c) ==
  CASE c = Build -> 1
    [] c \in Services -> 2 + NServices - c[2]
    [] c = Proxy -> NServices + 2
    [] c = Agent -> NServices + 3
    [] c = Source -> NServices + 4
    [] c = Image -> NServices + 5
    [] c = Network -> NServices + 6
    [] OTHER -> 0

\* After the cleanup, what is left of the task is what docker refused to remove,
\* what the cleanup did not come to after an exception, and a lister whose use
\* failed; those that run are known to the exit hook or were refused.  The network
\* stays when it was refused, or because of such a container in it.
LeftoversExplained ==
  phase = "gone" =>
    /\ \A c \in Containers : Live(c) => c \in refused \/ Rank(c) > Rank(cut) \/ (c = Lister /\ err)
    /\ \A c \in Containers : daemon[c] = "running" => c \in registered \cup refused
    /\ tag => Image \in refused \/ Rank(Image) > Rank(cut)
    /\ network => \/ Network \in refused
                  \/ \E c \in Members : Live(c) /\ (c \in refused \/ Rank(c) > Rank(cut))

\* The build container is started when each port to wait for has been open at a
\* check, whatever checks failed before and whichever services ended.
WaitsHonest ==
  phase \in Running /\ ~misread => waited \subseteq opened

\* What others use is removed after them: a service after those started later and the
\* build container, the proxies after all services, and the network after all that is left
\* of these, but for what docker refused to remove and what the cleanup did not come to.
TeardownOrder ==
  [][/\ \A c \in held \ held' :
          Rank(c) # 0 => \A d \in held' \ refused' : Rank(d) = 0 \/ Rank(d) > Rank(c)
     /\ network /\ ~network' =>
          \A d \in held \ refused : Rank(d) = 0 \/ Rank(d) > Rank(cut)]_vars

\* "gather artifacts to results dir even if run has bad exit code": only an error
\* in stopping the container keeps a task that failed from them.
ArtifactsGathered ==
  phase \in Cleaning /\ exitCode = "nonzero" => gathered \/ Build \in refused

\* A wait ends.
WaitEnds == phase = "check" ~> phase \notin Waiting

\* docker/runner.py: "Attach to the container, writing output to the given log
\* stream until the container exits."
AttachedUntilExit == phase = "save" /\ mode = "attach" => daemon[Build] = "exited"
=============================================================================
