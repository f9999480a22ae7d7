-------------------------- MODULE ContainerCleanup --------------------------
(***************************************************************************)
(* The registry of the containers a buildrunner process has started        *)
(* (src/buildrunner/cleanup.py) and the code that fills and empties it:    *)
(* every owner creates, starts and then registers its container, and       *)
(* removes and then unregisters it.  SIGTERM or SIGINT may interrupt the   *)
(* main thread between any two of these steps; the handler runs on the     *)
(* same thread, so the main program never resumes after it.                *)
(*                                                                         *)
(* Kinds of owners, which differ in what a failing daemon call does:       *)
(*   Runners    docker/runner.py: a refused removal is raised              *)
(*   Proxies    docker/daemon.py, sshagent/__init__.py and the source      *)
(*              container of steprunner/tasks/run.py: it is swallowed      *)
(*   Registries the local registry of multiplatform_image_builder.py:      *)
(*              created and started by one call, and raised                *)
(***************************************************************************)
EXTENDS Naturals

CONSTANTS
  Runners, Proxies, Registries, \* the containers one build may start
  NoContainer,                  \* None
  MaxSignals                    \* bound on the signals the process receives

Containers == Runners \cup Proxies \cup Registries

ASSUME CleanupAssumption ==
  /\ NoContainer \notin Containers
  /\ Runners \cap Registries = {}
  /\ Proxies \cap Registries = {}
  /\ Runners \cap Proxies = {}
  /\ MaxSignals \in Nat

VARIABLES
  main,        \* where the process is
  daemon,      \* the daemon's view of each container
  inflight,    \* the container the main thread is starting
  removing,    \* the container the main thread removed and has yet to unregister
  handle,      \* containers whose owner still holds the id
  registered,  \* _registered_containers
  client,      \* _docker_client: "unset" is None
  done,        \* _cleanup_done
  sweep,       \* what the loop of _force_cleanup_all has left to remove
  signals,     \* signals received so far
  refused,     \* history: removals the daemon refused
  startFailed  \* history: containers that were created and failed to start

vars == <<main, daemon, inflight, removing, handle, registered, client, done,
          sweep, signals, refused, startFailed>>
history == <<signals, refused, startFailed>>
registry == <<registered, client, done, sweep>>

TypeOK ==
  /\ main \in {"init", "run", "closing", "atexit", "handler", "exited"}
  /\ daemon \in [Containers -> {"none", "created", "running", "removed"}]
  /\ inflight \in Containers \cup {NoContainer}
  /\ removing \in Containers \cup {NoContainer}
  /\ handle \subseteq Containers
  /\ registered \subseteq Containers
  /\ client \in {"unset", "api"}
  /\ done \in BOOLEAN
  /\ sweep \subseteq Containers
  /\ signals \in Nat
  /\ refused \subseteq Containers
  /\ startFailed \subseteq Containers

Alive(c) == daemon[c] \in {"created", "running"}

\* The main thread is between two steps of its own.
Free == inflight = NoContainer /\ removing = NoContainer

Init ==
  /\ main = "init"
  /\ daemon = [c \in Containers |-> "none"]
  /\ inflight = NoContainer
  /\ removing = NoContainer
  /\ handle = {}
  /\ registered = {}
  /\ client = "unset"
  /\ done = FALSE
  /\ sweep = {}
  /\ signals = 0
  /\ refused = {}
  /\ startFailed = {}

-----------------------------------------------------------------------------
(* The main program. *)

\* cli.main: the handlers are installed, the program is initialised, and the
\* client for the handler is set unless it cannot be created.
SetDockerClient ==
  /\ main = "init"
  /\ main' = "run"
  /\ client' \in {"api", "unset"}
  /\ UNCHANGED <<daemon, inflight, removing, handle, registered, done, sweep, history>>

\* The owner's attribute holds the id as soon as create_container returns.
Create(c) ==
  /\ main = "run" /\ Free
  /\ c \notin Registries /\ daemon[c] = "none"
  /\ daemon' = [daemon EXCEPT ![c] = "created"]
  /\ inflight' = c
  /\ handle' = handle \cup {c}
  /\ UNCHANGED <<main, removing, registry, history>>

Start(c) ==
  /\ main = "run" /\ inflight = c
  /\ daemon[c] = "created"
  /\ daemon' = [daemon EXCEPT ![c] = "running"]
  /\ UNCHANGED <<main, inflight, removing, handle, registry, history>>

\* The start call raises: nothing registers the container, its owner keeps it.
StartFails(c) ==
  /\ main = "run" /\ inflight = c
  /\ daemon[c] = "created"
  /\ main' = "closing"
  /\ inflight' = NoContainer
  /\ startFailed' = startFailed \cup {c}
  /\ UNCHANGED <<daemon, removing, handle, registry, signals, refused>>

\* Mutant of Register: without its test for an empty id, register_container
\* stores the None of an owner that holds nothing.
RegisterNone(c) ==
  /\ main = "run" /\ inflight = c
  /\ c \notin Registries /\ daemon[c] = "running"
  /\ registered' = registered \cup {removing}
  /\ inflight' = NoContainer
  /\ UNCHANGED <<main, daemon, removing, handle, client, done, sweep, history>>

Register(c) ==
  /\ main = "run" /\ inflight = c
  /\ c \notin Registries /\ daemon[c] = "running"
  /\ registered' = registered \cup {c}
  /\ inflight' = NoContainer
  /\ UNCHANGED <<main, daemon, removing, handle, client, done, sweep, history>>

\* docker.run creates and starts the registry before its name is known here.
RunRegistry(c) ==
  /\ main = "run" /\ Free
  /\ c \in Registries /\ daemon[c] = "none"
  /\ daemon' = [daemon EXCEPT ![c] = "running"]
  /\ inflight' = c
  /\ UNCHANGED <<main, removing, handle, registry, history>>

\* It creates the registry, but fails to start it: its name never becomes known.
RunRegistryFails(c) ==
  /\ main = "run" /\ Free
  /\ c \in Registries /\ daemon[c] = "none"
  /\ daemon' = [daemon EXCEPT ![c] = "created"]
  /\ startFailed' = startFailed \cup {c}
  /\ main' = "closing"
  /\ UNCHANGED <<inflight, removing, handle, registry, signals, refused>>

\* Mutant of RegisterRegistry: the builder forgets to register its registry.
RegistryUnregistered(c) ==
  /\ main = "run" /\ inflight = c
  /\ c \in Registries
  /\ inflight' = NoContainer
  /\ \/ handle' = handle \cup {c} /\ UNCHANGED main
     \/ main' = "closing" /\ UNCHANGED handle
  /\ UNCHANGED <<daemon, removing, registry, history>>

\* The registry is registered before the asserts on its ports, and owned by
\* the builder (running flag and info) only after them.
RegisterRegistry(c) ==
  /\ main = "run" /\ inflight = c
  /\ c \in Registries
  /\ registered' = registered \cup {c}
  /\ inflight' = NoContainer
  /\ \/ handle' = handle \cup {c} /\ UNCHANGED main
     \/ main' = "closing" /\ UNCHANGED handle
  /\ UNCHANGED <<daemon, removing, client, done, sweep, history>>

\* The owner's removal succeeds, or finds the container already gone.
Remove(c) ==
  /\ main \in {"run", "closing"} /\ Free
  /\ c \in handle
  /\ daemon' = [daemon EXCEPT ![c] = "removed"]
  /\ removing' = c
  /\ handle' = handle \ {c}
  /\ UNCHANGED <<main, inflight, registry, history>>

\* The daemon refuses: an owner that raises keeps the id.
RemoveRefused(c) ==
  /\ main \in {"run", "closing"} /\ Free
  /\ c \in handle
  /\ refused' = refused \cup {c}
  /\ removing' = c
  /\ handle' = IF c \in Proxies THEN handle \ {c} ELSE handle
  /\ UNCHANGED <<main, daemon, inflight, registry, signals, startFailed>>

\* The finally clause of each removal: it runs whether the removal succeeded
\* or not.
Unregister ==
  /\ main \in {"run", "closing"}
  /\ removing # NoContainer
  /\ registered' = registered \ {removing}
  /\ removing' = NoContainer
  /\ UNCHANGED <<main, daemon, inflight, handle, client, done, sweep, history>>

\* An exception in a chain of cleanups skips the owners after it; the step
\* runner swallows it and nobody cleans them up again.
SkipCleanup ==
  /\ main \in {"run", "closing"} /\ Free
  /\ \E S \in (SUBSET handle) \ {{}} : handle' = handle \ S
  /\ UNCHANGED <<main, daemon, inflight, removing, registry, history>>

\* Any error ends the run; what remains are the finally clauses.
Raise ==
  /\ main = "run" /\ Free
  /\ main' = "closing"
  /\ UNCHANGED <<daemon, inflight, removing, handle, registry, history>>

-----------------------------------------------------------------------------
(* Cleanup on exit and on signals. *)

\* The first call takes a snapshot of the list.  Without a client it makes one
\* with docker.from_env(), which may fail.
ForceCleanupAll ==
  /\ done' = TRUE
  /\ \/ sweep' = registered
     \/ client = "unset" /\ sweep' = {}

\* Mutant of MainEnds: no atexit hook.
MainEndsWithoutHook ==
  /\ main \in {"init", "run", "closing"} /\ Free
  /\ handle = {}
  /\ main' = "exited"
  /\ UNCHANGED <<daemon, inflight, removing, handle, registry, history>>

\* The interpreter exits after the last finally clause and runs the atexit hook.
MainEnds ==
  /\ main \in {"init", "run", "closing"} /\ Free
  /\ handle = {}
  /\ main' = "atexit"
  /\ ForceCleanupAll
  /\ UNCHANGED <<daemon, inflight, removing, handle, registered, client, history>>

\* A signal: the handler sweeps, or exits at once when a sweep has begun.
Signal ==
  /\ main # "exited" /\ signals < MaxSignals
  /\ signals' = signals + 1
  /\ \/ ~done /\ main' = "handler" /\ ForceCleanupAll
     \/ done /\ main' = "exited" /\ UNCHANGED <<done, sweep>>
  /\ UNCHANGED <<daemon, inflight, removing, handle, registered, client,
                 refused, startFailed>>

\* One pass of the loop; a container that is already gone is no error.
SweepRemove(c) ==
  /\ main \in {"atexit", "handler"} /\ client = "api"
  /\ c \in sweep
  /\ sweep' = sweep \ {c}
  /\ \/ daemon' = [daemon EXCEPT ![c] = "removed"] /\ UNCHANGED refused
     \/ Alive(c) /\ refused' = refused \cup {c} /\ UNCHANGED daemon
  /\ UNCHANGED <<main, inflight, removing, handle, registered, client, done,
                 signals, startFailed>>

\* The client of docker.from_env() is a DockerClient, which has no
\* remove_container: the AttributeError is swallowed like any other error.
SweepWithoutApi(c) ==
  /\ main \in {"atexit", "handler"} /\ client = "unset"
  /\ c \in sweep
  /\ sweep' = sweep \ {c}
  /\ UNCHANGED <<main, daemon, inflight, removing, handle, registered, client,
                 done, history>>

\* Mutant of Exit: the handler returns instead of calling os._exit, and the main
\* program goes on where it was.
HandlerReturns ==
  /\ main \in {"atexit", "handler"} /\ sweep = {}
  /\ main' = IF main = "handler" THEN "run" ELSE "exited"
  /\ UNCHANGED <<daemon, inflight, removing, handle, registry, history>>

\* os._exit in the handler, or the end of the interpreter.
Exit ==
  /\ main \in {"atexit", "handler"} /\ sweep = {}
  /\ main' = "exited"
  /\ UNCHANGED <<daemon, inflight, removing, handle, registry, history>>

-----------------------------------------------------------------------------
MainStep ==
  \/ SetDockerClient
  \/ \E c \in Containers :
       \/ Create(c) \/ Start(c) \/ StartFails(c) \/ Register(c)
       \/ RunRegistry(c) \/ RunRegistryFails(c) \/ RegisterRegistry(c)
       \/ Remove(c) \/ RemoveRefused(c)
  \/ Unregister \/ SkipCleanup \/ Raise \/ MainEnds

CleanupStep ==
  \/ \E c \in Containers : SweepRemove(c) \/ SweepWithoutApi(c)
  \/ Exit

Next == MainStep \/ CleanupStep \/ Signal

Spec == Init /\ [][Next]_vars

\* The loop of _force_cleanup_all and the exit after it have nothing to wait
\* for: each daemon call returns or raises.
FairSpec == Spec /\ WF_vars(CleanupStep)

-----------------------------------------------------------------------------
(* Properties *)

\* Every container a process leaves behind has one of five causes: the daemon
\* refused to remove it, or never started it; the signal fell between its
\* creation and its registration; a signal cut the sweep short before its
\* turn; or the handler had no API client.  No interleaving of starts,
\* removals, skipped cleanups and signals loses one otherwise.
OrphansAccountedFor ==
  main = "exited" =>
    \A c \in Containers :
      Alive(c) => \/ c \in refused \cup startFailed \cup sweep \cup {inflight}
                  \/ client = "unset"

\* An exit without a signal and without daemon errors leaves no container,
\* even when the cleanup of some owners was skipped (docs/common-issues.rst,
\* "Normal exit").
CleanExit ==
  (main = "exited" /\ signals = 0 /\ refused = {} /\ startFailed = {} /\ client = "api")
    => \A c \in Containers : ~Alive(c)

\* A signal ends the process, whatever the daemon answers.
SignalEndsProcess == signals > 0 ~> main = "exited"
=============================================================================
