---------------------------- MODULE RunTaskProofs ----------------------------
(***************************************************************************)
(* Proofs about RunTask, for any number of services and of checks.         *)
(***************************************************************************)
EXTENDS RunTask, TLAPS

-----------------------------------------------------------------------------
(* The names of things. *)

\* The ranks tell the things of a task apart, but for the tester and the lister.
LEMMA Ranks ==
  /\ NServices \in Nat
  /\ Rank(Build) = 1
  /\ \A i \in 1..NServices : Rank(Service(i)) = 2 + NServices - i
  /\ Rank(Proxy) = NServices + 2 /\ Rank(Agent) = NServices + 3
  /\ Rank(Source) = NServices + 4 /\ Rank(Image) = NServices + 5
  /\ Rank(Network) = NServices + 6
  /\ Rank(Tester) = 0 /\ Rank(Lister) = 0 /\ Tester # Lister
<1>1. NServices \in Nat
  BY RunTaskAssumption
<1>2. \A i \in 1..NServices : Service(i) \in Services /\ Service(i)[2] = i
  BY DEF Service, Services
<1>4. {Build, Proxy, Agent, Source, Image, Network, Tester, Lister} \cap Services = {}
  BY DEF Services, Service, Build, Proxy, Agent, Source, Image, Network, Tester, Lister
<1>5. \A i \in 1..NServices : Rank(Service(i)) = 2 + NServices - i
  BY <1>2, <1>4 DEF Rank
<1>6. Rank(Build) = 1 /\ Rank(Proxy) = NServices + 2 /\ Rank(Agent) = NServices + 3
  BY <1>4 DEF Rank, Build, Proxy, Agent, Source, Image, Network
<1>7. Rank(Source) = NServices + 4 /\ Rank(Image) = NServices + 5 /\ Rank(Network) = NServices + 6
  BY <1>4 DEF Rank, Build, Proxy, Agent, Source, Image, Network
<1>8. Rank(Tester) = 0 /\ Rank(Lister) = 0 /\ Tester # Lister
  BY <1>4 DEF Rank, Build, Proxy, Agent, Source, Image, Network, Tester, Lister
<1> QED BY <1>1, <1>5, <1>6, <1>7, <1>8

\* The containers are those that have a name.
LEMMA Roles ==
  /\ \A i \in 1..NServices : Service(i) \in Services
  /\ \A c \in Services : \E i \in 1..NServices : c = Service(i)
  /\ Services \subseteq Containers
  /\ {Source, Agent, Proxy, Build, Tester, Lister} \subseteq Containers
  /\ \A c \in Containers : c \in Services \cup {Source, Agent, Proxy, Build, Tester, Lister}
BY DEF Services, Containers

-----------------------------------------------------------------------------
(* Types. *)

\* TypeOK in two parts, so that no proof step has to deal with the flags and with all else.
Flags == {err, proxyMade, network, tag, gathered, misread} \subseteq BOOLEAN

Values ==
  /\ phase \in Phases
  /\ daemon \in [Containers -> {"none", "created", "running", "exited"}]
  /\ registered \subseteq Containers /\ held \subseteq Containers
  /\ svc \in 0..NServices /\ waited \subseteq 1..NServices
  /\ port \in [1..NServices -> BOOLEAN]
  /\ checks \in 1..MaxChecks
  /\ mode \in {"none", "commands", "attach"}
  /\ exitCode \in {"none", "zero", "nonzero", "unknown"}
  /\ opened \subseteq 1..NServices
  /\ refused \subseteq Things
  /\ cut \in Containers \cup {Image, Network}
  /\ phase \in Waiting => svc \in 1..NServices  \* a wait is for a service that was begun

TypeInv == Flags /\ Values

LEMMA InitTypeInv == Init => TypeInv
<1> SUFFICES ASSUME Init PROVE TypeInv
  OBVIOUS
<1>1. Flags
  BY DEF Init, Flags
<1>2. svc \in 0..NServices /\ checks \in 1..MaxChecks
  BY RunTaskAssumption DEF Init
<1>3. phase \in Phases /\ phase \notin Waiting
  BY DEF Init, Phases, Starting, Waiting
<1>4. Values
  BY <1>2, <1>3 DEF Init, Values
<1> QED BY <1>1, <1>4 DEF TypeInv

\* Every assignment to a flag is of a truth value.
LEMMA NextFlags == Flags /\ [Next]_vars => Flags'
<1> SUFFICES ASSUME Flags, [Next]_vars PROVE Flags'
  OBVIOUS
<1> USE DEF Flags, Proceed, Raise, run, names
<1>1. CASE Prepare
  <2>1. CASE Construct
    BY <2>1 DEF Construct
  <2>2. CASE StartSource
    BY <2>2 DEF StartSource
  <2>3. CASE StartAgent
    BY <2>3 DEF StartAgent
  <2>4. CASE StartProxy
    BY <2>4 DEF StartProxy
  <2>5. CASE StartService
    BY <2>5 DEF StartService
  <2>6. CASE ServicesDone
    BY <2>6 DEF ServicesDone
  <2> QED BY <1>1, <2>1, <2>2, <2>3, <2>4, <2>5, <2>6 DEF Prepare
<1>2. CASE Wait
  <2>1. CASE CheckService
    BY <2>1 DEF CheckService
  <2>2. CASE StartTester
    BY <2>2 DEF StartTester
  <2>3. ASSUME NEW code \in {"zero", "nonzero", "unknown"}, NEW early \in BOOLEAN, Probe(code, early)
        PROVE  Flags'
    <3>1. err' \in BOOLEAN
      BY <2>3 DEF Probe, Found
    <3>2. misread' \in BOOLEAN
      BY <2>3 DEF Probe
    <3> QED BY <2>3, <3>1, <3>2 DEF Probe
  <2> QED BY <1>2, <2>1, <2>2, <2>3 DEF Wait
<1>3. CASE RunBuild
  <2>1. CASE StartBuild
    BY <2>1 DEF StartBuild
  <2>2. CASE RestoreCaches
    BY <2>2 DEF RestoreCaches
  <2>3. CASE Command
    BY <2>3 DEF Command
  <2>4. CASE Attach
    BY <2>4 DEF Attach
  <2>5. CASE SaveCaches
    BY <2>5 DEF SaveCaches
  <2>6. CASE Stop
    BY <2>6 DEF Stop
  <2> QED BY <1>3, <2>1, <2>2, <2>3, <2>4, <2>5, <2>6 DEF RunBuild
<1>4. CASE Collect
  <2>1. CASE StartLister
    BY <2>1 DEF StartLister
  <2>2. CASE ListArtifacts
    BY <2>2 DEF ListArtifacts
  <2>3. CASE CheckCode
    BY <2>3 DEF CheckCode
  <2>4. CASE PostBuild
    BY <2>4 DEF PostBuild
  <2> QED BY <1>4, <2>1, <2>2, <2>3, <2>4 DEF Collect
<1>5. CASE Cleanup
  <2> USE DEF Cut
  <2>1. CASE BeginCleanup
    BY <2>1 DEF BeginCleanup
  <2>2. CASE CleanBuild
    BY <2>2 DEF CleanBuild
  <2>3. CASE ServicesCleaned
    BY <2>3 DEF ServicesCleaned
  <2>4. CASE CleanProxy
    BY <2>4 DEF CleanProxy
  <2>5. CASE CleanAgent \/ CleanSource
    BY <2>5 DEF CleanAgent, CleanSource, CleanQuietly
  <2>6. CASE CleanImages
    BY <2>6 DEF CleanImages
  <2>7. CASE Delete
    BY <2>7 DEF Delete
  <2>8. ASSUME NEW i \in 1..NServices, CleanService(i) PROVE Flags'
    BY <2>8 DEF CleanService
  <2> QED BY <1>5, <2>1, <2>2, <2>3, <2>4, <2>5, <2>6, <2>7, <2>8 DEF Cleanup
<1>6. CASE ServiceStep \/ Gone \/ UNCHANGED vars
  BY <1>6 DEF ServiceStep, ServiceOpens, ServiceExits, Gone, vars
<1> QED BY <1>1, <1>2, <1>3, <1>4, <1>5, <1>6 DEF Next

LEMMA PrepareValues == Values /\ Prepare => Values'
<1> SUFFICES ASSUME Values, Prepare PROVE Values'
  OBVIOUS
<1> USE Roles DEF Values, Waiting, Phases, Starting, Proceed, Raise, Started, StartFails,
        service, run, names
<1>1. CASE Construct
  BY <1>1 DEF Construct
<1>2. CASE StartSource
  BY <1>2 DEF StartSource
<1>3. CASE StartAgent
  BY <1>3 DEF StartAgent
<1>4. CASE StartProxy
  BY <1>4 DEF StartProxy
<1>5. CASE StartService
  <2>1. svc' \in 1..NServices /\ svc' = svc + 1 /\ Service(svc + 1) \in Containers
    BY <1>5, RunTaskAssumption DEF StartService
  <2>2. checks' \in 1..MaxChecks
    BY <1>5, RunTaskAssumption DEF StartService
  <2>3. waited' \subseteq 1..NServices
    BY <1>5, <2>1 DEF StartService
  <2>4. phase' \in Phases
    BY <1>5 DEF StartService
  <2>5. daemon' \in [Containers -> {"none", "created", "running", "exited"}]
    BY <1>5, <2>1 DEF StartService, ProvisionFails
  <2>6. /\ registered' \subseteq Containers /\ held' \subseteq Containers
        /\ refused' \subseteq Things
    BY <1>5, <2>1 DEF StartService, ProvisionFails, Things
  <2> QED
    BY <1>5, <2>1, <2>2, <2>3, <2>4, <2>5, <2>6 DEF StartService
<1>6. CASE ServicesDone
  BY <1>6 DEF ServicesDone, Running
<1> QED BY <1>1, <1>2, <1>3, <1>4, <1>5, <1>6 DEF Prepare

LEMMA WaitValues == Values /\ Wait => Values'
<1> SUFFICES ASSUME Values, Wait PROVE Values'
  OBVIOUS
<1> USE Roles DEF Values, Waiting, Phases, Proceed, Raise, service, run, names
<1>1. CASE CheckService
  BY <1>1 DEF CheckService
<1>2. CASE StartTester
  BY <1>2 DEF StartTester, Started, Things
<1>3. ASSUME NEW code \in {"zero", "nonzero", "unknown"}, NEW early \in BOOLEAN, Probe(code, early)
      PROVE  Values'
  <2>1. checks' \in 1..MaxChecks /\ phase' \in Phases
    BY <1>3, RunTaskAssumption DEF Probe, Found, Starting
  <2>2. opened' \subseteq 1..NServices /\ svc \in 1..NServices
    BY <1>3 DEF Probe
  <2>3. /\ daemon' \in [Containers -> {"none", "created", "running", "exited"}]
        /\ registered' \subseteq Containers /\ held' \subseteq Containers
        /\ refused' \subseteq Things
    BY <1>3 DEF Probe, Removed, NotRemoved, Things
  <2> QED BY <1>3, <2>1, <2>2, <2>3 DEF Probe
<1> QED BY <1>1, <1>2, <1>3 DEF Wait

LEMMA RunBuildValues == Values /\ RunBuild => Values'
<1> SUFFICES ASSUME Values, RunBuild PROVE Values'
  OBVIOUS
<1> USE Roles DEF Values, Waiting, Phases, Running, Proceed, Raise, service, run, names
<1>1. CASE StartBuild
  BY <1>1 DEF StartBuild, Started, StartFails, ProvisionFails, Things
<1>2. CASE RestoreCaches
  BY <1>2 DEF RestoreCaches
<1>3. CASE Command
  BY <1>3 DEF Command
<1>4. CASE Attach
  BY <1>4 DEF Attach
<1>5. CASE SaveCaches
  BY <1>5 DEF SaveCaches
<1>6. CASE Stop
  BY <1>6 DEF Stop, Things
<1> QED BY <1>1, <1>2, <1>3, <1>4, <1>5, <1>6 DEF RunBuild

LEMMA CollectValues == Values /\ Collect => Values'
<1> SUFFICES ASSUME Values, Collect PROVE Values'
  OBVIOUS
<1> USE Roles DEF Values, Waiting, Phases, Running, Proceed, Raise, service, run, names
<1>1. CASE StartLister
  BY <1>1 DEF StartLister, Started, StartFails
<1>2. CASE ListArtifacts
  BY <1>2 DEF ListArtifacts, Removed, NotRemoved, Things
<1>3. CASE CheckCode
  BY <1>3 DEF CheckCode
<1>4. CASE PostBuild
  BY <1>4 DEF PostBuild
<1> QED BY <1>1, <1>2, <1>3, <1>4 DEF Collect

LEMMA CleanupValues == Values /\ Cleanup => Values'
<1> SUFFICES ASSUME Values, Cleanup PROVE Values'
  OBVIOUS
<1> USE Roles DEF Values, Waiting, Phases, Cleaning, Proceed, Cut, Removed, NotRemoved, Things,
        service, run, names
<1>1. CASE BeginCleanup
  BY <1>1 DEF BeginCleanup
<1>2. CASE CleanBuild
  BY <1>2 DEF CleanBuild
<1>3. CASE ServicesCleaned
  BY <1>3 DEF ServicesCleaned
<1>4. CASE CleanProxy
  BY <1>4 DEF CleanProxy
<1>5. CASE CleanAgent
  BY <1>5 DEF CleanAgent, CleanQuietly
<1>6. CASE CleanSource
  BY <1>6 DEF CleanSource, CleanQuietly
<1>7. CASE CleanImages
  BY <1>7 DEF CleanImages
<1>8. CASE Delete
  BY <1>8 DEF Delete
<1>9. ASSUME NEW i \in 1..NServices, CleanService(i) PROVE Values'
  <2>1. Service(i) \in Containers
    OBVIOUS
  <2> QED BY <1>9, <2>1 DEF CleanService
<1> QED BY <1>1, <1>2, <1>3, <1>4, <1>5, <1>6, <1>7, <1>8, <1>9 DEF Cleanup

LEMMA OtherValues == Values /\ (ServiceStep \/ Gone \/ UNCHANGED vars) => Values'
<1> SUFFICES ASSUME Values, ServiceStep \/ Gone \/ UNCHANGED vars PROVE Values'
  OBVIOUS
<1>1. ASSUME NEW i \in 1..NServices, ServiceOpens(i) PROVE Values'
  BY <1>1 DEF Values, ServiceOpens, service, run, names
<1>2. ASSUME NEW i \in 1..NServices, ServiceExits(i) PROVE Values'
  BY <1>2 DEF Values, ServiceExits, service, run, names
<1>3. CASE Gone \/ UNCHANGED vars
  BY <1>3 DEF Values, Gone, vars
<1> QED BY <1>1, <1>2, <1>3 DEF ServiceStep

LEMMA TypeInvHolds == Spec => []TypeInv
<1>1. TypeInv /\ [Next]_vars => TypeInv'
  BY NextFlags, PrepareValues, WaitValues, RunBuildValues, CollectValues, CleanupValues,
     OtherValues DEF TypeInv, Next
<1> QED BY <1>1, InitTypeInv, PTL DEF Spec

\* The variables of a task have their types, whatever services, docker and commands do.
THEOREM TypeCorrect == Spec => []TypeOK
<1>1. TypeInv => TypeOK
  BY DEF TypeInv, Flags, Values, TypeOK
<1> QED BY <1>1, TypeInvHolds, PTL

-----------------------------------------------------------------------------
(* The wait for ports. *)

\* Until the build container is started, no status misread, every port waited for has been
\* open at a check, but for the one that is waited for.
WaitInv ==
  ~misread =>
    /\ phase \in Starting \cup Running => waited \subseteq opened
    /\ phase \in Waiting => waited \subseteq opened \cup {svc}

\* Only the wait itself, and the start of the service to wait for, need a look.
LEMMA NextWaitInv == TypeInv /\ WaitInv /\ [Next]_vars => WaitInv'
<1> SUFFICES ASSUME TypeInv, WaitInv, [Next]_vars PROVE WaitInv'
  OBVIOUS
<1> USE DEF WaitInv, Starting, Waiting, Running, Proceed, Raise, service, run, names
<1>1. CASE Prepare
  <2>1. CASE Construct \/ StartSource \/ StartAgent \/ StartProxy \/ ServicesDone
    BY <2>1 DEF Construct, StartSource, StartAgent, StartProxy, ServicesDone
  <2>2. CASE StartService
    BY <2>2 DEF StartService
  <2> QED BY <1>1, <2>1, <2>2 DEF Prepare
<1>2. CASE Wait
  <2>1. CASE CheckService
    BY <2>1 DEF CheckService
  <2>2. CASE StartTester
    BY <2>2 DEF StartTester
  <2>3. ASSUME NEW code \in {"zero", "nonzero", "unknown"}, NEW early \in BOOLEAN, Probe(code, early),
               ~misread'
        PROVE  WaitInv'
    <3>1. ~early /\ ~misread
      BY <2>3 DEF Probe
    <3>2. code = "zero" => svc \in opened'
      BY <2>3, <3>1 DEF Probe
    <3>3. opened \subseteq opened' /\ waited' = waited /\ svc' = svc /\ waited \subseteq opened \cup {svc}
      BY <2>3, <3>1 DEF Probe
    <3>4. \/ phase' = "ended"
          \/ phase' = "check"
          \/ phase' = "services" /\ code = "zero"
      BY <2>3 DEF Probe, Found
    <3> QED BY <3>2, <3>3, <3>4
  <2> QED BY <1>2, <2>1, <2>2, <2>3 DEF Wait
<1>3. CASE RunBuild
  <2>1. CASE StartBuild \/ RestoreCaches \/ Command
    BY <2>1 DEF StartBuild, RestoreCaches, Command
  <2>2. CASE Attach
    BY <2>2 DEF Attach
  <2>3. CASE SaveCaches \/ Stop
    BY <2>3 DEF SaveCaches, Stop
  <2> QED BY <1>3, <2>1, <2>2, <2>3 DEF RunBuild
<1>4. CASE Collect
  BY <1>4 DEF Collect, StartLister, ListArtifacts, CheckCode, PostBuild
<1>5. CASE Cleanup
  BY <1>5 DEF Cleanup, BeginCleanup, CleanBuild, CleanService, ServicesCleaned, CleanProxy, Cut,
              CleanAgent, CleanSource, CleanQuietly, CleanImages, Delete
<1>6. CASE ServiceStep \/ Gone \/ UNCHANGED vars
  BY <1>6 DEF ServiceStep, ServiceOpens, ServiceExits, Gone, vars
<1> QED BY <1>1, <1>2, <1>3, <1>4, <1>5, <1>6 DEF Next

\* No build container is started, unless a status was misread, before each port that is to be
\* waited for has been open at a check.
THEOREM WaitsAreHonest == Spec => []WaitsHonest
<1>1. Init => WaitInv
  BY DEF Init, WaitInv, Starting, Waiting
<1>2. WaitInv => WaitsHonest
  BY DEF WaitInv, WaitsHonest
<1> QED BY <1>1, <1>2, NextWaitInv, TypeInvHolds, PTL DEF Spec

-----------------------------------------------------------------------------
(* The artifacts of a task that failed. *)

\* Where an exception has not been raised: the stop comes after both cases.
Smooth == Starting \cup Waiting \cup (Running \ {"stop"})

\* A failed task is on its way to the artifacts, or has been there.
ArtifactsInv ==
  /\ phase \in Smooth => ~err
  /\ exitCode = "nonzero" =>
       \/ gathered \/ Build \in refused
       \/ phase \in {"save", "stop", "artifacts"} /\ ~err

LEMMA NextArtifactsInv == ArtifactsInv /\ [Next]_vars => ArtifactsInv'
<1> SUFFICES ASSUME ArtifactsInv, [Next]_vars PROVE ArtifactsInv'
  OBVIOUS
<1> USE DEF ArtifactsInv, Smooth, Starting, Waiting, Running, Proceed, Raise, service, run, names
<1>1. CASE Prepare
  <2>1. CASE Construct \/ StartSource \/ StartAgent
    BY <2>1 DEF Construct, StartSource, StartAgent
  <2>2. CASE StartProxy \/ ServicesDone
    BY <2>2 DEF StartProxy, ServicesDone
  <2>3. CASE StartService
    BY <2>3 DEF StartService, ProvisionFails
  <2> QED BY <1>1, <2>1, <2>2, <2>3 DEF Prepare
<1>2. CASE Wait
  <2>1. CASE CheckService
    BY <2>1 DEF CheckService
  <2>2. CASE StartTester
    BY <2>2 DEF StartTester
  <2>3. ASSUME NEW code \in {"zero", "nonzero", "unknown"}, NEW early \in BOOLEAN, Probe(code, early)
        PROVE  ArtifactsInv'
    <3>1. refused \subseteq refused' /\ UNCHANGED <<exitCode, gathered>> /\ ~err
      BY <2>3 DEF Probe, Removed, NotRemoved
    <3>2. (phase' \in {"check", "services"} /\ ~err') \/ phase' = "ended"
      BY <2>3, <3>1 DEF Probe, Found
    <3>3. phase = "probing"
      BY <2>3 DEF Probe
    <3> QED BY <3>1, <3>2, <3>3
  <2> QED BY <1>2, <2>1, <2>2, <2>3 DEF Wait
<1>3. CASE RunBuild
  <2>1. CASE StartBuild
    BY <2>1 DEF StartBuild, ProvisionFails
  <2>2. CASE RestoreCaches
    BY <2>2 DEF RestoreCaches
  <2>3. CASE Command
    BY <2>3 DEF Command
  <2>4. CASE Attach
    BY <2>4 DEF Attach
  <2>5. CASE SaveCaches
    BY <2>5 DEF SaveCaches
  <2>6. CASE Stop
    BY <2>6 DEF Stop
  <2> QED BY <1>3, <2>1, <2>2, <2>3, <2>4, <2>5, <2>6 DEF RunBuild
<1>4. CASE Collect
  <2>1. CASE StartLister
    BY <2>1 DEF StartLister
  <2>2. CASE ListArtifacts
    BY <2>2 DEF ListArtifacts, Removed, NotRemoved
  <2>3. CASE CheckCode \/ PostBuild
    BY <2>3 DEF CheckCode, PostBuild
  <2> QED BY <1>4, <2>1, <2>2, <2>3 DEF Collect
<1>5. CASE Cleanup
  <2> USE DEF Removed, NotRemoved, Cut
  <2>1. CASE BeginCleanup \/ CleanBuild \/ ServicesCleaned \/ CleanProxy
    BY <2>1 DEF BeginCleanup, CleanBuild, ServicesCleaned, CleanProxy
  <2>2. CASE CleanAgent \/ CleanSource
    BY <2>2 DEF CleanAgent, CleanSource, CleanQuietly
  <2>3. CASE CleanImages \/ Delete
    BY <2>3 DEF CleanImages, Delete
  <2>4. ASSUME NEW i \in 1..NServices, CleanService(i) PROVE ArtifactsInv'
    BY <2>4 DEF CleanService
  <2> QED BY <1>5, <2>1, <2>2, <2>3, <2>4 DEF Cleanup
<1>6. CASE ServiceStep \/ Gone \/ UNCHANGED vars
  BY <1>6 DEF ServiceStep, ServiceOpens, ServiceExits, Gone, vars
<1> QED BY <1>1, <1>2, <1>3, <1>4, <1>5, <1>6 DEF Next

\* A task whose command failed has looked at its artifacts before it is cleaned up, unless
\* docker refused to stop its container.
THEOREM FailedTaskGathers == Spec => []ArtifactsGathered
<1>1. Init => ArtifactsInv
  BY DEF Init, ArtifactsInv
<1>2. ArtifactsInv => ArtifactsGathered
  BY DEF ArtifactsInv, ArtifactsGathered, Cleaning
<1> QED BY <1>1, <1>2, NextArtifactsInv, PTL DEF Spec

-----------------------------------------------------------------------------
(* What is left behind. *)

\* The rank of the first thing a phase of the cleanup may still remove.
Stage ==
  CASE phase = "cleanBuild" -> 1
    [] phase = "cleanServices" -> 2
    [] phase = "cleanProxy" -> NServices + 2
    [] phase = "cleanAgent" -> NServices + 3
    [] phase = "cleanSource" -> NServices + 4
    [] phase = "cleanImages" -> NServices + 5
    [] OTHER -> 0

\* A container exists as long as its owner has its id, and one that runs is known to the
\* exit hook or was refused.
Accounts ==
  /\ \A c \in Containers : Live(c) <=> c \in held
  /\ \A c \in Containers : daemon[c] = "running" => c \in registered \cup refused

\* There is a build container when it is used.
HeldInv ==
  /\ Accounts
  /\ phase \in {"restore", "running", "save"} => Build \in held

\* The cleanup has come as far as its phase or its exception says: what comes before is gone
\* or was refused.
ChainInv ==
  /\ phase = "new" => held = {} /\ ~tag
  /\ phase \notin {"cleaned", "gone"} => cut = Network
  /\ phase \in Cleaning => \A c \in held : Rank(c) \in 1..(Stage - 1) => c \in refused
  /\ phase \in {"cleaned", "gone"} => \A c \in held : Rank(c) \in 1..Rank(cut) => c \in refused
  /\ phase \in {"cleaned", "gone"} /\ tag => Image \in refused \/ Rank(Image) > Rank(cut)

\* An id in the attribute of an owner means that the owner is there, and the containers that
\* are not part of the cleanup are removed where they are used, or an exception tells.
OddInv ==
  /\ Proxy \in held => proxyMade
  /\ Tester \in held => Tester \in refused \/ phase = "probing"
  /\ Lister \in held => Lister \in refused \/ phase = "listing" \/ err

\* The network that is left was refused or has a member that runs or ran.
NetworkInv ==
  phase = "gone" /\ network => Network \in refused \/ Members \cap held # {}

\* What is done to a container keeps the accounts.
LEMMA ContainerKeepsAccounts ==
  ASSUME Values, Accounts, NEW c \in Containers, refused \subseteq refused',
         \/ Started(c) \/ StartFails(c) \/ Removed(c)
         \/ NotRemoved(c) \/ ProvisionFails(c)
         \/ UNCHANGED <<daemon, held, registered>>
         \/ /\ daemon' = [daemon EXCEPT ![c] = "created"]
            /\ held' = held \cup {c} /\ UNCHANGED registered
         \/ /\ daemon' = [daemon EXCEPT ![c] = "exited"] /\ Live(c)
            /\ UNCHANGED <<held, registered>>
  PROVE  Accounts'
<1> USE DEF Values, Accounts, Live
<1>1. CASE Started(c)
  BY <1>1 DEF Started
<1>2. CASE StartFails(c)
  BY <1>2 DEF StartFails
<1>3. CASE Removed(c)
  BY <1>3 DEF Removed
<1>4. CASE NotRemoved(c)
  BY <1>4 DEF NotRemoved
<1>5. CASE ProvisionFails(c)
  BY <1>5 DEF ProvisionFails
<1>6. CASE UNCHANGED <<daemon, held, registered>>
  BY <1>6
<1>7. CASE /\ daemon' = [daemon EXCEPT ![c] = "created"]
           /\ held' = held \cup {c} /\ UNCHANGED registered
  BY <1>7
<1>8. CASE /\ daemon' = [daemon EXCEPT ![c] = "exited"] /\ Live(c)
           /\ UNCHANGED <<held, registered>>
  BY <1>8
<1> QED BY <1>1, <1>2, <1>3, <1>4, <1>5, <1>6, <1>7, <1>8

LEMMA NextHeldInv == TypeInv /\ HeldInv /\ [Next]_vars => HeldInv'
<1> SUFFICES ASSUME TypeInv, HeldInv, [Next]_vars PROVE HeldInv'
  OBVIOUS
<1>0. Values /\ Accounts
  BY DEF TypeInv, HeldInv
<1> USE <1>0, Roles, ContainerKeepsAccounts DEF HeldInv, Proceed, Raise
<1>1. CASE Prepare
  <2>1. CASE Construct \/ ServicesDone
    BY <2>1 DEF Construct, ServicesDone
  <2>2. CASE StartSource
    BY <2>2 DEF StartSource
  <2>3. CASE StartAgent
    BY <2>3 DEF StartAgent
  <2>4. CASE StartProxy
    BY <2>4 DEF StartProxy
  <2>5. CASE StartService
    <3>1. Service(svc + 1) \in Containers
      BY <2>5, RunTaskAssumption DEF StartService, Values
    <3>2. Accounts'
      BY <2>5, <3>1 DEF StartService, ProvisionFails
    <3> QED BY <2>5, <3>2 DEF StartService
  <2> QED BY <1>1, <2>1, <2>2, <2>3, <2>4, <2>5 DEF Prepare
<1>2. CASE Wait
  <2>1. CASE CheckService
    BY <2>1 DEF CheckService
  <2>2. CASE StartTester
    <3>1. Accounts'
      BY <2>2 DEF StartTester
    <3> QED BY <2>2, <3>1 DEF StartTester
  <2>3. ASSUME NEW code \in {"zero", "nonzero", "unknown"}, NEW early \in BOOLEAN, Probe(code, early)
        PROVE  HeldInv'
    <3>1. Accounts'
      BY <2>3 DEF Probe, Removed, NotRemoved
    <3>2. phase' \notin {"restore", "running", "save"}
      BY <2>3 DEF Probe, Found
    <3> QED BY <3>1, <3>2
  <2> QED BY <1>2, <2>1, <2>2, <2>3 DEF Wait
<1>3. CASE RunBuild
  <2>1. CASE StartBuild
    <3>1. Accounts'
      BY <2>1 DEF StartBuild, ProvisionFails
    <3>2. phase' \in {"restore", "running", "save"} => Build \in held'
      BY <2>1 DEF StartBuild, Started
    <3> QED BY <3>1, <3>2
  <2>2. CASE RestoreCaches \/ Command \/ SaveCaches
    BY <2>2 DEF RestoreCaches, Command, SaveCaches
  <2>3. CASE Attach
    <3>1. Live(Build)
      BY <2>3 DEF Attach, Accounts
    <3>2. Accounts'
      BY <2>3, <3>1 DEF Attach
    <3> QED BY <2>3, <3>2 DEF Attach
  <2>4. CASE Stop
    <3>1. Accounts'
      BY <2>4 DEF Stop, Live
    <3> QED BY <2>4, <3>1 DEF Stop
  <2> QED BY <1>3, <2>1, <2>2, <2>3, <2>4 DEF RunBuild
<1>4. CASE Collect
  <2>1. CASE StartLister
    BY <2>1 DEF StartLister
  <2>2. CASE ListArtifacts
    <3>1. Accounts'
      BY <2>2 DEF ListArtifacts, Removed, NotRemoved
    <3> QED BY <2>2, <3>1 DEF ListArtifacts
  <2>3. CASE CheckCode \/ PostBuild
    BY <2>3 DEF CheckCode, PostBuild
  <2> QED BY <1>4, <2>1, <2>2, <2>3 DEF Collect
<1>5. CASE Cleanup
  <2>1. CASE BeginCleanup \/ ServicesCleaned
    BY <2>1 DEF BeginCleanup, ServicesCleaned
  <2>2. CASE CleanBuild
    <3>1. Accounts'
      BY <2>2 DEF CleanBuild, Removed, NotRemoved
    <3> QED BY <2>2, <3>1 DEF CleanBuild, Cut
  <2>3. CASE CleanProxy
    <3>1. Accounts'
      BY <2>3 DEF CleanProxy, Removed, NotRemoved
    <3> QED BY <2>3, <3>1 DEF CleanProxy, Cut
  <2>4. CASE CleanAgent
    <3>1. Accounts'
      BY <2>4 DEF CleanAgent, CleanQuietly, Removed, NotRemoved
    <3> QED BY <2>4, <3>1 DEF CleanAgent, CleanQuietly
  <2>5. CASE CleanSource
    <3>1. Accounts'
      BY <2>5 DEF CleanSource, CleanQuietly, Removed, NotRemoved
    <3> QED BY <2>5, <3>1 DEF CleanSource, CleanQuietly
  <2>6. CASE CleanImages \/ Delete
    <3>1. Accounts'
      BY <2>6 DEF CleanImages, Delete
    <3> QED BY <2>6, <3>1 DEF CleanImages, Delete, Cut
  <2>7. ASSUME NEW i \in 1..NServices, CleanService(i) PROVE HeldInv'
    <3>1. Service(i) \in Containers
      OBVIOUS
    <3>2. Accounts'
      BY <2>7, <3>1 DEF CleanService, Removed, NotRemoved
    <3> QED BY <2>7, <3>2 DEF CleanService, Cut
  <2> QED BY <1>5, <2>1, <2>2, <2>3, <2>4, <2>5, <2>6, <2>7 DEF Cleanup
<1>6. ASSUME NEW i \in 1..NServices, ServiceOpens(i) \/ ServiceExits(i) PROVE HeldInv'
  <2>1. Service(i) \in Containers
    OBVIOUS
  <2>2. Accounts'
    BY <1>6, <2>1 DEF ServiceOpens, ServiceExits, Live
  <2> QED BY <1>6, <2>2 DEF ServiceOpens, ServiceExits
<1>7. CASE Gone \/ UNCHANGED vars
  BY <1>7 DEF Gone, vars
<1> QED BY <1>1, <1>2, <1>3, <1>4, <1>5, <1>6, <1>7 DEF Next, ServiceStep

-----------------------------------------------------------------------------
\* What is done to other containers does not concern the proxy, the tester and the lister.
LEMMA OtherContainers ==
  ASSUME OddInv, NEW c \in Containers \ {Proxy, Tester, Lister}, refused \subseteq refused',
         held' \subseteq held \cup {c}, UNCHANGED proxyMade, err => err',
         phase \notin {"probing", "listing"}
  PROVE  OddInv'
BY DEF OddInv

LEMMA NextOddInv == TypeInv /\ OddInv /\ [Next]_vars => OddInv'
<1> SUFFICES ASSUME TypeInv, OddInv, [Next]_vars PROVE OddInv'
  OBVIOUS
<1>0. /\ {Source, Agent, Build} \cap {Proxy, Tester, Lister} = {}
      /\ Tester # Lister /\ Proxy # Lister /\ Proxy # Tester
      /\ \A i \in 1..NServices : Service(i) \in Containers \ {Proxy, Tester, Lister}
  BY Roles DEF Service, Source, Agent, Build, Proxy, Tester, Lister
<1> USE <1>0, Roles DEF Proceed, Raise, service, run, names
<1>1. CASE Prepare
  <2>1. CASE Construct \/ ServicesDone
    BY <2>1 DEF OddInv, Construct, ServicesDone
  <2>2. CASE StartSource
    <3>1. /\ held' \subseteq held \cup {Source} /\ UNCHANGED <<refused, proxyMade>>
          /\ (err => err') /\ phase \notin {"probing", "listing"}
      BY <2>2 DEF StartSource, Started, StartFails
    <3> QED BY <3>1, OtherContainers
  <2>3. CASE StartAgent
    <3>1. /\ held' \subseteq held \cup {Agent} /\ UNCHANGED <<refused, proxyMade>>
          /\ (err => err') /\ phase \notin {"probing", "listing"}
      BY <2>3 DEF StartAgent, Started, StartFails
    <3> QED BY <3>1, OtherContainers
  <2>4. CASE StartProxy
    BY <2>4 DEF OddInv, StartProxy, Started, StartFails
  <2>5. CASE StartService
    <3>1. svc + 1 \in 1..NServices
      BY <2>5, RunTaskAssumption DEF StartService, TypeInv, Values
    <3>2. /\ held' \subseteq held \cup {Service(svc + 1)} /\ refused \subseteq refused'
          /\ UNCHANGED proxyMade /\ (err => err') /\ phase = "services"
      BY <2>5 DEF StartService, Started, StartFails, ProvisionFails
    <3> QED BY <3>1, <3>2, OtherContainers
  <2> QED BY <1>1, <2>1, <2>2, <2>3, <2>4, <2>5 DEF Prepare
<1>2. CASE Wait
  <2>1. CASE CheckService
    BY <2>1 DEF OddInv, CheckService
  <2>2. CASE StartTester
    BY <2>2 DEF OddInv, StartTester, Started
  <2>3. ASSUME NEW code \in {"zero", "nonzero", "unknown"}, NEW early \in BOOLEAN, Probe(code, early)
        PROVE  OddInv'
    <3>1. held' \subseteq held /\ UNCHANGED proxyMade /\ phase = "probing"
      BY <2>3 DEF Probe, Removed, NotRemoved
    <3>2. Tester \in held' => Tester \in refused'
      BY <2>3 DEF Probe, Removed, NotRemoved
    <3>3. refused \subseteq refused' /\ (err => err')
      BY <2>3 DEF Probe, Removed, NotRemoved, Found
    <3> QED BY <3>1, <3>2, <3>3 DEF OddInv
  <2> QED BY <1>2, <2>1, <2>2, <2>3 DEF Wait
<1>3. CASE RunBuild
  <2>1. CASE StartBuild
    <3>1. /\ held' \subseteq held \cup {Build} /\ refused \subseteq refused' /\ UNCHANGED proxyMade
          /\ (err => err') /\ phase \notin {"probing", "listing"}
      BY <2>1 DEF StartBuild, Started, StartFails, ProvisionFails
    <3> QED BY <3>1, OtherContainers
  <2>2. CASE RestoreCaches \/ Command \/ SaveCaches
    BY <2>2 DEF OddInv, RestoreCaches, Command, SaveCaches
  <2>3. CASE Attach
    BY <2>3 DEF OddInv, Attach
  <2>4. CASE Stop
    BY <2>4 DEF OddInv, Stop
  <2> QED BY <1>3, <2>1, <2>2, <2>3, <2>4 DEF RunBuild
<1>4. CASE Collect
  <2>1. CASE StartLister
    BY <2>1 DEF OddInv, StartLister, Started, StartFails
  <2>2. CASE ListArtifacts
    BY <2>2 DEF OddInv, ListArtifacts, Removed, NotRemoved
  <2>3. CASE CheckCode \/ PostBuild
    BY <2>3 DEF OddInv, CheckCode, PostBuild
  <2> QED BY <1>4, <2>1, <2>2, <2>3 DEF Collect
<1>5. CASE Cleanup
  <2>1. held' \subseteq held /\ refused \subseteq refused' /\ UNCHANGED <<proxyMade, err>>
    <3> USE DEF Removed, NotRemoved, Cut
    <3>1. CASE BeginCleanup \/ CleanBuild \/ ServicesCleaned \/ CleanProxy
      BY <3>1 DEF BeginCleanup, CleanBuild, ServicesCleaned, CleanProxy
    <3>2. CASE CleanAgent \/ CleanSource
      BY <3>2 DEF CleanAgent, CleanSource, CleanQuietly
    <3>3. CASE CleanImages \/ Delete
      BY <3>3 DEF CleanImages, Delete
    <3>4. ASSUME NEW i \in 1..NServices, CleanService(i)
          PROVE  held' \subseteq held /\ refused \subseteq refused' /\ UNCHANGED <<proxyMade, err>>
      BY <3>4 DEF CleanService
    <3> QED BY <1>5, <3>1, <3>2, <3>3, <3>4 DEF Cleanup
  <2>2. phase \notin {"probing", "listing"}
    BY <1>5 DEF Cleanup, BeginCleanup, CleanBuild, CleanService, ServicesCleaned, CleanProxy,
                CleanAgent, CleanSource, CleanQuietly, CleanImages, Delete
  <2> QED BY <2>1, <2>2 DEF OddInv
<1>6. CASE ServiceStep \/ Gone \/ UNCHANGED vars
  BY <1>6 DEF OddInv, ServiceStep, ServiceOpens, ServiceExits, Gone, vars
<1> QED BY <1>1, <1>2, <1>3, <1>4, <1>5, <1>6 DEF Next

-----------------------------------------------------------------------------
\* Before its cleanup, and where it begins, a task has nothing to say of it.
LEMMA NotYetCleaned ==
  ASSUME ChainInv, phase \notin Cleaning \cup {"cleaned", "gone"}, UNCHANGED cut,
         phase' \notin (Cleaning \ {"cleanBuild"}) \cup {"new", "cleaned", "gone"}
  PROVE  ChainInv'
<1>1. cut' = Network
  BY DEF ChainInv
<1>2. phase' = "cleanBuild" => Stage' - 1 = 0
  BY DEF Stage
<1> QED BY <1>1, <1>2 DEF ChainInv, Cleaning

\* The cleanup goes from one stage to the next when what belongs to the first is gone or was
\* refused.
LEMMA NextStage ==
  ASSUME ChainInv, phase \in Cleaning, phase' \in Cleaning, UNCHANGED cut,
         held' \subseteq held, refused \subseteq refused',
         \A c \in held' : Rank(c) \in Stage..(Stage' - 1) => c \in refused'
  PROVE  ChainInv'
<1> USE Ranks
<1>1. Stage \in Nat /\ Stage' \in Nat
  BY DEF Stage
<1>2. ASSUME NEW c \in held', Rank(c) \in 1..(Stage' - 1) PROVE c \in refused'
  <2>1. CASE Rank(c) \in 1..(Stage - 1)
    BY <2>1 DEF ChainInv
  <2>2. CASE Rank(c) \in Stage..(Stage' - 1)
    BY <2>2
  <2> QED BY <1>1, <1>2, <2>1, <2>2
<1> QED BY <1>2 DEF ChainInv, Cleaning

\* An exception leaves the cleanup at what was refused.
LEMMA CutHere ==
  ASSUME ChainInv, phase \in Cleaning, NEW c \in Things, Cut(c), UNCHANGED <<held, tag>>,
         refused \subseteq refused', Rank(c) \in Nat,
         \A d \in held : Rank(d) \in Stage..Rank(c) => d \in refused',
         tag => Rank(Image) > Rank(c) \/ Image \in refused'
  PROVE  ChainInv'
<1> USE Ranks
<1>1. Stage \in Nat
  BY DEF Stage
<1>2. ASSUME NEW d \in held, Rank(d) \in 1..Rank(c) PROVE d \in refused'
  <2>1. CASE Rank(d) \in 1..(Stage - 1)
    BY <2>1 DEF ChainInv
  <2>2. CASE Rank(d) \in Stage..Rank(c)
    BY <2>2
  <2> QED BY <1>1, <1>2, <2>1, <2>2
<1> QED BY <1>2 DEF ChainInv, Cleaning, Cut

\* Which containers have a rank that belongs to a stage.
LEMMA RanksOfContainers ==
  ASSUME NEW c \in Containers
  PROVE  /\ Rank(c) \in 0..(NServices + 4)
         /\ Rank(c) = 1 => c = Build
         /\ Rank(c) \in 2..(NServices + 1) => c \in Services
         /\ Rank(c) = NServices + 2 => c = Proxy
         /\ Rank(c) = NServices + 3 => c = Agent
         /\ Rank(c) = NServices + 4 => c = Source
<1>1. CASE c \in Services
  <2>1. PICK i \in 1..NServices : c = Service(i)
    BY <1>1, Roles
  <2>2. Rank(c) = 2 + NServices - i
    BY <2>1, Ranks
  <2> QED BY <1>1, <2>2, Ranks
<1>2. CASE c \notin Services
  BY <1>2, Ranks, Roles
<1> QED BY <1>1, <1>2

LEMMA CleanupChain == TypeInv /\ OddInv /\ ChainInv /\ Cleanup => ChainInv'
<1> SUFFICES ASSUME TypeInv, OddInv, ChainInv, Cleanup PROVE ChainInv'
  OBVIOUS
<1>0. held \subseteq Containers /\ Containers \subseteq Things /\ {Image, Network} \subseteq Things
  BY DEF TypeInv, Values, Things
<1> USE <1>0, Roles, Ranks DEF Proceed, service, run, names
<1>1. CASE BeginCleanup
  BY <1>1, NotYetCleaned DEF BeginCleanup, Cleaning
<1>2. CASE CleanBuild
  <2>1. phase = "cleanBuild" /\ Stage = 1 /\ phase \in Cleaning
    BY <1>2 DEF CleanBuild, Stage, Cleaning
  <2>2. CASE phase' = "cleanServices"
    <3>1. Stage' = 2 /\ UNCHANGED cut /\ held' \subseteq held /\ refused' = refused /\ Build \notin held'
      BY <1>2, <2>1, <2>2 DEF CleanBuild, Stage, Cut, Removed
    <3>2. \A c \in held' : Rank(c) # 1
      BY <3>1, RanksOfContainers
    <3> QED BY <2>1, <2>2, <3>1, <3>2, NextStage DEF Cleaning
  <2>3. CASE phase' # "cleanServices"
    <3>1. NotRemoved(Build) /\ Cut(Build) /\ UNCHANGED tag
      BY <1>2, <2>3 DEF CleanBuild
    <3>2. \A d \in held : Rank(d) = 1 => d \in refused'
      BY <3>1, RanksOfContainers DEF NotRemoved
    <3> QED BY <2>1, <3>1, <3>2, CutHere DEF NotRemoved
  <2> QED BY <2>2, <2>3
<1>3. ASSUME NEW i \in 1..NServices, CleanService(i) PROVE ChainInv'
  <2>1. phase = "cleanServices" /\ Stage = 2 /\ phase \in Cleaning /\ Service(i) \in Containers
    BY <1>3 DEF CleanService, Stage, Cleaning
  <2>2. CASE UNCHANGED <<phase, cut>>
    <3>1. Stage' = 2 /\ held' \subseteq held /\ refused \subseteq refused'
      BY <1>3, <2>1, <2>2 DEF CleanService, Stage, Removed, NotRemoved
    <3> QED BY <2>1, <2>2, <3>1, NextStage
  <2>3. CASE ~UNCHANGED <<phase, cut>>
    <3>1. NotRemoved(Service(i)) /\ Cut(Service(i)) /\ UNCHANGED tag
      BY <1>3, <2>3 DEF CleanService
    <3>2. ASSUME NEW d \in held, Rank(d) \in 2..(2 + NServices - i) PROVE d \in refused'
      <4>1. PICK j \in 1..NServices : d = Service(j)
        BY <3>2, RanksOfContainers
      <4>2. j >= i
        BY <3>2, <4>1
      <4>3. j \notin (i + 1)..NServices
        BY <1>3, <4>1 DEF CleanService
      <4> QED BY <3>1, <4>1, <4>2, <4>3 DEF NotRemoved
    <3> QED BY <2>1, <3>1, <3>2, CutHere DEF NotRemoved
  <2> QED BY <2>2, <2>3
<1>4. CASE ServicesCleaned
  <2>1. phase = "cleanServices" /\ Stage = 2 /\ phase \in Cleaning
    BY <1>4 DEF ServicesCleaned, Stage, Cleaning
  <2>2. /\ phase' = "cleanProxy" /\ Stage' = NServices + 2 /\ Services \cap held = {}
        /\ UNCHANGED <<cut, held, refused>>
    BY <1>4 DEF ServicesCleaned, Stage
  <2>3. \A c \in held : Rank(c) \notin 2..(NServices + 1)
    BY <2>2, RanksOfContainers
  <2> QED BY <2>1, <2>2, <2>3, NextStage DEF Cleaning
<1>5. CASE CleanProxy
  <2>1. phase = "cleanProxy" /\ Stage = NServices + 2 /\ phase \in Cleaning
    BY <1>5 DEF CleanProxy, Stage, Cleaning
  <2>2. CASE phase' = "cleanAgent"
    <3>1. /\ Stage' = NServices + 3 /\ UNCHANGED cut /\ held' \subseteq held
          /\ refused \subseteq refused' /\ (Proxy \in held' => Proxy \in refused')
      BY <1>5, <2>1, <2>2 DEF CleanProxy, OddInv, Stage, Cut, Removed, NotRemoved
    <3>2. \A c \in held' : Rank(c) = NServices + 2 => c \in refused'
      BY <3>1, RanksOfContainers
    <3> QED BY <2>1, <2>2, <3>1, <3>2, NextStage DEF Cleaning
  <2>3. CASE phase' # "cleanAgent"
    <3>1. Cut(Proxy) /\ UNCHANGED <<tag, held, refused>> /\ Proxy \notin held
      BY <1>5, <2>3 DEF CleanProxy
    <3>2. \A d \in held : Rank(d) # NServices + 2
      BY <3>1, RanksOfContainers
    <3> QED BY <2>1, <3>1, <3>2, CutHere
  <2> QED BY <2>2, <2>3
<1>6. CASE CleanAgent
  <2>1. phase = "cleanAgent" /\ Stage = NServices + 3 /\ phase \in Cleaning
    BY <1>6 DEF CleanAgent, CleanQuietly, Stage, Cleaning
  <2>2. /\ phase' = "cleanSource" /\ Stage' = NServices + 4 /\ UNCHANGED cut /\ held' \subseteq held
        /\ refused \subseteq refused' /\ (Agent \in held' => Agent \in refused')
    BY <1>6 DEF CleanAgent, CleanQuietly, Stage, Removed, NotRemoved
  <2>3. \A c \in held' : Rank(c) = NServices + 3 => c \in refused'
    BY <2>2, RanksOfContainers
  <2> QED BY <2>1, <2>2, <2>3, NextStage DEF Cleaning
<1>7. CASE CleanSource
  <2>1. phase = "cleanSource" /\ Stage = NServices + 4 /\ phase \in Cleaning
    BY <1>7 DEF CleanSource, CleanQuietly, Stage, Cleaning
  <2>2. /\ phase' = "cleanImages" /\ Stage' = NServices + 5 /\ UNCHANGED cut /\ held' \subseteq held
        /\ refused \subseteq refused' /\ (Source \in held' => Source \in refused')
    BY <1>7 DEF CleanSource, CleanQuietly, Stage, Removed, NotRemoved
  <2>3. \A c \in held' : Rank(c) = NServices + 4 => c \in refused'
    BY <2>2, RanksOfContainers
  <2> QED BY <2>1, <2>2, <2>3, NextStage DEF Cleaning
<1>8. CASE CleanImages
  <2>1. phase = "cleanImages" /\ Stage = NServices + 5 /\ phase \in Cleaning /\ cut = Network
    BY <1>8 DEF CleanImages, Stage, Cleaning, ChainInv
  <2>2. \A c \in held : Rank(c) # 0 => c \in refused
    BY <2>1, RanksOfContainers DEF ChainInv
  <2>3. phase' = "cleaned" /\ UNCHANGED held /\ refused \subseteq refused' /\ (tag' => Image \in refused')
    BY <1>8 DEF CleanImages, Cut
  <2> QED BY <2>2, <2>3 DEF ChainInv, Cleaning
<1>9. CASE Delete
  BY <1>9 DEF Delete, ChainInv, Cleaning
<1> QED BY <1>1, <1>2, <1>3, <1>4, <1>5, <1>6, <1>7, <1>8, <1>9 DEF Cleanup

LEMMA NextChainInv == TypeInv /\ OddInv /\ ChainInv /\ [Next]_vars => ChainInv'
<1> SUFFICES ASSUME TypeInv, OddInv, ChainInv, [Next]_vars PROVE ChainInv'
  OBVIOUS
<1> USE DEF Proceed, Raise, service, run, names
<1>1. CASE Construct
  BY <1>1, Ranks DEF Construct, ChainInv, Cleaning
<1>2. CASE /\ UNCHANGED cut /\ phase \notin Cleaning \cup {"cleaned", "gone"}
           /\ phase' \notin Cleaning \cup {"new", "cleaned", "gone"}
  BY <1>2, NotYetCleaned
<1>3. CASE Prepare /\ ~Construct
  <2>1. UNCHANGED cut /\ phase \in Starting \ {"new"}
    BY <1>3 DEF Prepare, Construct, StartSource, StartAgent, StartProxy, StartService,
                ServicesDone, Starting
  <2>2. phase' \in {"agent", "proxy", "services", "check", "build", "ended"}
    BY <1>3 DEF Prepare, StartSource, StartAgent, StartProxy, StartService, ServicesDone
  <2> QED BY <1>2, <2>1, <2>2 DEF Starting, Cleaning
<1>4. CASE Wait
  <2>1. UNCHANGED cut /\ phase \in Waiting
    BY <1>4 DEF Wait, CheckService, StartTester, Probe, Waiting
  <2>2. phase' \in {"check", "probe", "probing", "services", "ended"}
    BY <1>4 DEF Wait, CheckService, StartTester, Probe, Found
  <2> QED BY <1>2, <2>1, <2>2 DEF Waiting, Cleaning
<1>5. CASE RunBuild
  <2>1. UNCHANGED cut /\ phase \in Running
    BY <1>5 DEF RunBuild, StartBuild, RestoreCaches, Command, Attach, SaveCaches, Stop, Running
  <2>2. phase' \in {"restore", "running", "save", "stop", "artifacts", "ended"}
    BY <1>5 DEF RunBuild, StartBuild, RestoreCaches, Command, Attach, SaveCaches, Stop
  <2> QED BY <1>2, <2>1, <2>2 DEF Running, Cleaning
<1>6. CASE Collect
  <2>1. UNCHANGED cut /\ phase \in Running /\ phase' \in {"code", "listing", "post", "ended"}
    BY <1>6 DEF Collect, StartLister, ListArtifacts, CheckCode, PostBuild, Running
  <2> QED BY <1>2, <2>1 DEF Running, Cleaning
<1>7. CASE Cleanup
  BY <1>7, CleanupChain
<1>8. CASE ServiceStep \/ Gone \/ UNCHANGED vars
  BY <1>8 DEF ChainInv, Stage, ServiceStep, ServiceOpens, ServiceExits, Gone, vars
<1> QED BY <1>1, <1>3, <1>4, <1>5, <1>6, <1>7, <1>8 DEF Next

LEMMA NextNetworkInv == TypeInv /\ HeldInv /\ NetworkInv /\ [Next]_vars => NetworkInv'
<1> SUFFICES ASSUME TypeInv, HeldInv, NetworkInv, [Next]_vars PROVE NetworkInv'
  OBVIOUS
<1> USE DEF NetworkInv, Proceed, Raise
<1>1. CASE Delete
  <2>1. ASSUME InNetwork # {} PROVE Members \cap held # {}
    <3>1. PICK c \in Members : daemon[c] = "running"
      BY <2>1 DEF InNetwork
    <3>2. c \in Containers
      BY Roles DEF Members
    <3> QED BY <3>1, <3>2 DEF HeldInv, Accounts, Live
  <2> QED BY <1>1, <2>1 DEF Delete
<1>2. CASE Prepare
  BY <1>2 DEF Prepare, Construct, StartSource, StartAgent, StartProxy, StartService, ServicesDone
<1>3. CASE Wait
  BY <1>3 DEF Wait, CheckService, StartTester, Probe, Found
<1>4. CASE RunBuild
  BY <1>4 DEF RunBuild, StartBuild, RestoreCaches, Command, Attach, SaveCaches, Stop
<1>5. CASE Collect
  BY <1>5 DEF Collect, StartLister, ListArtifacts, CheckCode, PostBuild
<1>6. CASE Cleanup /\ ~Delete
  BY <1>6 DEF Cleanup, BeginCleanup, CleanBuild, CleanService, ServicesCleaned, CleanProxy, Cut,
              CleanAgent, CleanSource, CleanQuietly, CleanImages
<1>7. CASE ServiceStep \/ Gone \/ UNCHANGED vars
  BY <1>7 DEF ServiceStep, ServiceOpens, ServiceExits, Gone, vars, names
<1> QED BY <1>1, <1>2, <1>3, <1>4, <1>5, <1>6, <1>7 DEF Next

\* The parts of the inductive invariant about the end of a task.
TaskInv == TypeInv /\ HeldInv /\ OddInv /\ ChainInv /\ NetworkInv

LEMMA TaskInvHolds == Spec => []TaskInv
<1>1. Init => HeldInv /\ OddInv /\ ChainInv /\ NetworkInv
  BY Ranks DEF Init, HeldInv, Accounts, Live, OddInv, ChainInv, NetworkInv, Cleaning
<1>2. TaskInv /\ [Next]_vars => TaskInv'
  <2>1. TaskInv /\ [Next]_vars => TypeInv'
    BY NextFlags, PrepareValues, WaitValues, RunBuildValues, CollectValues, CleanupValues,
       OtherValues DEF TaskInv, TypeInv, Next
  <2> QED BY <2>1, NextHeldInv, NextOddInv, NextChainInv, NextNetworkInv DEF TaskInv
<1> QED BY <1>1, <1>2, InitTypeInv, PTL DEF Spec, TaskInv

\* What is left of a task is what docker refused to remove, what the cleanup did not come to
\* and a lister whose use failed; the exit hook knows of what still runs.
THEOREM LeftoversHaveCauses == Spec => []LeftoversExplained
<1>1. TaskInv => LeftoversExplained
  <2> SUFFICES ASSUME TaskInv, phase = "gone" PROVE LeftoversExplained
    BY DEF LeftoversExplained
  <2> USE Ranks DEF TaskInv
  <2>1. Rank(cut) \in Nat /\ held \subseteq Containers
    <3>1. cut \in Containers => Rank(cut) \in Nat
      BY RanksOfContainers
    <3> QED BY <3>1 DEF TypeInv, Values
  <2>2. ASSUME NEW c \in Containers, Live(c)
        PROVE  c \in refused \/ Rank(c) > Rank(cut) \/ (c = Lister /\ err)
    <3>1. c \in held
      BY <2>2 DEF HeldInv, Accounts
    <3>2. Rank(c) \in Nat /\ (Rank(c) = 0 => c \in {Tester, Lister})
      BY RanksOfContainers, Roles
    <3>3. CASE Rank(c) = 0
      BY <3>1, <3>2, <3>3 DEF OddInv
    <3>4. CASE Rank(c) \in 1..Rank(cut)
      BY <3>1, <3>4 DEF ChainInv
    <3> QED BY <2>1, <3>2, <3>3, <3>4
  <2>3. \A c \in Containers : daemon[c] = "running" => c \in registered \cup refused
    BY DEF HeldInv, Accounts
  <2>4. tag => Image \in refused \/ Rank(Image) > Rank(cut)
    BY DEF ChainInv
  <2>5. ASSUME network, Network \notin refused
        PROVE  \E c \in Members : Live(c) /\ (c \in refused \/ Rank(c) > Rank(cut))
    <3>1. PICK c \in Members : c \in held
      BY <2>5 DEF NetworkInv
    <3>2. c \in Containers /\ c # Lister /\ Live(c)
      BY <2>1, <3>1, Roles DEF Members, HeldInv, Accounts, Services, Service, Lister, Agent, Build
    <3> QED BY <2>2, <3>1, <3>2
  <2> QED BY <2>2, <2>3, <2>4, <2>5 DEF LeftoversExplained
<1> QED BY <1>1, TaskInvHolds, PTL

\* A container that is removed in the cleanup is the only one of its stage, up to its own rank,
\* that is still there.
LEMMA RemovedInTurn ==
  ASSUME ChainInv, phase \in Cleaning, NEW b \in Containers, Removed(b), held \subseteq Containers,
         \A e \in held : Rank(e) \in Stage..Rank(b) => e = b,
         NEW c \in held \ held', NEW d \in held' \ refused'
  PROVE  Rank(d) = 0 \/ Rank(d) > Rank(c)
<1>1. c = b /\ d \in held /\ d # b /\ d \notin refused
  BY DEF Removed
<1>2. Rank(d) \in Nat /\ Rank(b) \in Nat /\ Stage \in Nat
  BY <1>1, RanksOfContainers, Ranks DEF Stage
<1>3. Rank(d) \notin Stage..Rank(b)
  BY <1>1
<1>4. Rank(d) \notin 1..(Stage - 1)
  BY <1>1 DEF ChainInv
<1> QED BY <1>1, <1>2, <1>3, <1>4

LEMMA CleanupInOrder ==
  ASSUME TaskInv, Cleanup, NEW c \in held \ held', NEW d \in held' \ refused'
  PROVE  Rank(d) = 0 \/ Rank(d) > Rank(c)
<1>0. TypeInv /\ OddInv /\ ChainInv /\ held \subseteq Containers
  BY DEF TaskInv, TypeInv, Values
<1> USE <1>0, Ranks, Roles DEF Proceed
<1>1. CASE CleanBuild
  <2>1. Removed(Build) /\ phase \in Cleaning /\ Stage = 1
    BY <1>1 DEF CleanBuild, NotRemoved, Cleaning, Stage
  <2>2. \A e \in held : Rank(e) \in Stage..Rank(Build) => e = Build
    BY <2>1, RanksOfContainers
  <2> QED BY <2>1, <2>2, RemovedInTurn
<1>2. ASSUME NEW i \in 1..NServices, CleanService(i)
      PROVE  Rank(d) = 0 \/ Rank(d) > Rank(c)
  <2>1. Removed(Service(i)) /\ phase \in Cleaning /\ Stage = 2
    BY <1>2 DEF CleanService, NotRemoved, Cleaning, Stage
  <2>2. ASSUME NEW e \in held, Rank(e) \in Stage..Rank(Service(i)) PROVE e = Service(i)
    <3>1. PICK j \in 1..NServices : e = Service(j)
      BY <2>1, <2>2, RanksOfContainers
    <3>2. j >= i
      BY <2>2, <3>1
    <3>3. j \notin (i + 1)..NServices
      BY <1>2, <3>1 DEF CleanService
    <3> QED BY <3>1, <3>2, <3>3
  <2> QED BY <2>1, <2>2, RemovedInTurn
<1>3. CASE CleanProxy
  <2>1. Removed(Proxy) /\ phase \in Cleaning /\ Stage = NServices + 2
    BY <1>3 DEF CleanProxy, NotRemoved, Cleaning, Stage
  <2>2. \A e \in held : Rank(e) \in Stage..Rank(Proxy) => e = Proxy
    BY <2>1, RanksOfContainers
  <2> QED BY <2>1, <2>2, RemovedInTurn
<1>4. CASE CleanAgent
  <2>1. Removed(Agent) /\ phase \in Cleaning /\ Stage = NServices + 3
    BY <1>4 DEF CleanAgent, CleanQuietly, NotRemoved, Cleaning, Stage
  <2>2. \A e \in held : Rank(e) \in Stage..Rank(Agent) => e = Agent
    BY <2>1, RanksOfContainers
  <2> QED BY <2>1, <2>2, RemovedInTurn
<1>5. CASE CleanSource
  <2>1. Removed(Source) /\ phase \in Cleaning /\ Stage = NServices + 4
    BY <1>5 DEF CleanSource, CleanQuietly, NotRemoved, Cleaning, Stage
  <2>2. \A e \in held : Rank(e) \in Stage..Rank(Source) => e = Source
    BY <2>1, RanksOfContainers
  <2> QED BY <2>1, <2>2, RemovedInTurn
<1>6. CASE BeginCleanup \/ ServicesCleaned \/ CleanImages \/ Delete
  BY <1>6 DEF BeginCleanup, ServicesCleaned, CleanImages, Delete
<1> QED BY <1>1, <1>2, <1>3, <1>4, <1>5, <1>6 DEF Cleanup

\* Before the cleanup, only the tester and the lister are removed.
LEMMA OnlyHelpersBefore ==
  ASSUME Next, ~Cleanup, NEW c \in held \ held' PROVE c \in {Tester, Lister}
<1> USE DEF service, run, names
<1>1. CASE Prepare
  BY <1>1 DEF Prepare, Construct, StartSource, StartAgent, StartProxy, StartService,
              ServicesDone, Started, StartFails, ProvisionFails
<1>2. CASE Wait
  BY <1>2 DEF Wait, CheckService, StartTester, Probe, Started, Removed, NotRemoved
<1>3. CASE RunBuild
  BY <1>3 DEF RunBuild, StartBuild, RestoreCaches, Command, Attach, SaveCaches, Stop,
              Started, StartFails, ProvisionFails
<1>4. CASE Collect
  BY <1>4 DEF Collect, StartLister, ListArtifacts, CheckCode, PostBuild, Started, StartFails,
              Removed, NotRemoved
<1>5. CASE ServiceStep \/ Gone
  BY <1>5 DEF ServiceStep, ServiceOpens, ServiceExits, Gone, vars
<1> QED BY <1>1, <1>2, <1>3, <1>4, <1>5 DEF Next

\* Only the end of the task's object removes the network.
LEMMA NetworkByDelete ==
  ASSUME Next, network, ~network' PROVE Delete
<1> USE DEF run, names
<1>1. ~Prepare /\ ~Wait
  BY DEF Prepare, Construct, StartSource, StartAgent, StartProxy, StartService, ServicesDone,
         Wait, CheckService, StartTester, Probe
<1>2. ~RunBuild /\ ~Collect
  BY DEF RunBuild, StartBuild, RestoreCaches, Command, Attach, SaveCaches, Stop,
         Collect, StartLister, ListArtifacts, CheckCode, PostBuild
<1>3. ~ServiceStep /\ ~Gone
  BY DEF ServiceStep, ServiceOpens, ServiceExits, Gone, vars
<1>4. Cleanup => Delete
  BY DEF Cleanup, BeginCleanup, CleanBuild, CleanService, ServicesCleaned, CleanProxy,
         CleanAgent, CleanSource, CleanQuietly, CleanImages
<1> QED BY <1>1, <1>2, <1>3, <1>4 DEF Next

LEMMA NetworkLast ==
  ASSUME TaskInv, Next, network, ~network', NEW d \in held \ refused
  PROVE  Rank(d) = 0 \/ Rank(d) > Rank(cut)
<1>1. ChainInv /\ d \in Containers /\ cut \in Containers \cup {Image, Network}
  BY DEF TaskInv, TypeInv, Values
<1>2. phase = "cleaned"
  BY NetworkByDelete DEF Delete
<1>3. Rank(d) \notin 1..Rank(cut)
  BY <1>1, <1>2 DEF ChainInv
<1>4. Rank(d) \in Nat /\ Rank(cut) \in Nat
  BY <1>1, RanksOfContainers, Ranks
<1> QED BY <1>3, <1>4

\* Nothing that others of the task use is removed while they may still use it, and the
\* network goes last.
THEOREM TeardownInOrder == Spec => TeardownOrder
<1>1. ASSUME TaskInv, Next, NEW c \in held \ held', Rank(c) # 0, NEW d \in held' \ refused'
      PROVE  Rank(d) = 0 \/ Rank(d) > Rank(c)
  BY <1>1, CleanupInOrder, OnlyHelpersBefore, Ranks
<1>2. ASSUME TaskInv, [Next]_vars
      PROVE  [/\ \A c \in held \ held' :
                   Rank(c) # 0 => \A d \in held' \ refused' : Rank(d) = 0 \/ Rank(d) > Rank(c)
              /\ network /\ ~network' =>
                   \A d \in held \ refused : Rank(d) = 0 \/ Rank(d) > Rank(cut)]_vars
  BY <1>1, <1>2, NetworkLast
<1> QED BY <1>2, TaskInvHolds, PTL DEF Spec, TeardownOrder

-----------------------------------------------------------------------------
(* Progress. *)

\* The steps that are left to a wait: three for each check that fits into the timeout.
Ahead == CASE phase = "check" -> 3 [] phase = "probe" -> 2 [] OTHER -> 1
StepsLeft == 3 * (MaxChecks - checks) + Ahead

\* The safety part of WaitEnds, for any number of services and of checks: each step of a wait
\* ends it or is one of at most three for each check, and what the services do meanwhile
\* takes none of them back (wait in run.py).
THEOREM WaitsRunOut ==
  Spec => [][(phase \in Waiting) =>
               \/ phase' \notin Waiting
               \/ (StepsLeft \in 1..(3 * MaxChecks) /\ StepsLeft' \in 1..(StepsLeft - 1))
               \/ (ServiceStep /\ StepsLeft' = StepsLeft)]_vars
<1>1. ASSUME TypeInv, Next, phase \in Waiting, phase' \in Waiting
      PROVE  \/ (StepsLeft \in 1..(3 * MaxChecks) /\ StepsLeft' \in 1..(StepsLeft - 1))
             \/ (ServiceStep /\ StepsLeft' = StepsLeft)
  <2>1. checks \in 1..MaxChecks /\ MaxChecks \in Nat
    BY <1>1, RunTaskAssumption DEF TypeInv, Values
  <2>2. CASE ServiceStep
    <3>1. phase' = phase /\ checks' = checks
      BY <2>2 DEF ServiceStep, ServiceOpens, ServiceExits, service
    <3> QED BY <2>2, <3>1 DEF StepsLeft, Ahead
  <2>3. CASE Wait
    <3>1. \/ phase = "check" /\ phase' = "probe" /\ checks' = checks
          \/ phase = "probe" /\ phase' = "probing" /\ checks' = checks
          \/ phase = "probing" /\ phase' = "check" /\ checks # MaxChecks /\ checks' = checks + 1
      BY <1>1, <2>3
      DEF Wait, CheckService, StartTester, Probe, Found, Proceed, Raise, Waiting, service
    <3>2. CASE phase = "check" /\ phase' = "probe" /\ checks' = checks
      BY <2>1, <3>2 DEF StepsLeft, Ahead
    <3>3. CASE phase = "probe" /\ phase' = "probing" /\ checks' = checks
      BY <2>1, <3>3 DEF StepsLeft, Ahead
    <3>4. CASE phase = "probing" /\ phase' = "check" /\ checks # MaxChecks /\ checks' = checks + 1
      BY <2>1, <3>4 DEF StepsLeft, Ahead
    <3> QED BY <3>1, <3>2, <3>3, <3>4
  <2>4. ~Prepare /\ ~Gone
    BY <1>1 DEF Prepare, Construct, StartSource, StartAgent, StartProxy, StartService,
                ServicesDone, Gone, Waiting
  <2>5. ~RunBuild /\ ~Collect
    BY <1>1 DEF RunBuild, StartBuild, RestoreCaches, Command, Attach, SaveCaches, Stop,
                Collect, StartLister, ListArtifacts, CheckCode, PostBuild, Waiting
  <2>6. ~Cleanup
    BY <1>1 DEF Cleanup, BeginCleanup, CleanBuild, CleanService, ServicesCleaned, CleanProxy,
                CleanAgent, CleanSource, CleanQuietly, CleanImages, Delete, Waiting
  <2> QED BY <1>1, <2>2, <2>3, <2>4, <2>5, <2>6 DEF Next
<1>2. ASSUME TypeInv, [Next]_vars
      PROVE  [(phase \in Waiting) =>
                \/ phase' \notin Waiting
                \/ (StepsLeft \in 1..(3 * MaxChecks) /\ StepsLeft' \in 1..(StepsLeft - 1))
                \/ (ServiceStep /\ StepsLeft' = StepsLeft)]_vars
  BY <1>1, <1>2
<1> QED BY <1>2, TypeInvHolds, PTL DEF Spec
=============================================================================
