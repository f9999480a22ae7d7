----------------------- MODULE ContainerCleanupProofs -----------------------
(* Theorems about ContainerCleanup, for any sets of containers and any       *)
(* number of signals.                                                        *)
EXTENDS ContainerCleanup, TLAPS

\* A container the daemon still has is registered, being started, or one that
\* the daemon refused to remove or to start.
Coverage ==
  \A c \in Containers :
    Alive(c) => c \in registered \cup refused \cup startFailed \cup {inflight}

\* What the main thread is about to unregister is gone or was refused.
RemovedBeforeUnregister ==
  removing # NoContainer => ~Alive(removing) \/ removing \in refused

\* The flag is set exactly from the moment a sweep has begun, and with an API
\* client the sweep still has what it neither removed nor was refused.
SweepCovers ==
  /\ done <=> main \in {"atexit", "handler", "exited"}
  /\ (done /\ client = "api") =>
       \A c \in registered : Alive(c) => c \in sweep \cup refused

\* Without signals the sweep starts between two steps of the main thread and
\* runs to its end.
UndisturbedExit ==
  signals = 0 => /\ main # "handler"
                 /\ main = "atexit" => inflight = NoContainer
                 /\ main = "exited" => inflight = NoContainer /\ sweep = {}

IInv == TypeOK /\ Coverage /\ RemovedBeforeUnregister /\ SweepCovers /\ UndisturbedExit

-----------------------------------------------------------------------------
\* The initial state satisfies the inductive invariant.
LEMMA InitIInv == Init => IInv
<1> SUFFICES ASSUME Init PROVE IInv
  OBVIOUS
<1> USE CleanupAssumption DEF Init
<1>1. TypeOK
  BY DEF TypeOK
<1>2. Coverage /\ RemovedBeforeUnregister
  BY DEF Coverage, RemovedBeforeUnregister, Alive
<1>3. SweepCovers /\ UndisturbedExit
  BY DEF SweepCovers, UndisturbedExit
<1>4. QED
  BY <1>1, <1>2, <1>3 DEF IInv

\* No step of the program, of a sweep or of the operating system breaks it.
LEMMA NextIInv == IInv /\ [Next]_vars => IInv'
<1> SUFFICES ASSUME IInv, [Next]_vars PROVE IInv'
  OBVIOUS
<1> USE CleanupAssumption DEF IInv, TypeOK, Coverage, RemovedBeforeUnregister,
        SweepCovers, UndisturbedExit, Alive, Free, registry, history
<1>1. CASE SetDockerClient
  BY <1>1 DEF SetDockerClient
<1>2. ASSUME NEW c \in Containers, Create(c) PROVE IInv'
  BY <1>2 DEF Create
<1>3. ASSUME NEW c \in Containers, Start(c) PROVE IInv'
  BY <1>3 DEF Start
<1>4. ASSUME NEW c \in Containers, StartFails(c) PROVE IInv'
  BY <1>4 DEF StartFails
<1>5. ASSUME NEW c \in Containers, Register(c) PROVE IInv'
  BY <1>5 DEF Register
<1>6. ASSUME NEW c \in Containers, RunRegistry(c) PROVE IInv'
  BY <1>6 DEF RunRegistry
<1>6f. ASSUME NEW c \in Containers, RunRegistryFails(c) PROVE IInv'
  BY <1>6f DEF RunRegistryFails
<1>7. ASSUME NEW c \in Containers, RegisterRegistry(c) PROVE IInv'
  BY <1>7 DEF RegisterRegistry
<1>8. ASSUME NEW c \in Containers, Remove(c) PROVE IInv'
  BY <1>8 DEF Remove
<1>9. ASSUME NEW c \in Containers, RemoveRefused(c) PROVE IInv'
  BY <1>9 DEF RemoveRefused
<1>10. CASE Unregister
  BY <1>10 DEF Unregister
<1>11. CASE SkipCleanup
  BY <1>11 DEF SkipCleanup
<1>12. CASE Raise
  BY <1>12 DEF Raise
<1>13. CASE MainEnds
  BY <1>13 DEF MainEnds, ForceCleanupAll
<1>14. CASE Signal
  <2>1. signals' \in Nat /\ signals' # 0
    BY <1>14 DEF Signal
  <2>2. CASE ~done
    BY <1>14, <2>1, <2>2 DEF Signal, ForceCleanupAll
  <2>3. CASE done
    BY <1>14, <2>1, <2>3 DEF Signal
  <2>4. QED
    BY <2>2, <2>3
<1>15. ASSUME NEW c \in Containers, SweepRemove(c) PROVE IInv'
  BY <1>15 DEF SweepRemove
<1>16. ASSUME NEW c \in Containers, SweepWithoutApi(c) PROVE IInv'
  BY <1>16 DEF SweepWithoutApi
<1>17. CASE Exit
  BY <1>17 DEF Exit
<1>18. CASE UNCHANGED vars
  BY <1>18 DEF vars
<1>19. QED
  BY <1>1, <1>2, <1>3, <1>4, <1>5, <1>6, <1>6f, <1>7, <1>8, <1>9, <1>10, <1>11,
     <1>12, <1>13, <1>14, <1>15, <1>16, <1>17, <1>18
     DEF Next, MainStep, CleanupStep

\* The inductive invariant holds in every reachable state.
LEMMA Invariance == Spec => []IInv
BY InitIInv, NextIInv, PTL DEF Spec

\* Every variable keeps its type: in particular the registry only ever holds
\* ids of containers, never the None of an owner that holds nothing.
THEOREM TypeCorrect == Spec => []TypeOK
BY Invariance, PTL DEF IInv

\* Every container left at exit has one of the five causes.
THEOREM OrphansExplained == Spec => []OrphansAccountedFor
<1>1. IInv => OrphansAccountedFor
  BY DEF IInv, TypeOK, Coverage, SweepCovers, OrphansAccountedFor
<1>2. QED
  BY <1>1, Invariance, PTL

\* An undisturbed exit leaves no container.
THEOREM CleanExitHolds == Spec => []CleanExit
<1>1. IInv => CleanExit
  BY CleanupAssumption
     DEF IInv, TypeOK, Coverage, SweepCovers, UndisturbedExit, CleanExit
<1>2. QED
  BY <1>1, Invariance, PTL

-----------------------------------------------------------------------------
(* Progress. *)

\* From the first signal on the handler sweeps, or has ended the process.
HandlerTakesOver == signals > 0 => main \in {"handler", "exited"}

LEMMA NextHandler == IInv /\ HandlerTakesOver /\ [Next]_vars => HandlerTakesOver'
<1> SUFFICES ASSUME IInv, HandlerTakesOver, [Next]_vars PROVE HandlerTakesOver'
  OBVIOUS
<1>1. CASE Signal
  BY <1>1 DEF Signal, HandlerTakesOver
<1>2. CASE MainStep
  <2>1. ~(signals > 0) /\ signals' = signals
    BY <1>2
    DEF MainStep, SetDockerClient, Create, Start, StartFails, Register, RunRegistry,
        RunRegistryFails, RegisterRegistry, Remove, RemoveRefused, Unregister, SkipCleanup, Raise, MainEnds,
        HandlerTakesOver, history
  <2> QED BY <2>1 DEF HandlerTakesOver
<1>3. CASE CleanupStep
  BY <1>3 DEF CleanupStep, SweepRemove, SweepWithoutApi, Exit, HandlerTakesOver, history
<1>4. CASE UNCHANGED vars
  BY <1>4 DEF vars, HandlerTakesOver
<1> QED BY <1>1, <1>2, <1>3, <1>4 DEF Next

\* The safety part of SignalEndsProcess, for any number of containers and signals: once there
\* was a signal the main program takes no step any more, and each step of the process is its
\* end or leaves the sweep a container fewer, whatever the daemon answers (_signal_handler,
\* _force_cleanup_all).
THEOREM SignalOnlySweeps ==
  Spec => [][signals > 0 =>
               main' = "exited" \/ (main' = "handler" /\ sweep' \subseteq sweep /\ sweep' # sweep)]_vars
<1>1. ASSUME IInv, HandlerTakesOver, Next, signals > 0
      PROVE  main' = "exited" \/ (main' = "handler" /\ sweep' \subseteq sweep /\ sweep' # sweep)
  <2>1. main \in {"handler", "exited"}
    BY <1>1 DEF HandlerTakesOver
  <2>2. done
    BY <1>1, <2>1 DEF IInv, SweepCovers
  <2>3. ~MainStep
    BY <2>1
    DEF MainStep, SetDockerClient, Create, Start, StartFails, Register, RunRegistry,
        RunRegistryFails, RegisterRegistry, Remove, RemoveRefused, Unregister, SkipCleanup, Raise, MainEnds
  <2>4. CASE Signal
    BY <2>2, <2>4 DEF Signal
  <2>5. CASE CleanupStep
    BY <2>1, <2>5 DEF CleanupStep, SweepRemove, SweepWithoutApi, Exit
  <2> QED BY <1>1, <2>3, <2>4, <2>5 DEF Next
<1>2. Init => HandlerTakesOver
  BY DEF Init, HandlerTakesOver
<1>3. Spec => []HandlerTakesOver
  BY <1>2, NextHandler, Invariance, PTL DEF Spec
<1>4. ASSUME IInv, HandlerTakesOver, [Next]_vars
      PROVE  [signals > 0 =>
                main' = "exited" \/ (main' = "handler" /\ sweep' \subseteq sweep /\ sweep' # sweep)]_vars
  BY <1>1, <1>4
<1> QED BY <1>3, <1>4, Invariance, PTL DEF Spec
=============================================================================
