--------------------------- MODULE BuildRunProofs ---------------------------
(***************************************************************************)
(* Proofs about BuildRun, for configurations of any length and any images. *)
(***************************************************************************)
EXTENDS BuildRun, SequenceTheorems, TLAPS

\* Where nothing has been caught or is being propagated.
Undisturbed == {"open", "steps", "tasks", "task", "post", "push"}

Excusable == \A f \in failures : f[1] = "run" /\ f[2] \in BuildRunnerErrors

\* A failure that xfail does not cover is an exception on its way out of the
\* steps, and the push phase comes after all of them.
FailureInv ==
  /\ Excusable \/ err # "none"
  /\ phase \in Undisturbed => err = "none"
  /\ phase = "except" => err # "none"
  /\ pushed # <<>> =>
       Excusable /\ phase \in {"push", "except", "finally", "source", "images", "exited"}

\* A source archive without a name is that of a run that could not begin.
NamelessInv ==
  archive = "unnamed" =>
    /\ step = 1 /\ failures = {}
    /\ phase \in {"except", "finally", "source", "images", "exited"}
    /\ err # "none" /\ (phase # "except" => exitCode # 0)

\* The source image goes before the images, the archive last.
FilesInv ==
  /\ archive \in {"none", "unnamed", "named"}
  /\ phase = "open" => archive = "none" /\ step = 1 /\ failures = {}
  /\ NamelessInv
  /\ phase = "images" => ~source
  /\ phase = "exited" /\ ~aborted => ~source /\ archive # "named"

\* An error is no member of the sentinel "none".
LEMMA ErrorsAreErrors == "none" \notin Errors /\ TaskErrors \subseteq Errors
BY BuildRunAssumption DEF Errors

\* How a task that raises disturbs the accounting of failures.
LEMMA RaiseKeepsFailureInv ==
  ASSUME NEW k, NEW e \in Errors, FailureInv, phase \in {"task", "post"},
         Raise(k, e), pushed' = pushed
  PROVE  FailureInv'
<1>1. err = "none" /\ Excusable /\ pushed = <<>>
  BY DEF FailureInv, Undisturbed
<1>2. CASE Excused(k, e)
  BY <1>1, <1>2 DEF FailureInv, Undisturbed, Excusable, Raise, NextTask, Excused
<1>3. CASE ~Excused(k, e)
  BY <1>1, <1>3, ErrorsAreErrors DEF FailureInv, Undisturbed, Excusable, Raise, Fail
<1> QED BY <1>2, <1>3

LEMMA SucceedKeepsFailureInv ==
  ASSUME FailureInv, phase \in {"task", "post"}, Succeed, pushed' = pushed
  PROVE  FailureInv'
BY DEF FailureInv, Undisturbed, Excusable, Succeed, NextTask

\* The steps of a task keep the accounting of failures.
LEMMA TaskKeepsFailureInv == FailureInv /\ Task => FailureInv'
<1> SUFFICES ASSUME FailureInv, Task PROVE FailureInv'
  OBVIOUS
<1> USE ErrorsAreErrors
<1>1. CASE Remote
  BY <1>1, SucceedKeepsFailureInv DEF Remote, InTask
<1>2. CASE BuildMultiPlatform
  BY <1>2, SucceedKeepsFailureInv DEF BuildMultiPlatform, InTask
<1>3. CASE Run
  BY <1>3, SucceedKeepsFailureInv
  DEF Run, InTask, FailureInv, Undisturbed, Excusable
<1>4. CASE TagMultiPlatform
  <2>1. CASE Succeed
    BY <1>4, <2>1, SucceedKeepsFailureInv DEF TagMultiPlatform, Tagging
  <2>2. CASE \E e \in {"processing", "other"} : Raise(Kind, e)
    BY <1>4, <2>2, RaiseKeepsFailureInv DEF TagMultiPlatform, Tagging, Errors
  <2> QED BY <1>4, <2>1, <2>2 DEF TagMultiPlatform
<1>5. CASE TagNothing
  BY <1>5, RaiseKeepsFailureInv DEF TagNothing, Tagging, Errors
<1>6. CASE PypiPush
  BY <1>6, SucceedKeepsFailureInv DEF PypiPush, InTask
<1>7. ASSUME NEW i \in Images, BuildLegacy(i) PROVE FailureInv'
  BY <1>7, SucceedKeepsFailureInv DEF BuildLegacy, InTask
<1>8. ASSUME NEW i \in Images, BuildImport(i) PROVE FailureInv'
  BY <1>8, SucceedKeepsFailureInv DEF BuildImport, InTask
<1>9. ASSUME NEW i \in Images, CommitForPostBuild(i) PROVE FailureInv'
  BY <1>9 DEF CommitForPostBuild, FailureInv, Excusable, history
<1>10. ASSUME NEW i \in Images, PostBuild(i) PROVE FailureInv'
  BY <1>10, SucceedKeepsFailureInv DEF PostBuild
<1>11. ASSUME NEW i \in Images, TagImage(i) PROVE FailureInv'
  <2>1. CASE Succeed
    BY <1>11, <2>1, SucceedKeepsFailureInv DEF TagImage, Tagging
  <2>2. CASE \E e \in {"processing", "other"} : Raise(Kind, e)
    BY <1>11, <2>2, RaiseKeepsFailureInv DEF TagImage, Tagging, Errors
  <2> QED BY <1>11, <2>1, <2>2 DEF TagImage
<1>12. ASSUME NEW e \in TaskErrors, TaskFails(e) PROVE FailureInv'
  BY <1>12, RaiseKeepsFailureInv DEF TaskFails
<1> QED
  BY <1>1, <1>2, <1>3, <1>4, <1>5, <1>6, <1>7, <1>8, <1>9, <1>10, <1>11, <1>12 DEF Task

\* So do the steps between tasks.
LEMMA StepsKeepFailureInv == FailureInv /\ Steps => FailureInv'
<1> SUFFICES ASSUME FailureInv, Steps PROVE FailureInv'
  OBVIOUS
<1> USE DEF FailureInv, Undisturbed, Excusable
<1>1. CASE Open
  BY <1>1 DEF Open, Leave, history
<1>2. CASE SkipStep
  BY <1>2 DEF SkipStep, history
<1>3. CASE BeginStep
  BY <1>3 DEF BeginStep, Leave, history
<1>4. ASSUME NEW p \in DOMAIN Order, ConstructTask(p) PROVE FailureInv'
  BY <1>4 DEF ConstructTask, Constructed, Constructible
<1>5. ASSUME NEW p \in DOMAIN Order, ConstructBuild(p) PROVE FailureInv'
  BY <1>5 DEF ConstructBuild, Constructed, Constructible
<1>6. ASSUME NEW p \in DOMAIN Order, NEW e \in {"config", "other"}, ConstructFails(p, e)
      PROVE  FailureInv'
  BY <1>6 DEF ConstructFails, Constructible, Fail
<1>7. CASE TasksDone
  BY <1>7 DEF TasksDone, history
<1>8. CASE CleanTask
  BY <1>8 DEF CleanTask
<1>9. CASE EndStep
  BY <1>9 DEF EndStep, Leave, history
<1> QED
  BY <1>1, <1>2, <1>3, <1>4, <1>5, <1>6, <1>7, <1>8, <1>9 DEF Steps

\* So do the push phase and the final cleanup.
LEMMA FinishKeepsFailureInv == FailureInv /\ Finish => FailureInv'
<1> SUFFICES ASSUME FailureInv, Finish PROVE FailureInv'
  OBVIOUS
<1> USE DEF FailureInv, Undisturbed, Excusable
<1>1. CASE Finalize
  BY <1>1 DEF Finalize, Leave, history
<1>2. CASE PushNext
  BY <1>2 DEF PushNext, history
<1>3. CASE Pushed
  BY <1>3 DEF Pushed, history
<1>4. CASE Except
  BY <1>4 DEF Except, history
<1>5. ASSUME NEW e \in {"processing", "config", "other"}, PushFails(e) PROVE FailureInv'
  BY <1>5 DEF PushFails, history
<1>6. CASE BeginFinally
  BY <1>6 DEF BeginFinally, Continue, Abort
<1>7. CASE RemoveSourceImage
  BY <1>7 DEF RemoveSourceImage, Continue, Abort
<1>8. CASE RemoveImage
  BY <1>8 DEF RemoveImage
<1>9. CASE RemoveFiles
  BY <1>9 DEF RemoveFiles, Continue, Abort
<1> QED
  BY <1>1, <1>2, <1>3, <1>4, <1>5, <1>6, <1>7, <1>8, <1>9 DEF Finish

\* FailureInv holds of every run.
THEOREM FailuresAccounted == Spec => []FailureInv
<1>1. Init => FailureInv
  BY DEF Init, FailureInv, Undisturbed, Excusable
<1>2. FailureInv /\ [Next]_vars => FailureInv'
  <2> SUFFICES ASSUME FailureInv, [Next]_vars PROVE FailureInv'
    OBVIOUS
  <2>1. CASE Exited \/ UNCHANGED vars
    BY <2>1 DEF Exited, vars, FailureInv, Excusable
  <2> QED
    BY <2>1, TaskKeepsFailureInv, StepsKeepFailureInv, FinishKeepsFailureInv DEF Next
<1> QED BY <1>1, <1>2, PTL DEF Spec

\* Nothing is pushed in a run in which a task failed, unless xfail covers it.
THEOREM PushesOnlyAfterSuccess == Spec => []NothingPushedAfterFailure
<1>1. FailureInv => NothingPushedAfterFailure
  BY DEF FailureInv, NothingPushedAfterFailure, Excusable
<1> QED BY <1>1, FailuresAccounted, PTL

-----------------------------------------------------------------------------
(* The cleanup of the tasks of a step. *)

StepPhases == {"tasks", "task", "post", "clean"}

\* The tasks to clean up are among the step's, from the n-th on.
LiveFrom(n) == \A t \in live : \E j \in n..Len(tasks) : t = <<step, tasks[j]>>

\* Every live task is in the list the loop of the cleanup goes over, and in the
\* part the loop has left.
CleanupInv ==
  /\ tasks \in Seq(AllKinds)
  /\ phase = "clean" => left \in 0..Len(tasks) /\ LiveFrom(Cleaning)
  /\ phase \in StepPhases => LiveFrom(1)
  /\ phase \notin StepPhases => live = {}

\* Where the tasks and the step stay and the cleanup does not begin.
LEMMA SameTasks ==
  ASSUME CleanupInv, phase \in StepPhases, phase' \in StepPhases \ {"clean"},
         UNCHANGED <<tasks, step, live>>
  PROVE  CleanupInv'
BY DEF CleanupInv, LiveFrom, StepPhases

\* The loop begins with the first task.
LEMMA CleanupBegins ==
  ASSUME CleanupInv, phase \in StepPhases, phase' = "clean", left' = Len(tasks),
         UNCHANGED <<tasks, step, live>>
  PROVE  CleanupInv'
<1>1. Len(tasks) \in Nat /\ Len(tasks) - Len(tasks) + 1 = 1
  BY DEF CleanupInv
<1>2. LiveFrom(1)' /\ Cleaning' = 1
  BY <1>1 DEF CleanupInv, LiveFrom, Cleaning
<1> QED BY <1>1, <1>2 DEF CleanupInv, StepPhases, LiveFrom

\* A construction appends to the list.
LEMMA ConstructedKeepsCleanupInv ==
  ASSUME NEW p \in DOMAIN Order, CleanupInv, Constructed(p), step' = step
  PROVE  CleanupInv'
<1>1. tasks \in Seq(AllKinds) /\ Order[p] \in AllKinds /\ LiveFrom(1)
  BY DEF CleanupInv, Constructed, Constructible, AllKinds, StepPhases
<1>2. /\ tasks' \in Seq(AllKinds) /\ Len(tasks') = Len(tasks) + 1
      /\ tasks'[Len(tasks) + 1] = Order[p]
      /\ \A j \in 1..Len(tasks) : tasks'[j] = tasks[j]
  BY <1>1 DEF Constructed
<1>3. ASSUME NEW t \in live' PROVE \E j \in 1..Len(tasks') : t = <<step', tasks'[j]>>
  <2>1. CASE t \in live
    <3>1. PICK j \in 1..Len(tasks) : t = <<step, tasks[j]>>
      BY <1>1, <2>1 DEF LiveFrom
    <3> QED BY <1>1, <1>2, <3>1
  <2>2. CASE t = <<step, Order[p]>>
    BY <1>1, <1>2, <2>2
  <2> QED BY <1>3, <2>1, <2>2 DEF Constructed
<1>4. phase' = "task"
  BY DEF Constructed
<1> QED BY <1>2, <1>3, <1>4 DEF CleanupInv, LiveFrom, StepPhases

LEMMA EndOfTaskKeepsCleanupInv ==
  ASSUME NEW k, NEW e, CleanupInv, phase \in {"task", "post"}, Succeed \/ Raise(k, e),
         UNCHANGED <<tasks, step, live>>
  PROVE  CleanupInv'
BY SameTasks, CleanupBegins DEF Succeed, Raise, NextTask, Fail, StepPhases

\* The tasks leave the list alone.
LEMMA TaskKeepsCleanupInv == CleanupInv /\ Task => CleanupInv'
<1> SUFFICES ASSUME CleanupInv, Task PROVE CleanupInv'
  OBVIOUS
<1>1. CASE Remote
  BY <1>1, EndOfTaskKeepsCleanupInv DEF Remote, InTask, plan
<1>2. CASE BuildMultiPlatform
  BY <1>2, EndOfTaskKeepsCleanupInv DEF BuildMultiPlatform, InTask, plan
<1>3. CASE Run
  BY <1>3, EndOfTaskKeepsCleanupInv, SameTasks DEF Run, InTask, plan, StepPhases
<1>4. CASE TagMultiPlatform
  BY <1>4, EndOfTaskKeepsCleanupInv DEF TagMultiPlatform, Tagging, plan
<1>5. CASE TagNothing
  BY <1>5, EndOfTaskKeepsCleanupInv DEF TagNothing, Tagging, plan
<1>6. CASE PypiPush
  BY <1>6, EndOfTaskKeepsCleanupInv DEF PypiPush, InTask, plan
<1>7. ASSUME NEW i \in Images, BuildLegacy(i) PROVE CleanupInv'
  BY <1>7, EndOfTaskKeepsCleanupInv DEF BuildLegacy, InTask, plan
<1>8. ASSUME NEW i \in Images, BuildImport(i) PROVE CleanupInv'
  BY <1>8, EndOfTaskKeepsCleanupInv DEF BuildImport, InTask, plan
<1>9. ASSUME NEW i \in Images, CommitForPostBuild(i) PROVE CleanupInv'
  BY <1>9, SameTasks DEF CommitForPostBuild, plan, history, StepPhases
<1>10. ASSUME NEW i \in Images, PostBuild(i) PROVE CleanupInv'
  BY <1>10, EndOfTaskKeepsCleanupInv DEF PostBuild, plan
<1>11. ASSUME NEW i \in Images, TagImage(i) PROVE CleanupInv'
  BY <1>11, EndOfTaskKeepsCleanupInv DEF TagImage, Tagging, plan
<1>12. ASSUME NEW e \in TaskErrors, TaskFails(e) PROVE CleanupInv'
  BY <1>12, EndOfTaskKeepsCleanupInv DEF TaskFails, plan
<1> QED
  BY <1>1, <1>2, <1>3, <1>4, <1>5, <1>6, <1>7, <1>8, <1>9, <1>10, <1>11, <1>12 DEF Task

\* One pass of the loop takes the first task that is left off both.
LEMMA CleanTaskKeepsCleanupInv == CleanupInv /\ CleanTask => CleanupInv'
<1> SUFFICES ASSUME CleanupInv, CleanTask PROVE CleanupInv'
  OBVIOUS
<1>1. /\ Len(tasks) \in Nat /\ left \in 1..Len(tasks) /\ left' = left - 1
      /\ UNCHANGED <<tasks, step, phase>>
      /\ live' = live \ {<<step, tasks[Cleaning]>>}
  BY DEF CleanupInv, CleanTask, plan
<1>2. phase = "clean" /\ LiveFrom(Cleaning) /\ LiveFrom(1) /\ tasks \in Seq(AllKinds)
  BY DEF CleanupInv, CleanTask, StepPhases
<1>3. Cleaning' = Cleaning + 1 /\ Cleaning \in 1..Len(tasks)
  BY <1>1 DEF Cleaning
<1>4. ASSUME NEW t \in live' PROVE \E j \in Cleaning'..Len(tasks) : t = <<step, tasks[j]>>
  <2>1. PICK j \in Cleaning..Len(tasks) : t = <<step, tasks[j]>>
    BY <1>1, <1>2, <1>4 DEF LiveFrom
  <2>2. j # Cleaning
    BY <1>1, <1>4, <2>1
  <2> QED BY <1>1, <1>3, <2>1, <2>2
<1>5. left' \in 0..Len(tasks')
  BY <1>1
<1>6. LiveFrom(Cleaning)'
  BY <1>1, <1>4 DEF LiveFrom
<1>7. LiveFrom(1)'
  BY <1>1, <1>2 DEF LiveFrom
<1> QED BY <1>1, <1>2, <1>5, <1>6, <1>7 DEF CleanupInv, StepPhases

\* The steps between tasks keep CleanupInv.
LEMMA StepsKeepCleanupInv == CleanupInv /\ Steps => CleanupInv'
<1> SUFFICES ASSUME CleanupInv, Steps PROVE CleanupInv'
  OBVIOUS
<1>1. CASE Open
  BY <1>1 DEF Open, Leave, plan, history, CleanupInv, LiveFrom, StepPhases
<1>2. CASE SkipStep
  BY <1>2 DEF SkipStep, history, CleanupInv, LiveFrom, StepPhases
<1>3. CASE BeginStep
  BY <1>3 DEF BeginStep, Leave, plan, history, CleanupInv, LiveFrom, StepPhases
<1>4. ASSUME NEW p \in DOMAIN Order, ConstructTask(p) PROVE CleanupInv'
  BY <1>4, ConstructedKeepsCleanupInv DEF ConstructTask
<1>5. ASSUME NEW p \in DOMAIN Order, ConstructBuild(p) PROVE CleanupInv'
  BY <1>5, ConstructedKeepsCleanupInv DEF ConstructBuild
<1>6. ASSUME NEW p \in DOMAIN Order, NEW e \in {"config", "other"}, ConstructFails(p, e)
      PROVE  CleanupInv'
  BY <1>6, CleanupBegins DEF ConstructFails, Constructible, Fail, plan, StepPhases
<1>7. CASE TasksDone
  BY <1>7, CleanupBegins DEF TasksDone, plan, history, StepPhases
<1>8. CASE CleanTask
  BY <1>8, CleanTaskKeepsCleanupInv
<1>9. CASE EndStep
  <2>1. live = {}
    <3>1. Len(tasks) \in Nat /\ Cleaning = Len(tasks) + 1
      BY <1>9 DEF EndStep, CleanupInv, Cleaning
    <3> QED BY <1>9, <3>1 DEF EndStep, CleanupInv, LiveFrom
  <2>2. live' = {} /\ tasks' = <<>> /\ phase' \notin StepPhases
    BY <1>9, <2>1 DEF EndStep, Leave, history, StepPhases
  <2> QED BY <2>2 DEF CleanupInv, StepPhases
<1> QED
  BY <1>1, <1>2, <1>3, <1>4, <1>5, <1>6, <1>7, <1>8, <1>9 DEF Steps

\* After the steps there is no task left to clean up.
LEMMA FinishKeepsCleanupInv == CleanupInv /\ Finish => CleanupInv'
<1> SUFFICES ASSUME CleanupInv, Finish PROVE CleanupInv'
  OBVIOUS
<1>1. /\ UNCHANGED <<tasks, live>>
      /\ phase \notin StepPhases /\ phase' \notin StepPhases
  BY DEF Finish, Finalize, Leave, PushNext, Pushed, Except, PushFails, BeginFinally,
         RemoveSourceImage, RemoveImage, RemoveFiles, Continue, Abort, plan, history, StepPhases
<1> QED BY <1>1 DEF CleanupInv, StepPhases

\* CleanupInv holds of every run.
THEOREM CleanupAccounted == Spec => []CleanupInv
<1>1. Init => CleanupInv
  BY DEF Init, CleanupInv, StepPhases
<1>2. CleanupInv /\ [Next]_vars => CleanupInv'
  <2> SUFFICES ASSUME CleanupInv, [Next]_vars PROVE CleanupInv'
    OBVIOUS
  <2>1. CASE Exited \/ UNCHANGED vars
    BY <2>1 DEF Exited, vars, CleanupInv, LiveFrom, Cleaning
  <2> QED
    BY <2>1, TaskKeepsCleanupInv, StepsKeepCleanupInv, FinishKeepsCleanupInv DEF Next
<1> QED BY <1>1, <1>2, PTL DEF Spec

\* Every task that was constructed is cleaned up before its step ends.
THEOREM EveryTaskCleanedUp == Spec => []TasksCleanedUp
<1>1. CleanupInv => TasksCleanedUp
  BY DEF CleanupInv, TasksCleanedUp, StepPhases
<1> QED BY <1>1, CleanupAccounted, PTL

-----------------------------------------------------------------------------
(* The phases of a task. *)

LEMMA TaskPhases == Task => phase \in {"task", "post"}
BY DEF Task, Remote, BuildMultiPlatform, Run, TagMultiPlatform, TagNothing, PypiPush, BuildLegacy,
       BuildImport, CommitForPostBuild, PostBuild, TagImage, TaskFails, InTask, Tagging

\* A task goes on to the next one, to a post-build or to the cleanup, in its step.
LEMMA TaskLeads ==
  Task => /\ phase' \in {"tasks", "post", "clean"} \/ phase' = phase
          /\ UNCHANGED <<opts, step, pos, tasks>>
<1> SUFFICES ASSUME Task PROVE /\ phase' \in {"tasks", "post", "clean"} \/ phase' = phase
                               /\ UNCHANGED <<opts, step, pos, tasks>>
  OBVIOUS
<1>1. UNCHANGED <<opts, step, pos, tasks>>
  BY DEF Task, Remote, BuildMultiPlatform, Run, TagMultiPlatform, TagNothing, PypiPush, BuildLegacy,
         BuildImport, CommitForPostBuild, PostBuild, TagImage, TaskFails, plan
<1>2. phase' \in {"tasks", "post", "clean"} \/ phase' = phase
  BY DEF Task, Remote, BuildMultiPlatform, Run, TagMultiPlatform, TagNothing, PypiPush, BuildLegacy,
         BuildImport, CommitForPostBuild, PostBuild, TagImage, TaskFails, Succeed, Raise, NextTask, Fail
<1> QED
  BY <1>1, <1>2

-----------------------------------------------------------------------------
(* The temporaries of the run. *)

\* FilesInv holds of every run, and with it TemporariesRemoved: the source image goes, and the
\* archive, unless tar failed to fill it, in which case no step has run (run,
\* get_source_archive_path).
THEOREM TemporariesGone == Spec => []TemporariesRemoved
<1>1. Init => FilesInv
  BY DEF Init, FilesInv, NamelessInv
<1>2. FilesInv /\ [Next]_vars => FilesInv'
  <2> SUFFICES ASSUME FilesInv, [Next]_vars PROVE FilesInv'
    OBVIOUS
  <2>1. CASE Task
    <3>1. phase \in {"task", "post"} /\ phase' \in {"task", "post", "tasks", "clean"}
      BY <2>1, TaskPhases, TaskLeads
    <3>2. archive' = archive
      BY <2>1 DEF Task, Remote, BuildMultiPlatform, Run, TagMultiPlatform, TagNothing, PypiPush,
                  BuildLegacy, BuildImport, CommitForPostBuild, PostBuild, TagImage, TaskFails, files
    <3> QED BY <3>1, <3>2 DEF FilesInv, NamelessInv
  <2>2. CASE Steps
    <3>1. CASE Open
      BY <3>1 DEF Open, Leave, FilesInv, NamelessInv, plan, history
    <3>2. CASE ~Open
      <4>1. /\ phase \in {"steps", "tasks", "clean"}
            /\ phase' \in {"steps", "tasks", "task", "clean", "except"} /\ archive' = archive
        BY <2>2, <3>2
        DEF Steps, SkipStep, BeginStep, Leave, ConstructTask, ConstructBuild, ConstructFails,
            TasksDone, CleanTask, EndStep, Constructed, Constructible, Fail, files
      <4> QED BY <4>1 DEF FilesInv, NamelessInv
    <3> QED BY <3>1, <3>2
  <2>3. CASE Finish
    <3>1. CASE Finalize \/ PushNext \/ Pushed \/ \E e \in {"processing", "config", "other"} : PushFails(e)
      <4>1. /\ phase \in {"steps", "push"} /\ phase' \in {"push", "finally", "except"}
            /\ archive' = archive
        BY <3>1 DEF Finalize, Leave, PushNext, Pushed, PushFails, files
      <4> QED BY <4>1 DEF FilesInv, NamelessInv
    <3>2. CASE Except
      BY <3>2 DEF Except, FilesInv, NamelessInv, files, plan, history
    <3>3. CASE BeginFinally
      BY <3>3 DEF BeginFinally, Continue, Abort, FilesInv, NamelessInv, files, plan
    <3>4. CASE RemoveSourceImage
      BY <3>4 DEF RemoveSourceImage, Continue, Abort, FilesInv, NamelessInv, plan
    <3>5. CASE RemoveImage
      BY <3>5 DEF RemoveImage, FilesInv, NamelessInv, files, plan
    <3>6. CASE RemoveFiles
      BY <3>6 DEF RemoveFiles, Continue, Abort, FilesInv, NamelessInv, plan
    <3> QED BY <2>3, <3>1, <3>2, <3>3, <3>4, <3>5, <3>6 DEF Finish
  <2>4. CASE Exited \/ UNCHANGED vars
    BY <2>4 DEF Exited, vars, FilesInv, NamelessInv
  <2> QED BY <2>1, <2>2, <2>3, <2>4 DEF Next
<1>3. FilesInv => TemporariesRemoved
  BY DEF FilesInv, NamelessInv, TemporariesRemoved
<1> QED BY <1>1, <1>2, <1>3, PTL DEF Spec

-----------------------------------------------------------------------------
(* The exit code. *)

NamedTags == Nat \X {"push", "commit", "pypi-push"}

\* What has been pushed is an initial part of the queue, in its order.
PushedInOrder ==
  /\ Len(pushed) <= Len(Queue)
  /\ \A n \in 1..Len(pushed) : pushed[n] = Queue[n]

QueueInv ==
  /\ step \in Nat
  /\ mpTags \in Seq(NamedTags) /\ toPush \in Seq(NamedTags) /\ packages \in Seq(NamedTags)
  /\ pushed \in Seq(NamedTags)
  /\ PushedInOrder

\* What the handlers make of the exception, and the push phase of the queue.
Outcome ==
  /\ err = "none" => exitCode = 0 /\ (opts.push => pushed = Queue)
  /\ err \in {"config", "notFound"} => exitCode = 78
  /\ err \notin {"none", "config", "notFound"} => exitCode = 1

\* What main makes of an exception out of the finally block.
Cut == err \in {"config", "other"} /\ exitCode = IF err = "config" THEN 78 ELSE 1

OutcomeInv ==
  /\ phase \in Undisturbed \cup {"clean", "except"} => exitCode = 0 /\ ~aborted
  /\ phase \in {"finally", "source", "images"} => ~aborted /\ Outcome
  /\ phase = "exited" => IF aborted THEN Cut ELSE Outcome

LEMMA QueueIsSequence == QueueInv => Queue \in Seq(NamedTags) /\ Len(Queue) \in Nat
BY DEF QueueInv, Queue

\* Before the push phase only the queue grows.
LEMMA QueueGrows ==
  ASSUME QueueInv, pushed = <<>>, UNCHANGED <<step, pushed>>,
         mpTags' \in Seq(NamedTags), toPush' \in Seq(NamedTags), packages' \in Seq(NamedTags)
  PROVE  QueueInv'
<1>1. Queue' \in Seq(NamedTags)
  BY DEF Queue
<1>2. Len(pushed') = 0 /\ Len(Queue)' \in Nat
  BY <1>1
<1> QED BY <1>2 DEF QueueInv, PushedInOrder

\* The tasks register tags for their step.
LEMMA TaskKeepsQueueInv == FailureInv /\ QueueInv /\ Task => QueueInv'
<1> SUFFICES ASSUME FailureInv, QueueInv, Task PROVE QueueInv'
  OBVIOUS
<1>1. phase \in {"task", "post"}
  BY DEF Task, Remote, BuildMultiPlatform, Run, TagMultiPlatform, TagNothing, PypiPush,
         BuildLegacy, BuildImport, CommitForPostBuild, PostBuild, TagImage, TaskFails,
         InTask, Tagging
<1>2. pushed = <<>> /\ UNCHANGED <<step, pushed>>
  BY <1>1 DEF FailureInv, Task, Remote, BuildMultiPlatform, Run, TagMultiPlatform, TagNothing,
         PypiPush, BuildLegacy, BuildImport, CommitForPostBuild, PostBuild, TagImage, TaskFails, plan
<1>3. mpTags' \in {mpTags, Append(mpTags, <<step, Kind>>)}
      /\ (mpTags' # mpTags => Kind \in {"push", "commit"})
  BY DEF Task, Remote, BuildMultiPlatform, Run, TagMultiPlatform, TagNothing,
         PypiPush, BuildLegacy, BuildImport, CommitForPostBuild, PostBuild, TagImage, TaskFails,
         queue, Tagging
<1>4. toPush' \in {toPush, Append(toPush, <<step, Kind>>)}
      /\ (toPush' # toPush => Kind \in {"push", "commit"})
  BY DEF Task, Remote, BuildMultiPlatform, Run, TagMultiPlatform, TagNothing,
         PypiPush, BuildLegacy, BuildImport, CommitForPostBuild, PostBuild, TagImage, TaskFails,
         queue, Tagging
<1>5. packages' \in {packages, Append(packages, <<step, Kind>>)}
      /\ (packages' # packages => Kind = "pypi-push")
  BY DEF Task, Remote, BuildMultiPlatform, Run, TagMultiPlatform, TagNothing,
         PypiPush, BuildLegacy, BuildImport, CommitForPostBuild, PostBuild, TagImage, TaskFails,
         queue, InTask
<1>6. /\ mpTags' \in Seq(NamedTags) /\ toPush' \in Seq(NamedTags)
      /\ packages' \in Seq(NamedTags)
  <2>1. \A s \in Seq(NamedTags), k \in {"push", "commit", "pypi-push"} :
          Append(s, <<step, k>>) \in Seq(NamedTags)
    <3>1. \A k \in {"push", "commit", "pypi-push"} : <<step, k>> \in NamedTags
      BY DEF QueueInv, NamedTags
    <3> QED BY <3>1
  <2>2. mpTags' \in Seq(NamedTags)
    BY <1>3, <2>1 DEF QueueInv
  <2>3. toPush' \in Seq(NamedTags)
    BY <1>4, <2>1 DEF QueueInv
  <2>4. packages' \in Seq(NamedTags)
    BY <1>5, <2>1 DEF QueueInv
  <2> QED BY <2>2, <2>3, <2>4
<1> QED BY <1>2, <1>6, QueueGrows

\* The other steps of the run leave the queue, and only PushNext goes over it.
LEMMA OthersKeepQueueInv == QueueInv /\ (Steps \/ Finish) => QueueInv'
<1> SUFFICES ASSUME QueueInv, Steps \/ Finish PROVE QueueInv'
  OBVIOUS
<1>1. CASE Steps
  <2>1. UNCHANGED <<mpTags, toPush, packages, pushed>>
    BY <1>1 DEF Steps, Open, SkipStep, BeginStep, ConstructTask, ConstructBuild, ConstructFails,
                TasksDone, CleanTask, EndStep, Leave, queue
  <2>2. step' \in {step, step + 1}
    BY <1>1 DEF Steps, Open, SkipStep, BeginStep, ConstructTask, ConstructBuild, ConstructFails,
                TasksDone, CleanTask, EndStep, Leave, plan
  <2> QED BY <2>1, <2>2 DEF QueueInv, PushedInOrder, Queue
<1>2. CASE PushNext
  <2>1. /\ Queue \in Seq(NamedTags) /\ Len(Queue) \in Nat /\ Queue' = Queue
        /\ UNCHANGED <<step, mpTags, toPush, packages>>
    BY <1>2, QueueIsSequence DEF PushNext, queue, plan, Queue
  <2>2. /\ pushed \in Seq(NamedTags) /\ Len(pushed) \in Nat /\ Len(pushed) < Len(Queue)
        /\ pushed' = Append(pushed, Queue[Len(pushed) + 1])
    BY <1>2 DEF PushNext, QueueInv
  <2>3. Queue[Len(pushed) + 1] \in NamedTags
    BY <2>1, <2>2
  <2>4. pushed' \in Seq(NamedTags) /\ Len(pushed') = Len(pushed) + 1
    BY <2>2, <2>3
  <2>5. \A n \in 1..Len(pushed') : pushed'[n] = Queue[n]
    BY <2>2, <2>3, <2>4 DEF QueueInv, PushedInOrder
  <2> QED BY <2>1, <2>2, <2>4, <2>5 DEF QueueInv, PushedInOrder
<1>3. CASE Finish /\ ~PushNext
  <2>1. UNCHANGED <<step, mpTags, toPush, packages, pushed>>
    BY <1>3 DEF Finish, Finalize, Leave, Pushed, Except, PushFails, BeginFinally,
         RemoveSourceImage, RemoveImage, RemoveFiles, Continue, Abort, plan, queue
  <2> QED BY <2>1 DEF QueueInv, PushedInOrder, Queue
<1> QED BY <1>1, <1>2, <1>3

\* The queue is pushed from its beginning.
THEOREM QueueInOrder == Spec => []QueueInv
<1>1. Init => QueueInv
  <2> SUFFICES ASSUME Init PROVE QueueInv
    OBVIOUS
  <2>1. /\ step = 1 /\ mpTags = <<>> /\ toPush = <<>> /\ packages = <<>> /\ pushed = <<>>
    BY DEF Init
  <2>2. Queue \in Seq(NamedTags) /\ Len(Queue) \in Nat /\ Len(pushed) = 0
    BY <2>1 DEF Queue
  <2> QED BY <2>1, <2>2 DEF QueueInv, PushedInOrder
<1>2. FailureInv /\ QueueInv /\ [Next]_vars => QueueInv'
  <2> SUFFICES ASSUME FailureInv, QueueInv, [Next]_vars PROVE QueueInv'
    OBVIOUS
  <2>1. CASE Exited \/ UNCHANGED vars
    BY <2>1 DEF Exited, vars, QueueInv, PushedInOrder, Queue
  <2> QED BY <2>1, TaskKeepsQueueInv, OthersKeepQueueInv DEF Next
<1> QED BY <1>1, <1>2, FailuresAccounted, PTL DEF Spec

\* Up to the handlers the exit code is untouched.
LEMMA BeforeHandlers ==
  OutcomeInv /\ (Task \/ Steps) => OutcomeInv'
<1> SUFFICES ASSUME OutcomeInv, Task \/ Steps PROVE OutcomeInv'
  OBVIOUS
<1>1. UNCHANGED <<exitCode, aborted>>
  <2>1. CASE Task
    BY <2>1 DEF Task, Remote, BuildMultiPlatform, Run, TagMultiPlatform, TagNothing, PypiPush,
                BuildLegacy, BuildImport, CommitForPostBuild, PostBuild, TagImage, TaskFails,
                history
  <2>2. CASE Steps
    BY <2>2 DEF Steps, Open, SkipStep, BeginStep, ConstructTask, ConstructBuild, ConstructFails,
                TasksDone, CleanTask, EndStep, Leave, history
  <2> QED BY <2>1, <2>2
<1>2. /\ phase \in Undisturbed \cup {"clean", "except"}
      /\ phase' \in Undisturbed \cup {"clean", "except"}
  <2>1. CASE Task
    BY <2>1 DEF Task, Remote, BuildMultiPlatform, Run, TagMultiPlatform, TagNothing, PypiPush,
                BuildLegacy, BuildImport, CommitForPostBuild, PostBuild, TagImage, TaskFails,
                InTask, Tagging, Succeed, Raise, NextTask, Fail, Undisturbed
  <2>2. CASE Steps
    BY <2>2 DEF Steps, Open, SkipStep, BeginStep, ConstructTask, ConstructBuild, ConstructFails,
                TasksDone, CleanTask, EndStep, Leave, Constructed, Constructible, Fail, Undisturbed
  <2> QED BY <2>1, <2>2
<1> QED BY <1>1, <1>2 DEF OutcomeInv, Undisturbed

\* The handlers and the finally block set the exit code to the outcome.
LEMMA FinishKeepsOutcome ==
  FailureInv /\ QueueInv /\ OutcomeInv /\ Finish => OutcomeInv'
<1> SUFFICES ASSUME FailureInv, QueueInv, OutcomeInv, Finish PROVE OutcomeInv'
  OBVIOUS
<1> USE DEF OutcomeInv, Outcome, Cut, Undisturbed
<1>1. CASE Finalize
  BY <1>1 DEF Finalize, Leave, FailureInv, plan, history
<1>2. CASE PushNext
  BY <1>2 DEF PushNext, history
<1>3. CASE Pushed
  <2>1. Len(pushed) = Len(Queue) /\ pushed \in Seq(NamedTags) /\ Queue \in Seq(NamedTags)
    BY <1>3, QueueIsSequence DEF Pushed, QueueInv
  <2>2. pushed = Queue
    BY <2>1, SeqEqual DEF QueueInv, PushedInOrder
  <2>3. pushed' = Queue'
    BY <1>3, <2>2 DEF Pushed, queue, Queue
  <2> QED BY <1>3, <2>3 DEF Pushed, FailureInv, plan, history
<1>4. CASE Except
  BY <1>4 DEF Except, FailureInv, plan, history
<1>5. ASSUME NEW e \in {"processing", "config", "other"}, PushFails(e) PROVE OutcomeInv'
  BY <1>5 DEF PushFails, history
<1>6. CASE BeginFinally \/ RemoveSourceImage \/ RemoveImage \/ RemoveFiles
  <2>1. UNCHANGED <<opts, pushed, Queue>> /\ Outcome /\ ~aborted
        /\ phase \in {"finally", "source", "images"}
    BY <1>6 DEF BeginFinally, RemoveSourceImage, RemoveImage, RemoveFiles, plan, queue, Queue
  <2>2. \/ phase' \in {"source", "images", "exited"} /\ UNCHANGED <<exitCode, aborted, err>>
        \/ phase' = "exited" /\ aborted' /\ Cut'
    BY <1>6 DEF BeginFinally, RemoveSourceImage, RemoveImage, RemoveFiles, Continue, Abort
  <2> QED BY <2>1, <2>2
<1> QED BY <1>1, <1>2, <1>3, <1>4, <1>5, <1>6 DEF Finish

\* The exit status says what happened.
THEOREM ExitCodeTold == Spec => []ExitCodeFaithful
<1>1. Init => OutcomeInv
  BY DEF Init, OutcomeInv, Undisturbed
<1>2. FailureInv /\ QueueInv /\ OutcomeInv /\ [Next]_vars => OutcomeInv'
  <2> SUFFICES ASSUME FailureInv, QueueInv, OutcomeInv, [Next]_vars PROVE OutcomeInv'
    OBVIOUS
  <2>1. CASE Exited \/ UNCHANGED vars
    <3>1. UNCHANGED <<phase, exitCode, aborted, err, opts, pushed, Queue>>
      BY <2>1 DEF Exited, vars, Queue
    <3> QED BY <3>1 DEF OutcomeInv, Outcome, Cut
  <2> QED BY <2>1, BeforeHandlers, FinishKeepsOutcome DEF Next
<1>3. FailureInv /\ OutcomeInv => ExitCodeFaithful
  BY DEF FailureInv, Excusable, OutcomeInv, Outcome, Cut, ExitCodeFaithful
<1> QED BY <1>1, <1>2, <1>3, FailuresAccounted, QueueInOrder, PTL DEF Spec

-----------------------------------------------------------------------------
(* Types, and what is true of the place the run is at. *)

LEMMA OrderFacts ==
  /\ DOMAIN Order = 1 .. 6 /\ Len(Order) = 6
  /\ \A p \in 1 .. 6 : Order[p] \in AllKinds
  /\ AllKinds = {"remote", "build", "run", "push", "commit", "pypi-push"}
<1>1. DOMAIN Order = 1 .. 6 /\ Len(Order) = 6
  BY DEF Order
<1>2. AllKinds = {Order[p] : p \in 1 .. 6}
  BY <1>1 DEF AllKinds
<1>3. /\ Order[1] = "remote" /\ Order[2] = "build" /\ Order[3] = "run" /\ Order[4] = "push"
      /\ Order[5] = "commit" /\ Order[6] = "pypi-push"
  BY DEF Order
<1>4. \A p \in 1 .. 6 : p = 1 \/ p = 2 \/ p = 3 \/ p = 4 \/ p = 5 \/ p = 6
  OBVIOUS
<1>5. \A k \in AllKinds : k \in {"remote", "build", "run", "push", "commit", "pypi-push"}
  BY <1>2, <1>3, <1>4
<1>6. \A k \in {"remote", "build", "run", "push", "commit", "pypi-push"} : k \in AllKinds
  BY <1>2, <1>3
<1> QED
  BY <1>1, <1>2, <1>5, <1>6

\* Where the run is: a step of the configuration, an entry of TASK_MAPPINGS.
PlaceInv ==
  /\ phase \in Phases
  /\ step \in 1 .. NSteps + 1 /\ (phase \in StepPhases => step \in 1 .. NSteps)
  /\ pos \in 0 .. 6 /\ (phase \in {"task", "post"} => pos \in 1 .. 6)

FlagType ==
  /\ opts \in [push : BOOLEAN, cleanup : BOOLEAN, legacy : BOOLEAN]
  /\ err \in Errors \cup {"none"}
  /\ exitCode \in {0, 1, 78}
  /\ archive \in {"none", "unnamed", "named"} /\ source \in BOOLEAN
  /\ aborted \in BOOLEAN /\ mishap \in BOOLEAN

ListType ==
  /\ tasks \in Seq(AllKinds)
  /\ mpTags \in Seq(Tags) /\ toPush \in Seq(Tags) /\ packages \in Seq(Tags)
  /\ pushed \in Seq(Tags)
  /\ generated \in Seq(AllImages)
  /\ left \in Nat

HistoryType ==
  /\ failures \subseteq AllKinds \X Errors
  /\ live \subseteq (1 .. NSteps) \X AllKinds

LEMMA PlaceKept ==
  ASSUME PlaceInv, [Next]_vars
  PROVE  PlaceInv'
<1> USE BuildRunAssumption DEF PlaceInv, StepPhases, Phases
<1>1. CASE Task
  BY <1>1, TaskPhases, TaskLeads
<1>2. CASE Steps
  <2>1. CASE Open \/ SkipStep \/ BeginStep
    BY <2>1 DEF Open, SkipStep, BeginStep, Leave, plan
  <2>2. ASSUME NEW p \in DOMAIN Order, ConstructTask(p) \/ ConstructBuild(p) PROVE PlaceInv'
    <3>1. /\ phase = "tasks" /\ phase' = "task" /\ pos' = p /\ step' = step /\ p \in 1 .. 6
      BY <2>2, OrderFacts DEF ConstructTask, ConstructBuild, Constructed, Constructible
    <3> QED
      BY <3>1
  <2>3. ASSUME NEW p \in DOMAIN Order, NEW e \in {"config", "other"}, ConstructFails(p, e)
        PROVE  PlaceInv'
    BY <2>3 DEF ConstructFails, Constructible, Fail, plan
  <2>4. CASE TasksDone \/ CleanTask
    BY <2>4 DEF TasksDone, CleanTask, plan
  <2>5. CASE EndStep
    BY <2>5 DEF EndStep, Leave
  <2> QED
    BY <1>2, <2>1, <2>2, <2>3, <2>4, <2>5 DEF Steps
<1>3. CASE Finish
  BY <1>3 DEF Finish, Finalize, Leave, PushNext, Pushed, Except, PushFails, BeginFinally, RemoveSourceImage,
              RemoveImage, RemoveFiles, Continue, Abort, plan
<1>4. CASE Exited \/ UNCHANGED vars
  BY <1>4 DEF Exited, vars
<1> QED
  BY <1>1, <1>2, <1>3, <1>4 DEF Next

LEMMA FlagsKept ==
  ASSUME FlagType, [Next]_vars
  PROVE  FlagType'
<1> USE ErrorsAreErrors DEF FlagType
<1>1. opts' = opts
  <2>1. CASE Task
    BY <2>1, TaskLeads
  <2>2. CASE Steps
    BY <2>2 DEF Steps, Open, SkipStep, BeginStep, ConstructTask, ConstructBuild, ConstructFails,
                TasksDone, CleanTask, EndStep, Leave, plan
  <2>3. CASE Finish
    BY <2>3 DEF Finish, Finalize, Leave, PushNext, Pushed, Except, PushFails, BeginFinally,
                RemoveSourceImage, RemoveImage, RemoveFiles, plan
  <2> QED
    BY <2>1, <2>2, <2>3 DEF Next, Exited, vars
<1>2. err' \in Errors \cup {"none"} /\ exitCode' \in {0, 1, 78}
  <2>1. CASE Task
    BY <2>1 DEF Task, Remote, BuildMultiPlatform, Run, TagMultiPlatform, TagNothing, PypiPush,
                BuildLegacy, BuildImport, CommitForPostBuild, PostBuild, TagImage, TaskFails,
                Succeed, Raise, NextTask, Fail, Errors
  <2>2. CASE Steps
    BY <2>2 DEF Steps, Open, SkipStep, BeginStep, ConstructTask, ConstructBuild, ConstructFails,
                TasksDone, CleanTask, EndStep, Leave, Fail, Errors
  <2>3. CASE Finish
    BY <2>3 DEF Finish, Finalize, Leave, PushNext, Pushed, Except, PushFails, BeginFinally,
                RemoveSourceImage, RemoveImage, RemoveFiles, Continue, Abort, Errors
  <2> QED
    BY <2>1, <2>2, <2>3 DEF Next, Exited, vars
<1>3. archive' \in {"none", "unnamed", "named"} /\ source' \in BOOLEAN
  <2>1. CASE Task
    BY <2>1 DEF Task, Remote, BuildMultiPlatform, Run, TagMultiPlatform, TagNothing, PypiPush,
                BuildLegacy, BuildImport, CommitForPostBuild, PostBuild, TagImage, TaskFails, files
  <2>2. CASE Steps
    BY <2>2 DEF Steps, Open, SkipStep, BeginStep, ConstructTask, ConstructBuild, ConstructFails,
                TasksDone, CleanTask, EndStep, Leave, files
  <2>3. CASE Finish
    BY <2>3 DEF Finish, Finalize, Leave, PushNext, Pushed, Except, PushFails, BeginFinally,
                RemoveSourceImage, RemoveImage, RemoveFiles, files
  <2> QED
    BY <2>1, <2>2, <2>3 DEF Next, Exited, vars
<1>4. aborted' \in BOOLEAN /\ mishap' \in BOOLEAN
  <2>1. CASE Task
    BY <2>1 DEF Task, Remote, BuildMultiPlatform, Run, TagMultiPlatform, TagNothing, PypiPush,
                BuildLegacy, BuildImport, CommitForPostBuild, PostBuild, TagImage, TaskFails, history
  <2>2. CASE Steps
    BY <2>2 DEF Steps, Open, SkipStep, BeginStep, ConstructTask, ConstructBuild, ConstructFails,
                TasksDone, CleanTask, EndStep, Leave, history
  <2>3. CASE Finish
    BY <2>3 DEF Finish, Finalize, Leave, PushNext, Pushed, Except, PushFails, BeginFinally,
                RemoveSourceImage, RemoveImage, RemoveFiles, Continue, Abort, history
  <2> QED
    BY <2>1, <2>2, <2>3 DEF Next, Exited, vars
<1> QED
  BY <1>1, <1>2, <1>3, <1>4

LEMMA AppendTyped ==
  ASSUME NEW S, NEW s \in Seq(S), NEW c \in S
  PROVE  Append(s, c) \in Seq(S)
OBVIOUS

LEMMA TagOf ==
  ASSUME PlaceInv, phase = "task", Kind \in {"push", "commit", "pypi-push"}
  PROVE  <<step, Kind>> \in Tags
BY BuildRunAssumption DEF PlaceInv, StepPhases, Tags

LEMMA ListsKept ==
  ASSUME PlaceInv, ListType, [Next]_vars
  PROVE  ListType'
<1> USE DEF ListType
<1>1. tasks' \in Seq(AllKinds)
  <2>1. CASE Task
    BY <2>1, TaskLeads
  <2>2. CASE Steps
    <3>1. ASSUME NEW p \in DOMAIN Order, Constructed(p) PROVE tasks' \in Seq(AllKinds)
      <4>1. PICK k \in AllKinds : k = Order[p]
        BY OrderFacts
      <4>2. tasks' = Append(tasks, k)
        BY <3>1, <4>1 DEF Constructed
      <4>3. Append(tasks, k) \in Seq(AllKinds)
        BY AppendTyped
      <4> QED
        BY <4>2, <4>3
    <3>2. tasks' \in {tasks, <<>>} \/ \E p \in DOMAIN Order : Constructed(p)
      BY <2>2 DEF Steps, Open, SkipStep, BeginStep, ConstructTask, ConstructBuild,
                  ConstructFails, TasksDone, CleanTask, EndStep, Leave, plan
    <3>3. <<>> \in Seq(AllKinds)
      OBVIOUS
    <3> QED
      BY <3>1, <3>2, <3>3
  <2>3. CASE Finish
    BY <2>3 DEF Finish, Finalize, Leave, PushNext, Pushed, Except, PushFails, BeginFinally,
                RemoveSourceImage, RemoveImage, RemoveFiles, plan
  <2> QED
    BY <2>1, <2>2, <2>3 DEF Next, Exited, vars
<1>2. mpTags' \in Seq(Tags) /\ toPush' \in Seq(Tags) /\ packages' \in Seq(Tags)
  <2>1. CASE TagMultiPlatform
    <3>1. PICK t \in Tags : t = <<step, Kind>>
      BY <2>1, TagOf DEF TagMultiPlatform, Tagging
    <3>2. mpTags' = Append(mpTags, t) /\ UNCHANGED <<toPush, packages>>
      BY <2>1, <3>1 DEF TagMultiPlatform
    <3>3. Append(mpTags, t) \in Seq(Tags)
      BY AppendTyped
    <3> QED
      BY <3>2, <3>3
  <2>2. ASSUME NEW i \in Images, TagImage(i) PROVE toPush' \in Seq(Tags) /\ UNCHANGED <<mpTags, packages>>
    <3>1. <<step, Kind>> \in Tags
      BY <2>2, TagOf DEF TagImage, Tagging
    <3>2. toPush' = toPush \/ toPush' = Append(toPush, <<step, Kind>>)
      BY <2>2 DEF TagImage
    <3>3. UNCHANGED <<mpTags, packages>>
      BY <2>2 DEF TagImage
    <3>4. PICK t \in Tags : t = <<step, Kind>>
      BY <3>1
    <3>5. Append(toPush, t) \in Seq(Tags)
      BY AppendTyped
    <3>6. toPush' \in Seq(Tags)
      BY <3>2, <3>4, <3>5
    <3> QED
      BY <3>3, <3>6
  <2>3. CASE PypiPush
    <3>1. PICK t \in Tags : t = <<step, Kind>>
      BY <2>3, TagOf DEF PypiPush, InTask
    <3>2. packages' \in {packages, Append(packages, t)} /\ UNCHANGED <<mpTags, toPush>>
      BY <2>3, <3>1 DEF PypiPush
    <3>3. Append(packages, t) \in Seq(Tags)
      BY AppendTyped
    <3> QED
      BY <3>2, <3>3
  <2>4. CASE Steps
    BY <2>4 DEF Steps, Open, SkipStep, BeginStep, ConstructTask, ConstructBuild, ConstructFails,
                TasksDone, CleanTask, EndStep, Leave, queue
  <2>5. CASE Finish
    BY <2>5 DEF Finish, Finalize, Leave, PushNext, Pushed, Except, PushFails, BeginFinally,
                RemoveSourceImage, RemoveImage, RemoveFiles, queue
  <2> QED
    BY <2>1, <2>2, <2>3, <2>4, <2>5
       DEF Next, Exited, vars, Task, Remote, BuildMultiPlatform, Run, TagNothing, BuildLegacy,
           BuildImport, CommitForPostBuild, PostBuild, TaskFails, queue
<1>3. pushed' \in Seq(Tags)
  <2>1. CASE PushNext
    <3>1. Queue \in Seq(Tags) /\ Len(Queue) \in Nat /\ Len(pushed) \in Nat
      BY DEF Queue
    <3>2. Len(pushed) + 1 \in 1 .. Len(Queue)
      BY <2>1, <3>1 DEF PushNext
    <3> QED
      BY <2>1, <3>1, <3>2 DEF PushNext
  <2>2. CASE Task
    BY <2>2 DEF Task, Remote, BuildMultiPlatform, Run, TagMultiPlatform, TagNothing, PypiPush,
                BuildLegacy, BuildImport, CommitForPostBuild, PostBuild, TagImage, TaskFails
  <2>3. CASE Steps
    BY <2>3 DEF Steps, Open, SkipStep, BeginStep, ConstructTask, ConstructBuild, ConstructFails,
                TasksDone, CleanTask, EndStep, Leave
  <2> QED
    BY <2>1, <2>2, <2>3
       DEF Next, Exited, vars, Finish, Finalize, Leave, Pushed, Except, PushFails, BeginFinally,
           RemoveSourceImage, RemoveImage, RemoveFiles
<1>4. generated' \in Seq(AllImages)
  <2>1. CASE Task
    <3>1. generated' = generated \/ \E i \in Images : generated' = Append(generated, i)
      BY <2>1 DEF Task, Remote, BuildMultiPlatform, Run, TagMultiPlatform, TagNothing, PypiPush,
                  BuildLegacy, BuildImport, CommitForPostBuild, PostBuild, TagImage, TaskFails, images
    <3>2. \A i \in AllImages : Append(generated, i) \in Seq(AllImages)
      BY AppendTyped
    <3> QED
      BY <3>1, <3>2 DEF AllImages
  <2>2. CASE Steps
    <3>1. generated' = generated \/ \E i \in Elsewhere : generated' = Append(generated, i)
      BY <2>2 DEF Steps, Open, SkipStep, BeginStep, ConstructTask, ConstructBuild, ConstructFails,
                  TasksDone, CleanTask, EndStep, Leave, images
    <3>2. \A i \in AllImages : Append(generated, i) \in Seq(AllImages)
      BY AppendTyped
    <3> QED
      BY <3>1, <3>2 DEF AllImages
  <2>3. CASE Finish
    BY <2>3 DEF Finish, Finalize, Leave, PushNext, Pushed, Except, PushFails, BeginFinally,
                RemoveSourceImage, RemoveImage, RemoveFiles, images
  <2> QED
    BY <2>1, <2>2, <2>3 DEF Next, Exited, vars
<1>5. left' \in Nat
  <2>1. Len(tasks) \in Nat /\ Len(generated) \in Nat
    OBVIOUS
  <2>2. CASE Task
    BY <2>1, <2>2 DEF Task, Remote, BuildMultiPlatform, Run, TagMultiPlatform, TagNothing, PypiPush,
                      BuildLegacy, BuildImport, CommitForPostBuild, PostBuild, TagImage, TaskFails,
                      Succeed, Raise, NextTask, Fail
  <2>3. CASE Steps
    BY <2>1, <2>3 DEF Steps, Open, SkipStep, BeginStep, ConstructTask, ConstructBuild, ConstructFails,
                      TasksDone, CleanTask, EndStep, Leave, Fail
  <2>4. CASE Finish
    BY <2>1, <2>4 DEF Finish, Finalize, Leave, PushNext, Pushed, Except, PushFails, BeginFinally,
                      RemoveSourceImage, RemoveImage, RemoveFiles
  <2> QED
    BY <2>2, <2>3, <2>4 DEF Next, Exited, vars
<1> QED
  BY <1>1, <1>2, <1>3, <1>4, <1>5

LEMMA HistoryKept ==
  ASSUME PlaceInv, HistoryType, [Next]_vars
  PROVE  HistoryType'
<1> USE DEF HistoryType
<1>1. failures' \subseteq AllKinds \X Errors
  <2>1. CASE Task
    <3>1. Kind \in AllKinds
      BY <2>1, TaskPhases, OrderFacts DEF PlaceInv, Kind
    <3>2. ASSUME NEW e \in Errors, Raise(Kind, e) PROVE failures' \subseteq AllKinds \X Errors
      BY <3>1, <3>2 DEF Raise
    <3>3. CASE ~\E e \in Errors : Raise(Kind, e)
      BY <2>1, <3>3, ErrorsAreErrors
         DEF Task, Remote, BuildMultiPlatform, Run, TagMultiPlatform, TagNothing, PypiPush,
             BuildLegacy, BuildImport, CommitForPostBuild, PostBuild, TagImage, TaskFails,
             Succeed, Errors, history
    <3> QED
      BY <3>2, <3>3
  <2>2. CASE Steps
    <3>1. ASSUME NEW p \in DOMAIN Order, NEW e \in {"config", "other"}, ConstructFails(p, e)
          PROVE  failures' \subseteq AllKinds \X Errors
      BY <3>1, OrderFacts DEF ConstructFails, Errors
    <3> QED
      BY <2>2, <3>1 DEF Steps, Open, SkipStep, BeginStep, ConstructTask, ConstructBuild,
                        TasksDone, CleanTask, EndStep, Leave, history
  <2>3. CASE Finish
    BY <2>3 DEF Finish, Finalize, Leave, PushNext, Pushed, Except, PushFails, BeginFinally,
                RemoveSourceImage, RemoveImage, RemoveFiles, history
  <2> QED
    BY <2>1, <2>2, <2>3 DEF Next, Exited, vars
<1>2. live' \subseteq (1 .. NSteps) \X AllKinds
  <2>1. CASE Task
    BY <2>1 DEF Task, Remote, BuildMultiPlatform, Run, TagMultiPlatform, TagNothing, PypiPush,
                BuildLegacy, BuildImport, CommitForPostBuild, PostBuild, TagImage, TaskFails, history
  <2>2. CASE Steps
    <3>1. ASSUME NEW p \in DOMAIN Order, Constructed(p)
          PROVE  live' \subseteq (1 .. NSteps) \X AllKinds
      <4>1. step \in 1 .. NSteps /\ Order[p] \in AllKinds
        BY <3>1, OrderFacts DEF Constructed, Constructible, PlaceInv, StepPhases
      <4> QED
        BY <3>1, <4>1 DEF Constructed
    <3> QED
      BY <2>2, <3>1 DEF Steps, Open, SkipStep, BeginStep, ConstructTask, ConstructBuild,
                        ConstructFails, TasksDone, CleanTask, EndStep, Leave, history
  <2>3. CASE Finish
    BY <2>3 DEF Finish, Finalize, Leave, PushNext, Pushed, Except, PushFails, BeginFinally,
                RemoveSourceImage, RemoveImage, RemoveFiles, history
  <2> QED
    BY <2>1, <2>2, <2>3 DEF Next, Exited, vars
<1> QED
  BY <1>1, <1>2

-----------------------------------------------------------------------------
(* The images of the docker daemon and the list of those to clean up. *)

Listed(i) == \E n \in 1 .. Len(generated) : generated[n] = i

\* What an image is built on outlives it; no image is built on itself.
LineageInv ==
  /\ local \cup Elsewhere \subseteq DOMAIN ancestors
  /\ \A x \in Elsewhere : ancestors[x] = {}
  /\ \A d \in local :
       /\ ancestors[d] \subseteq local \ {d}
       /\ \A a \in ancestors[d] : ancestors[a] \subseteq ancestors[d]

\* An image is listed after those it is built on.  One that is not listed has no name, and
\* serves a listed one, unless nothing is below it or its step is not cleaned up yet.
ListInv ==
  /\ built \subseteq DOMAIN ancestors
  /\ \A n \in 1 .. Len(generated) : generated[n] \in DOMAIN ancestors
  /\ \A i \in built : Listed(i)
  /\ ~mishap =>
       /\ \A i \in tagged \cap Images : Listed(i)
       /\ \A m \in 1 .. Len(generated) : generated[m] \in local =>
            \A i \in ancestors[generated[m]] \cap Images :
              Listed(i) => \E n \in 1 .. m - 1 : generated[n] = i
       /\ \A d \in local \cap Images :
            \/ Listed(d) \/ ancestors[d] = {} \/ d = temp
            \/ \E e \in Descendants(d) : Listed(e)

\* The images a step hands from task to task; those not listed yet have nothing on them.
ContextInv ==
  /\ phase \in {"open", "steps"} => ctx = EmptyContext
  /\ phase \in {"tasks", "task", "post"} =>
       /\ ctx.base \in local \cup {NoImage}
       /\ ctx.image \in Images =>
            /\ ctx.image \in local
            /\ ~mishap /\ ~ctx.runner => Listed(ctx.image) \/ Descendants(ctx.image) = {}
       /\ ctx.commit # NoImage =>
            /\ ctx.commit \in local
            /\ ~mishap /\ ctx.runImage = NoImage =>
                 Listed(ctx.commit) \/ Descendants(ctx.commit) = {}
       /\ ctx.runImage # NoImage => ctx.runImage \in local /\ Listed(ctx.runImage)

\* A temporary name is that of a run task still to be cleaned up.
TempInv ==
  /\ phase \in {"task", "post"} => \E k \in 1 .. Len(tasks) : tasks[k] = Kind
  /\ phase = "post" => Kind = "run" /\ ctx.runner
  /\ temp # NoImage =>
       /\ phase \in StepPhases
       /\ \E k \in (IF phase = "clean" THEN Cleaning ELSE 1) .. Len(tasks) : tasks[k] = "run"

\* What the final loop is past is gone.
RemovalInv ==
  /\ removed \cap local = {}
  /\ phase \notin {"images", "exited"} => removed = {}
  /\ phase = "images" => left \in 0 .. Len(generated)
  /\ ~mishap /\ opts.cleanup =>
       /\ phase = "images" =>
            \A d \in local \cap Images : Listed(d) => \E m \in 1 .. left : generated[m] = d
       /\ phase = "exited" /\ ~aborted => \A d \in local \cap Images : ~Listed(d)

ImageType ==
  /\ DOMAIN ancestors \subseteq AllImages
  /\ ancestors \in [DOMAIN ancestors -> SUBSET AllImages]
  /\ removed \subseteq AllImages
  /\ local \subseteq AllImages /\ built \subseteq Images /\ tagged \subseteq local
  /\ temp \in local \cup {NoImage}

ContextType ==
  ctx \in [mp : BOOLEAN, image : Images \cup {NoImage, RegistryImage},
           platforms : BOOLEAN, runner : BOOLEAN, base : AllImages \cup {NoImage},
           commit : Images \cup {NoImage}, runImage : Images \cup {NoImage},
           xfail : BOOLEAN]

LEMMA TypeParts ==
  TypeOK <=> /\ phase \in Phases /\ step \in 1 .. NSteps + 1 /\ pos \in 0 .. 6
             /\ FlagType /\ ListType /\ HistoryType /\ ImageType /\ ContextType
BY OrderFacts DEF TypeOK, FlagType, ListType, HistoryType, ImageType, ContextType

LEMMA ImageFacts ==
  /\ Images \subseteq AllImages /\ Elsewhere \subseteq AllImages
  /\ \A i \in AllImages : i \in Images \/ i \in Elsewhere
  /\ \A i \in Images : i \notin Elsewhere /\ i # NoImage /\ i # RegistryImage
  /\ \A i \in Elsewhere : i \notin Images /\ i # NoImage
  /\ NoImage \notin AllImages /\ RegistryImage \notin AllImages /\ RegistryImage # NoImage
BY BuildRunAssumption DEF AllImages

\* A new image: nothing is on it, and it is on nothing that is not there.
LEMMA ProduceKeeps ==
  ASSUME ImageType, LineageInv, NEW i, NEW base \in local \cup Elsewhere \cup {NoImage},
         Produce(i, base)
  PROVE  /\ LineageInv'
         /\ DOMAIN ancestors' = DOMAIN ancestors \cup {i} /\ DOMAIN ancestors' \subseteq AllImages
         /\ ancestors' \in [DOMAIN ancestors' -> SUBSET AllImages] /\ local' \subseteq AllImages
         /\ i \in Images /\ i \notin DOMAIN ancestors /\ i \notin local /\ i \in local'
         /\ local \subseteq local' /\ \A d \in local' : d \in local \/ d = i \/ (d = base /\ base \in Elsewhere)
         /\ \A d \in DOMAIN ancestors : ancestors'[d] = ancestors[d]
         /\ ancestors'[i] = Line(base)
<1> USE ImageFacts
<1>1. /\ i \in Images /\ i \notin DOMAIN ancestors /\ local' = local \cup {i} \cup ({base} \ {NoImage})
      /\ ancestors' = [d \in DOMAIN ancestors \cup {i} |-> IF d = i THEN Line(base) ELSE ancestors[d]]
  BY DEF Produce
<1>2. /\ DOMAIN ancestors' = DOMAIN ancestors \cup {i} /\ ancestors'[i] = Line(base)
      /\ \A d \in DOMAIN ancestors : ancestors'[d] = ancestors[d]
  BY <1>1
<1>3. base # NoImage => base \in DOMAIN ancestors /\ base \in local'
  BY <1>1 DEF LineageInv
<1>4. Line(base) \subseteq local' \ {i} /\ Line(base) \subseteq AllImages
  <2>1. CASE base = NoImage
    BY <2>1 DEF Line
  <2>2. CASE base # NoImage
    <3>1. ancestors[base] \subseteq local
      BY <1>3, <2>2 DEF LineageInv
    <3>2. i \notin local
      BY <1>1 DEF LineageInv
    <3> QED
      BY <1>1, <1>3, <2>2, <3>1, <3>2 DEF Line, ImageType
  <2> QED
    BY <2>1, <2>2
<1>5. \A a \in Line(base) : ancestors[a] \subseteq Line(base) /\ a \in DOMAIN ancestors
  <2>1. CASE base = NoImage
    BY <2>1 DEF Line
  <2>2. CASE base # NoImage
    <3>1. ancestors[base] \subseteq local /\ \A a \in ancestors[base] : ancestors[a] \subseteq ancestors[base]
      BY <1>3, <2>2 DEF LineageInv
    <3>2. ancestors[base] \subseteq DOMAIN ancestors
      BY <3>1 DEF LineageInv
    <3> QED
      BY <1>3, <2>2, <3>1, <3>2 DEF Line
  <2> QED
    BY <2>1, <2>2
<1>6. i \notin local /\ i \in local' /\ local \subseteq local'
      /\ \A d \in local' : d \in local \/ d = i \/ (d = base /\ base \in Elsewhere)
  BY <1>1 DEF LineageInv
<1>7. ancestors' \in [DOMAIN ancestors' -> SUBSET AllImages]
  BY <1>1, <1>2, <1>4 DEF ImageType
<1>8. LineageInv'
  <2>1. (local' \cup Elsewhere) \subseteq DOMAIN ancestors' /\ \A x \in Elsewhere : ancestors'[x] = {}
    BY <1>1, <1>2, <1>3, <1>6 DEF LineageInv
  <2>2. ASSUME NEW d \in local'
        PROVE  /\ ancestors'[d] \subseteq local' \ {d}
               /\ \A a \in ancestors'[d] : ancestors'[a] \subseteq ancestors'[d]
    <3>1. CASE d = i
      BY <1>2, <1>4, <1>5, <3>1
    <3>2. CASE d \in local
      <4>1. /\ ancestors'[d] = ancestors[d] /\ ancestors[d] \subseteq local \ {d}
            /\ \A a \in ancestors[d] : ancestors[a] \subseteq ancestors[d]
            /\ local \subseteq DOMAIN ancestors
        BY <1>2, <3>2 DEF LineageInv
      <4>2. \A a \in ancestors[d] : ancestors'[a] = ancestors[a]
        BY <1>2, <4>1
      <4> QED
        BY <1>6, <4>1, <4>2
    <3>3. CASE d \in Elsewhere
      BY <2>1, <3>3
    <3> QED
      BY <1>6, <3>1, <3>2, <3>3
  <2> QED
    BY <2>1, <2>2 DEF LineageInv
<1> QED
  BY <1>1, <1>2, <1>4, <1>6, <1>7, <1>8 DEF ImageType

\* Deleting an image nothing is on, with the unnamed ones below it that serve nothing else.
LEMMA DeleteKeeps ==
  ASSUME ImageType, LineageInv, NEW j \in local, Descendants(j) = {}, Delete(j)
  PROVE  /\ LineageInv'
         /\ local' = local \ ({j} \cup Prunable(j)) /\ Prunable(j) \subseteq ancestors[j]
         /\ ancestors' = ancestors /\ built' = built /\ tagged' = tagged \ {j}
         /\ tagged' \subseteq local' /\ temp' \in local' \cup {NoImage}
         /\ j \notin ancestors[j]
<1>1. /\ local' = local \ ({j} \cup Prunable(j)) /\ ancestors' = ancestors /\ built' = built
      /\ tagged' = tagged \ {j} /\ temp' = (IF temp = j THEN NoImage ELSE temp)
  BY DEF Delete
<1>2. Prunable(j) \subseteq ancestors[j] /\ \A a \in Prunable(j) : a \notin tagged /\ a # temp
  BY DEF Prunable, Named
<1>3. ASSUME NEW d \in local', NEW a \in ancestors[d] PROVE a \in local'
  <2>1. /\ d \in local /\ d # j /\ d \notin Prunable(j) /\ a \in local /\ a # j
        /\ ancestors[a] \subseteq ancestors[d]
    BY <1>1, <1>3 DEF LineageInv, Descendants
  <2>2. ASSUME a \in Prunable(j) PROVE FALSE
    <3>1. /\ a \in ancestors[j] /\ d \in Descendants(a)
          /\ \A b \in {a} \cup (ancestors[j] \cap Descendants(a)) :
               ~Named(b) /\ Descendants(b) \subseteq {j} \cup ancestors[j]
      BY <1>3, <2>1, <2>2 DEF Prunable, Descendants
    <3>2. d \in ancestors[j]
      BY <2>1, <3>1
    <3>3. Descendants(d) \subseteq Descendants(a)
      BY <1>3, <2>1 DEF LineageInv, Descendants
    <3>4. \A b \in {d} \cup (ancestors[j] \cap Descendants(d)) : b \in ancestors[j] \cap Descendants(a)
      BY <3>1, <3>2, <3>3
    <3>5. d \in Prunable(j)
      BY <3>1, <3>2, <3>4 DEF Prunable
    <3> QED
      BY <2>1, <3>5
  <2> QED
    BY <1>1, <2>1, <2>2
<1>4. LineageInv'
  <2>1. local' \subseteq local
    BY <1>1
  <2>2. \A d \in local' : ancestors[d] \subseteq local' \ {d}
    BY <1>3, <2>1 DEF LineageInv
  <2> QED
    BY <1>1, <2>1, <2>2 DEF LineageInv
<1>5. tagged' \subseteq local' /\ temp' \in local' \cup {NoImage} /\ j \notin ancestors[j]
  BY <1>1, <1>2 DEF ImageType, LineageInv
<1> QED
  BY <1>1, <1>2, <1>4, <1>5

\* More images and a longer list.
LEMMA ListGrows ==
  ASSUME ImageType, LineageInv, LineageInv', ListInv, generated \in Seq(AllImages), NEW i,
         local \subseteq local', local' \subseteq AllImages,
         \A d \in DOMAIN ancestors : d \in DOMAIN ancestors' /\ ancestors'[d] = ancestors[d],
         \A d \in (local' \cap Images) \ local :
           d \notin DOMAIN ancestors /\ (Listed(d)' \/ d = temp' \/ ancestors'[d] = {}),
         \/ generated' = generated
         \/ /\ generated' = Append(generated, i) /\ i \in AllImages /\ i \in DOMAIN ancestors'
            /\ i \in Images => i \in local'
            /\ i \in Images /\ ~mishap' => Listed(i) \/ Descendants(i) = {} \/ i \notin local,
         temp' = temp \/ temp = NoImage,
         \A d \in tagged' \cap Images : d \in tagged \/ Listed(d)',
         built' \subseteq DOMAIN ancestors', \A d \in built' : d \in built \/ Listed(d)',
         mishap \in BOOLEAN, mishap' \in {mishap, TRUE}
  PROVE  ListInv'
<1> USE ImageFacts
<1> DEFINE n == Len(generated)
<1>1. /\ n \in Nat /\ Len(generated') \in {n, n + 1}
      /\ \A m \in 1 .. n : m \in 1 .. Len(generated') /\ generated'[m] = generated[m]
      /\ Len(generated') = n + 1 => generated'[n + 1] = i /\ generated' = Append(generated, i)
      /\ Len(generated') = n => generated' = generated
  <2>1. CASE generated' = generated
    <3>1. n \in Nat
      BY LenProperties
    <3> QED
      BY <2>1, <3>1
  <2>2. CASE generated' = Append(generated, i) /\ i \in AllImages
    <3>1. /\ n \in Nat /\ Len(generated') = n + 1 /\ generated'[n + 1] = i
          /\ \A m \in 1 .. n : generated'[m] = generated[m]
      BY <2>2, LenProperties, AppendProperties
    <3> QED
      BY <2>2, <3>1
  <2> QED
    BY <2>1, <2>2
<1> HIDE DEF n
<1>2. \A d : Listed(d) => Listed(d)'
  BY <1>1 DEF Listed, n
<1>3. \A d : Listed(d)' => Listed(d) \/ (d = i /\ generated' = Append(generated, i) /\ Len(generated') = n + 1)
  <2> SUFFICES ASSUME NEW d, NEW m \in 1 .. Len(generated'), generated'[m] = d
               PROVE  Listed(d) \/ (d = i /\ generated' = Append(generated, i) /\ Len(generated') = n + 1)
    BY DEF Listed
  <2>1. m \in 1 .. n \/ (m = n + 1 /\ Len(generated') = n + 1)
    BY <1>1
  <2> QED
    BY <1>1, <2>1 DEF Listed, n
<1>4. \A m \in 1 .. Len(generated') : generated'[m] \in DOMAIN ancestors'
  <2> SUFFICES ASSUME NEW m \in 1 .. Len(generated') PROVE generated'[m] \in DOMAIN ancestors'
    OBVIOUS
  <2>1. m \in 1 .. n \/ (m = n + 1 /\ Len(generated') = n + 1)
    BY <1>1
  <2>2. CASE m \in 1 .. n
    BY <1>1, <2>2 DEF ListInv, n
  <2>3. CASE m = n + 1 /\ Len(generated') = n + 1
    <3>1. generated' # generated
      BY <1>1, <2>3 DEF n
    <3> QED
      BY <1>1, <2>3, <3>1
  <2> QED
    BY <2>1, <2>2, <2>3
<1>5. \A d \in built' : Listed(d)'
  BY <1>2 DEF ListInv
<1>6. ASSUME ~mishap' PROVE \A d \in tagged' \cap Images : Listed(d)'
  BY <1>2, <1>6 DEF ListInv
<1>7. ASSUME ~mishap', NEW m \in 1 .. Len(generated'), generated'[m] \in local',
             NEW a \in ancestors'[generated'[m]] \cap Images, Listed(a)'
      PROVE  \E k \in 1 .. m - 1 : generated'[k] = a
  <2>0. /\ \A q \in 1 .. Len(generated) : generated[q] \in local =>
             \A c \in ancestors[generated[q]] \cap Images :
               Listed(c) => \E k \in 1 .. q - 1 : generated[k] = c
        /\ \A q \in 1 .. Len(generated) : generated[q] \in DOMAIN ancestors
    BY <1>7 DEF ListInv
  <2>1. CASE m \in 1 .. n
    <3>1. generated'[m] = generated[m] /\ ancestors'[generated[m]] = ancestors[generated[m]]
          /\ generated[m] \in DOMAIN ancestors
      BY <1>1, <2>0, <2>1 DEF n
    <3>2. generated[m] \in local
      <4>1. generated[m] \notin Elsewhere
        BY <1>7, <3>1 DEF LineageInv
      <4> QED
        BY <1>7, <3>1, <4>1
    <3>3. a \in ancestors[generated[m]] /\ a \in local /\ generated[m] \in Descendants(a)
      BY <1>7, <3>1, <3>2 DEF LineageInv, Descendants
    <3>4. Listed(a)
      BY <1>3, <1>7, <3>3
    <3>5. PICK k \in 1 .. m - 1 : generated[k] = a
      BY <1>7, <2>0, <2>1, <3>2, <3>3, <3>4 DEF n
    <3>6. k \in 1 .. n
      BY <1>1, <2>1, <3>5
    <3> QED
      BY <1>1, <3>5, <3>6
  <2>2. CASE m = n + 1 /\ Len(generated') = n + 1
    <3>1. generated'[m] = i
      BY <1>1, <2>2
    <3>2. a # i
      BY <1>7, <3>1 DEF LineageInv
    <3>3. PICK k \in 1 .. n : generated[k] = a
      BY <1>3, <1>7, <3>2 DEF Listed, n
    <3> QED
      BY <1>1, <2>2, <3>3
  <2> QED
    BY <1>1, <2>1, <2>2
<1>8. ASSUME ~mishap', NEW d \in local' \cap Images
      PROVE  \/ Listed(d)' \/ ancestors'[d] = {} \/ d = temp'
             \/ \E e \in Descendants(d)' : Listed(e)'
  <2>1. CASE d \notin local
    BY <1>8, <2>1
  <2>2. CASE d \in local
    <3>1. \/ Listed(d) \/ ancestors[d] = {} \/ d = temp
          \/ \E e \in Descendants(d) : Listed(e)
      BY <1>8, <2>2 DEF ListInv
    <3>2. d \in DOMAIN ancestors /\ \A e \in Descendants(d) : e \in Descendants(d)'
      BY <2>2 DEF LineageInv, Descendants
    <3> QED
      BY <1>2, <1>8, <3>1, <3>2
  <2> QED
    BY <2>1, <2>2
<1> QED
  BY <1>4, <1>5, <1>6, <1>7, <1>8 DEF ListInv

\* The list only grows.
LEMMA ListedStays ==
  ASSUME generated \in Seq(AllImages), NEW i \in AllImages,
         generated' \in {generated, Append(generated, i)}
  PROVE  /\ \A d : Listed(d) => Listed(d)'
         /\ generated' = Append(generated, i) => Listed(i)'
<1>1. CASE generated' = generated
  <2>1. \A d : Listed(d)' <=> Listed(d)
    BY <1>1 DEF Listed
  <2>2. generated' # Append(generated, i)
    <3>1. Len(Append(generated, i)) = Len(generated) + 1 /\ Len(generated) \in Nat
      BY AppendProperties, LenProperties
    <3> QED
      BY <1>1, <3>1
  <2> QED
    BY <2>1, <2>2
<1>2. CASE generated' = Append(generated, i)
  <2>1. /\ Len(generated') = Len(generated) + 1 /\ generated'[Len(generated) + 1] = i
        /\ Len(generated) \in Nat
        /\ \A m \in 1 .. Len(generated) : generated'[m] = generated[m] /\ m \in 1 .. Len(generated')
    <3>1. /\ Len(generated') = Len(generated) + 1 /\ generated'[Len(generated) + 1] = i
          /\ Len(generated) \in Nat
          /\ \A m \in 1 .. Len(generated) : generated'[m] = generated[m]
      BY <1>2, AppendProperties, LenProperties
    <3> QED
      BY <3>1
  <2>2. Listed(i)'
    BY <2>1 DEF Listed
  <2> QED
    BY <2>1, <2>2 DEF Listed
<1> QED
  BY <1>1, <1>2

\* Nothing comes to be on an image but what is built on it.
LEMMA StaysBare ==
  ASSUME ImageType, LineageInv, NEW i, NEW base \in local \cup Elsewhere \cup {NoImage},
         Produce(i, base)
  PROVE  /\ Descendants(i)' = {}
         /\ \A h \in local : Descendants(h) = {} /\ h # base => Descendants(h)' = {}
<1>1. /\ i \notin local /\ LineageInv' /\ ancestors'[i] = Line(base)
      /\ \A d \in local' : d \in local \/ d = i \/ (d = base /\ base \in Elsewhere)
      /\ \A d \in DOMAIN ancestors : ancestors'[d] = ancestors[d]
  BY ProduceKeeps
<1>2. \A d \in local : ancestors'[d] = ancestors[d] /\ ancestors[d] \subseteq local
  BY <1>1 DEF LineageInv
<1>3. \A d \in Elsewhere : ancestors'[d] = {}
  BY <1>1 DEF LineageInv
<1>4. i \notin ancestors'[i]
  <2>1. i \in local'
    BY ProduceKeeps
  <2> QED
    BY <1>1, <2>1 DEF LineageInv
<1>5. Descendants(i)' = {}
  BY <1>1, <1>2, <1>3, <1>4 DEF Descendants
<1>6. ASSUME NEW h \in local, Descendants(h) = {}, h # base PROVE Descendants(h)' = {}
  <2>1. h \notin Line(base)
    <3>1. base \in local => h \notin ancestors[base]
      BY <1>6 DEF Descendants
    <3>2. base \in Elsewhere => ancestors[base] = {}
      BY DEF LineageInv
    <3> QED
      BY <1>6, <3>1, <3>2 DEF Line
  <2> QED
    BY <1>1, <1>2, <1>3, <1>6, <2>1 DEF Descendants
<1> QED
  BY <1>5, <1>6

\* The images after a new one.
LEMMA ProduceGrows ==
  ASSUME ImageType, LineageInv, ListInv, generated \in Seq(AllImages), mishap \in BOOLEAN,
         NEW i, NEW base \in local \cup Elsewhere \cup {NoImage}, Produce(i, base),
         removed' = removed, mishap' \in {mishap, TRUE},
         \/ /\ generated' = generated /\ tagged' = tagged /\ built' = built
            /\ \/ temp = NoImage /\ temp' = i
               \/ temp' = temp /\ base = NoImage
         \/ /\ generated' = Append(generated, i) /\ temp' = temp /\ built' \in {built, built \cup {i}}
            /\ tagged' \subseteq tagged \cup {i} \cup (local' \cap Elsewhere)
  PROVE  ImageType' /\ LineageInv' /\ ListInv'
<1> USE ImageFacts
<1>1. /\ LineageInv'
      /\ DOMAIN ancestors' = DOMAIN ancestors \cup {i} /\ DOMAIN ancestors' \subseteq AllImages
      /\ ancestors' \in [DOMAIN ancestors' -> SUBSET AllImages] /\ local' \subseteq AllImages
      /\ i \in Images /\ i \notin DOMAIN ancestors /\ i \notin local /\ i \in local'
      /\ local \subseteq local' /\ \A d \in local' : d \in local \/ d = i \/ (d = base /\ base \in Elsewhere)
      /\ \A d \in DOMAIN ancestors : ancestors'[d] = ancestors[d]
      /\ ancestors'[i] = Line(base)
  BY ProduceKeeps
<1>2. ImageType'
  BY <1>1 DEF ImageType
<1>3. \A d : Listed(d) => Listed(d)'
  BY <1>1, ListedStays
<1>4. generated' = Append(generated, i) => Listed(i)'
  BY <1>1, ListedStays
<1>5. \A d \in (local' \cap Images) \ local : d = i
  BY <1>1
<1>6. Listed(i)' \/ i = temp' \/ ancestors'[i] = {}
  BY <1>1, <1>4 DEF Line
<1>7. \A d \in tagged' \cap Images : d \in tagged \/ Listed(d)'
  BY <1>4
<1>8. built' \subseteq DOMAIN ancestors' /\ \A d \in built' : d \in built \/ Listed(d)'
  BY <1>1, <1>4 DEF ListInv
<1>9. \/ generated' = generated
      \/ /\ generated' = Append(generated, i) /\ i \in AllImages /\ i \in DOMAIN ancestors'
         /\ i \in Images => i \in local'
         /\ i \in Images /\ ~mishap' => Listed(i) \/ Descendants(i) = {} \/ i \notin local
  BY <1>1
<1>10. \A d \in DOMAIN ancestors : d \in DOMAIN ancestors' /\ ancestors'[d] = ancestors[d]
  BY <1>1
<1>11. temp' = temp \/ temp = NoImage
  OBVIOUS
<1>12. \A d \in (local' \cap Images) \ local :
         d \notin DOMAIN ancestors /\ (Listed(d)' \/ d = temp' \/ ancestors'[d] = {})
  BY <1>1, <1>5, <1>6
<1>13. ListInv'
  BY <1>1, <1>7, <1>8, <1>9, <1>10, <1>11, <1>12, ListGrows
<1> QED
  BY <1>1, <1>2, <1>13

\* The images after one that is there has been listed, named or pulled once more.
LEMMA SameImages ==
  ASSUME ImageType, LineageInv, ListInv, generated \in Seq(AllImages), mishap \in BOOLEAN,
         removed' = removed, mishap' \in {mishap, TRUE}, UNCHANGED <<ancestors, built, temp>>,
         NEW i \in AllImages, local' = local \cup {i} \/ local' = local,
         i \in Elsewhere \/ i \in local,
         \/ generated' = generated /\ tagged' = tagged
         \/ /\ tagged' \in {tagged, tagged \cup {i}} /\ i \in local'
            /\ \/ generated' = generated /\ i \in Elsewhere
               \/ generated' = Append(generated, i)
            /\ i \in Images /\ ~mishap' => Listed(i) \/ Descendants(i) = {}
  PROVE  ImageType' /\ LineageInv' /\ ListInv'
<1> USE ImageFacts
<1>1. i \in DOMAIN ancestors /\ local \subseteq local' /\ local' \subseteq local \cup {i}
  BY DEF LineageInv
<1>2. LineageInv'
  <2>1. ASSUME NEW d \in local'
        PROVE  ancestors[d] \subseteq local' \ {d} /\ \A a \in ancestors[d] : ancestors[a] \subseteq ancestors[d]
    <3>1. CASE d \in local
      BY <1>1, <3>1 DEF LineageInv
    <3>2. CASE d \in Elsewhere
      BY <3>2 DEF LineageInv
    <3> QED
      BY <1>1, <2>1, <3>1, <3>2
  <2> QED
    BY <1>1, <2>1 DEF LineageInv
<1>3. ImageType'
  BY <1>1 DEF ImageType
<1>4. generated' \in {generated, Append(generated, i)}
  OBVIOUS
<1>5. /\ \A d : Listed(d) => Listed(d)'
      /\ generated' = Append(generated, i) => Listed(i)'
  BY <1>4, ListedStays
<1>6. \A d \in tagged' \cap Images : d \in tagged \/ Listed(d)'
  BY <1>5
<1>7. /\ built' \subseteq DOMAIN ancestors' /\ \A d \in built' : d \in built \/ Listed(d)'
      /\ \A d \in DOMAIN ancestors : d \in DOMAIN ancestors' /\ ancestors'[d] = ancestors[d]
  BY DEF ListInv
<1>8. \A d \in (local' \cap Images) \ local :
        d \notin DOMAIN ancestors /\ (Listed(d)' \/ d = temp' \/ ancestors'[d] = {})
  BY <1>1
<1>9. \/ generated' = generated
      \/ /\ generated' = Append(generated, i) /\ i \in AllImages /\ i \in DOMAIN ancestors'
         /\ i \in Images => i \in local'
         /\ i \in Images /\ ~mishap' => Listed(i) \/ Descendants(i) = {} \/ i \notin local
  BY <1>1
<1>10. ListInv'
  BY <1>1, <1>2, <1>3, <1>6, <1>7, <1>8, <1>9, ListGrows DEF ImageType
<1> QED
  BY <1>2, <1>3, <1>10

\* The images after a build.
LEMMA BuildGrows ==
  ASSUME ImageType, LineageInv, ListInv, generated \in Seq(AllImages), mishap \in BOOLEAN,
         NEW i \in Images, NEW base \in local \cup Elsewhere \cup {NoImage}, Build(i, base),
         removed' = removed, mishap' = mishap, temp' = temp, generated' = Append(generated, i)
  PROVE  /\ ImageType' /\ LineageInv' /\ ListInv'
         /\ i \in local' /\ Listed(i)' /\ local \subseteq local'
         /\ \A d : Listed(d) => Listed(d)'
         /\ \A h \in local : Descendants(h) = {} /\ h # base => Descendants(h)' = {}
<1> USE ImageFacts
<1>1. Listed(i)' /\ \A d : Listed(d) => Listed(d)'
  BY ListedStays
<1>2. CASE /\ Produce(i, base) /\ built' = built \cup {i}
           /\ tagged' = tagged \cup ({base} \cap Elsewhere)
  <2>1. tagged' \subseteq tagged \cup {i} \cup (local' \cap Elsewhere)
    BY <1>2 DEF Produce
  <2>2. ImageType' /\ LineageInv' /\ ListInv'
    BY <1>2, <2>1, ProduceGrows
  <2>3. i \in local' /\ local \subseteq local'
    BY <1>2, ProduceKeeps
  <2>4. \A h \in local : Descendants(h) = {} /\ h # base => Descendants(h)' = {}
    BY <1>2, StaysBare
  <2> QED
    BY <1>1, <2>2, <2>3, <2>4
<1>3. CASE i \in built \cap local /\ UNCHANGED <<local, ancestors, tagged, built>>
  <2>1. Listed(i) /\ i \in AllImages
    BY <1>3 DEF ListInv
  <2>2. ImageType' /\ LineageInv' /\ ListInv'
    BY <1>3, <2>1, SameImages
  <2>3. \A h : Descendants(h)' = Descendants(h)
    BY <1>3 DEF Descendants
  <2> QED
    BY <1>1, <1>3, <2>2, <2>3
<1> QED
  BY <1>2, <1>3 DEF Build

\* The images after a deletion: what is left without a name still serves what is listed.
LEMMA DeleteShrinks ==
  ASSUME ImageType, LineageInv, ListInv, NEW j \in local, Descendants(j) = {}, Delete(j),
         temp \in {j, NoImage}, generated' = generated, mishap' = mishap, mishap \in BOOLEAN
  PROVE  LineageInv' /\ ListInv'
<1> USE ImageFacts
<1>1. /\ LineageInv'
      /\ local' = local \ ({j} \cup Prunable(j)) /\ Prunable(j) \subseteq ancestors[j]
      /\ ancestors' = ancestors /\ built' = built /\ tagged' = tagged \ {j}
      /\ tagged' \subseteq local' /\ temp' \in local' \cup {NoImage}
      /\ j \notin ancestors[j]
  BY DeleteKeeps
<1>2. \A d : Listed(d)' <=> Listed(d)
  BY DEF Listed
<1>3. ASSUME ~mishap, NEW d \in local' \cap Images, ~Listed(d), ancestors[d] # {},
             \A e \in Descendants(d) : Listed(e) => e \notin local'
      PROVE  FALSE
  <2>0. /\ \A a \in tagged \cap Images : Listed(a)
        /\ \A f \in local \cap Images : \/ Listed(f) \/ ancestors[f] = {} \/ f = temp
                                        \/ \E e \in Descendants(f) : Listed(e)
    BY <1>3 DEF ListInv
  <2>1. d \in local /\ d # j /\ d \notin Prunable(j) /\ d # temp /\ d \notin tagged
    BY <1>1, <1>3, <2>0
  <2>2. \A e \in Descendants(d) : /\ Listed(e) => e = j \/ e \in Prunable(j)
                                  /\ e \in local /\ d \in ancestors[e]
    BY <1>1, <1>3 DEF Descendants
  <2>3. \A a \in ancestors[j] : ancestors[a] \subseteq ancestors[j]
    BY DEF LineageInv
  <2>4. d \in ancestors[j]
    <3>1. PICK e \in Descendants(d) : Listed(e)
      BY <1>3, <2>0, <2>1
    <3> QED
      BY <1>1, <2>2, <2>3, <3>1
  <2>5. ASSUME NEW f \in Descendants(d) PROVE f = j \/ f \in ancestors[j]
    <3>1. f \in local /\ d \in ancestors[f] /\ f \in Images
      BY <2>2, <2>5 DEF LineageInv, ImageType
    <3>2. CASE Listed(f)
      BY <1>1, <2>2, <3>2
    <3>3. CASE f = temp
      BY <3>1, <3>3
    <3>4. ASSUME NEW g \in Descendants(f), Listed(g) PROVE f = j \/ f \in ancestors[j]
      <4>1. g \in local /\ f \in ancestors[g] /\ ancestors[f] \subseteq ancestors[g]
        BY <3>4 DEF Descendants, LineageInv
      <4>2. g \in Descendants(d)
        BY <3>1, <4>1 DEF Descendants
      <4> QED
        BY <1>1, <2>2, <2>3, <3>4, <4>1, <4>2
    <3> QED
      BY <2>0, <3>1, <3>2, <3>3, <3>4
  <2>6. ASSUME NEW b \in {d} \cup (ancestors[j] \cap Descendants(d))
        PROVE  ~Named(b) /\ Descendants(b) \subseteq {j} \cup ancestors[j]
    <3>1. Descendants(b) \subseteq Descendants(d)
      <4>1. CASE b = d
        BY <4>1
      <4>2. CASE b \in Descendants(d)
        BY <4>2 DEF Descendants, LineageInv
      <4> QED
        BY <4>1, <4>2
    <3>2. b \notin tagged /\ b # temp
      <4>1. CASE b = d
        BY <2>1, <4>1
      <4>2. CASE b \in ancestors[j] \cap Descendants(d)
        <5>1. b # j /\ b \in local /\ b # NoImage
          BY <1>1, <2>2, <4>2 DEF ImageType
        <5>2. CASE Listed(b)
          <6>1. b \in Prunable(j)
            BY <2>2, <4>2, <5>1, <5>2
          <6> QED
            BY <6>1 DEF Prunable, Named
        <5>3. CASE ~Listed(b)
          <6>1. b \in Images
            BY <2>2, <4>2 DEF LineageInv, ImageType
          <6> QED
            BY <2>0, <5>1, <5>3, <6>1
        <5> QED
          BY <5>2, <5>3
      <4> QED
        BY <4>1, <4>2
    <3> QED
      BY <2>5, <3>1, <3>2 DEF Named
  <2>7. d \in Prunable(j)
    BY <2>4, <2>6 DEF Prunable
  <2> QED
    BY <2>1, <2>7
<1>4. ASSUME ~mishap, NEW d \in local' \cap Images
      PROVE  \/ Listed(d)' \/ ancestors'[d] = {} \/ d = temp'
             \/ \E e \in Descendants(d)' : Listed(e)'
  BY <1>1, <1>2, <1>3, <1>4 DEF Descendants
<1>5. ASSUME ~mishap, NEW m \in 1 .. Len(generated'), generated'[m] \in local',
             NEW a \in ancestors'[generated'[m]] \cap Images, Listed(a)'
      PROVE  \E k \in 1 .. m - 1 : generated'[k] = a
  BY <1>1, <1>2, <1>5 DEF ListInv
<1> QED
  BY <1>1, <1>2, <1>4, <1>5 DEF ListInv

-----------------------------------------------------------------------------
(* What the steps of a task do to the images. *)

ImagesInv == ImageType /\ ContextType /\ LineageInv /\ ListInv /\ ContextInv

Quiet == UNCHANGED <<generated, removed, local, ancestors, built, tagged, temp>>

LEMMA QuietImages ==
  ASSUME ImageType, LineageInv, ListInv, Quiet, mishap \in BOOLEAN, mishap' \in {mishap, TRUE}
  PROVE  ImageType' /\ LineageInv' /\ ListInv'
<1>1. /\ \A d : Listed(d)' <=> Listed(d)
      /\ \A d : Descendants(d)' = Descendants(d)
  BY DEF Quiet, Listed, Descendants
<1>2. ImageType' /\ LineageInv'
  BY DEF Quiet, ImageType, LineageInv
<1>3. ListInv'
  BY <1>1 DEF Quiet, ListInv
<1> QED
  BY <1>2, <1>3

\* A task that leaves the images alone, and what it hands on.
LEMMA QuietContext ==
  ASSUME ImagesInv, Quiet, ctx' = ctx, mishap \in BOOLEAN, mishap' \in {mishap, TRUE},
         phase \in {"tasks", "task", "post"}, phase' \notin {"open", "steps"}
  PROVE  ImagesInv'
<1>1. ImageType' /\ LineageInv' /\ ListInv'
  BY QuietImages DEF ImagesInv
<1>2. /\ \A d : Listed(d)' <=> Listed(d)
      /\ \A d : Descendants(d)' = Descendants(d)
  BY DEF Quiet, Listed, Descendants
<1>3. ContextInv'
  BY <1>2 DEF ImagesInv, Quiet, ContextInv
<1> QED
  BY <1>1, <1>3 DEF ImagesInv, ContextType

\* What a step may be built or run on is there, or can be pulled.
LEMMA BasesAreThere ==
  ASSUME ImageType, NEW base \in Bases
  PROVE  base \in local \cup Elsewhere \cup {NoImage}
BY DEF ImageType, Bases

LEMMA BuildLegacyKeeps ==
  ASSUME ImagesInv, generated \in Seq(AllImages), mishap \in BOOLEAN,
         NEW i \in Images, BuildLegacy(i)
  PROVE  ImagesInv'
<1> USE ImageFacts
<1>1. PICK base \in Bases : Build(i, base)
  BY DEF BuildLegacy
<1>2. base \in local \cup Elsewhere \cup {NoImage}
  BY BasesAreThere DEF ImagesInv
<1>3. /\ phase = "task" /\ phase' = "tasks" /\ ctx' = [ctx EXCEPT !.image = i]
      /\ removed' = removed /\ mishap' = mishap /\ temp' = temp
      /\ generated' = Append(generated, i)
  BY DEF BuildLegacy, InTask, Succeed, NextTask
<1>4. /\ ImageType' /\ LineageInv' /\ ListInv'
      /\ i \in local' /\ Listed(i)' /\ local \subseteq local'
      /\ \A d : Listed(d) => Listed(d)'
      /\ \A h \in local : Descendants(h) = {} /\ h # base => Descendants(h)' = {}
  BY <1>1, <1>2, <1>3, BuildGrows DEF ImagesInv
<1>5. ContextType'
  BY <1>3 DEF ImagesInv, ContextType
<1>6. /\ ctx'.base = ctx.base /\ ctx'.image = i /\ ctx'.commit = ctx.commit
      /\ ctx'.runImage = ctx.runImage /\ ctx'.runner = ctx.runner
  BY <1>3 DEF ImagesInv, ContextType
<1>7. PICK c \in Images \cup {NoImage} : c = ctx.commit /\ c = ctx'.commit
  BY <1>6 DEF ImagesInv, ContextType
<1>8. ASSUME ~mishap, c # NoImage, ctx.runImage = NoImage
      PROVE  Listed(c)' \/ Descendants(c)' = {}
  <2>1. c \in local /\ c \in Images /\ (Listed(c) \/ Descendants(c) = {})
    BY <1>3, <1>7, <1>8 DEF ImagesInv, ContextInv
  <2>2. c = base => Listed(c)
    BY <1>8, <2>1 DEF ImagesInv, ListInv, Bases
  <2> QED
    BY <1>4, <2>1, <2>2
<1>9. ContextInv'
  BY <1>3, <1>4, <1>6, <1>7, <1>8 DEF ImagesInv, ContextInv
<1> QED
  BY <1>4, <1>5, <1>9 DEF ImagesInv

LEMMA BuildImportKeeps ==
  ASSUME ImagesInv, generated \in Seq(AllImages), mishap \in BOOLEAN,
         NEW i \in Images, BuildImport(i)
  PROVE  ImagesInv'
<1> USE ImageFacts
<1>1. /\ Produce(i, NoImage) /\ phase = "task" /\ phase' = "tasks"
      /\ ctx' = [ctx EXCEPT !.image = i] /\ removed' = removed /\ mishap' = mishap
      /\ temp' = temp /\ generated' = generated /\ tagged' = tagged /\ built' = built
  BY DEF BuildImport, InTask, Succeed, NextTask, images
<1>2. ImageType' /\ LineageInv' /\ ListInv'
  BY <1>1, ProduceGrows DEF ImagesInv
<1>3. /\ Descendants(i)' = {}
      /\ \A h \in local : Descendants(h) = {} /\ h # NoImage => Descendants(h)' = {}
  BY <1>1, StaysBare DEF ImagesInv
<1>4. i \in local' /\ local \subseteq local'
  BY <1>1, ProduceKeeps DEF ImagesInv
<1>5. ContextType'
  BY <1>1 DEF ImagesInv, ContextType
<1>6. /\ ctx'.base = ctx.base /\ ctx'.image = i /\ ctx'.commit = ctx.commit
      /\ ctx'.runImage = ctx.runImage /\ ctx'.runner = ctx.runner
  BY <1>1 DEF ImagesInv, ContextType
<1>7. \A d : Listed(d)' <=> Listed(d)
  BY <1>1 DEF Listed
<1>8. ContextInv'
  BY <1>1, <1>3, <1>4, <1>6, <1>7 DEF ImagesInv, ContextInv
<1> QED
  BY <1>2, <1>5, <1>8 DEF ImagesInv

\* An image from elsewhere is built on none.
LEMMA PullKeepsDescendants ==
  ASSUME LineageInv, NEW x \in Elsewhere \cup local, local' \in {local, local \cup {x}},
         ancestors' = ancestors
  PROVE  \A d : Descendants(d)' = Descendants(d)
BY DEF LineageInv, Descendants

LEMMA RunKeeps ==
  ASSUME ImagesInv, generated \in Seq(AllImages), mishap \in BOOLEAN, Run
  PROVE  ImagesInv'
<1> USE ImageFacts
<1>1. PICK base \in Bases \cup ({ctx.image} \cap Images) :
        /\ ctx' = [ctx EXCEPT !.runner = TRUE, !.base = base]
        /\ local' = local \cup ({base} \ {NoImage})
        /\ tagged' = tagged \cup ({base} \cap Elsewhere)
  BY DEF Run
<1>2. /\ phase = "task" /\ phase' \in {"tasks", "post"} /\ mishap' = mishap
      /\ UNCHANGED <<generated, removed, ancestors, built, temp>>
  BY DEF Run, InTask, Succeed, NextTask, images
<1>3. base \in local \cup Elsewhere \cup {NoImage}
  <2>1. ctx.image \in Images => ctx.image \in local
    BY <1>2 DEF ImagesInv, ContextInv
  <2> QED
    BY <2>1, BasesAreThere DEF ImagesInv
<1>4. /\ ImageType' /\ LineageInv' /\ ListInv' /\ local \subseteq local'
      /\ \A d : Descendants(d)' = Descendants(d)
      /\ base \in local' \cup {NoImage}
  <2>1. CASE base \in Elsewhere
    <3>1. local' = local \cup {base} /\ tagged' = tagged \cup {base} /\ base \in AllImages
      BY <1>1, <2>1
    <3>2. ImageType' /\ LineageInv' /\ ListInv'
      BY <1>2, <2>1, <3>1, SameImages DEF ImagesInv
    <3>3. \A d : Descendants(d)' = Descendants(d)
      BY <1>2, <2>1, <3>1, PullKeepsDescendants DEF ImagesInv
    <3> QED
      BY <3>1, <3>2, <3>3
  <2>2. CASE base \notin Elsewhere
    <3>1. local' = local /\ tagged' = tagged /\ base \in local \cup {NoImage}
      BY <1>1, <1>3, <2>2
    <3>2. Quiet
      BY <1>2, <3>1 DEF Quiet
    <3>3. ImageType' /\ LineageInv' /\ ListInv'
      BY <1>2, <3>2, QuietImages DEF ImagesInv
    <3>4. \A d : Descendants(d)' = Descendants(d)
      BY <3>2 DEF Quiet, Descendants
    <3> QED
      BY <3>1, <3>3, <3>4
  <2> QED
    BY <2>1, <2>2
<1>5. ContextType'
  <2>1. base \in AllImages \cup {NoImage}
    BY <1>3 DEF ImagesInv, ImageType
  <2> QED
    BY <1>1, <2>1 DEF ImagesInv, ContextType
<1>6. /\ ctx'.base = base /\ ctx'.image = ctx.image /\ ctx'.commit = ctx.commit
      /\ ctx'.runImage = ctx.runImage /\ ctx'.runner = TRUE
  BY <1>1 DEF ImagesInv, ContextType
<1>7. \A d : Listed(d)' <=> Listed(d)
  BY <1>2 DEF Listed
<1>8. ContextInv'
  BY <1>2, <1>4, <1>6, <1>7 DEF ImagesInv, ContextInv
<1> QED
  BY <1>4, <1>5, <1>8 DEF ImagesInv

\* DockerRunner.commit: a new image on that of the container, or the one it made before.
LEMMA CommitFacts ==
  ASSUME ImagesInv, NEW i \in Images, Commit(i), phase \in {"task", "post"}
  PROVE  \/ /\ ctx.commit = NoImage /\ Produce(i, ctx.base)
            /\ ctx.base \in local \cup Elsewhere \cup {NoImage}
         \/ /\ i = ctx.commit /\ i \in local /\ UNCHANGED <<local, ancestors>>
            /\ ~mishap /\ ctx.runImage = NoImage => Listed(i) \/ Descendants(i) = {}
<1>1. CASE ctx.commit = NoImage
  BY <1>1 DEF Commit, ImagesInv, ContextInv
<1>2. CASE ctx.commit # NoImage
  BY <1>2 DEF Commit, ImagesInv, ContextInv
<1> QED
  BY <1>1, <1>2

LEMMA CommitForPostBuildKeeps ==
  ASSUME ImagesInv, generated \in Seq(AllImages), mishap \in BOOLEAN,
         phase = "post" => ctx.runner, NEW i \in Images, CommitForPostBuild(i)
  PROVE  ImagesInv'
<1> USE ImageFacts
<1>1. /\ phase = "post" /\ phase' = "post" /\ temp = NoImage /\ temp' = i /\ Commit(i)
      /\ ctx' = [ctx EXCEPT !.commit = i] /\ mishap' = mishap
      /\ UNCHANGED <<generated, removed, built, tagged>>
  BY DEF CommitForPostBuild, images, history
<1>2. /\ ctx'.base = ctx.base /\ ctx'.image = ctx.image /\ ctx'.commit = i
      /\ ctx'.runImage = ctx.runImage /\ ctx'.runner = ctx.runner /\ ctx.runner
  BY <1>1 DEF ImagesInv, ContextType
<1>3. /\ ImageType' /\ LineageInv' /\ ListInv' /\ local \subseteq local' /\ i \in local'
      /\ ~mishap /\ ctx.runImage = NoImage => Listed(i)' \/ Descendants(i)' = {}
  <2>1. CASE /\ ctx.commit = NoImage /\ Produce(i, ctx.base)
             /\ ctx.base \in local \cup Elsewhere \cup {NoImage}
    <3>1. PICK base : base = ctx.base
      OBVIOUS
    <3>2. Produce(i, base) /\ base \in local \cup Elsewhere \cup {NoImage}
      BY <2>1, <3>1
    <3>3. ImageType' /\ LineageInv' /\ ListInv'
      BY <1>1, <3>2, ProduceGrows DEF ImagesInv
    <3>4. local \subseteq local' /\ i \in local'
      BY <3>2, ProduceKeeps DEF ImagesInv
    <3>5. Descendants(i)' = {}
      BY <3>2, StaysBare DEF ImagesInv
    <3> QED
      BY <3>3, <3>4, <3>5
  <2>2. CASE /\ i = ctx.commit /\ i \in local /\ UNCHANGED <<local, ancestors>>
             /\ ~mishap /\ ctx.runImage = NoImage => Listed(i) \/ Descendants(i) = {}
    <3>1. /\ \A d : Listed(d)' <=> Listed(d)
          /\ \A d : Descendants(d)' = Descendants(d)
      BY <1>1, <2>2 DEF Listed, Descendants
    <3>2. ImageType' /\ LineageInv'
      BY <1>1, <2>2 DEF ImagesInv, ImageType, LineageInv
    <3>3. ListInv'
      BY <1>1, <2>2, <3>1 DEF ImagesInv, ListInv
    <3> QED
      BY <2>2, <3>1, <3>2, <3>3
  <2> QED
    BY <1>1, <2>1, <2>2, CommitFacts
<1>4. ContextType'
  BY <1>1 DEF ImagesInv, ContextType
<1>5. \A d : Listed(d)' <=> Listed(d)
  BY <1>1 DEF Listed
<1>6. ContextInv'
  BY <1>1, <1>2, <1>3, <1>5 DEF ImagesInv, ContextInv
<1> QED
  BY <1>3, <1>4, <1>6 DEF ImagesInv

LEMMA PostBuildKeeps ==
  ASSUME ImagesInv, generated \in Seq(AllImages), mishap \in BOOLEAN,
         phase = "post" => ctx.runner, NEW i \in Images, PostBuild(i)
  PROVE  ImagesInv'
<1> USE ImageFacts
<1>1. /\ phase = "post" /\ phase' = "tasks" /\ temp # NoImage /\ temp' = temp /\ Build(i, temp)
      /\ ctx' = [ctx EXCEPT !.runImage = i] /\ mishap' = mishap /\ removed' = removed
      /\ generated' = Append(generated, i)
  BY DEF PostBuild, Succeed, NextTask
<1>2. /\ ctx'.base = ctx.base /\ ctx'.image = ctx.image /\ ctx'.commit = ctx.commit
      /\ ctx'.runImage = i /\ ctx'.runner = ctx.runner /\ ctx.runner
  BY <1>1 DEF ImagesInv, ContextType
<1>3. PICK base : base = temp
  OBVIOUS
<1>4. base \in local \cup Elsewhere \cup {NoImage} /\ Build(i, base)
  BY <1>1, <1>3 DEF ImagesInv, ImageType
<1>5. /\ ImageType' /\ LineageInv' /\ ListInv'
      /\ i \in local' /\ Listed(i)' /\ local \subseteq local'
  BY <1>1, <1>4, BuildGrows DEF ImagesInv
<1>6. ContextType'
  BY <1>1 DEF ImagesInv, ContextType
<1>7. ContextInv'
  BY <1>1, <1>2, <1>5 DEF ImagesInv, ContextInv
<1> QED
  BY <1>5, <1>6, <1>7 DEF ImagesInv

LEMMA TagImageKeeps ==
  ASSUME ImagesInv, generated \in Seq(AllImages), mishap \in BOOLEAN,
         NEW i \in Images, TagImage(i)
  PROVE  ImagesInv'
<1> USE ImageFacts
<1>1. /\ phase = "task" /\ phase' \notin {"open", "steps"} /\ ImageToUse(i) /\ mishap' = mishap
      /\ tagged' \in {tagged, tagged \cup {i}} /\ removed' = removed
      /\ generated' = Append(generated, i) /\ UNCHANGED <<built, temp>>
  BY DEF TagImage, Tagging, Succeed, Raise, NextTask, Fail
<1>2. /\ Listed(i)' /\ \A d : Listed(d) => Listed(d)'
  BY <1>1, ListedStays
<1>3. CASE ctx.runImage # NoImage \/ ~ctx.runner
  <2>1. /\ i = IF ctx.runImage # NoImage THEN ctx.runImage ELSE ctx.image
        /\ UNCHANGED <<ctx, local, ancestors>>
    BY <1>1, <1>3 DEF ImageToUse
  <2>2. i \in local /\ (~mishap => Listed(i) \/ Descendants(i) = {})
    BY <1>1, <1>3, <2>1 DEF ImagesInv, ContextInv
  <2>3. ImageType' /\ LineageInv' /\ ListInv'
    BY <1>1, <2>1, <2>2, SameImages DEF ImagesInv
  <2>4. \A d : Descendants(d)' = Descendants(d)
    BY <2>1 DEF Descendants
  <2>5. ContextType'
    BY <2>1 DEF ImagesInv, ContextType
  <2>6. ContextInv'
    BY <1>1, <1>2, <2>1, <2>4 DEF ImagesInv, ContextInv
  <2> QED
    BY <2>3, <2>5, <2>6 DEF ImagesInv
<1>4. CASE ctx.runImage = NoImage /\ ctx.runner
  <2>1. ctx' = [ctx EXCEPT !.commit = i] /\ Commit(i)
    BY <1>1, <1>4 DEF ImageToUse
  <2>2. /\ ctx'.base = ctx.base /\ ctx'.image = ctx.image /\ ctx'.commit = i
        /\ ctx'.runImage = ctx.runImage /\ ctx'.runner = ctx.runner
    BY <2>1 DEF ImagesInv, ContextType
  <2>3. ImageType' /\ LineageInv' /\ ListInv' /\ local \subseteq local' /\ i \in local'
    <3>1. CASE /\ ctx.commit = NoImage /\ Produce(i, ctx.base)
               /\ ctx.base \in local \cup Elsewhere \cup {NoImage}
      <4>1. PICK base : base = ctx.base
        OBVIOUS
      <4>2. Produce(i, base) /\ base \in local \cup Elsewhere \cup {NoImage}
        BY <3>1, <4>1
      <4>3. ImageType' /\ LineageInv' /\ ListInv'
        BY <1>1, <4>2, ProduceGrows DEF ImagesInv
      <4>4. local \subseteq local' /\ i \in local'
        BY <4>2, ProduceKeeps DEF ImagesInv
      <4> QED
        BY <4>3, <4>4
    <3>2. CASE /\ i = ctx.commit /\ i \in local /\ UNCHANGED <<local, ancestors>>
               /\ ~mishap /\ ctx.runImage = NoImage => Listed(i) \/ Descendants(i) = {}
      <4>1. ImageType' /\ LineageInv' /\ ListInv'
        BY <1>1, <1>4, <3>2, SameImages DEF ImagesInv
      <4> QED
        BY <3>2, <4>1
    <3> QED
      BY <1>1, <2>1, <3>1, <3>2, CommitFacts
  <2>4. ContextType'
    BY <2>1 DEF ImagesInv, ContextType
  <2>5. ContextInv'
    BY <1>1, <1>2, <1>4, <2>2, <2>3 DEF ImagesInv, ContextInv
  <2> QED
    BY <2>3, <2>4, <2>5 DEF ImagesInv
<1> QED
  BY <1>3, <1>4

LEMMA TaskKeepsImages ==
  ASSUME ImagesInv, generated \in Seq(AllImages), mishap \in BOOLEAN,
         phase = "post" => ctx.runner, Task
  PROVE  ImagesInv'
<1>1. phase' \notin {"open", "steps"}
  BY TaskPhases, TaskLeads
<1>2. CASE Remote \/ TagMultiPlatform \/ TagNothing \/ PypiPush \/ \E e \in TaskErrors : TaskFails(e)
  <2>1. Quiet /\ ctx' = ctx /\ mishap' \in {mishap, TRUE}
    BY <1>2 DEF Remote, TagMultiPlatform, TagNothing, PypiPush, TaskFails, Quiet, docker, images
  <2> QED
    BY <1>1, <2>1, TaskPhases, QuietContext
<1>3. CASE BuildMultiPlatform
  <2>1. /\ Quiet /\ phase = "task" /\ mishap' = mishap
        /\ ctx' = [ctx EXCEPT !.mp = TRUE, !.image = RegistryImage]
    BY <1>3 DEF BuildMultiPlatform, InTask, Quiet, docker, images
  <2>2. ImageType' /\ LineageInv' /\ ListInv'
    BY <2>1, QuietImages DEF ImagesInv
  <2>3. /\ \A d : Listed(d)' <=> Listed(d)
        /\ \A d : Descendants(d)' = Descendants(d)
    BY <2>1 DEF Quiet, Listed, Descendants
  <2>4. /\ ctx'.base = ctx.base /\ ctx'.image = RegistryImage /\ ctx'.commit = ctx.commit
        /\ ctx'.runImage = ctx.runImage /\ ctx'.runner = ctx.runner
    BY <2>1 DEF ImagesInv, ContextType
  <2>5. ContextType'
    BY <2>1 DEF ImagesInv, ContextType
  <2>6. ContextInv'
    BY <1>1, <2>1, <2>3, <2>4, ImageFacts DEF ImagesInv, Quiet, ContextInv
  <2> QED
    BY <2>2, <2>5, <2>6 DEF ImagesInv
<1>4. ASSUME NEW i \in Images,
             \/ BuildLegacy(i) \/ BuildImport(i) \/ CommitForPostBuild(i)
             \/ PostBuild(i) \/ TagImage(i)
      PROVE  ImagesInv'
  BY <1>4, BuildLegacyKeeps, BuildImportKeeps, CommitForPostBuildKeeps, PostBuildKeeps,
     TagImageKeeps
<1> QED
  BY <1>2, <1>3, <1>4, RunKeeps DEF Task

-----------------------------------------------------------------------------
(* What the cleanups do to the images. *)

\* The temporary name goes, and with it an image nothing needs.
LEMMA ReleaseKeeps ==
  ASSUME ImageType, LineageInv, ListInv, temp # NoImage, ReleaseTemp, mishap \in BOOLEAN,
         mishap' = mishap, generated' = generated, removed' = removed
  PROVE  ImageType' /\ LineageInv' /\ ListInv' /\ temp' = NoImage
<1> USE ImageFacts
<1>1. CASE Delete(temp) /\ Descendants(temp) = {}
  <2>1. PICK j : j = temp
    OBVIOUS
  <2>2. j \in local /\ Delete(j) /\ Descendants(j) = {} /\ temp \in {j, NoImage}
    BY <1>1, <2>1 DEF ImageType
  <2>3. LineageInv' /\ ListInv'
    BY <2>2, DeleteShrinks
  <2>4. ImageType'
    BY <2>2, DeleteKeeps DEF ImageType
  <2>5. temp' = NoImage
    BY <1>1 DEF Delete
  <2> QED
    BY <2>3, <2>4, <2>5
<1>2. CASE /\ temp \in tagged \/ Descendants(temp) # {}
           /\ temp' = NoImage /\ UNCHANGED <<local, ancestors, built, tagged>>
  <2>1. ImageType' /\ LineageInv'
    BY <1>2 DEF ImageType, LineageInv
  <2>2. /\ \A d : Listed(d)' <=> Listed(d)
        /\ \A d : Descendants(d)' = Descendants(d)
    BY <1>2 DEF Listed, Descendants
  <2>3. ASSUME ~mishap, temp \in Images, ~Listed(temp)
        PROVE  \E e \in Descendants(temp) : Listed(e)
    <3>1. temp \notin tagged
      BY <2>3 DEF ListInv
    <3>2. PICK e \in Descendants(temp) : TRUE
      BY <1>2, <3>1
    <3>3. e \in local /\ temp \in ancestors[e] /\ e # temp /\ e \in Images
      BY <3>2 DEF Descendants, LineageInv, ImageType
    <3>4. CASE Listed(e)
      BY <3>4
    <3>5. ASSUME NEW f \in Descendants(e), Listed(f)
          PROVE  \E g \in Descendants(temp) : Listed(g)
      <4>1. f \in Descendants(temp)
        BY <3>3, <3>5 DEF Descendants, LineageInv
      <4> QED
        BY <3>5, <4>1
    <3> QED
      BY <2>3, <3>3, <3>4, <3>5 DEF ListInv
  <2>4. ListInv'
    BY <1>2, <2>2, <2>3 DEF ListInv
  <2> QED
    BY <1>2, <2>1, <2>4
<1> QED
  BY <1>1, <1>2 DEF ReleaseTemp

LEMMA CleanTaskKeeps ==
  ASSUME ImagesInv, mishap \in BOOLEAN, CleanTask
  PROVE  ImagesInv' /\ (tasks[Cleaning] = "run" => temp' = NoImage)
<1>1. /\ phase = "clean" /\ phase' = "clean" /\ ctx' = ctx
      /\ generated' = generated /\ removed' = removed
  BY DEF CleanTask, images
<1>2. ContextType' /\ ContextInv'
  BY <1>1 DEF ImagesInv, ContextType, ContextInv
<1>3. CASE tasks[Cleaning] = "run" /\ temp # NoImage /\ ReleaseTemp /\ mishap' = mishap
  BY <1>1, <1>2, <1>3, ReleaseKeeps DEF ImagesInv
<1>4. CASE /\ tagged' = tagged \cup {temp} /\ temp # NoImage /\ temp' = NoImage /\ mishap' = TRUE
           /\ UNCHANGED <<local, ancestors, built>>
  <2>1. ImageType' /\ LineageInv'
    BY <1>1, <1>4 DEF ImagesInv, ImageType, LineageInv
  <2>2. \A d : Listed(d)' <=> Listed(d)
    BY <1>1 DEF Listed
  <2>3. ListInv'
    BY <1>1, <1>4, <2>2 DEF ImagesInv, ListInv
  <2> QED
    BY <1>2, <1>4, <2>1, <2>3 DEF ImagesInv
<1>5. CASE UNCHANGED <<docker, mishap>> /\ ~(tasks[Cleaning] = "run" /\ temp # NoImage)
  <2>1. Quiet
    BY <1>1, <1>5 DEF Quiet, docker
  <2>2. ImageType' /\ LineageInv' /\ ListInv'
    BY <1>5, <2>1, QuietImages DEF ImagesInv
  <2> QED
    BY <1>2, <1>5, <2>1, <2>2 DEF ImagesInv, Quiet
<1> QED
  BY <1>3, <1>4, <1>5 DEF CleanTask

\* A build that pulls an image when its task is constructed.
LEMMA ConstructBuildKeeps ==
  ASSUME ImagesInv, generated \in Seq(AllImages), mishap \in BOOLEAN,
         NEW p \in DOMAIN Order, ConstructBuild(p)
  PROVE  ImagesInv'
<1> USE ImageFacts
<1>1. /\ phase = "tasks" /\ phase' = "task" /\ removed' = removed /\ mishap' = mishap
  BY DEF ConstructBuild, Constructed, Constructible
<1>2. ASSUME NEW platforms \in BOOLEAN, ctx' = [ctx EXCEPT !.platforms = platforms],
             UNCHANGED <<generated, docker>>
      PROVE  ImagesInv'
  <2>1. Quiet
    BY <1>1, <1>2 DEF Quiet, docker
  <2>2. ImageType' /\ LineageInv' /\ ListInv'
    BY <1>1, <2>1, QuietImages DEF ImagesInv
  <2>3. /\ \A d : Listed(d)' <=> Listed(d)
        /\ \A d : Descendants(d)' = Descendants(d)
    BY <2>1 DEF Quiet, Listed, Descendants
  <2>4. /\ ctx'.base = ctx.base /\ ctx'.image = ctx.image /\ ctx'.commit = ctx.commit
        /\ ctx'.runImage = ctx.runImage /\ ctx'.runner = ctx.runner
    BY <1>2 DEF ImagesInv, ContextType
  <2>5. ContextType'
    BY <1>2 DEF ImagesInv, ContextType
  <2>6. ContextInv'
    BY <1>1, <2>1, <2>3, <2>4 DEF ImagesInv, Quiet, ContextInv
  <2> QED
    BY <2>2, <2>5, <2>6 DEF ImagesInv
<1>3. ASSUME NEW x \in Elsewhere, local' = local \cup {x}, tagged' = tagged \cup {x},
             generated' = Append(generated, x), UNCHANGED <<ctx, ancestors, built, temp>>
      PROVE  ImagesInv'
  <2>1. ImageType' /\ LineageInv' /\ ListInv'
    BY <1>1, <1>3, SameImages DEF ImagesInv
  <2>2. \A d : Listed(d) => Listed(d)'
    BY <1>3, ListedStays
  <2>3. \A d : Descendants(d)' = Descendants(d)
    BY <1>3, PullKeepsDescendants DEF ImagesInv
  <2>4. ContextType'
    BY <1>3 DEF ImagesInv, ContextType
  <2>5. ContextInv'
    BY <1>1, <1>3, <2>2, <2>3 DEF ImagesInv, ContextInv
  <2> QED
    BY <2>1, <2>4, <2>5 DEF ImagesInv
<1> QED
  BY <1>2, <1>3 DEF ConstructBuild

LEMMA StepsKeepImages ==
  ASSUME ImagesInv, generated \in Seq(AllImages), mishap \in BOOLEAN, Steps
  PROVE  ImagesInv'
<1> USE ImageFacts
<1>1. CASE Open \/ SkipStep \/ BeginStep \/ TasksDone
           \/ \E p \in DOMAIN Order, e \in {"config", "other"} : ConstructFails(p, e)
  <2>1. /\ Quiet /\ ctx' = ctx /\ mishap' = mishap
        /\ \/ phase' \in {"open", "steps", "tasks"} /\ phase \in {"open", "steps"}
           \/ phase' \notin {"open", "steps", "tasks", "task", "post"}
    BY <1>1 DEF Open, SkipStep, BeginStep, Leave, TasksDone, ConstructFails, Constructible, Fail, Quiet,
                docker, images, history
  <2>2. ImageType' /\ LineageInv' /\ ListInv'
    BY <2>1, QuietImages DEF ImagesInv
  <2>3. EmptyContext.base = NoImage /\ EmptyContext.image = NoImage /\ EmptyContext.commit = NoImage
        /\ EmptyContext.runImage = NoImage
    BY DEF EmptyContext
  <2>4. ContextType' /\ ContextInv'
    BY <2>1, <2>3 DEF ImagesInv, ContextType, ContextInv
  <2> QED
    BY <2>2, <2>4 DEF ImagesInv
<1>2. ASSUME NEW p \in DOMAIN Order, ConstructTask(p) PROVE ImagesInv'
  <2>1. PICK xfail \in BOOLEAN : ctx' = [ctx EXCEPT !.xfail = @ \/ xfail]
    BY <1>2 DEF ConstructTask
  <2>2. Quiet /\ phase = "tasks" /\ phase' = "task" /\ mishap' = mishap
    BY <1>2 DEF ConstructTask, Constructed, Constructible, Quiet, docker, images
  <2>3. ImageType' /\ LineageInv' /\ ListInv'
    BY <2>2, QuietImages DEF ImagesInv
  <2>4. /\ \A d : Listed(d)' <=> Listed(d)
        /\ \A d : Descendants(d)' = Descendants(d)
    BY <2>2 DEF Quiet, Listed, Descendants
  <2>5. /\ ctx'.base = ctx.base /\ ctx'.image = ctx.image /\ ctx'.commit = ctx.commit
        /\ ctx'.runImage = ctx.runImage /\ ctx'.runner = ctx.runner
    BY <2>1 DEF ImagesInv, ContextType
  <2>6. ContextType'
    <3>1. (ctx.xfail \/ xfail) \in BOOLEAN
      OBVIOUS
    <3> QED
      BY <2>1, <3>1 DEF ImagesInv, ContextType
  <2>7. ContextInv'
    BY <2>2, <2>4, <2>5 DEF ImagesInv, Quiet, ContextInv
  <2> QED
    BY <2>3, <2>6, <2>7 DEF ImagesInv
<1>3. CASE EndStep
  <2>1. /\ Quiet /\ ctx' = EmptyContext /\ mishap' = mishap /\ phase' \in {"steps", "except"}
    BY <1>3 DEF EndStep, Leave, Quiet, docker, images, history
  <2>2. ImageType' /\ LineageInv' /\ ListInv'
    BY <2>1, QuietImages DEF ImagesInv
  <2>3. ContextType' /\ ContextInv'
    BY <2>1 DEF ContextType, ContextInv, EmptyContext
  <2> QED
    BY <2>2, <2>3 DEF ImagesInv
<1> QED
  BY <1>1, <1>2, <1>3, ConstructBuildKeeps, CleanTaskKeeps DEF Steps

-----------------------------------------------------------------------------
(* The temporary name. *)

LEMMA TempKept ==
  ASSUME ImagesInv, TempInv, ListType, mishap \in BOOLEAN, phase \in Phases, [Next]_vars
  PROVE  TempInv'
<1> USE ImageFacts
<1>0. Len(tasks) \in Nat /\ left \in Nat
  BY DEF ListType
<1>1. CASE Task
  <2>1. /\ phase \in {"task", "post"} /\ phase' \in {"tasks", "task", "post", "clean"}
        /\ UNCHANGED <<step, pos, tasks>>
    BY <1>1, TaskPhases, TaskLeads
  <2>2. /\ temp' # NoImage => temp # NoImage \/ phase = "post"
        /\ phase' = "post" => phase = "post" \/ Run
        /\ phase' = "clean" => left' = Len(tasks)
        /\ phase' = "task" => phase = "task"
    BY <1>1, <2>1 DEF Task, Remote, BuildMultiPlatform, Run, TagMultiPlatform, TagNothing, PypiPush,
              BuildLegacy, BuildImport, CommitForPostBuild, PostBuild, TagImage, TaskFails,
              Succeed, Raise, NextTask, Fail, docker, InTask
  <2>3. phase' = "post" => Kind = "run" /\ ctx'.runner
    <3>1. CASE Run
      <4>1. Kind = "run" /\ ctx'.runner
        BY <3>1 DEF Run, InTask, ImagesInv, ContextType
      <4> QED
        BY <4>1
    <3>2. CASE phase = "post" /\ phase' = "post"
      <4>1. PICK i \in Images : CommitForPostBuild(i)
        BY <1>1, <3>2 DEF Task, Remote, BuildMultiPlatform, Run, TagMultiPlatform, TagNothing,
              PypiPush, BuildLegacy, BuildImport, PostBuild, TagImage, TaskFails,
              Succeed, Raise, NextTask, Fail, InTask, Tagging
      <4>2. ctx'.runner = ctx.runner
        BY <4>1 DEF CommitForPostBuild, ImagesInv, ContextType
      <4> QED
        BY <3>2, <4>2 DEF TempInv
    <3> QED
      BY <2>2, <3>1, <3>2
  <2>4. Kind' = Kind
    BY <2>1 DEF Kind
  <2>5. temp' # NoImage => \E k \in 1 .. Len(tasks) : tasks[k] = "run"
    BY <2>1, <2>2 DEF TempInv
  <2>6. phase' = "clean" => Cleaning' = 1
    BY <1>0, <2>1, <2>2 DEF Cleaning
  <2> QED
    BY <2>1, <2>2, <2>3, <2>4, <2>5, <2>6 DEF TempInv, StepPhases
<1>2. CASE Steps
  <2>1. CASE Open \/ SkipStep \/ BeginStep
    <3>1. /\ phase \notin StepPhases /\ phase' \in {"steps", "except", "tasks"} /\ temp' = temp
      BY <2>1 DEF Open, SkipStep, BeginStep, Leave, StepPhases, docker
    <3> QED
      BY <3>1 DEF TempInv
  <2>2. ASSUME NEW p \in DOMAIN Order, ConstructTask(p) \/ ConstructBuild(p) PROVE TempInv'
    <3>1. PICK c \in AllKinds : c = Order[p]
      BY OrderFacts
    <3>2. /\ phase = "tasks" /\ phase' = "task" /\ pos' = p /\ tasks' = Append(tasks, c)
          /\ temp' = temp
      BY <2>2, <3>1 DEF ConstructTask, ConstructBuild, Constructed, Constructible, docker
    <3>3. Kind' = c
      BY <3>1, <3>2 DEF Kind
    <3>4. /\ Len(tasks') = Len(tasks) + 1 /\ tasks'[Len(tasks) + 1] = c
          /\ \A k \in 1 .. Len(tasks) : tasks'[k] = tasks[k]
      BY <3>2, AppendProperties DEF ListType
    <3>5. \E k \in 1 .. Len(tasks') : tasks'[k] = Kind'
      BY <1>0, <3>3, <3>4
    <3>6. temp' # NoImage => \E k \in 1 .. Len(tasks') : tasks'[k] = "run"
      <4>1. temp' # NoImage => \E k \in 1 .. Len(tasks) : tasks[k] = "run"
        BY <3>2 DEF TempInv
      <4>2. \A k \in 1 .. Len(tasks) : k \in 1 .. Len(tasks')
        BY <1>0, <3>4
      <4> QED
        BY <3>4, <4>1, <4>2
    <3> QED
      BY <3>2, <3>5, <3>6 DEF TempInv, StepPhases
  <2>3. ASSUME NEW p \in DOMAIN Order, NEW e \in {"config", "other"}, ConstructFails(p, e) \/ TasksDone
        PROVE  TempInv'
    <3>1. /\ phase = "tasks" /\ phase' = "clean" /\ left' = Len(tasks) /\ UNCHANGED <<tasks, temp>>
      BY <2>3 DEF ConstructFails, TasksDone, Constructible, Fail, plan, docker
    <3>2. Cleaning' = 1
      BY <1>0, <3>1 DEF Cleaning
    <3> QED
      BY <3>1, <3>2 DEF TempInv, StepPhases
  <2>4. CASE CleanTask
    <3>1. /\ phase = "clean" /\ phase' = "clean" /\ left' = left - 1 /\ tasks' = tasks
      BY <2>4 DEF CleanTask, plan
    <3>2. Cleaning' = Cleaning + 1 /\ Cleaning \in Int
      BY <1>0, <3>1 DEF Cleaning
    <3>3. temp' # NoImage => temp # NoImage /\ tasks[Cleaning] # "run"
      <4>1. tasks[Cleaning] = "run" => temp' = NoImage
        BY <2>4, CleanTaskKeeps
      <4>2. tasks[Cleaning] # "run" => temp' = temp
        BY <2>4 DEF CleanTask, docker
      <4> QED
        BY <4>1, <4>2
    <3>4. ASSUME temp' # NoImage PROVE \E k \in Cleaning' .. Len(tasks) : tasks[k] = "run"
      <4>1. PICK k \in Cleaning .. Len(tasks) : tasks[k] = "run"
        BY <3>1, <3>3, <3>4 DEF TempInv
      <4>2. k # Cleaning
        BY <3>3, <3>4, <4>1
      <4>3. k \in Cleaning' .. Len(tasks)
        BY <1>0, <3>2, <4>1, <4>2
      <4> QED
        BY <4>1, <4>3
    <3> QED
      BY <3>1, <3>4 DEF TempInv, StepPhases
  <2>5. CASE EndStep
    <3>1. /\ phase = "clean" /\ left = 0 /\ phase' \in {"steps", "except"} /\ temp' = temp
      BY <2>5 DEF EndStep, Leave, docker
    <3>2. Cleaning = Len(tasks) + 1
      BY <1>0, <3>1 DEF Cleaning
    <3>3. temp = NoImage
      BY <1>0, <3>1, <3>2 DEF TempInv
    <3> QED
      BY <3>1, <3>3 DEF TempInv
  <2> QED
    BY <1>2, <2>1, <2>2, <2>3, <2>4, <2>5, OrderFacts DEF Steps
<1>3. CASE Finish
  <2>1. /\ phase \notin StepPhases /\ phase' \notin StepPhases
        /\ temp' = temp \/ \E i : Delete(i)
    BY <1>3 DEF Finish, Finalize, Leave, PushNext, Pushed, Except, PushFails, BeginFinally, RemoveSourceImage,
                RemoveImage, RemoveFiles, Continue, Abort, StepPhases, docker
  <2>2. temp = NoImage
    BY <2>1 DEF TempInv
  <2>3. temp' = NoImage
    BY <2>1, <2>2 DEF Delete
  <2> QED
    BY <2>1, <2>3 DEF TempInv, StepPhases
<1>4. CASE Exited \/ UNCHANGED vars
  BY <1>4 DEF Exited, vars, TempInv, Kind, Cleaning
<1> QED
  BY <1>1, <1>2, <1>3, <1>4 DEF Next

-----------------------------------------------------------------------------
(* The final loop over the list. *)

\* An image that something is built on has something listed built on it.
LEMMA ServesListed ==
  ASSUME ImageType, LineageInv, ListInv, ~mishap, temp = NoImage,
         NEW i \in local, Descendants(i) # {}
  PROVE  \E f \in Descendants(i) : Listed(f)
<1> USE ImageFacts
<1>1. PICK e \in Descendants(i) : TRUE
  OBVIOUS
<1>2. e \in local /\ i \in ancestors[e] /\ e \in Images /\ e # temp
  BY <1>1 DEF Descendants, LineageInv, ImageType
<1>3. CASE Listed(e)
  BY <1>3
<1>4. ASSUME NEW f \in Descendants(e), Listed(f) PROVE \E g \in Descendants(i) : Listed(g)
  <2>1. f \in Descendants(i)
    BY <1>2, <1>4 DEF Descendants, LineageInv
  <2> QED
    BY <1>4, <2>1
<1> QED
  BY <1>2, <1>3, <1>4 DEF ListInv

\* The loop goes from the last image of the list to the first: when it comes to an image
\* that something listed is built on, that is listed again before.
LEMMA RemoveImageKeeps ==
  ASSUME ImagesInv, TempInv, RemovalInv, ListType, mishap \in BOOLEAN, RemoveImage
  PROVE  ImagesInv' /\ RemovalInv'
<1> USE ImageFacts
<1>1. /\ phase = "images" /\ phase' = "images" /\ left' = left - 1 /\ left \in 1 .. Len(generated)
      /\ Len(generated) \in Nat /\ ctx' = ctx /\ generated' = generated /\ opts' = opts
      /\ temp = NoImage
  BY LenProperties DEF RemoveImage, RemovalInv, TempInv, StepPhases, plan, ListType
<1>2. PICK i : i = generated[left]
  OBVIOUS
<1>3. \A d : Listed(d)' <=> Listed(d)
  BY <1>1 DEF Listed
<1>4. ContextType' /\ ContextInv'
  BY <1>1 DEF ImagesInv, ContextType, ContextInv
<1>5. left' \in 0 .. Len(generated)
  BY <1>1
<1>6. removed \cap local = {}
  BY DEF RemovalInv
<1>7. CASE i \in local /\ Descendants(i) = {} /\ Delete(i) /\ removed' = removed \cup {i} /\ mishap' = mishap
  <2>1. LineageInv' /\ ListInv'
    BY <1>1, <1>7, DeleteShrinks DEF ImagesInv
  <2>2. /\ local' = local \ ({i} \cup Prunable(i)) /\ ancestors' = ancestors /\ built' = built
        /\ tagged' = tagged \ {i} /\ tagged' \subseteq local' /\ temp' \in local' \cup {NoImage}
    BY <1>7, DeleteKeeps DEF ImagesInv
  <2>3. ImageType'
    BY <1>7, <2>2 DEF ImagesInv, ImageType
  <2>4. removed' \cap local' = {}
    BY <1>6, <1>7, <2>2
  <2>5. ASSUME ~mishap, opts.cleanup, NEW d \in local' \cap Images, Listed(d)'
        PROVE  \E m \in 1 .. left' : generated'[m] = d
    <3>1. d \in local /\ d # i /\ Listed(d)
      BY <1>3, <2>2, <2>5
    <3>2. PICK m \in 1 .. left : generated[m] = d
      BY <1>1, <2>5, <3>1 DEF RemovalInv
    <3>3. m # left
      BY <1>2, <3>1, <3>2
    <3>4. m \in 1 .. left'
      BY <1>1, <3>2, <3>3
    <3> QED
      BY <1>1, <3>2, <3>4
  <2>6. RemovalInv'
    BY <1>1, <1>5, <1>7, <2>4, <2>5 DEF RemovalInv
  <2> QED
    BY <1>4, <2>1, <2>3, <2>6 DEF ImagesInv
<1>8. CASE mishap' = TRUE /\ UNCHANGED <<docker, removed>>
  <2>1. Quiet
    BY <1>1, <1>8 DEF Quiet, docker
  <2>2. ImageType' /\ LineageInv' /\ ListInv'
    BY <1>8, <2>1, QuietImages DEF ImagesInv
  <2>3. RemovalInv'
    BY <1>1, <1>5, <1>6, <1>8, <2>1 DEF RemovalInv, Quiet
  <2> QED
    BY <1>4, <2>2, <2>3 DEF ImagesInv
<1>9. CASE ~(i \in local \ removed /\ Descendants(i) = {}) /\ UNCHANGED <<docker, removed, mishap>>
  <2>1. Quiet
    BY <1>1, <1>9 DEF Quiet, docker
  <2>2. ImageType' /\ LineageInv' /\ ListInv'
    BY <1>9, <2>1, QuietImages DEF ImagesInv
  <2>3. ASSUME ~mishap, opts.cleanup, NEW d \in local \cap Images, Listed(d)
        PROVE  \E m \in 1 .. left' : generated[m] = d
    <3>1. PICK m \in 1 .. left : generated[m] = d
      BY <1>1, <2>3 DEF RemovalInv
    <3>2. CASE m # left
      <4>1. m \in 1 .. left'
        BY <1>1, <3>1, <3>2
      <4> QED
        BY <3>1, <4>1
    <3>3. CASE m = left
      <4>1. d = i /\ d \notin removed /\ Descendants(d) # {}
        BY <1>2, <1>6, <1>9, <2>3, <3>1, <3>3
      <4>2. PICK f \in Descendants(d) : Listed(f)
        BY <1>1, <2>3, <4>1, ServesListed DEF ImagesInv
      <4>3. f \in local /\ d \in ancestors[f] /\ f \in Images
        BY <4>2 DEF ImagesInv, Descendants, LineageInv, ImageType
      <4>4. PICK k \in 1 .. left : generated[k] = f
        BY <1>1, <2>3, <4>2, <4>3 DEF RemovalInv
      <4>5. k \in 1 .. Len(generated)
        BY <1>1, <4>4
      <4>6. PICK n \in 1 .. k - 1 : generated[n] = d
        BY <2>3, <4>3, <4>4, <4>5 DEF ImagesInv, ListInv
      <4>7. n \in 1 .. left'
        BY <1>1, <4>4, <4>6
      <4> QED
        BY <4>6, <4>7
    <3> QED
      BY <3>2, <3>3
  <2>4. RemovalInv'
    BY <1>1, <1>3, <1>5, <1>6, <1>9, <2>1, <2>3 DEF RemovalInv, Quiet
  <2> QED
    BY <1>4, <2>2, <2>4 DEF ImagesInv
<1> QED
  <2>1. \/ /\ i \in local /\ Descendants(i) = {} /\ Delete(i) /\ removed' = removed \cup {i}
           /\ mishap' = mishap
        \/ mishap' = TRUE /\ UNCHANGED <<docker, removed>>
        \/ ~(i \in local \ removed /\ Descendants(i) = {}) /\ UNCHANGED <<docker, removed, mishap>>
    BY <1>2 DEF RemoveImage
  <2> QED
    BY <1>7, <1>8, <1>9, <2>1

\* So does the rest of the end of the run keep what is known of the images.
LEMMA FinishKeepsImages ==
  ASSUME ImagesInv, TempInv, RemovalInv, ListType, FlagType, Finish
  PROVE  ImagesInv' /\ RemovalInv'
<1>0. mishap \in BOOLEAN /\ Len(generated) \in Nat
  BY LenProperties DEF FlagType, ListType
<1>1. CASE RemoveImage
  BY <1>0, <1>1, RemoveImageKeeps
<1>2. CASE ~RemoveImage
  <2>1. /\ Quiet /\ ctx' = ctx /\ mishap' = mishap /\ opts' = opts
        /\ phase' \notin {"open", "steps", "tasks", "task", "post"}
    BY <1>2 DEF Finish, Finalize, Leave, PushNext, Pushed, Except, PushFails, BeginFinally, RemoveSourceImage,
                RemoveFiles, Continue, Abort, Quiet, docker, images, plan, history
  <2>2. ImageType' /\ LineageInv' /\ ListInv'
    BY <1>0, <2>1, QuietImages DEF ImagesInv
  <2>3. ContextType' /\ ContextInv'
    BY <2>1 DEF ImagesInv, ContextType, ContextInv
  <2>4. \A d : Listed(d)' <=> Listed(d)
    BY <2>1 DEF Quiet, Listed
  <2>5. CASE phase' \notin {"images", "exited"}
    <3>1. phase \notin {"images", "exited"}
      BY <1>2, <2>5 DEF Finish, Finalize, Leave, PushNext, Pushed, Except, PushFails, BeginFinally,
                        RemoveSourceImage, RemoveFiles, Continue, Abort
    <3> QED
      BY <2>1, <2>2, <2>3, <2>5, <3>1 DEF ImagesInv, RemovalInv, Quiet
  <2>6. CASE phase' = "images"
    <3>1. /\ phase = "source" /\ left' = IF opts.cleanup THEN Len(generated) ELSE 0
      BY <1>2, <2>6 DEF Finish, Finalize, Leave, PushNext, Pushed, Except, PushFails, BeginFinally,
                        RemoveSourceImage, RemoveFiles, Continue, Abort
    <3>2. left' \in 0 .. Len(generated)
      BY <1>0, <3>1
    <3>3. opts.cleanup => \A d : Listed(d) => \E m \in 1 .. left' : generated[m] = d
      BY <3>1 DEF Listed
    <3>4. RemovalInv'
      BY <2>1, <2>4, <2>6, <3>1, <3>2, <3>3 DEF RemovalInv, Quiet
    <3> QED
      BY <2>2, <2>3, <3>4 DEF ImagesInv
  <2>7. CASE phase' = "exited"
    <3>1. aborted' \/ (phase = "images" /\ left = 0)
      BY <1>2, <2>7 DEF Finish, Finalize, Leave, PushNext, Pushed, Except, PushFails, BeginFinally,
                        RemoveSourceImage, RemoveFiles, Continue, Abort
    <3>2. CASE phase = "images" /\ left = 0
      <4>1. ~mishap /\ opts.cleanup => \A d \in local \cap Images : ~Listed(d)
        BY <3>2 DEF RemovalInv
      <4>2. RemovalInv'
        BY <2>1, <2>4, <2>7, <4>1 DEF RemovalInv, Quiet
      <4> QED
        BY <2>2, <2>3, <4>2 DEF ImagesInv
    <3>3. CASE aborted'
      BY <2>1, <2>2, <2>3, <2>7, <3>3 DEF ImagesInv, RemovalInv, Quiet
    <3> QED
      BY <3>1, <3>2, <3>3
  <2> QED
    BY <2>5, <2>6, <2>7
<1> QED
  BY <1>1, <1>2

\* What is known of a run: the place, the values and the images.
RunInv ==
  /\ PlaceInv /\ FlagType /\ ListType /\ HistoryType
  /\ ImagesInv /\ TempInv /\ RemovalInv

LEMMA RunInvInitially == Init => RunInv
<1> SUFFICES ASSUME Init PROVE RunInv
  OBVIOUS
<1> USE BuildRunAssumption, ImageFacts DEF Init
<1>1. PlaceInv /\ FlagType /\ HistoryType
  <2>1. PlaceInv
    BY DEF PlaceInv, Phases, StepPhases
  <2>2. FlagType
    BY DEF FlagType
  <2>3. HistoryType
    BY DEF HistoryType
  <2> QED
    BY <2>1, <2>2, <2>3
<1>2. ListType
  BY DEF ListType
<1>3. ImageType
  <2>1. ancestors \in [Elsewhere -> SUBSET AllImages] /\ DOMAIN ancestors = Elsewhere
    OBVIOUS
  <2> QED
    BY <2>1 DEF ImageType
<1>4. ContextType
  BY DEF ContextType, EmptyContext
<1>5. LineageInv
  BY DEF LineageInv
<1>6. ListInv
  BY DEF ListInv
<1>7. ContextInv
  BY DEF ContextInv
<1>8. TempInv
  BY DEF TempInv
<1>9. RemovalInv
  BY DEF RemovalInv
<1> QED
  BY <1>1, <1>2, <1>3, <1>4, <1>5, <1>6, <1>7, <1>8, <1>9 DEF RunInv, ImagesInv

LEMMA RunInvKept ==
  ASSUME RunInv, [Next]_vars
  PROVE  RunInv'
<1>1. PlaceInv' /\ FlagType' /\ ListType' /\ HistoryType'
  BY PlaceKept, FlagsKept, ListsKept, HistoryKept DEF RunInv
<1>2. TempInv'
  BY TempKept DEF RunInv, FlagType, PlaceInv
<1>3. generated \in Seq(AllImages) /\ mishap \in BOOLEAN /\ (phase = "post" => ctx.runner)
  BY DEF RunInv, ListType, FlagType, TempInv
<1>4. ImagesInv' /\ RemovalInv'
  <2>1. CASE Task \/ Steps
    <3>1. ImagesInv'
      BY <1>3, <2>1, TaskKeepsImages, StepsKeepImages DEF RunInv
    <3>2. /\ phase \notin {"images", "exited"} /\ phase' \notin {"images", "exited"}
          /\ removed' = removed
      <4>1. CASE Task
        <5>1. removed' = removed
          BY <4>1 DEF Task, Remote, BuildMultiPlatform, Run, TagMultiPlatform, TagNothing, PypiPush,
              BuildLegacy, BuildImport, CommitForPostBuild, PostBuild, TagImage, TaskFails, images
        <5> QED
          BY <4>1, <5>1, TaskPhases, TaskLeads
      <4>2. CASE Steps
        BY <4>2 DEF Steps, Open, SkipStep, BeginStep, ConstructTask, ConstructBuild, ConstructFails,
                    Constructed, Constructible, Fail, TasksDone, CleanTask, EndStep, Leave, images
      <4> QED
        BY <2>1, <4>1, <4>2
    <3>3. RemovalInv'
      BY <3>2 DEF RunInv, RemovalInv
    <3> QED
      BY <3>1, <3>3
  <2>2. CASE Finish
    BY <2>2, FinishKeepsImages DEF RunInv
  <2>3. CASE Exited \/ UNCHANGED vars
    <3>1. /\ Quiet /\ UNCHANGED <<ctx, mishap, opts, phase, left, aborted>>
      BY <2>3 DEF Exited, vars, Quiet
    <3>2. ImageType' /\ LineageInv' /\ ListInv'
      BY <1>3, <3>1, QuietImages DEF RunInv, ImagesInv
    <3>3. /\ \A d : Listed(d)' <=> Listed(d)
          /\ \A d : Descendants(d)' = Descendants(d)
      BY <3>1 DEF Quiet, Listed, Descendants
    <3>4. ContextType' /\ ContextInv'
      BY <3>1, <3>3 DEF RunInv, ImagesInv, Quiet, ContextType, ContextInv
    <3>5. RemovalInv'
      BY <3>1, <3>3 DEF RunInv, Quiet, RemovalInv
    <3> QED
      BY <3>2, <3>4, <3>5 DEF ImagesInv
  <2> QED
    BY <2>1, <2>2, <2>3 DEF Next
<1> QED
  BY <1>1, <1>2, <1>4 DEF RunInv

\* RunInv holds of every run.
THEOREM RunAccounted == Spec => []RunInv
<1>1. RunInv /\ [Next]_vars => RunInv'
  BY RunInvKept
<1> QED
  BY <1>1, RunInvInitially, PTL DEF Spec

\* Every variable of the run keeps its type: the images a step hands on, the docker daemon's
\* and what the run has failed at among them.
THEOREM TypeCorrect == Spec => []TypeOK
<1>1. RunInv => TypeOK
  BY TypeParts DEF RunInv, PlaceInv, ImagesInv
<1> QED
  BY <1>1, RunAccounted, PTL

\* With --cleanup-images no image that the run made and listed outlives it, whatever the
\* steps were, unless docker refused something or an exception left the finally block.
THEOREM GeneratedImagesGone == Spec => []GeneratedImagesRemoved
<1>1. RunInv => GeneratedImagesRemoved
  <2> SUFFICES ASSUME RunInv, phase = "exited", opts.cleanup, ~aborted, ~mishap,
                      NEW n \in DOMAIN generated, generated[n] \in Images, generated[n] \in local
               PROVE  FALSE
    BY DEF GeneratedImagesRemoved
  <2>1. n \in 1 .. Len(generated)
    BY DEF RunInv, ListType
  <2>2. Listed(generated[n])
    BY <2>1 DEF Listed
  <2> QED
    BY <2>2 DEF RunInv, RemovalInv
<1> QED
  BY <1>1, RunAccounted, PTL
=============================================================================
