---------------------------- MODULE CacheArchive ----------------------------
(***************************************************************************)
(* One local cache archive shared by the build processes of a host:        *)
(* DockerRunner.restore_caches and save_caches (docker/runner.py) over the *)
(* file locks of utils.py.  Every build restores the archive into its      *)
(* container, works, and saves it again.                                   *)
(*                                                                         *)
(* The file is opened before it is locked, and opening it for writing      *)
(* empties it; the lock belongs to the opened file, which a cleaned cache  *)
(* directory no longer names.  An archive is a sequence of chunks, each    *)
(* marked with the build it comes from.                                    *)
(***************************************************************************)
EXTENDS Integers, Sequences

CONSTANTS
  Builds,
  Seed,         \* marks the archive left by an earlier build
  Hole,         \* the zeros of a sparse file
  ArchiveSize,  \* chunks of a complete archive
  Tries,        \* CACHE_NUM_RETRIES
  MaxMishaps,   \* bound on timeouts and killed processes
  MaxCleans     \* bound on cleanings of the cache directory

ASSUME CacheAssumption ==
  /\ Seed \notin Builds
  /\ ArchiveSize \in Nat \ {0}
  /\ Tries \in Nat \ {0}
  /\ MaxMishaps \in Nat
  /\ MaxCleans \in Nat

Files == 1 .. MaxCleans + 1          \* inodes the archive's path ever names
Chunk == ((Builds \cup {Seed}) \X (1 .. ArchiveSize)) \cup {Hole}
ArchiveOf(b) == [k \in 1 .. ArchiveSize |-> <<b, k>>]
Complete(data) == \E b \in Builds \cup {Seed} : data = ArchiveOf(b)

Phases == {"start", "restore", "open", "waitRead", "reading", "work",
           "waitWrite", "writing", "closing", "verify", "done", "failed"}

VARIABLES
  path,     \* the file the archive's name refers to, 0 when it does not exist
  dir,      \* whether the cache directory exists
  fresh,    \* next inode
  data,     \* chunks of each file
  pc,       \* where each build is
  fd,       \* the file each build has open
  lock,     \* the lock each build holds on it: "none", "shared" or "exclusive"
  pos,      \* file position of each build
  next,     \* next chunk of the archive a saving build receives from docker
  tail,     \* whether its last chunk is still in the buffer of the file object
  tries,    \* attempts left
  got,      \* chunks the container of a restoring build received
  cleans,
  mishaps,
  spoilt    \* history: a save of the file was cut short, was tried again, or began between
            \* the unlock and the close of another; until one begins with no other under way

vars == <<path, dir, fresh, data, pc, fd, lock, pos, next, tail, tries, got,
          cleans, mishaps, spoilt>>
disk == <<path, dir, fresh>>
writer == <<next, tail>>
history == <<cleans, mishaps, spoilt>>

TypeOK ==
  /\ path \in {0} \cup Files
  /\ dir \in BOOLEAN
  /\ fresh \in 1 .. MaxCleans + 2
  /\ data \in [Files -> Seq(Chunk)]
  /\ pc \in [Builds -> Phases]
  /\ fd \in [Builds -> {0} \cup Files]
  /\ lock \in [Builds -> {"none", "shared", "exclusive"}]
  /\ pos \in [Builds -> Nat]
  /\ next \in [Builds -> 1 .. ArchiveSize + 1]
  /\ tail \in [Builds -> BOOLEAN]
  /\ tries \in [Builds -> 0 .. Tries]
  /\ got \in [Builds -> Seq(Chunk)]
  /\ cleans \in 0 .. MaxCleans
  /\ mishaps \in 0 .. MaxMishaps
  /\ spoilt \in [Files -> BOOLEAN]

Init ==
  /\ \/ path = 0 /\ fresh = 1 /\ data = [f \in Files |-> <<>>]
     \/ /\ path = 1 /\ fresh = 2
        /\ data = [f \in Files |-> IF f = 1 THEN ArchiveOf(Seed) ELSE <<>>]
  /\ dir = TRUE
  /\ pc = [b \in Builds |-> "start"]
  /\ fd = [b \in Builds |-> 0]
  /\ lock = [b \in Builds |-> "none"]
  /\ pos = [b \in Builds |-> 0]
  /\ next = [b \in Builds |-> 1]
  /\ tail = [b \in Builds |-> FALSE]
  /\ tries = [b \in Builds |-> Tries]
  /\ got = [b \in Builds |-> <<>>]
  /\ cleans = 0 /\ mishaps = 0 /\ spoilt = [f \in Files |-> FALSE]

Goto(b, phase) == pc' = [pc EXCEPT ![b] = phase]

\* What a write at position p leaves of a file.
WriteAt(d, p, chunk) ==
  [k \in 1 .. (IF Len(d) > p THEN Len(d) ELSE p + 1) |->
     IF k = p + 1 THEN chunk ELSE IF k <= Len(d) THEN d[k] ELSE Hole]

Saving == {"waitWrite", "writing", "closing"}
WritesTo(f) == \E b \in Builds : fd[b] = f /\ pc[b] \in Saving

Spoil(f) == spoilt' = [spoilt EXCEPT ![f] = TRUE]

-----------------------------------------------------------------------------
(* File locks *)

\* flock on the opened file: shared locks exclude exclusive ones.
Lockable(b, mode) ==
  \A other \in Builds \ {b} :
    fd[other] = fd[b] =>
      IF mode = "exclusive" THEN lock[other] = "none" ELSE lock[other] # "exclusive"

Acquire(b, mode) ==
  /\ Lockable(b, mode)
  /\ lock' = [lock EXCEPT ![b] = mode]

\* Closing the file, with or without a lock on it.
Release(b) ==
  /\ lock' = [lock EXCEPT ![b] = "none"]
  /\ fd' = [fd EXCEPT ![b] = 0]

-----------------------------------------------------------------------------
(* Restoring *)

\* get_cache_archive_file creates the directory of the archive.
FindCache(b) ==
  /\ pc[b] = "start"
  /\ dir' = TRUE
  /\ Goto(b, "restore")
  /\ UNCHANGED <<path, fresh, data, fd, lock, pos, writer, tries, got, history>>

\* _get_cache_file_from_prefix: without a file there is nothing to restore.
Lookup(b) ==
  /\ pc[b] = "restore"
  /\ Goto(b, IF path # 0 THEN "open" ELSE "work")
  /\ UNCHANGED <<disk, data, fd, lock, pos, writer, tries, got, history>>

\* open(..., "rb"): a file removed since the lookup fails the step.
OpenRead(b) ==
  /\ pc[b] = "open"
  /\ fd' = [fd EXCEPT ![b] = path]
  /\ pos' = [pos EXCEPT ![b] = 0]
  /\ Goto(b, IF path # 0 THEN "waitRead" ELSE "failed")
  /\ UNCHANGED <<disk, data, lock, writer, tries, got, history>>

LockShared(b) ==
  /\ pc[b] = "waitRead"
  /\ Acquire(b, "shared")
  /\ tries' = [tries EXCEPT ![b] = Tries]
  /\ Goto(b, "reading")
  /\ UNCHANGED <<disk, data, fd, pos, writer, got, history>>

\* put_archive streams the file into the container.
ReadChunk(b) ==
  /\ pc[b] = "reading"
  /\ pos[b] < Len(data[fd[b]])
  /\ got' = [got EXCEPT ![b] = Append(@, data[fd[b]][pos[b] + 1])]
  /\ pos' = [pos EXCEPT ![b] = @ + 1]
  /\ UNCHANGED <<disk, data, pc, fd, lock, writer, tries, history>>

\* Mutant of EndRead: the finally clause does not release the lock.
EndReadLocked(b) ==
  /\ pc[b] = "reading"
  /\ pos[b] >= Len(data[fd[b]])
  /\ Goto(b, "work")
  /\ UNCHANGED <<disk, data, fd, lock, pos, writer, tries, got, history>>

\* At the end of the file the lock is released and the step goes on.
EndRead(b) ==
  /\ pc[b] = "reading"
  /\ pos[b] >= Len(data[fd[b]])
  /\ Release(b)
  /\ Goto(b, "work")
  /\ UNCHANGED <<disk, data, pos, writer, tries, got, history>>

\* The upload times out: the next try sends what the file object has left.  The
\* last timeout is raised through the finally clause and fails the step.
PutTimeout(b) ==
  /\ pc[b] = "reading" /\ mishaps < MaxMishaps
  /\ mishaps' = mishaps + 1
  /\ tries' = [tries EXCEPT ![b] = @ - 1]
  /\ got' = [got EXCEPT ![b] = <<>>]
  /\ IF tries[b] > 1
       THEN UNCHANGED <<pc, fd, lock>>
       ELSE Release(b) /\ Goto(b, "failed")
  /\ UNCHANGED <<disk, data, pos, writer, cleans, spoilt>>

\* The directory in the container cannot be made, or the upload fails: an APIError is
\* logged and the step goes on, any other exception fails it.  The lock is released.
RestoreError(b) ==
  /\ pc[b] \in {"open", "reading"}
  /\ Release(b)
  /\ \/ Goto(b, "work")
     \/ Goto(b, "failed")
  /\ UNCHANGED <<disk, data, pos, writer, tries, got, history>>

-----------------------------------------------------------------------------
(* Saving *)

\* The commands failed, or the history log could not be locked: no save.
SkipSave(b) ==
  /\ pc[b] = "work"
  /\ Goto(b, "done")
  /\ UNCHANGED <<disk, data, fd, lock, pos, writer, tries, got, history>>

\* Mutant of OpenWrite: mode "ab", as for the history log.
OpenAppend(b) ==
  /\ pc[b] = "work" /\ dir
  /\ LET f == IF path # 0 THEN path ELSE fresh
     IN  /\ path' = f
         /\ fresh' = IF path # 0 THEN fresh ELSE fresh + 1
         /\ fd' = [fd EXCEPT ![b] = f]
         /\ pos' = [pos EXCEPT ![b] = Len(data[f])]
         /\ spoilt' = [spoilt EXCEPT ![f] = @ /\ WritesTo(f)]
  /\ Goto(b, "waitWrite")
  /\ UNCHANGED <<dir, data, lock, writer, tries, got, cleans, mishaps>>

\* open(..., "wb") empties or creates the file before the lock is asked for.
OpenWrite(b) ==
  /\ pc[b] = "work" /\ dir
  /\ LET f == IF path # 0 THEN path ELSE fresh
     IN  /\ path' = f
         /\ fresh' = IF path # 0 THEN fresh ELSE fresh + 1
         /\ data' = [data EXCEPT ![f] = <<>>]
         /\ fd' = [fd EXCEPT ![b] = f]
         /\ spoilt' = [spoilt EXCEPT ![f] = @ /\ WritesTo(f)]
  /\ pos' = [pos EXCEPT ![b] = 0]
  /\ Goto(b, "waitWrite")
  /\ UNCHANGED <<dir, lock, writer, tries, got, cleans, mishaps>>

\* The directory was cleaned: the error of open is reported and ignored.
OpenWriteFails(b) ==
  /\ pc[b] = "work" /\ ~dir
  /\ Goto(b, "done")
  /\ UNCHANGED <<disk, data, fd, lock, pos, writer, tries, got, history>>

\* Mutant of LockExclusive: a save takes the lock of a restore.
LockExclusiveAsShared(b) ==
  /\ pc[b] = "waitWrite"
  /\ Acquire(b, "shared")
  /\ tries' = [tries EXCEPT ![b] = Tries]
  /\ next' = [next EXCEPT ![b] = 1]
  /\ Goto(b, "writing")
  /\ UNCHANGED <<disk, data, fd, pos, tail, got, history>>

LockExclusive(b) ==
  /\ pc[b] = "waitWrite"
  /\ Acquire(b, "exclusive")
  /\ tries' = [tries EXCEPT ![b] = Tries]
  /\ next' = [next EXCEPT ![b] = 1]
  /\ IF \E other \in Builds : pc[other] = "closing" /\ fd[other] = fd[b] /\ tail[other]
       THEN Spoil(fd[b]) ELSE UNCHANGED spoilt
  /\ Goto(b, "writing")
  /\ UNCHANGED <<disk, data, fd, pos, tail, got, cleans, mishaps>>

\* One chunk of get_archive; the last one may stay in the buffer.
WriteChunk(b) ==
  /\ pc[b] = "writing" /\ next[b] <= ArchiveSize
  /\ next' = [next EXCEPT ![b] = @ + 1]
  /\ \/ /\ data' = [data EXCEPT ![fd[b]] = WriteAt(@, pos[b], <<b, next[b]>>)]
        /\ pos' = [pos EXCEPT ![b] = @ + 1]
        /\ UNCHANGED tail
     \/ /\ next[b] = ArchiveSize
        /\ tail' = [tail EXCEPT ![b] = TRUE]
        /\ UNCHANGED <<data, pos>>
  /\ UNCHANGED <<disk, pc, fd, lock, tries, got, history>>

\* Mutant of WriteTimeout: another try steps back by one chunk.
WriteTimeoutStepBack(b) ==
  /\ pc[b] = "writing" /\ next[b] <= ArchiveSize /\ mishaps < MaxMishaps
  /\ mishaps' = mishaps + 1
  /\ tries' = [tries EXCEPT ![b] = @ - 1]
  /\ IF tries[b] > 1
       THEN next' = [next EXCEPT ![b] = @ - 1] /\ UNCHANGED <<pc, lock>>
       ELSE /\ lock' = [lock EXCEPT ![b] = "none"]
            /\ Goto(b, "closing") /\ UNCHANGED next
  /\ Spoil(fd[b])
  /\ UNCHANGED <<disk, data, fd, pos, tail, got, cleans>>

\* Another try receives the archive from its beginning, and appends it.
WriteTimeout(b) ==
  /\ pc[b] = "writing" /\ next[b] <= ArchiveSize /\ mishaps < MaxMishaps
  /\ mishaps' = mishaps + 1
  /\ tries' = [tries EXCEPT ![b] = @ - 1]
  /\ IF tries[b] > 1
       THEN next' = [next EXCEPT ![b] = 1] /\ UNCHANGED <<pc, lock>>
       ELSE /\ lock' = [lock EXCEPT ![b] = "none"]
            /\ Goto(b, "closing") /\ UNCHANGED next
  /\ Spoil(fd[b])
  /\ UNCHANGED <<disk, data, fd, pos, tail, got, cleans>>

\* get_archive or its stream raises something else: what was received stays in the file,
\* which is unlocked and closed.  RunTask reports the error and ignores it.
SaveError(b) ==
  /\ pc[b] = "writing" /\ next[b] <= ArchiveSize
  /\ lock' = [lock EXCEPT ![b] = "none"]
  /\ Goto(b, "closing")
  /\ Spoil(fd[b])
  /\ UNCHANGED <<disk, data, fd, pos, writer, tries, got, cleans, mishaps>>

\* release_flock unlocks first ...
Unlock(b) ==
  /\ pc[b] = "writing" /\ next[b] > ArchiveSize
  /\ lock' = [lock EXCEPT ![b] = "none"]
  /\ Goto(b, "closing")
  /\ UNCHANGED <<disk, data, fd, pos, writer, tries, got, history>>

\* ... and closes then, which writes what the buffer still holds.
Close(b) ==
  /\ pc[b] = "closing"
  /\ data' = IF tail[b]
               THEN [data EXCEPT ![fd[b]] = WriteAt(@, pos[b], <<b, ArchiveSize>>)]
               ELSE data
  /\ tail' = [tail EXCEPT ![b] = FALSE]
  /\ fd' = [fd EXCEPT ![b] = 0]
  /\ Goto(b, "verify")
  /\ UNCHANGED <<disk, lock, pos, next, tries, got, history>>

\* assert tarfile.is_tarfile: whatever it finds, RunTask reports and ignores it.
Verify(b) ==
  /\ pc[b] = "verify"
  /\ Goto(b, "done")
  /\ UNCHANGED <<disk, data, fd, lock, pos, writer, tries, got, history>>

-----------------------------------------------------------------------------
(* Failures and the operator *)

\* 30 minutes without the lock: the file is closed; a restore fails its step, a
\* save is reported and ignored, and the file it opened stays emptied.
LockTimeout(b) ==
  /\ pc[b] \in {"waitRead", "waitWrite"} /\ mishaps < MaxMishaps
  /\ mishaps' = mishaps + 1
  /\ fd' = [fd EXCEPT ![b] = 0]
  /\ IF pc[b] = "waitRead"
       THEN Goto(b, "failed") /\ UNCHANGED spoilt
       ELSE Goto(b, "verify") /\ Spoil(fd[b])
  /\ UNCHANGED <<disk, data, lock, pos, writer, tries, got, cleans>>

\* The process is killed, or leaves through os._exit in its signal handler: the
\* kernel closes its file, the buffer is lost.
Kill(b) ==
  /\ pc[b] \notin {"done", "failed"} /\ mishaps < MaxMishaps
  /\ mishaps' = mishaps + 1
  /\ Release(b)
  /\ tail' = [tail EXCEPT ![b] = FALSE]
  /\ Goto(b, "failed")
  /\ IF pc[b] \in Saving THEN Spoil(fd[b]) ELSE UNCHANGED spoilt
  /\ UNCHANGED <<disk, data, pos, next, tries, got, cleans>>

\* buildrunner --clean-cache removes the directory under running builds.
CleanCache ==
  /\ dir /\ cleans < MaxCleans
  /\ cleans' = cleans + 1
  /\ path' = 0
  /\ dir' = FALSE
  /\ UNCHANGED <<fresh, data, pc, fd, lock, pos, writer, tries, got, mishaps, spoilt>>

-----------------------------------------------------------------------------
RestoreStep(b) ==
  FindCache(b) \/ Lookup(b) \/ OpenRead(b) \/ LockShared(b) \/ ReadChunk(b) \/ EndRead(b)

SaveStep(b) ==
  LockExclusive(b) \/ WriteChunk(b) \/ Unlock(b) \/ Close(b) \/ Verify(b)

Mishap(b) ==
  \/ PutTimeout(b) \/ WriteTimeout(b) \/ LockTimeout(b) \/ Kill(b)
  \/ RestoreError(b) \/ SaveError(b)

Next ==
  \/ \E b \in Builds : \/ RestoreStep(b) \/ SaveStep(b) \/ Mishap(b)
                       \/ SkipSave(b) \/ OpenWrite(b) \/ OpenWriteFails(b)
  \/ CleanCache

Spec == Init /\ [][Next]_vars

\* A process that holds or waits for a lock keeps running: docker calls under a
\* lock are cut off by timeout_decorator, and flock wakes its waiters.  Nothing
\* is assumed of the commands between restore and save.
FairSpec == Spec /\ \A b \in Builds : WF_vars(RestoreStep(b)) /\ WF_vars(SaveStep(b))

-----------------------------------------------------------------------------
(* Properties *)

\* Under a save's lock the file changes in three ways only: by the save itself, by a build
\* that opens it for another save and empties it, or by one that has unlocked it and
\* flushes its buffer.  No other save and, by ReaderLockGuardsData, no restore goes on
\* meanwhile, also when the cache was cleaned and the archive has another file by now.
WriterLockGuardsData ==
  [][\A b \in Builds :
       (pc[b] = "writing" /\ data'[fd[b]] # data[fd[b]]) =>
         \/ next'[b] = next[b] + 1
         \/ data'[fd[b]] = <<>>
         \/ \E w \in Builds : pc[w] = "closing" /\ tail[w] /\ fd[w] = fd[b]]_vars

\* When no build has the archive open for writing, it is complete: concurrent
\* saves, each of which empties the file under the others, still leave the whole
\* archive of the last one, and the next save repairs what earlier ones have left.  Exempt
\* is an archive since whose last such beginning a save was cut short, by a docker
\* error, a timeout or the end of its process, was tried again after a timeout, or began
\* before another had closed the file it had unlocked.
SettledArchiveComplete ==
  (path # 0 /\ ~WritesTo(path) /\ ~spoilt[path]) => Complete(data[path])

MaySave(w) == pc[w] \notin {"start", "restore", "open", "waitRead", "reading", "work"}

\* With at most one other build that saves, what a build restores is an unbroken piece of
\* one archive: although the save empties the file under its reader, may be killed, or has
\* unlocked and not closed it, it does not mix into what is read, and an upload that is
\* tried again sends only the rest of it (_put_cache_in_container).  Exempt is an archive to
\* which a save that was tried again appends its second copy.
RestoredFromOneSave ==
  \A b \in Builds :
    /\ \A w \in Builds \ {b} : tries[w] = Tries
    /\ \A v, w \in Builds \ {b} : MaySave(v) /\ MaySave(w) => v = w
    => \A i \in 1 .. Len(got[b]) - 1 : got[b][i + 1] = <<got[b][i][1], got[b][i][2] + 1>>

\* Under a reader's lock the file changes in two ways only: a build that opens
\* it for writing empties it, or one that has unlocked it flushes its buffer.
ReaderLockGuardsData ==
  [][\A b \in Builds :
       (lock[b] = "shared" /\ data'[fd[b]] # data[fd[b]]) =>
         \/ data'[fd[b]] = <<>>
         \/ \E w \in Builds : pc[w] = "closing" /\ tail[w] /\ fd[w] = fd[b]]_vars

\* A build that waits for the lock gets it or gives up.
LockWaitEnds ==
  \A b \in Builds : pc[b] \in {"waitRead", "waitWrite"}
                      ~> pc[b] \notin {"waitRead", "waitWrite"}

\* docker/runner.py:469: "Allow multiple people to read from the file at the same
\* time. If another instance adds an exclusive lock in the save method below, this
\* will block until the lock is released": while a build holds the shared lock,
\* no build that is about to save changes the archive.
SharedLockBlocksSaves ==
  [][\A b \in Builds :
       (lock[b] = "shared" /\ data'[fd[b]] # data[fd[b]]) =>
         \E w \in Builds : pc[w] = "closing" /\ tail[w] /\ fd[w] = fd[b]]_vars
=============================================================================
