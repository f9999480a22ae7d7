------------------------- MODULE CacheArchiveProofs -------------------------
(* Theorems about CacheArchive, for any number of builds, any archive size   *)
(* and any number of tries, timeouts, kills and cleanings.                   *)
EXTENDS CacheArchive, SequenceTheorems, TLAPS

\* A build holds a lock exactly while it reads or writes, and has a file open
\* from the moment it waits for the lock.
PhaseLocks ==
  \A b \in Builds :
    /\ lock[b] = "shared" <=> pc[b] = "reading"
    /\ lock[b] = "exclusive" <=> pc[b] = "writing"
    /\ pc[b] \in {"waitRead", "reading", "waitWrite", "writing", "closing"}
         => fd[b] \in Files

\* A save's lock excludes every other lock on the same file.
LockExclusion ==
  \A b, other \in Builds :
    b # other /\ fd[b] = fd[other] /\ lock[b] = "exclusive" => lock[other] = "none"

\* There is an inode left whenever a save has to create the archive.
InodesLeft ==
  fresh <= (IF path = 0 THEN cleans + 1 ELSE cleans + 2)

\* A build that reads or writes has a try left.
TriesLeft ==
  /\ tries \in [Builds -> 0 .. Tries]
  /\ \A b \in Builds : pc[b] \in {"reading", "writing"} => tries[b] > 0

LockInv ==
  /\ lock \in [Builds -> {"none", "shared", "exclusive"}]
  /\ pc \in [Builds -> Phases]
  /\ fd \in [Builds -> {0} \cup Files]
  /\ path \in {0} \cup Files
  /\ fresh \in 1 .. MaxCleans + 2
  /\ cleans \in 0 .. MaxCleans
  /\ InodesLeft
  /\ TriesLeft
  /\ PhaseLocks
  /\ LockExclusion

-----------------------------------------------------------------------------
\* Initially no build has a file or a lock.
LEMMA InitLockInv == Init => LockInv
BY CacheAssumption DEF Init, LockInv, InodesLeft, TriesLeft, PhaseLocks, LockExclusion, Files,
                       Phases

\* No step takes a lock that another build's lock excludes.
LEMMA NextLockInv == LockInv /\ [Next]_vars => LockInv'
<1> SUFFICES ASSUME LockInv, [Next]_vars PROVE LockInv'
  OBVIOUS
<1> USE CacheAssumption DEF LockInv, InodesLeft, TriesLeft, PhaseLocks, LockExclusion, Files,
        Phases, Goto, Release, disk, writer, history
<1>1. ASSUME NEW b \in Builds, FindCache(b) PROVE LockInv'
  BY <1>1 DEF FindCache
<1>2. ASSUME NEW b \in Builds, Lookup(b) PROVE LockInv'
  BY <1>2 DEF Lookup
<1>3. ASSUME NEW b \in Builds, OpenRead(b) PROVE LockInv'
  BY <1>3 DEF OpenRead
<1>4. ASSUME NEW b \in Builds, LockShared(b) PROVE LockInv'
  BY <1>4 DEF LockShared, Acquire, Lockable
<1>5. ASSUME NEW b \in Builds, ReadChunk(b) PROVE LockInv'
  BY <1>5 DEF ReadChunk
<1>6. ASSUME NEW b \in Builds, EndRead(b) PROVE LockInv'
  BY <1>6 DEF EndRead
<1>7. ASSUME NEW b \in Builds, PutTimeout(b) PROVE LockInv'
  <2>1. TriesLeft'
    BY <1>7 DEF PutTimeout
  <2>2. CASE tries[b] > 1
    <3>1. UNCHANGED <<pc, fd, lock, path, fresh, cleans>>
      BY <1>7, <2>2 DEF PutTimeout
    <3>2. QED
      BY <2>1, <3>1
  <2>3. CASE ~(tries[b] > 1)
    <3>1. /\ lock' = [lock EXCEPT ![b] = "none"] /\ fd' = [fd EXCEPT ![b] = 0]
          /\ pc' = [pc EXCEPT ![b] = "failed"] /\ UNCHANGED <<path, fresh, cleans>>
      BY <1>7, <2>3 DEF PutTimeout
    <3>2. QED
      BY <2>1, <3>1
  <2>4. QED
    BY <2>2, <2>3
<1>8. ASSUME NEW b \in Builds, SkipSave(b) PROVE LockInv'
  BY <1>8 DEF SkipSave
<1>9. ASSUME NEW b \in Builds, OpenWrite(b) PROVE LockInv'
  <2>1. CASE path # 0
    <3>1. /\ path' = path /\ fresh' = fresh /\ pc' = [pc EXCEPT ![b] = "waitWrite"]
          /\ fd' = [fd EXCEPT ![b] = path] /\ UNCHANGED <<lock, tries, cleans>> /\ pc[b] = "work"
      BY <1>9, <2>1 DEF OpenWrite
    <3>2. QED
      BY <2>1, <3>1
  <2>2. CASE path = 0
    <3>1. /\ path' = fresh /\ fresh' = fresh + 1 /\ pc' = [pc EXCEPT ![b] = "waitWrite"]
          /\ fd' = [fd EXCEPT ![b] = fresh] /\ UNCHANGED <<lock, tries, cleans>> /\ pc[b] = "work"
      BY <1>9, <2>2 DEF OpenWrite
    <3>2. fresh \in Files /\ fresh + 1 \in 1 .. MaxCleans + 2 /\ fresh + 1 <= cleans + 2
      BY <2>2
    <3>3. QED
      BY <2>2, <3>1, <3>2
  <2>3. QED
    BY <2>1, <2>2
<1>10. ASSUME NEW b \in Builds, OpenWriteFails(b) PROVE LockInv'
  BY <1>10 DEF OpenWriteFails
<1>11. ASSUME NEW b \in Builds, LockExclusive(b) PROVE LockInv'
  BY <1>11 DEF LockExclusive, Acquire, Lockable
<1>12. ASSUME NEW b \in Builds, WriteChunk(b) PROVE LockInv'
  BY <1>12 DEF WriteChunk
<1>13. ASSUME NEW b \in Builds, WriteTimeout(b) PROVE LockInv'
  BY <1>13 DEF WriteTimeout
<1>14. ASSUME NEW b \in Builds, Unlock(b) PROVE LockInv'
  BY <1>14 DEF Unlock
<1>15. ASSUME NEW b \in Builds, Close(b) PROVE LockInv'
  BY <1>15 DEF Close
<1>16. ASSUME NEW b \in Builds, Verify(b) PROVE LockInv'
  BY <1>16 DEF Verify
<1>17. ASSUME NEW b \in Builds, LockTimeout(b) PROVE LockInv'
  BY <1>17 DEF LockTimeout
<1>18. ASSUME NEW b \in Builds, Kill(b) PROVE LockInv'
  BY <1>18 DEF Kill
<1>18a. ASSUME NEW b \in Builds, RestoreError(b) PROVE LockInv'
  BY <1>18a DEF RestoreError
<1>18b. ASSUME NEW b \in Builds, SaveError(b) PROVE LockInv'
  BY <1>18b DEF SaveError
<1>19. CASE CleanCache
  BY <1>19 DEF CleanCache
<1>20. CASE UNCHANGED vars
  BY <1>20 DEF vars
<1>21. QED
  BY <1>1, <1>2, <1>3, <1>4, <1>5, <1>6, <1>7, <1>8, <1>9, <1>10, <1>11,
     <1>12, <1>13, <1>14, <1>15, <1>16, <1>17, <1>18, <1>18a, <1>18b, <1>19, <1>20
     DEF Next, RestoreStep, SaveStep, Mishap

\* The lock discipline is an invariant.
LEMMA LockInvariance == Spec => []LockInv
BY InitLockInv, NextLockInv, PTL DEF Spec

-----------------------------------------------------------------------------
\* A write yields a file: chunks without a gap, the hole included.
LEMMA WriteAtType ==
  ASSUME NEW d \in Seq(Chunk), NEW p \in Nat, NEW c \in Chunk
  PROVE  WriteAt(d, p, c) \in Seq(Chunk)
<1> DEFINE n == IF Len(d) > p THEN Len(d) ELSE p + 1
<1>1. n \in Nat
  OBVIOUS
<1>2. \A k \in 1 .. n :
        (IF k = p + 1 THEN c ELSE IF k <= Len(d) THEN d[k] ELSE Hole) \in Chunk
  BY DEF Chunk
<1>3. WriteAt(d, p, c) \in [1 .. n -> Chunk]
  BY <1>2 DEF WriteAt
<1>4. QED
  BY <1>1, <1>3

\* Archives are files.
LEMMA ArchiveType == \A b \in Builds \cup {Seed} : ArchiveOf(b) \in Seq(Chunk)
<1> SUFFICES ASSUME NEW b \in Builds \cup {Seed} PROVE ArchiveOf(b) \in Seq(Chunk)
  OBVIOUS
<1>1. ArchiveOf(b) \in [1 .. ArchiveSize -> Chunk]
  BY DEF ArchiveOf, Chunk
<1>2. QED
  BY <1>1, CacheAssumption

\* The history of a file is kept by every step.
LEMMA SpoiltType == TypeOK /\ [Next]_vars => spoilt' \in [Files -> BOOLEAN]
<1> SUFFICES ASSUME TypeOK, [Next]_vars PROVE spoilt' \in [Files -> BOOLEAN]
  OBVIOUS
<1>1. spoilt \in [Files -> BOOLEAN]
  BY DEF TypeOK
<1>2. ASSUME NEW f, Spoil(f) PROVE spoilt' \in [Files -> BOOLEAN]
  BY <1>1, <1>2 DEF Spoil
<1>3. ASSUME NEW b \in Builds, OpenWrite(b) PROVE spoilt' \in [Files -> BOOLEAN]
  BY <1>1, <1>3 DEF OpenWrite
<1> QED
  BY <1>1, <1>2, <1>3
     DEF Next, RestoreStep, SaveStep, Mishap, FindCache, Lookup, OpenRead, LockShared, ReadChunk,
         EndRead, SkipSave, OpenWriteFails, LockExclusive, WriteChunk, Unlock, Close, Verify,
         PutTimeout, WriteTimeout, LockTimeout, Kill, RestoreError, SaveError, CleanCache, vars,
         history

\* Every step keeps the types: a build reads and writes chunks of a file it has
\* open, and never uses up more tries than it has.
LEMMA NextType == LockInv /\ TypeOK /\ [Next]_vars => TypeOK'
<1> SUFFICES ASSUME LockInv, TypeOK, [Next]_vars PROVE TypeOK'
  OBVIOUS
<1>0. /\ lock' \in [Builds -> {"none", "shared", "exclusive"}]
      /\ pc' \in [Builds -> Phases] /\ fd' \in [Builds -> {0} \cup Files]
      /\ path' \in {0} \cup Files /\ fresh' \in 1 .. MaxCleans + 2
      /\ cleans' \in 0 .. MaxCleans /\ tries' \in [Builds -> 0 .. Tries]
  BY NextLockInv DEF LockInv, TriesLeft
<1>spoilt. spoilt' \in [Files -> BOOLEAN]
  BY SpoiltType
<1> USE CacheAssumption, <1>0, <1>spoilt DEF TypeOK, disk, writer, history
<1>1. ASSUME NEW b \in Builds, FindCache(b) \/ Lookup(b) \/ SkipSave(b)
                                \/ OpenWriteFails(b) \/ Unlock(b) \/ Verify(b)
      PROVE  TypeOK'
  BY <1>1 DEF FindCache, Lookup, SkipSave, OpenWriteFails, Unlock, Verify
<1>2. ASSUME NEW b \in Builds, OpenRead(b) \/ LockShared(b) \/ EndRead(b) PROVE TypeOK'
  <2>1. CASE OpenRead(b)
    <3>1. pos' \in [Builds -> Nat]
      BY <2>1 DEF OpenRead
    <3>2. QED
      BY <2>1, <3>1 DEF OpenRead
  <2>2. CASE LockShared(b) \/ EndRead(b)
    BY <2>2 DEF LockShared, EndRead
  <2>3. QED
    BY <1>2, <2>1, <2>2
<1>3. ASSUME NEW b \in Builds, ReadChunk(b) PROVE TypeOK'
  <2>1. fd[b] \in Files
    BY <1>3 DEF ReadChunk, LockInv, PhaseLocks
  <2>2. data[fd[b]][pos[b] + 1] \in Chunk
    BY <1>3, <2>1 DEF ReadChunk
  <2>3. got' \in [Builds -> Seq(Chunk)]
    BY <1>3, <2>2 DEF ReadChunk
  <2>4. pos' \in [Builds -> Nat]
    BY <1>3 DEF ReadChunk
  <2>5. QED
    BY <1>3, <2>3, <2>4 DEF ReadChunk
<1>4. ASSUME NEW b \in Builds, PutTimeout(b) PROVE TypeOK'
  <2>1. mishaps' \in 0 .. MaxMishaps
    BY <1>4 DEF PutTimeout
  <2>2. got' \in [Builds -> Seq(Chunk)]
    BY <1>4 DEF PutTimeout
  <2>3. QED
    BY <1>4, <2>1, <2>2 DEF PutTimeout
<1>5. ASSUME NEW b \in Builds, OpenWrite(b) PROVE TypeOK'
  BY <1>5 DEF OpenWrite
<1>6. ASSUME NEW b \in Builds, LockExclusive(b) PROVE TypeOK'
  BY <1>6 DEF LockExclusive
<1>7. ASSUME NEW b \in Builds, WriteChunk(b) PROVE TypeOK'
  <2>1. fd[b] \in Files /\ <<b, next[b]>> \in Chunk
    BY <1>7 DEF WriteChunk, LockInv, PhaseLocks, Chunk
  <2>2. WriteAt(data[fd[b]], pos[b], <<b, next[b]>>) \in Seq(Chunk)
    BY <2>1, WriteAtType
  <2>3. next[b] + 1 \in 1 .. ArchiveSize + 1 /\ pos[b] + 1 \in Nat
    <3>1. next[b] \in 1 .. ArchiveSize + 1 /\ pos[b] \in Nat
      OBVIOUS
    <3>2. next[b] <= ArchiveSize
      BY <1>7 DEF WriteChunk
    <3>3. ArchiveSize \in Nat
      BY CacheAssumption
    <3>4. QED
      BY <3>1, <3>2, <3>3
  <2>4. next' \in [Builds -> 1 .. ArchiveSize + 1]
    BY <1>7, <2>3 DEF WriteChunk
  <2>5. pos' \in [Builds -> Nat]
    BY <1>7, <2>3 DEF WriteChunk
  <2>6. data' \in [Files -> Seq(Chunk)]
    BY <1>7, <2>2 DEF WriteChunk
  <2>7. tail' \in [Builds -> BOOLEAN]
    BY <1>7 DEF WriteChunk
  <2>8. QED
    BY <1>7, <2>4, <2>5, <2>6, <2>7 DEF WriteChunk
<1>8. ASSUME NEW b \in Builds, WriteTimeout(b) PROVE TypeOK'
  <2>1. mishaps' \in 0 .. MaxMishaps
    BY <1>8 DEF WriteTimeout
  <2>2. 1 \in 1 .. ArchiveSize + 1
    OBVIOUS
  <2>3. next' \in [Builds -> 1 .. ArchiveSize + 1]
    BY <1>8, <2>2 DEF WriteTimeout
  <2>4. QED
    BY <1>8, <2>1, <2>3 DEF WriteTimeout
<1>9. ASSUME NEW b \in Builds, Close(b) PROVE TypeOK'
  <2>1. fd[b] \in Files /\ <<b, ArchiveSize>> \in Chunk
    BY <1>9 DEF Close, LockInv, PhaseLocks, Chunk
  <2>2. WriteAt(data[fd[b]], pos[b], <<b, ArchiveSize>>) \in Seq(Chunk)
    BY <2>1, WriteAtType
  <2>3. data' \in [Files -> Seq(Chunk)] /\ tail' \in [Builds -> BOOLEAN]
    BY <1>9, <2>1, <2>2 DEF Close
  <2>4. QED
    BY <1>9, <2>3 DEF Close
<1>10. ASSUME NEW b \in Builds, LockTimeout(b) \/ Kill(b) PROVE TypeOK'
  <2>1. mishaps' \in 0 .. MaxMishaps
    BY <1>10 DEF LockTimeout, Kill, RestoreError, SaveError
  <2>2. tail' \in [Builds -> BOOLEAN]
    BY <1>10 DEF LockTimeout, Kill, RestoreError, SaveError
  <2>3. QED
    BY <1>10, <2>1, <2>2 DEF LockTimeout, Kill, RestoreError, SaveError
<1>11. CASE CleanCache
  BY <1>11 DEF CleanCache
<1>12. CASE UNCHANGED vars
  BY <1>12 DEF vars
<1>14. ASSUME NEW b \in Builds, RestoreError(b) \/ SaveError(b) PROVE TypeOK'
  <2>1. UNCHANGED <<data, dir, pos, next, tail, got, mishaps>>
    BY <1>14 DEF RestoreError, SaveError
  <2> QED
    BY <1>14, <1>spoilt, <2>1
<1>13. QED
  BY <1>1, <1>2, <1>3, <1>4, <1>5, <1>6, <1>7, <1>8, <1>9, <1>10, <1>11, <1>12, <1>14
     DEF Next, RestoreStep, SaveStep, Mishap
\* Initially every variable has its type.
LEMMA InitType == Init => TypeOK
<1> SUFFICES ASSUME Init PROVE TypeOK
  OBVIOUS
<1> USE CacheAssumption DEF Init, Files
<1>1. data \in [Files -> Seq(Chunk)]
  <2>1. ArchiveOf(Seed) \in Seq(Chunk) /\ <<>> \in Seq(Chunk)
    BY ArchiveType
  <2>2. QED
    BY <2>1
<1>2. /\ fresh \in 1 .. MaxCleans + 2 /\ path \in {0} \cup Files
      /\ cleans \in 0 .. MaxCleans /\ mishaps \in 0 .. MaxMishaps
  OBVIOUS
<1>3. /\ pos \in [Builds -> Nat] /\ next \in [Builds -> 1 .. ArchiveSize + 1]
      /\ tries \in [Builds -> 0 .. Tries] /\ got \in [Builds -> Seq(Chunk)]
  OBVIOUS
<1>4. QED
  BY <1>1, <1>2, <1>3 DEF TypeOK, Phases

\* Types and the lock discipline together are inductive.
LEMMA Invariance == Spec => [](LockInv /\ TypeOK)
BY InitLockInv, NextLockInv, InitType, NextType, PTL DEF Spec

\* Every variable keeps its type: positions, tries and files stay in range, and
\* the files only ever hold chunks and holes.
THEOREM TypeCorrect == Spec => []TypeOK
BY Invariance, PTL

\* A step that changes a file under a lock empties it on opening it, flushes the buffer of
\* a build that has unlocked it, or is a chunk of the save that holds the lock.
LEMMA LockedStep ==
  ASSUME LockInv, TypeOK, Next,
         NEW b \in Builds, pc[b] \in {"reading", "writing"}, data'[fd[b]] # data[fd[b]]
  PROVE  \/ data'[fd[b]] = <<>>
         \/ \E w \in Builds : pc[w] = "closing" /\ tail[w] /\ fd[w] = fd[b]
         \/ WriteChunk(b)
<1> USE DEF disk, writer, history
<1>1. fd[b] \in Files /\ DOMAIN data = Files
  BY DEF LockInv, PhaseLocks, TypeOK
<1>2. ASSUME NEW w \in Builds, OpenWrite(w)
      PROVE  data'[fd[b]] = <<>> \/ data'[fd[b]] = data[fd[b]]
  BY <1>1, <1>2 DEF OpenWrite
<1>3. ASSUME NEW w \in Builds, WriteChunk(w), w # b PROVE data'[fd[b]] = data[fd[b]]
  <2>1. pc[w] = "writing" /\ lock[w] = "exclusive" /\ lock[b] # "none"
    BY <1>3 DEF WriteChunk, LockInv, PhaseLocks
  <2>2. fd[w] # fd[b]
    BY <1>3, <2>1 DEF LockInv, LockExclusion
  <2>3. QED
    BY <1>1, <1>3, <2>2 DEF WriteChunk
<1>4. ASSUME NEW w \in Builds, Close(w)
      PROVE  \/ data'[fd[b]] = data[fd[b]]
             \/ pc[w] = "closing" /\ tail[w] /\ fd[w] = fd[b]
  BY <1>1, <1>4 DEF Close
<1>5. ASSUME NEW w \in Builds, RestoreStep(w) \/ Mishap(w)
      PROVE  UNCHANGED data
  BY <1>5 DEF RestoreStep, FindCache, Lookup, OpenRead, LockShared, ReadChunk, EndRead,
              Mishap, PutTimeout, WriteTimeout, LockTimeout, Kill, RestoreError, SaveError
<1>6. ASSUME NEW w \in Builds, \/ LockExclusive(w) \/ Unlock(w) \/ Verify(w)
                               \/ SkipSave(w) \/ OpenWriteFails(w)
      PROVE  UNCHANGED data
  BY <1>6 DEF LockExclusive, Unlock, Verify, SkipSave, OpenWriteFails
<1>7. CleanCache => UNCHANGED data
  BY DEF CleanCache
<1>8. QED
  BY <1>2, <1>3, <1>4, <1>5, <1>6, <1>7 DEF Next, SaveStep

\* The readers' lock guards the archive against every write except the truncation
\* on opening and the flush after unlocking.
THEOREM ReaderLockGuards == Spec => ReaderLockGuardsData
<1>1. ASSUME LockInv, TypeOK, [Next]_vars
      PROVE  [\A b \in Builds :
                (lock[b] = "shared" /\ data'[fd[b]] # data[fd[b]]) =>
                  \/ data'[fd[b]] = <<>>
                  \/ \E w \in Builds : pc[w] = "closing" /\ tail[w] /\ fd[w] = fd[b]]_vars
  <2>1. CASE Next
    <3> SUFFICES ASSUME NEW b \in Builds, lock[b] = "shared", data'[fd[b]] # data[fd[b]]
                 PROVE  \/ data'[fd[b]] = <<>>
                        \/ \E w \in Builds : pc[w] = "closing" /\ tail[w] /\ fd[w] = fd[b]
      OBVIOUS
    <3>1. pc[b] = "reading" /\ ~WriteChunk(b)
      BY <1>1 DEF LockInv, PhaseLocks, WriteChunk
    <3> QED
      BY <1>1, <2>1, <3>1, LockedStep
  <2>2. CASE UNCHANGED vars
    BY <2>2 DEF vars
  <2>3. QED
    BY <1>1, <2>1, <2>2
<1>2. QED
  BY <1>1, Invariance, PTL DEF ReaderLockGuardsData, Spec

\* A save that has the lock is alone in writing the file, chunk after chunk: what else
\* changes it is a build that empties it before it asks for the lock, or one that flushes
\* its buffer after it has given the lock up (acquire_flock_open_write_binary,
\* release_flock).  LockExclusion, and that a build writes only with the exclusive lock,
\* carry it.
THEOREM WriterLockGuards == Spec => WriterLockGuardsData
<1>1. ASSUME LockInv, TypeOK, [Next]_vars
      PROVE  [\A b \in Builds :
                (pc[b] = "writing" /\ data'[fd[b]] # data[fd[b]]) =>
                  \/ next'[b] = next[b] + 1
                  \/ data'[fd[b]] = <<>>
                  \/ \E w \in Builds : pc[w] = "closing" /\ tail[w] /\ fd[w] = fd[b]]_vars
  <2>1. CASE Next
    <3> SUFFICES ASSUME NEW b \in Builds, pc[b] = "writing", data'[fd[b]] # data[fd[b]]
                 PROVE  \/ next'[b] = next[b] + 1
                        \/ data'[fd[b]] = <<>>
                        \/ \E w \in Builds : pc[w] = "closing" /\ tail[w] /\ fd[w] = fd[b]
      OBVIOUS
    <3>1. WriteChunk(b) => next'[b] = next[b] + 1
      BY <1>1 DEF WriteChunk, TypeOK
    <3> QED
      BY <1>1, <2>1, <3>1, LockedStep
  <2>2. CASE UNCHANGED vars
    BY <2>2 DEF vars
  <2>3. QED
    BY <1>1, <2>1, <2>2
<1>2. QED
  BY <1>1, Invariance, PTL DEF WriterLockGuardsData, Spec

-----------------------------------------------------------------------------
(* What a save leaves in the archive *)

LEMMA WriteAtValue ==
  ASSUME NEW d \in Seq(Chunk), NEW p \in Nat, NEW c \in Chunk
  PROVE  /\ WriteAt(d, p, c) \in Seq(Chunk)
         /\ Len(WriteAt(d, p, c)) = IF Len(d) > p THEN Len(d) ELSE p + 1
         /\ p + 1 \in 1 .. Len(WriteAt(d, p, c)) /\ WriteAt(d, p, c)[p + 1] = c
         /\ \A k \in 1 .. Len(d) : k # p + 1 => WriteAt(d, p, c)[k] = d[k]
<1> DEFINE n == IF Len(d) > p THEN Len(d) ELSE p + 1
<1>1. n \in Nat /\ Len(d) \in Nat /\ p + 1 \in 1 .. n /\ \A k \in 1 .. Len(d) : k \in 1 .. n
  OBVIOUS
<1>2. WriteAt(d, p, c) \in Seq(Chunk) /\ DOMAIN WriteAt(d, p, c) = 1 .. n
  BY WriteAtType DEF WriteAt
<1>3. Len(WriteAt(d, p, c)) = n
  <2>1. Len(WriteAt(d, p, c)) \in Nat /\ 1 .. Len(WriteAt(d, p, c)) = 1 .. n
    BY <1>2, LenProperties
  <2> HIDE DEF n
  <2> QED
    BY <1>1, <2>1
<1>4. WriteAt(d, p, c)[p + 1] = c
  BY <1>1 DEF WriteAt
<1>5. \A k \in 1 .. Len(d) : k # p + 1 => WriteAt(d, p, c)[k] = d[k]
  BY <1>1 DEF WriteAt
<1> QED
  BY <1>1, <1>2, <1>3, <1>4, <1>5

\* The sequence r is d with the chunk c after its first p chunks.
IsWritten(r, d, p, c) ==
  /\ Len(r) = IF Len(d) > p THEN Len(d) ELSE p + 1
  /\ r[p + 1] = c
  /\ \A k \in 1 .. Len(d) : k # p + 1 => r[k] = d[k]

LEMMA WriteAtWrites ==
  ASSUME NEW d \in Seq(Chunk), NEW p \in Nat, NEW c \in Chunk
  PROVE  IsWritten(WriteAt(d, p, c), d, p, c)
BY WriteAtValue DEF IsWritten

\* A file of the length of an archive that has its chunks in their places is the archive.
LEMMA WholeArchive ==
  ASSUME NEW d \in Seq(Chunk), NEW b \in Builds, Len(d) = ArchiveSize,
         \A k \in 1 .. ArchiveSize : d[k] = <<b, k>>
  PROVE  Complete(d)
<1>1. ArchiveOf(b) \in Seq(Chunk) /\ DOMAIN ArchiveOf(b) = 1 .. ArchiveSize
  BY ArchiveType DEF ArchiveOf
<1>2. Len(ArchiveOf(b)) = ArchiveSize
  <2>1. Len(ArchiveOf(b)) \in Nat /\ 1 .. Len(ArchiveOf(b)) = 1 .. ArchiveSize
    BY <1>1, LenProperties
  <2> QED
    BY <2>1, CacheAssumption
<1>3. \A k \in 1 .. Len(d) : d[k] = ArchiveOf(b)[k]
  BY DEF ArchiveOf
<1>4. d = ArchiveOf(b)
  BY <1>1, <1>2, <1>3, SeqEqual
<1> QED
  BY <1>4 DEF Complete

Writes(b, f) == pc[b] = "writing" /\ fd[b] = f
Flushes(b, f) == pc[b] = "closing" /\ tail[b] /\ fd[b] = f
Awaited(f) == \E b \in Builds : pc[b] = "waitWrite" /\ fd[b] = f

\* The chunks that a build has written are in their places.
Prefix(b, f) == Len(data[f]) >= pos[b] /\ \A k \in 1 .. pos[b] : data[f][k] = <<b, k>>

\* The position of a build that saves is that of the chunk it waits for, or of the one that
\* it has in its buffer, as long as no save of its file was tried again or cut short.
CursorInv ==
  \A b \in Builds :
    /\ tail[b] => pc[b] \in {"writing", "closing"} /\ next[b] = ArchiveSize + 1
    /\ pc[b] = "waitWrite" => pos[b] = 0
    /\ pc[b] \in {"writing", "closing"} /\ ~spoilt[fd[b]] =>
         /\ pos[b] = IF tail[b] THEN ArchiveSize - 1 ELSE next[b] - 1
         /\ pc[b] = "closing" => next[b] = ArchiveSize + 1

\* Each file is complete, or is waited for by a build that is going to write all of it, or
\* holds what one build, alone at it, has written so far.
FileInv(f) ==
  /\ Len(data[f]) <= ArchiveSize
  /\ \A b \in Builds : Writes(b, f) \/ Flushes(b, f) => Awaited(f) \/ Prefix(b, f)
  /\ \A b, other \in Builds :
       Flushes(b, f) /\ b # other => ~Writes(other, f) /\ ~Flushes(other, f)
  /\ f < fresh => \/ \E b \in Builds : Writes(b, f) \/ Flushes(b, f)
                  \/ Awaited(f)
                  \/ Complete(data[f])
SaveInv == \A f \in Files : ~spoilt[f] => FileInv(f)

\* A build that writes is the only one that writes the file.
LEMMA OneWriter ==
  ASSUME LockInv, NEW b \in Builds, NEW other \in Builds, b # other,
         pc[b] = "writing", fd[b] = fd[other]
  PROVE  pc[other] # "writing" /\ pc[other] # "reading"
BY DEF LockInv, PhaseLocks, LockExclusion

LEMMA CursorKept ==
  ASSUME LockInv, TypeOK, CursorInv, [Next]_vars
  PROVE  CursorInv'
<1> USE CacheAssumption DEF disk, writer, history, Goto, Release
<1>0. /\ ArchiveSize \in Nat \ {0}
      /\ \A b \in Builds : next[b] \in 1 .. ArchiveSize + 1 /\ pos[b] \in Nat /\ tail[b] \in BOOLEAN
  BY DEF TypeOK
<1>types. /\ pc \in [Builds -> Phases] /\ pos \in [Builds -> Nat] /\ tail \in [Builds -> BOOLEAN]
       /\ next \in [Builds -> 1 .. ArchiveSize + 1] /\ fd \in [Builds -> {0} \cup Files]
       /\ spoilt \in [Files -> BOOLEAN]
  BY DEF TypeOK
<1>1. ASSUME NEW b \in Builds,
             \/ FindCache(b) \/ Lookup(b) \/ OpenRead(b) \/ LockShared(b) \/ ReadChunk(b)
             \/ EndRead(b) \/ SkipSave(b) \/ OpenWriteFails(b) \/ Verify(b) \/ RestoreError(b)
      PROVE  CursorInv'
  <2>1. /\ pc[b] \notin {"waitWrite", "writing", "closing"}
        /\ pc'[b] \notin {"waitWrite", "writing", "closing"}
        /\ \A w \in Builds \ {b} : pc'[w] = pc[w] /\ pos'[w] = pos[w] /\ fd'[w] = fd[w]
        /\ next' = next /\ tail' = tail /\ spoilt' = spoilt
    BY <1>types, <1>1 DEF Release, FindCache, Lookup, OpenRead, LockShared, ReadChunk, EndRead,
                          SkipSave,
                OpenWriteFails, Verify, RestoreError
  <2> QED
    BY <2>1 DEF CursorInv
<1>2. ASSUME NEW b \in Builds, OpenWrite(b) PROVE CursorInv'
  <2>1. /\ pc[b] = "work" /\ pc'[b] = "waitWrite" /\ pos'[b] = 0
        /\ \A w \in Builds \ {b} : pc'[w] = pc[w] /\ pos'[w] = pos[w] /\ fd'[w] = fd[w]
        /\ next' = next /\ tail' = tail
    BY <1>types, <1>2 DEF OpenWrite
  <2>2. ASSUME NEW w \in Builds, pc[w] \in {"writing", "closing"}
        PROVE  spoilt'[fd[w]] = spoilt[fd[w]]
    <3>1. fd[w] \in Files /\ WritesTo(fd[w])
      BY <2>2 DEF LockInv, PhaseLocks, WritesTo, Saving
    <3>2. PICK f : spoilt' = [spoilt EXCEPT ![f] = spoilt[f] /\ WritesTo(f)]
      BY <1>2 DEF OpenWrite
    <3>3. CASE f = fd[w]
      BY <1>types, <3>1, <3>2, <3>3
    <3>4. CASE f # fd[w]
      BY <1>types, <3>1, <3>2, <3>4
    <3> QED
      BY <3>3, <3>4
  <2> QED
    BY <2>1, <2>2 DEF CursorInv
<1>3. ASSUME NEW b \in Builds, LockExclusive(b) PROVE CursorInv'
  <2>1. /\ pc[b] = "waitWrite" /\ pc'[b] = "writing" /\ next'[b] = 1
        /\ \A w \in Builds \ {b} : pc'[w] = pc[w] /\ next'[w] = next[w]
        /\ pos' = pos /\ tail' = tail /\ fd' = fd
    BY <1>types, <1>3 DEF LockExclusive
  <2>2. \A w \in Builds : spoilt[fd[w]] /\ fd[w] \in Files => spoilt'[fd[w]]
    BY <1>types, <1>3 DEF LockExclusive, Spoil
  <2>3. \A w \in Builds : pc[w] \in {"writing", "closing"} => fd[w] \in Files
    BY DEF LockInv, PhaseLocks
  <2> QED
    BY <1>0, <2>1, <2>2, <2>3 DEF CursorInv
<1>4. ASSUME NEW b \in Builds, WriteChunk(b) PROVE CursorInv'
  <2>1. /\ pc[b] = "writing" /\ pc' = pc /\ spoilt' = spoilt /\ fd' = fd
        /\ next[b] <= ArchiveSize /\ next'[b] = next[b] + 1
        /\ \/ pos'[b] = pos[b] + 1 /\ tail'[b] = tail[b]
           \/ pos'[b] = pos[b] /\ tail'[b] = TRUE /\ next[b] = ArchiveSize
        /\ \A w \in Builds \ {b} : pos'[w] = pos[w] /\ next'[w] = next[w] /\ tail'[w] = tail[w]
    BY <1>types, <1>4 DEF WriteChunk
  <2>2. ~tail[b]
    BY <1>0, <2>1 DEF CursorInv
  <2> QED
    BY <1>0, <2>1, <2>2 DEF CursorInv
<1>5. ASSUME NEW b \in Builds, Unlock(b) PROVE CursorInv'
  <2>1. /\ pc[b] = "writing" /\ pc'[b] = "closing" /\ next[b] > ArchiveSize
        /\ spoilt' = spoilt /\ fd' = fd
        /\ \A w \in Builds \ {b} : pc'[w] = pc[w]
        /\ pos' = pos /\ tail' = tail /\ next' = next
    BY <1>types, <1>5 DEF Unlock
  <2>2. next[b] = ArchiveSize + 1
    BY <1>0, <2>1
  <2> QED
    BY <2>1, <2>2 DEF CursorInv
<1>6. ASSUME NEW b \in Builds, Close(b) PROVE CursorInv'
  <2>1. /\ pc'[b] = "verify" /\ spoilt' = spoilt /\ tail'[b] = FALSE
        /\ \A w \in Builds \ {b} : pc'[w] = pc[w] /\ tail'[w] = tail[w] /\ fd'[w] = fd[w]
        /\ pos' = pos /\ next' = next
    BY <1>types, <1>6 DEF Close
  <2> QED
    BY <2>1 DEF CursorInv
<1>7. ASSUME NEW b \in Builds,
             PutTimeout(b) \/ WriteTimeout(b) \/ LockTimeout(b) \/ Kill(b) \/ SaveError(b)
      PROVE  CursorInv'
  <2>1. pos' = pos
    BY <1>7 DEF PutTimeout, WriteTimeout, LockTimeout, Kill, SaveError
  <2>2. \A w \in Builds \ {b} : /\ pc'[w] = pc[w] /\ next'[w] = next[w] /\ tail'[w] = tail[w]
                                /\ fd'[w] = fd[w]
    BY <1>types, <1>7 DEF PutTimeout, WriteTimeout, LockTimeout, Kill, SaveError
  <2>3. pc'[b] # "waitWrite"
    BY <1>types, <1>7 DEF PutTimeout, WriteTimeout, LockTimeout, Kill, SaveError
  <2>4. ~tail'[b]
    <3>1. CASE PutTimeout(b)
      BY <1>0, <3>1 DEF PutTimeout, CursorInv
    <3>2. CASE WriteTimeout(b) \/ SaveError(b)
      <4>1. next[b] <= ArchiveSize /\ tail' = tail
        BY <3>2 DEF WriteTimeout, SaveError
      <4> QED
        BY <1>0, <4>1 DEF CursorInv
    <3>3. CASE LockTimeout(b)
      BY <1>0, <3>3 DEF LockTimeout, CursorInv
    <3>4. CASE Kill(b)
      BY <1>types, <3>4 DEF Kill
    <3> QED
      BY <1>7, <3>1, <3>2, <3>3, <3>4
  <2>5. \A f \in Files : spoilt[f] => spoilt'[f]
    BY <1>types, <1>7 DEF PutTimeout, WriteTimeout, LockTimeout, Kill, SaveError, Spoil
  <2>6. pc'[b] \in {"writing", "closing"} => spoilt'[fd'[b]]
    <3>1. CASE PutTimeout(b) \/ LockTimeout(b) \/ Kill(b)
      BY <1>types, <3>1 DEF PutTimeout, LockTimeout, Kill
    <3>2. CASE WriteTimeout(b) \/ SaveError(b)
      <4>1. fd[b] \in Files /\ fd' = fd /\ Spoil(fd[b])
        BY <3>2 DEF WriteTimeout, SaveError, LockInv, PhaseLocks
      <4> QED
        BY <1>types, <4>1 DEF Spoil
    <3> QED
      BY <1>7, <3>1, <3>2
  <2>7. \A w \in Builds : pc[w] \in {"writing", "closing"} => fd[w] \in Files
    BY DEF LockInv, PhaseLocks
  <2> QED
    BY <2>1, <2>2, <2>3, <2>4, <2>5, <2>6, <2>7 DEF CursorInv
<1>8. CASE CleanCache
  BY <1>8 DEF CleanCache, CursorInv
<1>9. CASE UNCHANGED vars
  BY <1>9 DEF vars, CursorInv
<1> QED
  BY <1>1, <1>2, <1>3, <1>4, <1>5, <1>6, <1>7, <1>8, <1>9
     DEF Next, RestoreStep, SaveStep, Mishap

\* A build that is not saving, before or after its step, disturbs no file.
LEMMA Bystander ==
  ASSUME SaveInv, NEW b \in Builds,
         pc[b] \notin {"waitWrite", "writing", "closing"},
         pc'[b] \notin {"waitWrite", "writing", "closing"},
         \A w \in Builds \ {b} : pc'[w] = pc[w] /\ fd'[w] = fd[w] /\ pos'[w] = pos[w],
         UNCHANGED <<data, fresh, tail, spoilt>>
  PROVE  SaveInv'
<1>1. \A w \in Builds, f \in Files :
        /\ Writes(w, f)' = Writes(w, f) /\ Flushes(w, f)' = Flushes(w, f)
        /\ (Writes(w, f) \/ Flushes(w, f)) => Prefix(w, f)' = Prefix(w, f)
  BY DEF Writes, Flushes, Prefix
<1>2. \A f \in Files : Awaited(f)' = Awaited(f)
  BY DEF Awaited
<1>3. ASSUME NEW f \in Files, FileInv(f) PROVE FileInv(f)'
  BY <1>1, <1>2, <1>3 DEF FileInv
<1> QED
  BY <1>3 DEF SaveInv

\* A build that saves disturbs no file but the one it has open.
LEMMA Elsewhere ==
  ASSUME LockInv, SaveInv, NEW b \in Builds,
         \A w \in Builds \ {b} : /\ pc'[w] = pc[w] /\ fd'[w] = fd[w] /\ pos'[w] = pos[w]
                                  /\ tail'[w] = tail[w],
         fd'[b] = fd[b] \/ pc'[b] \notin Saving,
         fresh' = fresh,
         NEW f \in Files, f # fd[b], data'[f] = data[f], spoilt'[f] = spoilt[f]
  PROVE  ~spoilt'[f] => FileInv(f)'
<1>1. \A w \in Builds :
        /\ Writes(w, f)' = Writes(w, f) /\ Flushes(w, f)' = Flushes(w, f)
        /\ (Writes(w, f) \/ Flushes(w, f)) => Prefix(w, f)' = Prefix(w, f)
  BY DEF Writes, Flushes, Prefix, Saving
<1>2. Awaited(f)' = Awaited(f)
  BY DEF Awaited, Saving
<1>3. FileInv(f) => FileInv(f)'
  BY <1>1, <1>2 DEF FileInv
<1> QED
  BY <1>3 DEF SaveInv

LEMMA SaveKept ==
  ASSUME LockInv, TypeOK, CursorInv, SaveInv, [Next]_vars
  PROVE  SaveInv'
<1> USE CacheAssumption DEF disk, writer, history, Goto
<1>0. /\ ArchiveSize \in Nat \ {0} /\ data \in [Files -> Seq(Chunk)]
      /\ \A f \in Files : Len(data[f]) \in Nat
      /\ \A b \in Builds : next[b] \in 1 .. ArchiveSize + 1 /\ pos[b] \in Nat /\ tail[b] \in BOOLEAN
  BY DEF TypeOK
<1>types. /\ pc \in [Builds -> Phases] /\ pos \in [Builds -> Nat] /\ tail \in [Builds -> BOOLEAN]
          /\ next \in [Builds -> 1 .. ArchiveSize + 1] /\ fd \in [Builds -> {0} \cup Files]
          /\ spoilt \in [Files -> BOOLEAN]
  BY DEF TypeOK
<1>1. ASSUME NEW b \in Builds,
             \/ FindCache(b) \/ Lookup(b) \/ OpenRead(b) \/ LockShared(b) \/ ReadChunk(b)
             \/ EndRead(b) \/ SkipSave(b) \/ OpenWriteFails(b) \/ Verify(b)
             \/ PutTimeout(b) \/ RestoreError(b)
             \/ ((LockTimeout(b) \/ Kill(b)) /\ pc[b] \notin Saving)
      PROVE  SaveInv'
  <2>1. /\ pc[b] \notin {"waitWrite", "writing", "closing"}
        /\ pc'[b] \notin {"waitWrite", "writing", "closing"}
        /\ \A w \in Builds \ {b} : pc'[w] = pc[w] /\ fd'[w] = fd[w] /\ pos'[w] = pos[w]
        /\ UNCHANGED <<data, fresh, tail, spoilt>>
    <3>1. CASE Kill(b) /\ pc[b] \notin Saving
      <4>1. ~tail[b]
        BY <1>0, <3>1 DEF CursorInv, Saving
      <4>2. tail' = tail
        BY <1>types, <3>1, <4>1 DEF Kill
      <4> QED
        BY <1>types, <3>1, <4>2 DEF Kill, Saving, Release
    <3> QED
      BY <1>types, <1>1, <3>1
         DEF FindCache, Lookup, OpenRead, LockShared, ReadChunk, EndRead, SkipSave,
             OpenWriteFails, Verify, Release, PutTimeout, RestoreError, LockTimeout, Saving
  <2> QED
    BY <2>1, Bystander
<1>2. ASSUME NEW b \in Builds, OpenWrite(b) PROVE SaveInv'
  <2>1. /\ pc[b] = "work" /\ pc'[b] = "waitWrite" /\ fd'[b] \in Files
        /\ \A w \in Builds \ {b} : pc'[w] = pc[w] /\ fd'[w] = fd[w] /\ pos'[w] = pos[w]
        /\ data' = [data EXCEPT ![fd'[b]] = <<>>]
        /\ fresh' = fresh \/ (fresh' = fresh + 1 /\ fd'[b] = fresh)
        /\ spoilt' = [spoilt EXCEPT ![fd'[b]] = spoilt[fd'[b]] /\ WritesTo(fd'[b])]
        /\ UNCHANGED tail
    <3>1. fd'[b] \in Files
      BY <1>2, <1>types, NextLockInv DEF LockInv, PhaseLocks, OpenWrite, Next
    <3> QED
      BY <1>types, <1>2, <3>1 DEF OpenWrite
  <2>2. \A w \in Builds, f \in Files :
          Writes(w, f)' = Writes(w, f) /\ Flushes(w, f)' = Flushes(w, f)
    BY <2>1 DEF Writes, Flushes
  <2>3. \A f \in Files : Awaited(f) => Awaited(f)'
    BY <2>1 DEF Awaited
  <2>4. ASSUME NEW f \in Files, ~spoilt'[f], f = fd'[b] PROVE FileInv(f)'
    <3>1. Awaited(f)' /\ data'[f] = <<>>
      BY <1>0, <2>1, <2>4 DEF Awaited
    <3>2. Len(<<>>) <= ArchiveSize
      OBVIOUS
    <3>3. FileInv(f) \/ ~WritesTo(f)
      BY <1>types, <2>1, <2>4 DEF SaveInv
    <3>4. ~WritesTo(f) => \A w \in Builds : ~Writes(w, f) /\ ~Flushes(w, f)
      BY DEF WritesTo, Saving, Writes, Flushes
    <3> QED
      BY <2>2, <3>1, <3>2, <3>3, <3>4 DEF FileInv
  <2>5. ASSUME NEW f \in Files, FileInv(f), f # fd'[b] PROVE FileInv(f)'
    <3>1. data'[f] = data[f]
      BY <1>0, <2>1, <2>5
    <3>2. f < fresh' => f < fresh
      BY <2>1, <2>5 DEF LockInv, Files
    <3>3. \A w \in Builds : (Writes(w, f) \/ Flushes(w, f)) => Prefix(w, f)' = Prefix(w, f)
      BY <2>1, <3>1 DEF Writes, Flushes, Prefix
    <3> QED
      BY <2>2, <2>3, <2>5, <3>1, <3>2, <3>3 DEF FileInv
  <2>6. \A f \in Files : f # fd'[b] => spoilt'[f] = spoilt[f]
    BY <1>types, <2>1
  <2> QED
    BY <2>1, <2>4, <2>5, <2>6 DEF SaveInv
<1>3. ASSUME NEW b \in Builds, LockExclusive(b) PROVE SaveInv'
  <2>1. /\ pc[b] = "waitWrite" /\ pc'[b] = "writing" /\ pos[b] = 0
        /\ \A w \in Builds \ {b} : pc'[w] = pc[w]
        /\ UNCHANGED <<data, fd, pos, fresh, tail>>
    BY <1>types, <1>3 DEF LockExclusive, CursorInv
  <2>2. \A w \in Builds \ {b} : ~Writes(w, fd[b])
    BY <1>3 DEF LockExclusive, Acquire, Lockable, LockInv, PhaseLocks, Writes
  <2>3. \A w \in Builds, f \in Files : Prefix(w, f)' = Prefix(w, f) /\ Flushes(w, f)' = Flushes(w, f)
    BY <2>1 DEF Prefix, Flushes
  <2>4. ASSUME NEW f \in Files, ~spoilt'[f], f = fd[b] PROVE FileInv(f)'
    <3>1. ~spoilt[f] /\ \A w \in Builds : ~Flushes(w, f)
      BY <1>types, <1>3, <2>4 DEF LockExclusive, Spoil, Flushes
    <3>2. FileInv(f)
      BY <3>1 DEF SaveInv
    <3>3. Writes(b, f)' /\ Prefix(b, f)
      BY <1>0, <2>1, <2>4 DEF Writes, Prefix
    <3>4. \A w \in Builds \ {b} : ~Writes(w, f)'
      BY <2>1, <2>2, <2>4 DEF Writes
    <3> QED
      BY <2>1, <2>3, <3>1, <3>2, <3>3, <3>4 DEF FileInv
  <2>5. ASSUME NEW f \in Files, f # fd[b] PROVE ~spoilt'[f] => FileInv(f)'
    <3>1. spoilt'[f] = spoilt[f]
      BY <1>types, <1>3, <2>5 DEF LockExclusive, Spoil
    <3> QED
      BY <2>1, <2>5, <3>1, Elsewhere
  <2> QED
    BY <2>4, <2>5 DEF SaveInv
<1>4. ASSUME NEW b \in Builds, WriteChunk(b), NEW f0 \in Files, f0 = fd[b], ~spoilt[f0]
      PROVE  FileInv(f0)'
  <2> USE <1>4
  <2>1. /\ pc[b] = "writing" /\ f0 \in Files /\ next[b] <= ArchiveSize
        /\ UNCHANGED <<pc, fd, fresh>>
        /\ \A w \in Builds \ {b} : pos'[w] = pos[w] /\ tail'[w] = tail[w]
    BY <1>types, <1>4 DEF WriteChunk, LockInv, PhaseLocks
  <2>2. ~tail[b] /\ pos[b] = next[b] - 1 /\ FileInv(f0) /\ next[b] \in 1 .. ArchiveSize
    BY <1>0, <1>4, <2>1 DEF CursorInv, SaveInv
  <2>3. Writes(b, f0) /\ \A w \in Builds \ {b} : ~Writes(w, f0) /\ ~Flushes(w, f0)
    BY <2>1, <2>2, OneWriter DEF Writes, FileInv
  <2>4. \A w \in Builds, f \in Files : Writes(w, f)' = Writes(w, f) /\ Flushes(w, f)' = Flushes(w, f)
    BY <2>1 DEF Writes, Flushes
  <2>5. \A f \in Files : Awaited(f)' = Awaited(f)
    BY <2>1 DEF Awaited
  <2>6. \/ /\ data' = [data EXCEPT ![f0] = WriteAt(data[f0], pos[b], <<b, next[b]>>)]
           /\ pos'[b] = pos[b] + 1
        \/ UNCHANGED <<data, pos>>
    BY <1>types, <1>4 DEF WriteChunk
  <2>7. Len(data'[f0]) <= ArchiveSize /\ (Prefix(b, f0) => Prefix(b, f0)')
    <3>1. CASE /\ data' = [data EXCEPT ![f0] = WriteAt(data[f0], pos[b], <<b, next[b]>>)]
               /\ pos'[b] = pos[b] + 1
      <4>1. data'[f0] = WriteAt(data[f0], pos[b], <<b, pos[b] + 1>>)
        <5>1. next[b] = pos[b] + 1
          BY <1>0, <2>2
        <5> QED
          BY <1>0, <3>1, <5>1
      <4>2. <<b, pos[b] + 1>> \in Chunk /\ pos[b] \in Nat /\ data[f0] \in Seq(Chunk)
        BY <1>0, <2>1, <2>2 DEF Chunk
      <4>3. /\ Len(data'[f0]) = IF Len(data[f0]) > pos[b] THEN Len(data[f0]) ELSE pos[b] + 1
            /\ data'[f0][pos[b] + 1] = <<b, pos[b] + 1>>
            /\ \A k \in 1 .. Len(data[f0]) : k # pos[b] + 1 => data'[f0][k] = data[f0][k]
        <5>1. PICK d \in Seq(Chunk), p \in Nat, c \in Chunk :
                d = data[f0] /\ p = pos[b] /\ c = <<b, pos[b] + 1>>
          BY <4>2
        <5>2. IsWritten(WriteAt(d, p, c), d, p, c)
          BY WriteAtWrites
        <5>3. WriteAt(d, p, c) = data'[f0]
          BY <4>1, <5>1
        <5>4. IsWritten(data'[f0], data[f0], pos[b], <<b, pos[b] + 1>>)
          BY <5>1, <5>2, <5>3
        <5> QED
          BY <5>4 DEF IsWritten
      <4>4. Len(data[f0]) \in Nat /\ Len(data[f0]) <= ArchiveSize
        BY <1>0, <2>1, <2>2 DEF FileInv
      <4>5. Len(data'[f0]) <= ArchiveSize /\ Len(data'[f0]) >= pos[b] + 1
        BY <1>0, <2>2, <4>2, <4>3, <4>4
      <4>6. ASSUME Prefix(b, f0), NEW k \in 1 .. pos[b] + 1 PROVE data'[f0][k] = <<b, k>>
        <5>1. CASE k = pos[b] + 1
          BY <4>3, <5>1
        <5>2. CASE k # pos[b] + 1
          <6>1. k \in 1 .. pos[b] /\ k \in 1 .. Len(data[f0])
            BY <4>2, <4>4, <4>6, <5>2 DEF Prefix
          <6> QED
            BY <4>3, <4>6, <5>2, <6>1 DEF Prefix
        <5> QED
          BY <5>1, <5>2
      <4> QED
        BY <3>1, <4>5, <4>6 DEF Prefix
    <3>2. CASE UNCHANGED <<data, pos>>
      BY <2>2, <3>2 DEF FileInv, Prefix
    <3> QED
      BY <2>6, <3>1, <3>2
  <2>8. FileInv(f0)'
    BY <2>1, <2>2, <2>3, <2>4, <2>5, <2>7 DEF FileInv
  <2> QED
    BY <2>8
<1>5. ASSUME NEW b \in Builds, Unlock(b), NEW f0 \in Files, f0 = fd[b], ~spoilt[f0]
      PROVE  FileInv(f0)'
  <2> USE <1>5
  <2>1. /\ pc[b] = "writing" /\ pc'[b] = "closing" /\ f0 \in Files /\ next[b] > ArchiveSize
        /\ UNCHANGED <<data, fd, fresh, tail, pos>>
        /\ \A w \in Builds \ {b} : pc'[w] = pc[w]
    BY <1>types, <1>5 DEF Unlock, LockInv, PhaseLocks
  <2>2. /\ FileInv(f0) /\ pos[b] = IF tail[b] THEN ArchiveSize - 1 ELSE ArchiveSize
    BY <1>0, <1>5, <2>1 DEF CursorInv, SaveInv
  <2>3. Writes(b, f0) /\ \A w \in Builds \ {b} : ~Writes(w, f0) /\ ~Flushes(w, f0)
    BY <2>1, <2>2, OneWriter DEF Writes, FileInv
  <2>4. \A f \in Files : Awaited(f)' = Awaited(f)
    BY <2>1 DEF Awaited
  <2>5. \A w \in Builds, f \in Files :
          /\ Prefix(w, f)' = Prefix(w, f)
          /\ w # b \/ f # f0 => Writes(w, f)' = Writes(w, f) /\ Flushes(w, f)' = Flushes(w, f)
    BY <2>1 DEF Prefix, Writes, Flushes
  <2>6. ~Writes(b, f0)' /\ Flushes(b, f0)' = tail[b]
    BY <1>0, <2>1 DEF Writes, Flushes
  <2>7. FileInv(f0)'
    <3>1. ~tail[b] /\ Prefix(b, f0) => Complete(data[f0])
      <4> SUFFICES ASSUME ~tail[b], Prefix(b, f0) PROVE Complete(data[f0])
        OBVIOUS
      <4>1. /\ data[f0] \in Seq(Chunk) /\ Len(data[f0]) = ArchiveSize
            /\ \A k \in 1 .. ArchiveSize : data[f0][k] = <<b, k>>
        BY <1>0, <2>1, <2>2 DEF Prefix, FileInv
      <4> QED
        BY <4>1, WholeArchive
    <3>2. Awaited(f0) \/ Prefix(b, f0)
      BY <2>2, <2>3 DEF FileInv
    <3>3. f0 < fresh' => \/ \E w \in Builds : Writes(w, f0)' \/ Flushes(w, f0)'
                         \/ Awaited(f0)' \/ Complete(data'[f0])
      BY <2>1, <2>4, <2>6, <3>1, <3>2
    <3>4. \A w \in Builds : Writes(w, f0)' \/ Flushes(w, f0)' => w = b
      BY <2>1, <2>3, <2>5
    <3> QED
      BY <2>1, <2>2, <2>4, <2>5, <2>6, <3>2, <3>3, <3>4 DEF FileInv, Complete
  <2> QED
    BY <2>7
<1>6. ASSUME NEW b \in Builds, Close(b), NEW f0 \in Files, f0 = fd[b], ~spoilt[f0]
      PROVE  FileInv(f0)'
  <2> USE <1>6
  <2>1. /\ pc[b] = "closing" /\ pc'[b] = "verify" /\ f0 \in Files
        /\ UNCHANGED <<fresh, pos>>
        /\ data' = IF tail[b] THEN [data EXCEPT ![f0] = WriteAt(data[f0], pos[b], <<b, ArchiveSize>>)]
                              ELSE data
        /\ \A w \in Builds \ {b} : pc'[w] = pc[w] /\ tail'[w] = tail[w] /\ fd'[w] = fd[w]
    BY <1>types, <1>6 DEF Close, LockInv, PhaseLocks
  <2>2. FileInv(f0) /\ (tail[b] => pos[b] = ArchiveSize - 1)
    BY <1>6, <2>1 DEF CursorInv, SaveInv
  <2>3. \A f \in Files : Awaited(f)' = Awaited(f)
    BY <2>1 DEF Awaited
  <2>4. \A w \in Builds \ {b}, f \in Files :
          Writes(w, f)' = Writes(w, f) /\ Flushes(w, f)' = Flushes(w, f)
    BY <2>1 DEF Writes, Flushes
  <2>5. \A f \in Files : ~Writes(b, f) /\ ~Writes(b, f)' /\ ~Flushes(b, f)'
    BY <2>1 DEF Writes, Flushes
  <2>6. \A f \in Files : Flushes(b, f) <=> tail[b] /\ f = f0
    BY <2>1 DEF Flushes
  <2>7. CASE tail[b]
    <3>1. Flushes(b, f0) /\ \A w \in Builds : ~Writes(w, f0)' /\ ~Flushes(w, f0)'
      BY <2>1, <2>2, <2>4, <2>5, <2>6, <2>7 DEF FileInv
    <3>2. data'[f0] = WriteAt(data[f0], pos[b], <<b, ArchiveSize>>)
      BY <1>0, <2>1, <2>7
    <3>3. <<b, ArchiveSize>> \in Chunk /\ pos[b] \in Nat /\ data[f0] \in Seq(Chunk)
      BY <1>0, <2>1 DEF Chunk
    <3>4. /\ data'[f0] \in Seq(Chunk)
          /\ Len(data'[f0]) = IF Len(data[f0]) > pos[b] THEN Len(data[f0]) ELSE pos[b] + 1
          /\ data'[f0][pos[b] + 1] = <<b, ArchiveSize>>
          /\ \A k \in 1 .. Len(data[f0]) : k # pos[b] + 1 => data'[f0][k] = data[f0][k]
      <4>1. PICK d \in Seq(Chunk), p \in Nat, c \in Chunk :
              d = data[f0] /\ p = pos[b] /\ c = <<b, ArchiveSize>>
        BY <3>3
      <4>2. WriteAt(d, p, c) \in Seq(Chunk) /\ IsWritten(WriteAt(d, p, c), d, p, c)
        BY WriteAtType, WriteAtWrites
      <4>3. WriteAt(d, p, c) = data'[f0]
        BY <3>2, <4>1
      <4>4. data'[f0] \in Seq(Chunk) /\ IsWritten(data'[f0], data[f0], pos[b], <<b, ArchiveSize>>)
        BY <4>1, <4>2, <4>3
      <4> QED
        BY <4>4 DEF IsWritten
    <3>5. pos[b] + 1 = ArchiveSize /\ Len(data[f0]) \in Nat /\ Len(data[f0]) <= ArchiveSize
      BY <1>0, <2>1, <2>2, <2>7 DEF FileInv
    <3>6. Len(data'[f0]) = ArchiveSize
      BY <1>0, <3>3, <3>4, <3>5
    <3>7. Awaited(f0) \/ Complete(data'[f0])
      <4> SUFFICES ASSUME Prefix(b, f0) PROVE Complete(data'[f0])
        BY <2>2, <3>1 DEF FileInv
      <4>1. ASSUME NEW k \in 1 .. ArchiveSize PROVE data'[f0][k] = <<b, k>>
        <5>1. CASE k = ArchiveSize
          BY <3>4, <3>5, <5>1
        <5>2. CASE k # ArchiveSize
          <6>1. k \in 1 .. pos[b] /\ k \in 1 .. Len(data[f0])
            BY <1>0, <3>3, <3>5, <5>2 DEF Prefix
          <6> QED
            BY <3>4, <3>5, <5>2, <6>1 DEF Prefix
        <5> QED
          BY <5>1, <5>2
      <4> QED
        BY <3>4, <3>6, <4>1, WholeArchive
    <3>8. FileInv(f0)'
      BY <1>0, <2>3, <3>1, <3>6, <3>7 DEF FileInv, Complete
    <3> QED
      BY <3>8
  <2>8. CASE ~tail[b]
    <3>1. data' = data
      BY <2>1, <2>8
    <3>2. \A w \in Builds, f \in Files : Prefix(w, f)' = Prefix(w, f)
      BY <2>1, <3>1 DEF Prefix
    <3>3. FileInv(f0) => FileInv(f0)'
      BY <2>1, <2>3, <2>4, <2>5, <2>6, <2>8, <3>1, <3>2 DEF FileInv
    <3> QED
      BY <2>2, <3>3
  <2> QED
    BY <2>7, <2>8
<1>7. ASSUME NEW b \in Builds, WriteChunk(b) \/ Unlock(b) \/ Close(b) PROVE SaveInv'
  <2>1. /\ \A w \in Builds \ {b} : /\ pc'[w] = pc[w] /\ fd'[w] = fd[w] /\ pos'[w] = pos[w]
                                    /\ tail'[w] = tail[w]
        /\ fd'[b] = fd[b] \/ pc'[b] \notin Saving
        /\ fresh' = fresh /\ spoilt' = spoilt
        /\ \A f \in Files : f # fd[b] => data'[f] = data[f]
    BY <1>0, <1>types, <1>7 DEF WriteChunk, Unlock, Close, Saving
  <2>2. ASSUME NEW f \in Files, f # fd[b] PROVE ~spoilt'[f] => FileInv(f)'
    BY <2>1, <2>2, Elsewhere
  <2>4. ASSUME NEW f \in Files, f = fd[b], ~spoilt'[f] PROVE FileInv(f)'
    <3>1. ~spoilt[f]
      BY <2>1, <2>4
    <3> QED
      BY <1>4, <1>5, <1>6, <1>7, <2>4, <3>1
  <2> QED
    BY <2>2, <2>4 DEF SaveInv
<1>8. ASSUME NEW b \in Builds,
             \/ WriteTimeout(b) \/ SaveError(b)
             \/ ((LockTimeout(b) \/ Kill(b)) /\ pc[b] \in Saving)
      PROVE  SaveInv'
  <2>1. /\ \A w \in Builds \ {b} : /\ pc'[w] = pc[w] /\ fd'[w] = fd[w] /\ pos'[w] = pos[w]
                                    /\ tail'[w] = tail[w]
        /\ fd'[b] = fd[b] \/ pc'[b] \notin Saving
        /\ fresh' = fresh /\ data' = data /\ Spoil(fd[b])
    BY <1>types, <1>8 DEF WriteTimeout, SaveError, LockTimeout, Kill, Release, Saving
  <2>2. ASSUME NEW f \in Files, f # fd[b] PROVE ~spoilt'[f] => FileInv(f)'
    <3>1. spoilt'[f] = spoilt[f]
      BY <1>types, <2>1, <2>2 DEF Spoil
    <3> QED
      BY <2>1, <2>2, <3>1, Elsewhere
  <2>3. \A f \in Files : f = fd[b] => spoilt'[f]
    BY <1>types, <2>1 DEF Spoil
  <2> QED
    BY <2>2, <2>3 DEF SaveInv
<1>9. CASE UNCHANGED <<data, pc, fd, tail, pos, fresh, spoilt>>
  BY <1>9 DEF SaveInv, FileInv, Writes, Flushes, Awaited, Prefix, Complete
<1>10. ASSUME NEW b \in Builds, Mishap(b) PROVE SaveInv'
  BY <1>1, <1>8, <1>10 DEF Mishap
<1> QED
  BY <1>1, <1>2, <1>3, <1>7, <1>9, <1>10 DEF Next, RestoreStep, SaveStep, CleanCache, vars

\* The archive's name refers to a file that has been made.
Made == path < fresh /\ fresh \in Nat \ {0}

\* When no build has the archive open for writing, it is complete, whatever was cut short or
\* tried again before the last save that began alone: one build at a time writes it, from the
\* start, a build that emptied it under another one is yet to write it, and each kind of
\* mishap spoils the one file it happens to.
THEOREM SettledComplete == Spec => []SettledArchiveComplete
<1>1. Init => CursorInv /\ SaveInv /\ Made
  <2> SUFFICES ASSUME Init PROVE CursorInv /\ SaveInv /\ Made
    OBVIOUS
  <2>1. CursorInv /\ Made
    BY DEF Init, CursorInv, Made
  <2>2. ASSUME NEW f \in Files PROVE FileInv(f)
    <3>1. \A b \in Builds : ~Writes(b, f) /\ ~Flushes(b, f)
      BY DEF Init, Writes, Flushes
    <3>2. Len(data[f]) <= ArchiveSize
      <4>1. /\ ArchiveOf(Seed) \in Seq(Chunk) /\ DOMAIN ArchiveOf(Seed) = 1 .. ArchiveSize
            /\ ArchiveSize \in Nat /\ Len(<<>>) = 0
        BY ArchiveType, CacheAssumption DEF ArchiveOf
      <4>2. Len(ArchiveOf(Seed)) = ArchiveSize
        <5>1. Len(ArchiveOf(Seed)) \in Nat /\ 1 .. Len(ArchiveOf(Seed)) = 1 .. ArchiveSize
          BY <4>1, LenProperties
        <5> QED
          BY <4>1, <5>1
      <4>3. data[f] = <<>> \/ data[f] = ArchiveOf(Seed)
        BY DEF Init
      <4> QED
        BY <4>1, <4>2, <4>3
    <3>3. f < fresh => Complete(data[f])
      <4> SUFFICES ASSUME f < fresh PROVE Complete(data[f])
        OBVIOUS
      <4>1. f = 1 /\ fresh = 2
        BY DEF Init, Files
      <4> QED
        BY <4>1 DEF Init, Complete
    <3> QED
      BY <3>1, <3>2, <3>3 DEF FileInv
  <2> QED
    BY <2>1, <2>2 DEF SaveInv
<1>2. LockInv /\ Made /\ [Next]_vars => Made'
  <2> SUFFICES ASSUME LockInv, Made, [Next]_vars PROVE Made'
    OBVIOUS
  <2>1. CASE \E b \in Builds : OpenWrite(b)
    BY <2>1 DEF OpenWrite, Made
  <2>2. CASE CleanCache
    BY <2>2 DEF CleanCache, Made
  <2>3. CASE UNCHANGED <<path, fresh>>
    BY <2>3 DEF Made
  <2> QED
    BY <2>1, <2>2, <2>3
       DEF Next, RestoreStep, SaveStep, Mishap, FindCache, Lookup, OpenRead, LockShared, ReadChunk,
           EndRead, SkipSave, OpenWriteFails, LockExclusive, WriteChunk, Unlock, Close, Verify,
           PutTimeout, WriteTimeout, LockTimeout, Kill, RestoreError, SaveError, vars, disk
<1>3. LockInv /\ SaveInv /\ Made => SettledArchiveComplete
  <2> SUFFICES ASSUME LockInv, SaveInv, Made, path # 0, ~WritesTo(path), ~spoilt[path]
               PROVE  Complete(data[path])
    BY DEF SettledArchiveComplete
  <2>1. path \in Files /\ path < fresh /\ FileInv(path)
    BY DEF LockInv, Made, SaveInv
  <2>2. ~Awaited(path) /\ \A b \in Builds : ~Writes(b, path) /\ ~Flushes(b, path)
    BY DEF WritesTo, Saving, Awaited, Writes, Flushes
  <2> QED
    BY <2>1, <2>2 DEF FileInv
<1>4. LockInv /\ TypeOK /\ CursorInv /\ SaveInv /\ [Next]_vars => CursorInv' /\ SaveInv'
  BY CursorKept, SaveKept
<1> QED
  BY <1>1, <1>2, <1>3, <1>4, Invariance, PTL DEF Spec

-----------------------------------------------------------------------------
(* What a restore reads *)

\* Chunks of one archive, in their order and without a gap.
Unbroken(s) == \A i \in 1 .. Len(s) - 1 : s[i + 1] = <<s[i][1], s[i][2] + 1>>

\* At most one build beside b has come to save, and none has tried again to.
OneSaver(b) ==
  /\ \A v, w \in Builds \ {b} : MaySave(v) /\ MaySave(w) => v = w
  /\ \A w \in Builds \ {b} :
       pc[w] \in {"writing", "closing", "verify", "done", "failed"} => tries[w] = Tries

\* A build that saves has emptied the file, and has written what it has received.
SaverAt(w) ==
  /\ pc[w] = "waitWrite" => data[fd[w]] = <<>>
  /\ pc[w] \in {"writing", "closing"} =>
       /\ Len(data[fd[w]]) = pos[w] /\ \A k \in 1 .. pos[w] : data[fd[w]][k] = <<w, k>>
       /\ pos[w] = IF tail[w] THEN ArchiveSize - 1 ELSE next[w] - 1

\* What build b has received last is the chunk before its position in the file.
Follows(b) ==
  /\ pos[b] <= Len(data[fd[b]])
  /\ got[b] # <<>> => pos[b] >= 1 /\ data[fd[b]][pos[b]] = got[b][Len(got[b])]

\* The file has been emptied under its reader, and is not yet written again.
Emptied(b) ==
  /\ data[fd[b]] = <<>>
  /\ \A w \in Builds : pc[w] \in {"writing", "closing"} => fd[w] # fd[b]

RestoreInv(b) ==
  /\ pc[b] \in {"start", "restore", "open", "waitRead"} => got[b] = <<>>
  /\ pc[b] = "waitRead" => pos[b] = 0
  /\ OneSaver(b) =>
       /\ Unbroken(got[b])
       /\ pc[b] = "reading" => Follows(b) \/ Emptied(b)
       /\ ~MaySave(b) =>
            (\A f \in Files : Unbroken(data[f])) /\ \A w \in Builds \ {b} : SaverAt(w)

\* A build that has come to save does not go back, nor does one that has tried again.
LEMMA SaversStay ==
  ASSUME TypeOK, [Next]_vars, NEW b \in Builds
  PROVE  /\ \A w \in Builds : MaySave(w) => MaySave(w)'
         /\ OneSaver(b)' => OneSaver(b)
<1> USE DEF Goto, disk, writer, history, Release
<1>0. pc \in [Builds -> Phases] /\ tries \in [Builds -> 0 .. Tries]
  BY DEF TypeOK
<1>1. ASSUME NEW w \in Builds, MaySave(w) PROVE MaySave(w)'
  <2>1. ASSUME NEW v \in Builds, \/ FindCache(v) \/ Lookup(v) \/ OpenRead(v) \/ LockShared(v)
                                 \/ ReadChunk(v) \/ EndRead(v) \/ SkipSave(v) \/ OpenWrite(v)
        PROVE  MaySave(w)'
    BY <1>0, <1>1, <2>1 DEF FindCache, Lookup, OpenRead, LockShared, ReadChunk, EndRead, SkipSave,
                            OpenWrite, MaySave
  <2>2. ASSUME NEW v \in Builds, \/ OpenWriteFails(v) \/ LockExclusive(v) \/ WriteChunk(v)
                                 \/ Unlock(v) \/ Close(v) \/ Verify(v)
        PROVE  MaySave(w)'
    BY <1>0, <1>1, <2>2 DEF OpenWriteFails, LockExclusive, WriteChunk, Unlock, Close, Verify,
                            MaySave
  <2>3. ASSUME NEW v \in Builds, Mishap(v) PROVE MaySave(w)'
    BY <1>0, <1>1, <2>3 DEF Mishap, PutTimeout, WriteTimeout, LockTimeout, Kill, RestoreError,
                            SaveError, MaySave
  <2>4. CASE UNCHANGED pc
    BY <1>1, <2>4 DEF MaySave
  <2> QED
    BY <2>1, <2>2, <2>3, <2>4 DEF Next, RestoreStep, SaveStep, CleanCache, vars
<1>2. ASSUME NEW w \in Builds, pc[w] \in {"writing", "closing", "verify", "done", "failed"},
             tries[w] # Tries
      PROVE  /\ pc'[w] \in {"writing", "closing", "verify", "done", "failed"}
             /\ tries'[w] # Tries
  <2>1. ASSUME NEW v \in Builds, \/ FindCache(v) \/ Lookup(v) \/ OpenRead(v) \/ LockShared(v)
                                 \/ ReadChunk(v) \/ EndRead(v) \/ SkipSave(v) \/ OpenWrite(v)
        PROVE  pc'[w] = pc[w] /\ tries'[w] = tries[w]
    BY <1>0, <1>2, <2>1 DEF FindCache, Lookup, OpenRead, LockShared, ReadChunk, EndRead, SkipSave,
                            OpenWrite
  <2>2. ASSUME NEW v \in Builds, \/ OpenWriteFails(v) \/ LockExclusive(v) \/ WriteChunk(v)
                                 \/ Unlock(v) \/ Close(v) \/ Verify(v)
        PROVE  /\ pc'[w] \in {"writing", "closing", "verify", "done", "failed"}
               /\ tries'[w] = tries[w]
    BY <1>0, <1>2, <2>2 DEF OpenWriteFails, LockExclusive, WriteChunk, Unlock, Close, Verify
  <2>3. ASSUME NEW v \in Builds, Mishap(v)
        PROVE  /\ pc'[w] \in {"writing", "closing", "verify", "done", "failed"}
               /\ tries'[w] # Tries
    <3>1. pc'[w] \in {"writing", "closing", "verify", "done", "failed"}
      BY <1>0, <1>2, <2>3 DEF Mishap, PutTimeout, WriteTimeout, LockTimeout, Kill, RestoreError,
                              SaveError
    <3>2. tries'[w] = tries[w] \/ tries'[w] = tries[w] - 1
      BY <1>0, <2>3 DEF Mishap, PutTimeout, WriteTimeout, LockTimeout, Kill, RestoreError, SaveError
    <3>3. tries[w] \in 0 .. Tries /\ Tries \in Nat
      BY <1>0, CacheAssumption
    <3> QED
      BY <1>2, <3>1, <3>2, <3>3
  <2>4. CASE UNCHANGED <<pc, tries>>
    BY <1>2, <2>4
  <2> QED
    BY <1>2, <2>1, <2>2, <2>3, <2>4 DEF Next, RestoreStep, SaveStep, CleanCache, vars
<1> QED
  BY <1>1, <1>2 DEF OneSaver

\* The file of a saving build is its own archive so far, whatever its length.
LEMMA OwnChunksUnbroken ==
  ASSUME NEW s \in Seq(Chunk), NEW w, \A k \in 1 .. Len(s) : s[k] = <<w, k>>
  PROVE  Unbroken(s)
<1> SUFFICES ASSUME NEW i \in 1 .. Len(s) - 1 PROVE s[i + 1] = <<s[i][1], s[i][2] + 1>>
  BY DEF Unbroken
<1>1. Len(s) \in Nat /\ i \in 1 .. Len(s) /\ i + 1 \in 1 .. Len(s)
  BY LenProperties
<1> QED
  BY <1>1

\* One more chunk that follows the last one.
LEMMA UnbrokenAppend ==
  ASSUME NEW s \in Seq(Chunk), NEW c \in Chunk, Unbroken(s),
         s # <<>> => c = <<s[Len(s)][1], s[Len(s)][2] + 1>>
  PROVE  Unbroken(Append(s, c))
<1> DEFINE n == Len(s)
           t == Append(s, c)
<1>1. /\ n \in Nat /\ Len(t) = n + 1 /\ t[n + 1] = c /\ \A i \in 1 .. n : t[i] = s[i]
      /\ s # <<>> <=> n > 0
  BY AppendProperties, EmptySeq
<1>2. \A i \in 1 .. n - 1 : s[i + 1] = <<s[i][1], s[i][2] + 1>>
  BY DEF Unbroken
<1>3. n > 0 => c = <<s[n][1], s[n][2] + 1>>
  BY <1>1
<1> HIDE DEF n, t
<1>4. ASSUME NEW i \in 1 .. n PROVE t[i + 1] = <<t[i][1], t[i][2] + 1>>
  <2>1. CASE i = n
    BY <1>1, <1>3, <2>1
  <2>2. CASE i # n
    <3>1. i \in 1 .. n - 1 /\ i + 1 \in 1 .. n
      BY <1>1, <2>2
    <3> QED
      BY <1>1, <1>2, <3>1
  <2> QED
    BY <2>1, <2>2
<1>5. Unbroken(t)
  <2>1. Len(t) - 1 = n
    BY <1>1
  <2> QED
    BY <1>4, <2>1 DEF Unbroken
<1> QED
  BY <1>5 DEF t

\* A step of the build itself.
LEMMA OwnStepRestores ==
  ASSUME LockInv, TypeOK, NEW b \in Builds, RestoreInv(b),
         RestoreStep(b) \/ SaveStep(b) \/ Mishap(b) \/ SkipSave(b) \/ OpenWrite(b) \/ OpenWriteFails(b)
  PROVE  RestoreInv(b)'
<1> USE DEF disk, writer, history, Goto, Release
<1>types. /\ pc \in [Builds -> Phases] /\ fd \in [Builds -> {0} \cup Files]
          /\ pos \in [Builds -> Nat] /\ got \in [Builds -> Seq(Chunk)]
          /\ tries \in [Builds -> 0 .. Tries] /\ tail \in [Builds -> BOOLEAN]
          /\ next \in [Builds -> 1 .. ArchiveSize + 1] /\ data \in [Files -> Seq(Chunk)]
  BY DEF TypeOK
<1>1. ASSUME RestoreStep(b) \/ PutTimeout(b) \/ RestoreError(b)
      PROVE  RestoreInv(b)'
  <2>1. /\ data' = data /\ tail' = tail /\ next' = next
        /\ \A w \in Builds \ {b} : /\ pc'[w] = pc[w] /\ fd'[w] = fd[w] /\ pos'[w] = pos[w]
                                   /\ tries'[w] = tries[w]
    BY <1>types, <1>1 DEF RestoreStep, FindCache, Lookup, OpenRead, LockShared, ReadChunk, EndRead,
                          PutTimeout, RestoreError
  <2>2. OneSaver(b)' = OneSaver(b) /\ \A w \in Builds \ {b} : SaverAt(w)' = SaverAt(w)
    BY <2>1 DEF OneSaver, MaySave, SaverAt
  <2>3. ~MaySave(b)
    BY <1>1 DEF RestoreStep, FindCache, Lookup, OpenRead, LockShared, ReadChunk, EndRead,
                PutTimeout, RestoreError, MaySave
  <2>4. OneSaver(b) => (\A f \in Files : Unbroken(data[f])) /\ \A w \in Builds \ {b} : SaverAt(w)
    BY <2>3 DEF RestoreInv
  <2>5. CASE FindCache(b) \/ Lookup(b)
    <3>1. pc'[b] # "waitRead" /\ pc'[b] # "reading"
      BY <1>types, <2>5 DEF FindCache, Lookup, RestoreInv
    <3>2. got' = got
      BY <2>5 DEF FindCache, Lookup
    <3>3. got[b] = <<>>
      BY <2>5 DEF FindCache, Lookup, RestoreInv
    <3> QED
      BY <2>1, <2>2, <2>4, <3>1, <3>2, <3>3 DEF RestoreInv
  <2>6. CASE OpenRead(b)
    <3>1. /\ got'[b] = got[b] /\ got[b] = <<>> /\ pos'[b] = 0
          /\ pc'[b] \in {"waitRead", "failed"}
      BY <1>types, <2>6 DEF OpenRead, RestoreInv
    <3> QED
      BY <2>1, <2>2, <2>4, <3>1 DEF RestoreInv
  <2>7. CASE LockShared(b)
    <3>1. /\ got'[b] = got[b] /\ got[b] = <<>> /\ pos'[b] = 0 /\ pc'[b] = "reading"
          /\ fd'[b] \in Files
      BY <1>types, <2>7 DEF LockShared, Acquire, RestoreInv, LockInv, PhaseLocks
    <3>2. Len(data'[fd'[b]]) \in Nat
      BY <1>types, <2>1, <3>1
    <3>3. Follows(b)'
      BY <3>1, <3>2 DEF Follows
    <3> QED
      BY <2>1, <2>2, <2>4, <3>1, <3>3 DEF RestoreInv
  <2>8. CASE ReadChunk(b)
    <3> DEFINE f == fd[b]
               p == pos[b]
    <3>1. /\ pc[b] = "reading" /\ pc' = pc /\ fd' = fd /\ f \in Files /\ p \in Nat
          /\ p < Len(data[f]) /\ data[f] \in Seq(Chunk) /\ got[b] \in Seq(Chunk)
          /\ pos'[b] = p + 1 /\ got'[b] = Append(got[b], data[f][p + 1])
      BY <1>types, <2>8 DEF ReadChunk, LockInv, PhaseLocks
    <3>2. CASE OneSaver(b)
      <4>1. Unbroken(got[b]) /\ Unbroken(data[f]) /\ Follows(b)
        <5>1. ~Emptied(b)
          BY <3>1, EmptySeq DEF Emptied
        <5> QED
          BY <2>4, <3>1, <3>2, <5>1 DEF RestoreInv
      <4>2. Len(data[f]) \in Nat /\ p + 1 \in 1 .. Len(data[f]) /\ data[f][p + 1] \in Chunk
        BY <3>1, LenProperties, ElementOfSeq
      <4>3. got[b] # <<>> => data[f][p + 1] = <<got[b][Len(got[b])][1], got[b][Len(got[b])][2] + 1>>
        <5> SUFFICES ASSUME got[b] # <<>>
                     PROVE  data[f][p + 1] = <<got[b][Len(got[b])][1], got[b][Len(got[b])][2] + 1>>
          OBVIOUS
        <5>1. p \in 1 .. Len(data[f]) - 1 /\ data[f][p] = got[b][Len(got[b])]
          BY <3>1, <4>1, <4>2 DEF Follows
        <5>2. data[f][p + 1] = <<data[f][p][1], data[f][p][2] + 1>>
          BY <4>1, <5>1 DEF Unbroken
        <5> QED
          BY <5>1, <5>2
      <4>4. Unbroken(got'[b])
        BY <3>1, <4>1, <4>2, <4>3, UnbrokenAppend
      <4>5. got'[b][Len(got'[b])] = data[f][p + 1]
        BY <3>1, <4>2, AppendProperties
      <4>6. Follows(b)'
        BY <2>1, <3>1, <4>2, <4>5 DEF Follows
      <4> QED
        BY <2>1, <2>2, <2>4, <3>1, <4>4, <4>6 DEF RestoreInv, Unbroken
    <3>3. CASE ~OneSaver(b)
      BY <2>2, <3>1, <3>3 DEF RestoreInv
    <3> QED
      BY <3>2, <3>3
  <2>9. CASE EndRead(b) \/ RestoreError(b)
    <3>1. got' = got /\ pc'[b] \in {"work", "failed"}
      BY <1>types, <2>9 DEF EndRead, RestoreError
    <3> QED
      BY <2>1, <2>2, <2>4, <3>1 DEF RestoreInv, Unbroken
  <2>10. CASE PutTimeout(b)
    <3>1. /\ got'[b] = <<>> /\ pos' = pos /\ pc[b] = "reading"
          /\ \/ pc'[b] = "reading" /\ fd' = fd
             \/ pc'[b] = "failed"
      BY <1>types, <2>10 DEF PutTimeout
    <3>2. Unbroken(<<>>)
      BY EmptySeq DEF Unbroken
    <3>3. OneSaver(b) /\ pc'[b] = "reading" => Follows(b)' \/ Emptied(b)'
      <4> SUFFICES ASSUME OneSaver(b), pc'[b] = "reading", fd' = fd
                   PROVE  Follows(b)' \/ Emptied(b)'
        BY <3>1
      <4>1. CASE Follows(b)
        BY <2>1, <3>1, <4>1 DEF Follows
      <4>2. CASE Emptied(b)
        BY <2>1, <3>1, <4>2 DEF Emptied
      <4> QED
        BY <3>1, <4>1, <4>2 DEF RestoreInv
    <3> QED
      BY <2>1, <2>2, <2>4, <3>1, <3>2, <3>3 DEF RestoreInv, Unbroken
  <2> QED
    BY <1>1, <2>5, <2>6, <2>7, <2>8, <2>9, <2>10 DEF RestoreStep
<1>2. ASSUME \/ SaveStep(b) \/ WriteTimeout(b) \/ LockTimeout(b) \/ Kill(b) \/ SaveError(b)
             \/ SkipSave(b) \/ OpenWrite(b) \/ OpenWriteFails(b)
      PROVE  RestoreInv(b)'
  <2>1. /\ \A w \in Builds \ {b} : pc'[w] = pc[w] /\ tries'[w] = tries[w]
        /\ got' = got
        /\ pc'[b] \notin {"start", "restore", "open", "waitRead", "reading", "work"}
    BY <1>types, <1>2 DEF SaveStep, LockExclusive, WriteChunk, Unlock, Close, Verify, WriteTimeout,
                          LockTimeout, Kill, SaveError, SkipSave, OpenWrite, OpenWriteFails
  <2>2. OneSaver(b)' = OneSaver(b)
    BY <2>1 DEF OneSaver, MaySave
  <2>3. MaySave(b)' /\ Unbroken(got[b])' = Unbroken(got[b])
    BY <2>1 DEF MaySave, Unbroken
  <2> QED
    BY <2>1, <2>2, <2>3 DEF RestoreInv
<1> QED
  BY <1>1, <1>2 DEF Mishap

\* A write at the end of a file appends to it.
LEMMA WriteAtEnd ==
  ASSUME NEW d \in Seq(Chunk), NEW c \in Chunk
  PROVE  /\ WriteAt(d, Len(d), c) \in Seq(Chunk)
         /\ Len(WriteAt(d, Len(d), c)) = Len(d) + 1
         /\ WriteAt(d, Len(d), c)[Len(d) + 1] = c
         /\ \A k \in 1 .. Len(d) : WriteAt(d, Len(d), c)[k] = d[k]
<1>1. PICK p \in Nat : p = Len(d)
  BY LenProperties
<1>2. /\ WriteAt(d, p, c) \in Seq(Chunk)
      /\ Len(WriteAt(d, p, c)) = IF Len(d) > p THEN Len(d) ELSE p + 1
      /\ WriteAt(d, p, c)[p + 1] = c
      /\ \A k \in 1 .. Len(d) : k # p + 1 => WriteAt(d, p, c)[k] = d[k]
  BY WriteAtValue
<1>3. ~(Len(d) > p) /\ \A k \in 1 .. Len(d) : k # p + 1
  BY <1>1
<1> QED
  BY <1>1, <1>2, <1>3

\* A step of another build, which may empty the file or flush what it holds of it, but never
\* writes into what is being read.
LEMMA OthersStepRestores ==
  ASSUME LockInv, TypeOK, CursorInv, NEW b \in Builds, RestoreInv(b), NEW w \in Builds \ {b},
         [Next]_vars,
         RestoreStep(w) \/ SaveStep(w) \/ Mishap(w) \/ SkipSave(w) \/ OpenWrite(w) \/ OpenWriteFails(w)
  PROVE  RestoreInv(b)'
<1> USE DEF disk, writer, history, Goto, Release
<1>types. /\ pc \in [Builds -> Phases] /\ fd \in [Builds -> {0} \cup Files]
          /\ pos \in [Builds -> Nat] /\ got \in [Builds -> Seq(Chunk)]
          /\ tries \in [Builds -> 0 .. Tries] /\ tail \in [Builds -> BOOLEAN]
          /\ next \in [Builds -> 1 .. ArchiveSize + 1] /\ data \in [Files -> Seq(Chunk)]
          /\ ArchiveSize \in Nat \ {0} /\ Tries \in Nat \ {0}
  BY CacheAssumption DEF TypeOK
<1>own. /\ pc'[b] = pc[b] /\ fd'[b] = fd[b] /\ pos'[b] = pos[b] /\ got'[b] = got[b]
        /\ \A v \in Builds \ {b, w} : /\ pc'[v] = pc[v] /\ fd'[v] = fd[v] /\ pos'[v] = pos[v]
                                      /\ next'[v] = next[v] /\ tail'[v] = tail[v]
  <2>1. CASE RestoreStep(w)
    BY <1>types, <2>1 DEF RestoreStep, FindCache, Lookup, OpenRead, LockShared, ReadChunk, EndRead
  <2>2. CASE SaveStep(w)
    BY <1>types, <2>2 DEF SaveStep, LockExclusive, WriteChunk, Unlock, Close, Verify
  <2>3. CASE Mishap(w)
    BY <1>types, <2>3 DEF Mishap, PutTimeout, WriteTimeout, LockTimeout, Kill, RestoreError,
                          SaveError
  <2>4. CASE SkipSave(w) \/ OpenWrite(w) \/ OpenWriteFails(w)
    BY <1>types, <2>4 DEF SkipSave, OpenWrite, OpenWriteFails
  <2> QED
    BY <2>1, <2>2, <2>3, <2>4
<1>1. SUFFICES ASSUME OneSaver(b)', ~MaySave(b)
               PROVE  /\ pc[b] = "reading" => Follows(b)' \/ Emptied(b)'
                      /\ \A f \in Files : Unbroken(data'[f])
                      /\ \A v \in Builds \ {b} : SaverAt(v)'
  <2>1. MaySave(b)' = MaySave(b) /\ Unbroken(got[b])' = Unbroken(got[b])
    BY <1>own DEF MaySave, Unbroken
  <2>2. pc[b] = "reading" => ~MaySave(b)
    BY DEF MaySave
  <2>3. OneSaver(b)' => OneSaver(b)
    BY SaversStay
  <2>4. \A f \in Files : Unbroken(data[f])' = Unbroken(data'[f])
    BY DEF Unbroken
  <2> QED
    BY <1>own, <2>1, <2>2, <2>3, <2>4 DEF RestoreInv
<1>2. /\ pc[b] = "reading" => Follows(b) \/ Emptied(b)
      /\ \A f \in Files : Unbroken(data[f])
      /\ \A v \in Builds \ {b} : SaverAt(v)
  BY <1>1, SaversStay DEF RestoreInv
<1>3. /\ pc[b] \notin {"waitWrite", "writing", "closing"}
      /\ pc[b] = "reading" => fd[b] \in Files
      /\ pc[b] = "reading" => lock[b] = "shared"
  BY <1>1 DEF MaySave, LockInv, PhaseLocks
<1>4. MaySave(w)' => \A v \in Builds \ {b, w} : pc[v] \notin {"waitWrite", "writing", "closing"}
  <2> SUFFICES ASSUME MaySave(w)', NEW v \in Builds \ {b, w} PROVE ~MaySave(v)
    BY DEF MaySave
  <2>1. MaySave(v) => MaySave(v)'
    BY SaversStay
  <2> QED
    BY <1>1, <2>1 DEF OneSaver
<1>5. ASSUME data' = data, pc'[w] # "waitWrite",
             pc'[w] \in {"writing", "closing"} =>
               /\ pc[w] = "writing" /\ fd'[w] = fd[w] /\ pos'[w] = pos[w] /\ next'[w] = next[w]
               /\ tail'[w] = tail[w]
      PROVE  /\ pc[b] = "reading" => Follows(b)' \/ Emptied(b)'
             /\ \A f \in Files : Unbroken(data'[f])
             /\ \A v \in Builds \ {b} : SaverAt(v)'
  <2>1. Follows(b) => Follows(b)'
    BY <1>own, <1>5 DEF Follows
  <2>2. pc[b] = "reading" /\ Emptied(b) => Emptied(b)'
    BY <1>own, <1>5 DEF Emptied
  <2>3. ASSUME NEW v \in Builds \ {b, w} PROVE SaverAt(v)'
    <3>1. data'[fd'[v]] = data[fd[v]]
      BY <1>own, <1>5
    <3> QED
      BY <1>own, <1>2, <3>1 DEF SaverAt
  <2>4. SaverAt(w)'
    BY <1>2, <1>5 DEF SaverAt
  <2> QED
    BY <1>2, <1>5, <2>1, <2>2, <2>3, <2>4
<1>6. CASE \/ RestoreStep(w) \/ Unlock(w) \/ Verify(w) \/ SkipSave(w) \/ OpenWriteFails(w)
           \/ PutTimeout(w) \/ LockTimeout(w) \/ Kill(w) \/ RestoreError(w) \/ SaveError(w)
  <2>1. data' = data
    BY <1>6 DEF RestoreStep, FindCache, Lookup, OpenRead, LockShared, ReadChunk, EndRead, Unlock,
                Verify, SkipSave, OpenWriteFails, PutTimeout, LockTimeout, Kill, RestoreError,
                SaveError
  <2>2. CASE Unlock(w) \/ SaveError(w)
    BY <1>types, <1>5, <2>1, <2>2 DEF Unlock, SaveError
  <2>3. CASE ~Unlock(w) /\ ~SaveError(w)
    <3>1. pc'[w] \notin {"waitWrite", "writing", "closing"}
      BY <1>types, <1>6, <2>3
         DEF RestoreStep, FindCache, Lookup, OpenRead, LockShared, ReadChunk, EndRead,
             Verify, SkipSave, OpenWriteFails, PutTimeout, LockTimeout, Kill, RestoreError
    <3> QED
      BY <1>5, <2>1, <3>1
  <2> QED
    BY <2>2, <2>3
<1>7. CASE LockExclusive(w)
  <2>1. /\ pc[w] = "waitWrite" /\ pc'[w] = "writing" /\ next'[w] = 1
        /\ UNCHANGED <<data, fd, pos, tail>>
        /\ \A v \in Builds \ {w} : fd[v] = fd[w] => lock[v] = "none"
    BY <1>types, <1>7 DEF LockExclusive, Acquire, Lockable
  <2>2. pos[w] = 0 /\ ~tail[w] /\ data[fd[w]] = <<>>
    BY <1>2, <2>1 DEF CursorInv, SaverAt
  <2>3. SaverAt(w)'
    <3>1. Len(<<>>) = 0 /\ 1 .. 0 = {} /\ 1 - 1 = 0
      BY EmptySeq
    <3> QED
      BY <2>1, <2>2, <3>1 DEF SaverAt
  <2>4. \A v \in Builds \ {b, w} : SaverAt(v)'
    BY <1>own, <1>2, <2>1 DEF SaverAt
  <2>5. Follows(b) => Follows(b)'
    BY <1>own, <2>1 DEF Follows
  <2>6. pc[b] = "reading" /\ Emptied(b) => Emptied(b)'
    BY <1>own, <1>3, <2>1 DEF Emptied
  <2> QED
    BY <1>2, <2>1, <2>3, <2>4, <2>5, <2>6
<1>8. CASE OpenWrite(w)
  <2>1. PICK f \in Files : /\ f = fd'[w] /\ data' = [data EXCEPT ![f] = <<>>]
                           /\ pc'[w] = "waitWrite"
    <3>1. fd'[w] \in Files
      BY <1>8, <1>types, NextLockInv DEF LockInv, PhaseLocks, OpenWrite
    <3> QED
      BY <1>types, <1>8, <3>1 DEF OpenWrite
  <2>2. \A v \in Builds \ {w} : pc'[v] \notin {"waitWrite", "writing", "closing"}
    BY <1>own, <1>3, <1>4, <2>1 DEF MaySave
  <2>3. /\ data'[f] = <<>> /\ \A g \in Files : g # f => data'[g] = data[g]
    BY <1>types, <2>1
  <2>4. \A v \in Builds \ {b} : SaverAt(v)'
    BY <2>1, <2>2, <2>3 DEF SaverAt
  <2>5. \A g \in Files : Unbroken(data'[g])
    <3>1. Unbroken(<<>>)
      BY EmptySeq DEF Unbroken
    <3> QED
      BY <1>2, <2>3, <3>1
  <2>6. ASSUME pc[b] = "reading" PROVE Follows(b)' \/ Emptied(b)'
    <3>1. \A v \in Builds : pc'[v] \notin {"writing", "closing"}
      BY <2>1, <2>2
    <3>2. CASE fd[b] = f
      BY <1>own, <2>3, <3>1, <3>2 DEF Emptied
    <3>3. CASE fd[b] # f
      <4>1. data'[fd'[b]] = data[fd[b]]
        BY <1>own, <1>3, <2>3, <2>6, <3>3
      <4>2. Follows(b) => Follows(b)'
        BY <1>own, <4>1 DEF Follows
      <4>3. Emptied(b) => Emptied(b)'
        BY <3>1, <4>1 DEF Emptied
      <4> QED
        BY <1>2, <2>6, <4>2, <4>3
    <3> QED
      BY <3>2, <3>3
  <2> QED
    BY <2>4, <2>5, <2>6
<1>9. CASE WriteChunk(w)
  <2>1. PICK f \in Files, d \in Seq(Chunk), p \in Nat, n \in 1 .. ArchiveSize :
          f = fd[w] /\ d = data[f] /\ p = pos[w] /\ n = next[w]
    <3>1. next[w] \in 1 .. ArchiveSize /\ fd[w] \in Files
      BY <1>types, <1>9 DEF WriteChunk, LockInv, PhaseLocks
    <3> QED
      BY <1>types, <3>1
  <2>2. /\ pc[w] = "writing" /\ UNCHANGED <<pc, fd>> /\ next'[w] = n + 1
        /\ \/ /\ data' = [data EXCEPT ![f] = WriteAt(d, p, <<w, n>>)]
              /\ pos'[w] = p + 1 /\ tail' = tail
           \/ n = ArchiveSize /\ tail'[w] = TRUE /\ data' = data /\ pos' = pos
    BY <1>types, <1>9, <2>1 DEF WriteChunk
  <2>3. ~tail[w]
    BY <2>1, <2>2, <1>types DEF CursorInv
  <2>4. Len(d) = p /\ p = n - 1 /\ \A k \in 1 .. p : d[k] = <<w, k>>
    BY <1>2, <2>1, <2>2, <2>3 DEF SaverAt
  <2>5. \A v \in Builds \ {b, w} : SaverAt(v)'
    BY <1>own, <1>3, <1>4, <2>2 DEF SaverAt, MaySave
  <2>6. \A g \in Files : g # f => data'[g] = data[g]
    BY <1>types, <2>2
  <2>7. pc[b] = "reading" => Follows(b)' \/ Emptied(b)'
    <3> SUFFICES ASSUME pc[b] = "reading" PROVE Follows(b)' \/ Emptied(b)'
      OBVIOUS
    <3>1. fd[b] # f
      BY <2>1, <2>2, OneWriter
    <3>2. data'[fd'[b]] = data[fd[b]]
      BY <1>own, <1>3, <2>6, <3>1
    <3>3. Follows(b) => Follows(b)'
      BY <1>own, <3>2 DEF Follows
    <3>4. Emptied(b) => Emptied(b)'
      BY <2>2, <3>2 DEF Emptied
    <3> QED
      BY <1>2, <3>3, <3>4
  <2>8. SaverAt(w)' /\ Unbroken(data'[f])
    <3>1. CASE /\ data' = [data EXCEPT ![f] = WriteAt(d, p, <<w, n>>)]
               /\ pos'[w] = p + 1 /\ tail' = tail
      <4>1. PICK e \in Seq(Chunk) : e = data'[f] /\ e = WriteAt(d, Len(d), <<w, n>>)
        <5>1. <<w, n>> \in Chunk
          BY <2>1 DEF Chunk
        <5> QED
          BY <1>types, <2>4, <3>1, <5>1, WriteAtEnd
      <4>2. /\ Len(e) = Len(d) + 1 /\ e[Len(d) + 1] = <<w, n>>
            /\ \A k \in 1 .. Len(d) : e[k] = d[k]
        <5>1. PICK c \in Chunk : c = <<w, n>>
          BY <2>1 DEF Chunk
        <5>2. /\ Len(WriteAt(d, Len(d), c)) = Len(d) + 1 /\ WriteAt(d, Len(d), c)[Len(d) + 1] = c
             /\ \A k \in 1 .. Len(d) : WriteAt(d, Len(d), c)[k] = d[k]
          BY WriteAtEnd
        <5>3. e = WriteAt(d, Len(d), c)
          BY <4>1, <5>1
        <5> QED
          BY <5>1, <5>2, <5>3
      <4>3. Len(e) = p + 1 /\ n = p + 1 /\ \A k \in 1 .. p + 1 : e[k] = <<w, k>>
        BY <2>4, <4>2
      <4>4. Unbroken(e)
        BY <4>3, OwnChunksUnbroken
      <4>5. SaverAt(w)'
        <5>1. data'[fd'[w]] = e /\ pos'[w] = p + 1 /\ ~tail'[w] /\ next'[w] - 1 = p + 1
          BY <2>1, <2>2, <2>3, <3>1, <4>1, <4>3
        <5> QED
          BY <2>2, <4>3, <5>1 DEF SaverAt
      <4> QED
        BY <4>1, <4>4, <4>5
    <3>2. CASE n = ArchiveSize /\ tail'[w] = TRUE /\ data' = data /\ pos' = pos
      <4>1. SaverAt(w)'
        BY <2>1, <2>2, <2>4, <3>2 DEF SaverAt
      <4> QED
        BY <1>2, <3>2, <4>1
    <3> QED
      BY <2>2, <3>1, <3>2
  <2> QED
    BY <1>2, <2>5, <2>6, <2>7, <2>8
<1>10. CASE Close(w)
  <2>1. PICK f \in Files, d \in Seq(Chunk), p \in Nat : f = fd[w] /\ d = data[f] /\ p = pos[w]
    <3>1. fd[w] \in Files
      BY <1>10 DEF Close, LockInv, PhaseLocks
    <3> QED
      BY <1>types, <3>1
  <2>2. /\ pc[w] = "closing" /\ pc'[w] = "verify"
        /\ data' = IF tail[w] THEN [data EXCEPT ![f] = WriteAt(d, p, <<w, ArchiveSize>>)] ELSE data
    BY <1>types, <1>10, <2>1 DEF Close
  <2>3. CASE ~tail[w]
    BY <1>5, <2>2, <2>3
  <2>4. CASE tail[w]
    <3>1. Len(d) = p /\ p = ArchiveSize - 1 /\ \A k \in 1 .. p : d[k] = <<w, k>>
      BY <1>2, <2>1, <2>2, <2>4 DEF SaverAt
    <3>2. PICK e \in Seq(Chunk) : e = data'[f] /\ e = WriteAt(d, Len(d), <<w, ArchiveSize>>)
      <4>1. <<w, ArchiveSize>> \in Chunk
        BY <1>types DEF Chunk
      <4> QED
        BY <1>types, <2>2, <2>4, <3>1, <4>1, WriteAtEnd
    <3>3. /\ Len(e) = Len(d) + 1 /\ e[Len(d) + 1] = <<w, ArchiveSize>>
          /\ \A k \in 1 .. Len(d) : e[k] = d[k]
      <4>0. <<w, ArchiveSize>> \in Chunk
        BY <1>types DEF Chunk
      <4>1. PICK c \in Chunk : c = <<w, ArchiveSize>>
        BY <4>0
      <4>2. /\ Len(WriteAt(d, Len(d), c)) = Len(d) + 1 /\ WriteAt(d, Len(d), c)[Len(d) + 1] = c
           /\ \A k \in 1 .. Len(d) : WriteAt(d, Len(d), c)[k] = d[k]
        BY WriteAtEnd
      <4>3. e = WriteAt(d, Len(d), c)
        BY <3>2, <4>1
      <4> QED
        BY <4>1, <4>2, <4>3
    <3>4. Len(e) = p + 1 /\ \A k \in 1 .. p + 1 : e[k] = <<w, k>>
      <4>1. PICK n \in Nat : n = ArchiveSize
        BY <1>types
      <4>2. n = p + 1 /\ Len(e) = p + 1 /\ e[p + 1] = <<w, n>> /\ \A k \in 1 .. p : e[k] = <<w, k>>
        BY <3>1, <3>3, <4>1
      <4> QED
        BY <4>2
    <3>5. Unbroken(e)
      BY <3>4, OwnChunksUnbroken
    <3>6. \A g \in Files : g # f => data'[g] = data[g]
      BY <1>types, <2>2, <2>4
    <3>7. \A v \in Builds \ {b} : SaverAt(v)'
      BY <1>own, <1>4, <2>2 DEF SaverAt, MaySave
    <3>8. ASSUME pc[b] = "reading" PROVE Follows(b)' \/ Emptied(b)'
      <4>1. CASE fd[b] = f
        <5>1. ~Emptied(b)
          BY <2>1, <2>2, <4>1 DEF Emptied
        <5>2. Follows(b)
          BY <1>2, <3>8, <5>1
        <5>3. PICK m \in Nat : m = pos[b]
          BY <1>types
        <5>4. m <= Len(d) /\ (got[b] # <<>> => m >= 1 /\ d[m] = got[b][Len(got[b])])
          BY <2>1, <4>1, <5>2, <5>3 DEF Follows
        <5>5. Len(d) \in Nat
          BY LenProperties
        <5>6. m <= Len(e) /\ (got[b] # <<>> => m >= 1 /\ e[m] = got[b][Len(got[b])])
          <6>1. m >= 1 => m \in 1 .. Len(d)
            BY <5>4, <5>5
          <6> QED
            BY <3>3, <5>4, <5>5, <6>1
        <5> QED
          BY <1>own, <3>2, <4>1, <5>3, <5>6 DEF Follows
      <4>2. CASE fd[b] # f
        <5>1. data'[fd'[b]] = data[fd[b]]
          BY <1>own, <1>3, <3>6, <3>8, <4>2
        <5>2. Follows(b) => Follows(b)'
          BY <1>own, <5>1 DEF Follows
        <5>3. Emptied(b) => Emptied(b)'
          BY <1>own, <2>2, <5>1 DEF Emptied
        <5> QED
          BY <1>2, <3>8, <5>2, <5>3
      <4> QED
        BY <4>1, <4>2
    <3> QED
      BY <1>2, <3>2, <3>5, <3>6, <3>7, <3>8
  <2> QED
    BY <2>3, <2>4
<1>11. CASE WriteTimeout(w)
  <2>1. /\ pc'[w] \in {"writing", "closing"} /\ tries'[w] = tries[w] - 1
    BY <1>types, <1>11 DEF WriteTimeout
  <2>2. tries'[w] = Tries
    BY <1>1, <2>1 DEF OneSaver
  <2> QED
    BY <1>types, <2>1, <2>2
<1> QED
  BY <1>6, <1>7, <1>8, <1>9, <1>10, <1>11 DEF SaveStep, Mishap

\* What a build restores is an unbroken piece of one archive, as long as no more than one
\* other build has come to save: it appends to a file that it has emptied, in order, and
\* what it flushes after its unlock follows what is there.
THEOREM RestoresOneSave == Spec => []RestoredFromOneSave
<1> DEFINE Restores == \A b \in Builds : RestoreInv(b)
<1>1. Init => CursorInv /\ Restores
  <2> SUFFICES ASSUME Init, NEW b \in Builds PROVE RestoreInv(b)
    BY DEF Init, CursorInv
  <2>1. got[b] = <<>> /\ pc[b] = "start" /\ \A w \in Builds : pc[w] = "start"
    BY DEF Init
  <2>2. Unbroken(<<>>) /\ Unbroken(ArchiveOf(Seed))
    <3>1. ArchiveOf(Seed) \in Seq(Chunk) /\ DOMAIN ArchiveOf(Seed) = 1 .. Len(ArchiveOf(Seed))
      BY ArchiveType, LenProperties
    <3>2. \A k \in 1 .. Len(ArchiveOf(Seed)) : ArchiveOf(Seed)[k] = <<Seed, k>>
      BY <3>1 DEF ArchiveOf
    <3> QED
      BY <3>1, <3>2, OwnChunksUnbroken, EmptySeq DEF Unbroken
  <2>3. \A f \in Files : data[f] = <<>> \/ data[f] = ArchiveOf(Seed)
    BY DEF Init
  <2>4. \A w \in Builds : SaverAt(w)
    BY <2>1 DEF SaverAt
  <2> QED
    BY <2>1, <2>2, <2>3, <2>4 DEF Init, RestoreInv
<1>2. LockInv /\ TypeOK /\ CursorInv /\ Restores /\ [Next]_vars => CursorInv' /\ Restores'
  <2> SUFFICES ASSUME LockInv, TypeOK, CursorInv, Restores, [Next]_vars, NEW b \in Builds
               PROVE  RestoreInv(b)'
    BY CursorKept
  <2>1. ASSUME NEW w \in Builds,
               \/ RestoreStep(w) \/ SaveStep(w) \/ Mishap(w) \/ SkipSave(w) \/ OpenWrite(w)
               \/ OpenWriteFails(w)
        PROVE  RestoreInv(b)'
    BY <2>1, OwnStepRestores, OthersStepRestores
  <2>2. CASE UNCHANGED <<data, pc, fd, pos, next, tail, tries, got>>
    <3>1. OneSaver(b)' = OneSaver(b)
      BY <2>2 DEF OneSaver, MaySave
    <3>2. Follows(b)' = Follows(b) /\ Emptied(b)' = Emptied(b)
      BY <2>2 DEF Follows, Emptied
    <3>3. \A w \in Builds : SaverAt(w)' = SaverAt(w)
      BY <2>2 DEF SaverAt
    <3> QED
      BY <2>2, <3>1, <3>2, <3>3 DEF RestoreInv, Unbroken, MaySave
  <2> QED
    BY <2>1, <2>2 DEF Next, CleanCache, vars, writer
<1>3. Restores => RestoredFromOneSave
  <2> SUFFICES ASSUME Restores, NEW b \in Builds,
                      \A w \in Builds \ {b} : tries[w] = Tries,
                      \A v, w \in Builds \ {b} : MaySave(v) /\ MaySave(w) => v = w
               PROVE  Unbroken(got[b])
    BY DEF RestoredFromOneSave, Unbroken
  <2>1. OneSaver(b)
    BY DEF OneSaver
  <2> QED
    BY <2>1 DEF RestoreInv
<1> QED
  BY <1>1, <1>2, <1>3, Invariance, PTL DEF Spec

-----------------------------------------------------------------------------
(* How long an archive becomes. *)

\* The length of a file to which each try of a save has written an archive.
MaxLength == Tries * ArchiveSize

\* What a save has written at most that is at chunk n with t tries left.
Written(t, n) == (Tries - t) * ArchiveSize + (n - 1)

\* A chunk adds one to it, and another try starts from no less.
LEMMA WrittenGrows ==
  ASSUME NEW t \in 1..Tries, NEW n \in 1..(ArchiveSize + 1)
  PROVE  /\ Written(t, n) \in 0..MaxLength /\ MaxLength \in Nat
         /\ Written(t, n + 1) = Written(t, n) + 1
         /\ t > 1 => Written(t, n) <= Written(t - 1, 1) /\ Written(t - 1, 1) \in Nat
         /\ Written(Tries, 1) = 0
<1>1. ArchiveSize \in Nat /\ Tries \in Nat
  BY CacheAssumption
<1> DEFINE k == (Tries - t) * ArchiveSize
<1>2. k \in Nat /\ MaxLength \in Nat
  BY <1>1 DEF MaxLength
<1>3. k + ArchiveSize <= MaxLength
  <2>1. Tries * ArchiveSize = k + t * ArchiveSize
    BY <1>1
  <2>2. t * ArchiveSize = (t - 1) * ArchiveSize + ArchiveSize /\ (t - 1) * ArchiveSize \in Nat
    BY <1>1
  <2> HIDE DEF k
  <2> QED BY <1>1, <1>2, <2>1, <2>2 DEF MaxLength
<1>4. (Tries - (t - 1)) * ArchiveSize = k + ArchiveSize
  BY <1>1
<1>5. (Tries - Tries) * ArchiveSize = 0
  BY <1>1
<1>6. /\ Written(t, n) = k + (n - 1) /\ Written(t, n + 1) = k + (n + 1 - 1)
      /\ Written(t - 1, 1) = (Tries - (t - 1)) * ArchiveSize + (1 - 1)
      /\ Written(Tries, 1) = (Tries - Tries) * ArchiveSize + (1 - 1)
  BY DEF Written
<1> HIDE DEF k
<1> QED BY <1>1, <1>2, <1>3, <1>4, <1>5, <1>6

\* Where a build may be in its file.
PlaceBound(b) ==
  /\ pc[b] \in {"waitRead", "waitWrite"} => pos[b] = 0
  /\ pc[b] = "reading" => pos[b] <= MaxLength
  /\ pc[b] = "writing" =>
       pos[b] + (IF tail[b] THEN 1 ELSE 0) <= Written(tries[b], next[b])
  /\ pc[b] = "closing" /\ tail[b] => pos[b] + 1 <= MaxLength

SizeInv ==
  /\ \A f \in Files : Len(data[f]) <= MaxLength
  /\ \A b \in Builds : PlaceBound(b)

LEMMA PlaceKept ==
  ASSUME NEW b \in Builds, PlaceBound(b),
         UNCHANGED <<pc[b], pos[b], tail[b], tries[b], next[b]>>
  PROVE  PlaceBound(b)'
BY DEF PlaceBound, Written

\* A step that leaves the other builds where they are, and of which what it
\* writes and where it leaves its own build are within bounds.
LEMMA SizeStep ==
  ASSUME SizeInv, NEW b \in Builds, PlaceBound(b)',
         \A w \in Builds \ {b} : UNCHANGED <<pc[w], pos[w], tail[w], tries[w], next[w]>>,
         \A f \in Files : data'[f] = data[f] \/ Len(data'[f]) <= MaxLength
  PROVE  SizeInv'
<1>1. ASSUME NEW w \in Builds, w # b PROVE PlaceBound(w)'
  <2>1. UNCHANGED <<pc[w], pos[w], tail[w], tries[w], next[w]>> /\ PlaceBound(w)
    BY <1>1 DEF SizeInv
  <2> QED BY <2>1, PlaceKept
<1>2. \A f \in Files : Len(data'[f]) <= MaxLength
  BY DEF SizeInv
<1> QED BY <1>1, <1>2 DEF SizeInv

\* A write at a place within bounds leaves a file within them.
LEMMA WriteBound ==
  ASSUME NEW d \in Seq(Chunk), NEW p \in Nat, NEW c \in Chunk,
         Len(d) <= MaxLength, p + 1 <= MaxLength
  PROVE  Len(WriteAt(d, p, c)) <= MaxLength
BY WriteAtValue

\* No step leads beyond the bounds: another try appends a whole archive at most.
LEMMA NextSizeInv ==
  LockInv /\ TypeOK /\ CursorInv /\ SizeInv /\ [Next]_vars => SizeInv'
<1> SUFFICES ASSUME LockInv, TypeOK, CursorInv, SizeInv, [Next]_vars PROVE SizeInv'
  OBVIOUS
<1> USE DEF Goto, Release, Acquire, disk, writer, history
<1>1. /\ pc \in [Builds -> Phases] /\ pos \in [Builds -> Nat] /\ tail \in [Builds -> BOOLEAN]
      /\ next \in [Builds -> 1 .. ArchiveSize + 1] /\ tries \in [Builds -> 0 .. Tries]
      /\ data \in [Files -> Seq(Chunk)] /\ fd \in [Builds -> {0} \cup Files]
  BY DEF TypeOK
<1>2. ArchiveSize \in Nat \ {0} /\ Tries \in Nat \ {0} /\ MaxLength \in Nat
  BY CacheAssumption DEF MaxLength
<1>3. ASSUME NEW b \in Builds,
             \/ FindCache(b) \/ Lookup(b) \/ EndRead(b) \/ SkipSave(b) \/ OpenWriteFails(b)
             \/ Verify(b) \/ LockTimeout(b) \/ Kill(b) \/ RestoreError(b)
      PROVE  SizeInv'
  <2>1. /\ pc'[b] \notin {"waitRead", "reading", "waitWrite", "writing", "closing"}
        /\ \A w \in Builds \ {b} : UNCHANGED <<pc[w], pos[w], tail[w], tries[w], next[w]>>
        /\ data' = data
    BY <1>1, <1>3 DEF FindCache, Lookup, EndRead, SkipSave, OpenWriteFails, Verify, LockTimeout,
                      Kill,
                      RestoreError
  <2> QED BY <2>1, SizeStep DEF PlaceBound
<1>4. ASSUME NEW b \in Builds, OpenRead(b) \/ LockShared(b) PROVE SizeInv'
  <2>1. /\ pc'[b] \in {"waitRead", "reading", "failed"} /\ pos'[b] = 0
        /\ \A w \in Builds \ {b} : UNCHANGED <<pc[w], pos[w], tail[w], tries[w], next[w]>>
        /\ data' = data
    BY <1>1, <1>4 DEF OpenRead, LockShared, SizeInv, PlaceBound
  <2> QED BY <1>2, <2>1, SizeStep DEF PlaceBound
<1>5. ASSUME NEW b \in Builds, ReadChunk(b) PROVE SizeInv'
  <2>1. /\ pc'[b] = "reading" /\ pos'[b] = pos[b] + 1 /\ pos[b] < Len(data[fd[b]])
        /\ \A w \in Builds \ {b} : UNCHANGED <<pc[w], pos[w], tail[w], tries[w], next[w]>>
        /\ data' = data
    BY <1>1, <1>5 DEF ReadChunk
  <2>2. fd[b] \in Files
    BY <1>5 DEF ReadChunk, LockInv, PhaseLocks
  <2>3. Len(data[fd[b]]) <= MaxLength /\ Len(data[fd[b]]) \in Nat /\ pos[b] \in Nat
    BY <1>1, <2>2 DEF SizeInv
  <2>4. pos'[b] <= MaxLength
    BY <1>2, <2>1, <2>3
  <2> QED BY <2>1, <2>4, SizeStep DEF PlaceBound
<1>6. ASSUME NEW b \in Builds, PutTimeout(b) PROVE SizeInv'
  <2>1. /\ pc[b] = "reading" /\ pc'[b] \in {"reading", "failed"} /\ pos'[b] = pos[b]
        /\ \A w \in Builds \ {b} : UNCHANGED <<pc[w], pos[w], tail[w], tries[w], next[w]>>
        /\ data' = data
    BY <1>1, <1>6 DEF PutTimeout
  <2>2. pos[b] <= MaxLength
    BY <2>1 DEF SizeInv, PlaceBound
  <2> QED BY <2>1, <2>2, SizeStep DEF PlaceBound
<1>7. ASSUME NEW b \in Builds, OpenWrite(b) PROVE SizeInv'
  <2>1. /\ pc'[b] = "waitWrite" /\ pos'[b] = 0
        /\ \A w \in Builds \ {b} : UNCHANGED <<pc[w], pos[w], tail[w], tries[w], next[w]>>
    BY <1>1, <1>7 DEF OpenWrite
  <2>2. PICK g : data' = [data EXCEPT ![g] = <<>>]
    BY <1>7 DEF OpenWrite
  <2>3. \A f \in Files : data'[f] = data[f] \/ data'[f] = <<>>
    BY <1>1, <2>2
  <2>4. \A f \in Files : data'[f] = data[f] \/ Len(data'[f]) <= MaxLength
    BY <1>2, <2>3
  <2> QED BY <2>1, <2>4, SizeStep DEF PlaceBound
<1>8. ASSUME NEW b \in Builds, LockExclusive(b) PROVE SizeInv'
  <2>1. /\ pc[b] = "waitWrite" /\ pc'[b] = "writing" /\ pos'[b] = pos[b] /\ tail'[b] = tail[b]
        /\ tries'[b] = Tries /\ next'[b] = 1
        /\ \A w \in Builds \ {b} : UNCHANGED <<pc[w], pos[w], tail[w], tries[w], next[w]>>
        /\ data' = data
    BY <1>1, <1>8 DEF LockExclusive
  <2>2. pos[b] = 0 /\ ~tail[b]
    BY <2>1 DEF SizeInv, PlaceBound, CursorInv
  <2>3. Written(Tries, 1) = 0
    <3>1. Tries \in 1..Tries /\ 1 \in 1..(ArchiveSize + 1)
      BY <1>2
    <3> QED BY <3>1, WrittenGrows
  <2>4. pos'[b] + (IF tail'[b] THEN 1 ELSE 0) <= Written(tries'[b], next'[b])
    BY <2>1, <2>2, <2>3
  <2>5. PlaceBound(b)'
    BY <2>1, <2>4 DEF PlaceBound, Written
  <2> QED BY <2>1, <2>5, SizeStep
<1>9. ASSUME NEW b \in Builds, WriteChunk(b) PROVE SizeInv'
  <2>1. /\ pc[b] = "writing" /\ pc'[b] = "writing" /\ next[b] <= ArchiveSize
        /\ tries'[b] = tries[b] /\ next'[b] = next[b] + 1
        /\ \A w \in Builds \ {b} : UNCHANGED <<pc[w], pos[w], tail[w], tries[w], next[w]>>
    BY <1>1, <1>9 DEF WriteChunk
  <2>2. tries[b] \in 1..Tries /\ fd[b] \in Files /\ next[b] \in 1..ArchiveSize
    BY <1>1, <1>2, <2>1 DEF LockInv, PhaseLocks, TriesLeft
  <2>3. ~tail[b]
    BY <1>1, <1>2, <2>1 DEF CursorInv
  <2>4. pos[b] <= Written(tries[b], next[b]) /\ pos[b] \in Nat
    <3>1. pos[b] + 0 <= Written(tries[b], next[b])
      BY <2>1, <2>3 DEF SizeInv, PlaceBound
    <3> QED BY <1>1, <3>1
  <2>5. /\ Written(tries[b], next[b]) \in 0..MaxLength
        /\ Written(tries[b], next[b] + 1) = Written(tries[b], next[b]) + 1
        /\ Written(tries[b], next[b] + 1) \in 0..MaxLength
    BY <1>2, <2>2, WrittenGrows
  <2>6. pos[b] + 1 <= Written(tries'[b], next'[b]) /\ pos[b] + 1 <= MaxLength
    BY <1>2, <2>1, <2>4, <2>5
  <2>7. pos'[b] + (IF tail'[b] THEN 1 ELSE 0) \in {pos[b], pos[b] + 1}
    BY <1>1, <1>9, <2>3 DEF WriteChunk
  <2>8. PlaceBound(b)'
    <3>1. pos'[b] + (IF tail'[b] THEN 1 ELSE 0) <= Written(tries'[b], next'[b])
      BY <1>2, <2>1, <2>4, <2>5, <2>6, <2>7
    <3> QED BY <2>1, <3>1 DEF PlaceBound, Written
  <2>9. \A f \in Files : data'[f] = data[f] \/ Len(data'[f]) <= MaxLength
    <3>1. /\ data[fd[b]] \in Seq(Chunk) /\ Len(data[fd[b]]) <= MaxLength
          /\ <<b, next[b]>> \in Chunk
      BY <1>1, <2>2 DEF SizeInv, Chunk
    <3>2. Len(WriteAt(data[fd[b]], pos[b], <<b, next[b]>>)) <= MaxLength
      BY <2>4, <2>6, <3>1, WriteBound
    <3>3. \/ data' = data
          \/ data' = [data EXCEPT ![fd[b]] = WriteAt(data[fd[b]], pos[b], <<b, next[b]>>)]
      BY <1>9 DEF WriteChunk
    <3> QED BY <1>1, <2>2, <3>2, <3>3
  <2> QED BY <2>1, <2>8, <2>9, SizeStep
<1>10. ASSUME NEW b \in Builds, WriteTimeout(b) PROVE SizeInv'
  <2>1. /\ pc[b] = "writing" /\ next[b] <= ArchiveSize
        /\ tail'[b] = tail[b] /\ pos'[b] = pos[b]
        /\ \A w \in Builds \ {b} : UNCHANGED <<pc[w], pos[w], tail[w], tries[w], next[w]>>
        /\ data' = data
    BY <1>1, <1>10 DEF WriteTimeout
  <2>2. tries[b] \in 1..Tries /\ next[b] \in 1..ArchiveSize
    BY <1>1, <1>2, <2>1 DEF LockInv, PhaseLocks, TriesLeft
  <2>3. ~tail[b]
    BY <1>1, <1>2, <2>1 DEF CursorInv
  <2>4. pos[b] <= Written(tries[b], next[b]) /\ pos[b] \in Nat
    <3>1. pos[b] + 0 <= Written(tries[b], next[b])
      BY <2>1, <2>3 DEF SizeInv, PlaceBound
    <3> QED BY <1>1, <3>1
  <2>5. CASE tries[b] > 1
    <3>1. pc'[b] = "writing" /\ tries'[b] = tries[b] - 1 /\ next'[b] = 1
      BY <1>1, <1>10, <2>1, <2>5 DEF WriteTimeout
    <3>2. /\ Written(tries[b], next[b]) <= Written(tries[b] - 1, 1)
          /\ Written(tries[b], next[b]) \in 0..MaxLength /\ Written(tries[b] - 1, 1) \in Nat
      BY <1>2, <2>2, <2>5, WrittenGrows
    <3>3. pos'[b] + (IF tail'[b] THEN 1 ELSE 0) <= Written(tries'[b], next'[b])
      BY <2>1, <2>3, <2>4, <3>1, <3>2
    <3>4. PlaceBound(b)'
      BY <3>1, <3>3 DEF PlaceBound, Written
    <3> QED BY <2>1, <3>4, SizeStep
  <2>6. CASE ~(tries[b] > 1)
    <3>1. pc'[b] = "closing"
      BY <1>1, <1>10, <2>6 DEF WriteTimeout
    <3>2. PlaceBound(b)'
      BY <2>1, <2>3, <3>1 DEF PlaceBound
    <3> QED BY <2>1, <3>2, SizeStep
  <2> QED BY <2>5, <2>6
<1>11. ASSUME NEW b \in Builds, Unlock(b) PROVE SizeInv'
  <2>1. /\ pc[b] = "writing" /\ pc'[b] = "closing" /\ tail'[b] = tail[b] /\ pos'[b] = pos[b]
        /\ \A w \in Builds \ {b} : UNCHANGED <<pc[w], pos[w], tail[w], tries[w], next[w]>>
        /\ data' = data
    BY <1>1, <1>11 DEF Unlock
  <2>2. tries[b] \in 1..Tries /\ next[b] \in 1..(ArchiveSize + 1) /\ pos[b] \in Nat
    BY <1>1, <1>2, <2>1 DEF LockInv, PhaseLocks, TriesLeft
  <2>3. Written(tries[b], next[b]) \in 0..MaxLength
    BY <2>2, WrittenGrows
  <2>4. tail[b] => pos[b] + 1 <= Written(tries[b], next[b])
    BY <2>1 DEF SizeInv, PlaceBound
  <2>5. tail[b] => pos[b] + 1 <= MaxLength
    BY <1>2, <2>2, <2>3, <2>4
  <2> QED BY <2>1, <2>5, SizeStep DEF PlaceBound
<1>14. ASSUME NEW b \in Builds, SaveError(b) PROVE SizeInv'
  <2>1. /\ pc[b] = "writing" /\ pc'[b] = "closing" /\ tail'[b] = tail[b] /\ next[b] <= ArchiveSize
        /\ \A w \in Builds \ {b} : UNCHANGED <<pc[w], pos[w], tail[w], tries[w], next[w]>>
        /\ data' = data
    BY <1>1, <1>14 DEF SaveError
  <2>2. ~tail[b]
    BY <1>1, <1>2, <2>1 DEF CursorInv
  <2> QED BY <2>1, <2>2, SizeStep DEF PlaceBound
<1>12. ASSUME NEW b \in Builds, Close(b) PROVE SizeInv'
  <2>1. /\ pc[b] = "closing" /\ pc'[b] = "verify"
        /\ \A w \in Builds \ {b} : UNCHANGED <<pc[w], pos[w], tail[w], tries[w], next[w]>>
    BY <1>1, <1>12 DEF Close
  <2>2. fd[b] \in Files
    BY <2>1 DEF LockInv, PhaseLocks
  <2>3. CASE tail[b]
    <3>1. pos[b] + 1 <= MaxLength /\ pos[b] \in Nat
      BY <1>1, <2>1, <2>3 DEF SizeInv, PlaceBound
    <3>2. /\ data[fd[b]] \in Seq(Chunk) /\ Len(data[fd[b]]) <= MaxLength
          /\ <<b, ArchiveSize>> \in Chunk
      BY <1>1, <1>2, <2>2 DEF SizeInv, Chunk
    <3>3. Len(WriteAt(data[fd[b]], pos[b], <<b, ArchiveSize>>)) <= MaxLength
      BY <3>1, <3>2, WriteBound
    <3>4. data' = [data EXCEPT ![fd[b]] = WriteAt(data[fd[b]], pos[b], <<b, ArchiveSize>>)]
      BY <1>12, <2>3 DEF Close
    <3>5. \A f \in Files : data'[f] = data[f] \/ Len(data'[f]) <= MaxLength
      BY <1>1, <2>2, <3>3, <3>4
    <3> QED BY <2>1, <3>5, SizeStep DEF PlaceBound
  <2>4. CASE ~tail[b]
    <3>1. data' = data
      BY <1>12, <2>4 DEF Close
    <3> QED BY <2>1, <3>1, SizeStep DEF PlaceBound
  <2> QED BY <2>3, <2>4
<1>13. CASE CleanCache \/ UNCHANGED vars
  <2>1. UNCHANGED <<data, pc, pos, tail, tries, next>>
    BY <1>13 DEF CleanCache, vars
  <2>2. \A b \in Builds : PlaceBound(b)'
    BY <2>1, PlaceKept DEF SizeInv
  <2> QED BY <2>1, <2>2 DEF SizeInv
<1> QED
  BY <1>3, <1>4, <1>5, <1>6, <1>7, <1>8, <1>9, <1>10, <1>11, <1>12, <1>13, <1>14
  DEF Next, RestoreStep, SaveStep, Mishap

LEMMA SizeInvHolds == Spec => []SizeInv
<1>1. Init => CursorInv
  BY DEF Init, CursorInv
<1>2. Spec => []CursorInv
  BY <1>1, CursorKept, Invariance, PTL DEF Spec
<1>3. Init => SizeInv
  <2> SUFFICES ASSUME Init PROVE SizeInv
    OBVIOUS
  <2>1. \A b \in Builds : PlaceBound(b)
    BY DEF Init, PlaceBound
  <2>2. ArchiveSize \in Nat /\ Tries \in Nat \ {0}
    BY CacheAssumption
  <2>3. ArchiveSize <= MaxLength /\ 0 <= MaxLength
    <3>1. Tries * ArchiveSize = (Tries - 1) * ArchiveSize + ArchiveSize
          /\ (Tries - 1) * ArchiveSize \in Nat
      BY <2>2
    <3> QED BY <2>2, <3>1 DEF MaxLength
  <2>4. Len(<<>>) = 0 /\ Len(ArchiveOf(Seed)) = ArchiveSize
    BY <2>2, ArchiveType DEF ArchiveOf
  <2>5. \A f \in Files : data[f] \in {<<>>, ArchiveOf(Seed)}
    BY DEF Init
  <2>6. \A f \in Files : Len(data[f]) <= MaxLength
    BY <2>3, <2>4, <2>5
  <2> QED BY <2>1, <2>6 DEF SizeInv
<1> QED BY <1>2, <1>3, NextSizeInv, Invariance, PTL DEF Spec

\* A save that is tried again appends the archive once more, but a file gets no longer than
\* an archive for each try of one save: what the saves of several builds append does not add
\* up, since each empties the file and writes from a place of its own (save_caches).
THEOREM ArchivesBounded == Spec => [](\A f \in Files : Len(data[f]) <= MaxLength)
BY SizeInvHolds, PTL DEF SizeInv

-----------------------------------------------------------------------------
(* Progress. *)

\* A build waits for one that reads or writes, never for one that waits itself.
WaitersBehindHolders ==
  \A b \in Builds :
    /\ pc[b] = "waitRead" /\ ~Lockable(b, "shared") =>
         \E w \in Builds \ {b} : fd[w] = fd[b] /\ pc[w] = "writing"
    /\ pc[b] = "waitWrite" /\ ~Lockable(b, "exclusive") =>
         \E h \in Builds \ {b} : fd[h] = fd[b] /\ pc[h] \in {"reading", "writing"}

\* The locks cannot be waited for in a circle, for any number of builds that open, lock and
\* clean the archive in any order (acquire_flock_open_read_binary,
\* acquire_flock_open_write_binary).
THEOREM NoCircularWait == Spec => []WaitersBehindHolders
<1>1. LockInv => WaitersBehindHolders
  <2> SUFFICES ASSUME LockInv, NEW b \in Builds
               PROVE  /\ pc[b] = "waitRead" /\ ~Lockable(b, "shared") =>
                           \E w \in Builds \ {b} : fd[w] = fd[b] /\ pc[w] = "writing"
                      /\ pc[b] = "waitWrite" /\ ~Lockable(b, "exclusive") =>
                           \E h \in Builds \ {b} : fd[h] = fd[b] /\ pc[h] \in {"reading", "writing"}
    BY DEF WaitersBehindHolders
  <2>1. \A h \in Builds : /\ lock[h] = "exclusive" => pc[h] = "writing"
                          /\ lock[h] # "none" => pc[h] \in {"reading", "writing"}
    BY DEF LockInv, PhaseLocks
  <2> QED BY <2>1 DEF Lockable
<1> QED BY <1>1, LockInvariance, PTL

\* The chunks that are left to a save that is at chunk n with t tries left.
ChunksLeft(t, n) == (t - 1) * (ArchiveSize + 1) + (ArchiveSize + 1 - n)
WritesLeft(b) == ChunksLeft(tries[b], next[b])
AllWrites == Tries * (ArchiveSize + 1)

\* A chunk leaves less, and so does another attempt from the beginning.
LEMMA ChunksRunOut ==
  ASSUME NEW t \in 1..Tries, NEW n \in 1..ArchiveSize
  PROVE  /\ ChunksLeft(t, n) \in 1..AllWrites
         /\ ChunksLeft(t, n + 1) \in 0..(ChunksLeft(t, n) - 1)
         /\ t > 1 => ChunksLeft(t - 1, 1) \in 0..(ChunksLeft(t, n) - 1)
<1> DEFINE m == ArchiveSize + 1
<1>1. ArchiveSize \in Nat /\ Tries \in Nat /\ m = ArchiveSize + 1 /\ m \in Nat
  BY CacheAssumption
<1> HIDE DEF m
<1> DEFINE k == (t - 1) * m
<1>2. k \in Nat
  BY <1>1
<1>3. k + m <= Tries * m /\ Tries * m \in Nat
  <2>1. t * m = k + m
    BY <1>1
  <2>2. Tries * m = t * m + (Tries - t) * m /\ (Tries - t) * m \in Nat
    BY <1>1
  <2> HIDE DEF k
  <2> QED BY <1>1, <1>2, <2>1, <2>2
<1>4. t > 1 => (t - 2) * m = k - m /\ (t - 2) * m \in Nat
  BY <1>1
<1>5. /\ ChunksLeft(t, n) = k + (m - n) /\ ChunksLeft(t, n + 1) = k + (m - (n + 1))
      /\ AllWrites = Tries * m
  BY <1>1 DEF ChunksLeft, AllWrites
<1>6. t > 1 => ChunksLeft(t - 1, 1) = (t - 2) * m + (m - 1)
  BY <1>1 DEF ChunksLeft
<1> HIDE DEF k
<1> QED BY <1>1, <1>2, <1>3, <1>4, <1>5, <1>6

\* A save that has the lock comes to its end, for any archive size and number of tries: each
\* of its chunks and each timeout is one of those it has left, and nothing that another build
\* does takes one from it (save_caches, _write_cache).
THEOREM SavesRunOut ==
  Spec => [][\A b \in Builds : lock[b] = "exclusive" /\ lock'[b] = "exclusive" =>
               \/ /\ WritesLeft(b) \in 1..AllWrites
                  /\ WritesLeft(b)' \in 0..(WritesLeft(b) - 1)
               \/ UNCHANGED <<pc[b], tries[b], next[b], fd[b]>>]_vars
<1>1. ASSUME LockInv, TypeOK, Next, NEW b \in Builds, lock[b] = "exclusive", lock'[b] = "exclusive"
      PROVE  \/ /\ WritesLeft(b) \in 1..AllWrites
                /\ WritesLeft(b)' \in 0..(WritesLeft(b) - 1)
             \/ UNCHANGED <<pc[b], tries[b], next[b], fd[b]>>
  <2>1. /\ pc \in [Builds -> Phases] /\ next \in [Builds -> 1 .. ArchiveSize + 1]
        /\ tries \in [Builds -> 0 .. Tries] /\ fd \in [Builds -> {0} \cup Files]
        /\ lock \in [Builds -> {"none", "shared", "exclusive"}]
        /\ ArchiveSize \in Nat \ {0} /\ Tries \in Nat \ {0}
    BY <1>1, CacheAssumption DEF TypeOK
  <2>2. pc[b] = "writing" /\ tries[b] \in 1..Tries /\ next[b] \in 1..(ArchiveSize + 1)
    BY <1>1, <2>1 DEF LockInv, PhaseLocks, TriesLeft
  <2>3. ASSUME NEW c \in Builds, c # b, RestoreStep(c) \/ SaveStep(c) \/ Mishap(c)
                                          \/ SkipSave(c) \/ OpenWrite(c) \/ OpenWriteFails(c)
        PROVE  UNCHANGED <<pc[b], tries[b], next[b], fd[b]>>
    <3> USE DEF Goto, Release, Acquire, writer
    <3>1. CASE RestoreStep(c)
      BY <2>1, <2>3, <3>1
      DEF RestoreStep, FindCache, Lookup, OpenRead, LockShared, ReadChunk, EndRead
    <3>2. CASE SaveStep(c)
      BY <2>1, <2>3, <3>2 DEF SaveStep, LockExclusive, WriteChunk, Unlock, Close, Verify
    <3>3. CASE Mishap(c)
      BY <2>1, <2>3, <3>3 DEF Mishap, PutTimeout, WriteTimeout, LockTimeout, Kill, RestoreError,
                              SaveError
    <3>4. CASE SkipSave(c) \/ OpenWrite(c) \/ OpenWriteFails(c)
      BY <2>1, <2>3, <3>4 DEF SkipSave, OpenWrite, OpenWriteFails
    <3> QED BY <2>3, <3>1, <3>2, <3>3, <3>4
  <2>4. CASE WriteChunk(b)
    <3>1. tries'[b] = tries[b] /\ next[b] <= ArchiveSize /\ next'[b] = next[b] + 1
      BY <2>1, <2>4 DEF WriteChunk
    <3>2. next[b] \in 1..ArchiveSize
      BY <2>1, <2>2, <3>1
    <3> QED BY <2>2, <3>1, <3>2, ChunksRunOut DEF WritesLeft
  <2>5. CASE WriteTimeout(b)
    <3>1. tries[b] > 1
      BY <1>1, <2>1, <2>5 DEF WriteTimeout
    <3>2. tries'[b] = tries[b] - 1 /\ next[b] <= ArchiveSize /\ next'[b] = 1
      BY <2>1, <2>5, <3>1 DEF WriteTimeout
    <3>3. next[b] \in 1..ArchiveSize
      BY <2>1, <2>2, <3>2
    <3> QED BY <2>2, <3>1, <3>2, <3>3, ChunksRunOut DEF WritesLeft
  <2>6. CASE CleanCache
    <3>1. UNCHANGED <<pc, tries, next, fd>>
      BY <2>6 DEF CleanCache, writer
    <3> QED BY <3>1
  <2>7. ~RestoreStep(b)
    BY <2>2 DEF RestoreStep, FindCache, Lookup, OpenRead, LockShared, ReadChunk, EndRead
  <2>8. SaveStep(b) => WriteChunk(b)
    <3>1. ~LockExclusive(b) /\ ~Close(b) /\ ~Verify(b)
      BY <2>2 DEF LockExclusive, Close, Verify
    <3>2. ~Unlock(b)
      BY <1>1, <2>1 DEF Unlock
    <3> QED BY <3>1, <3>2 DEF SaveStep
  <2>9. Mishap(b) => WriteTimeout(b)
    <3>1. ~PutTimeout(b) /\ ~LockTimeout(b)
      BY <2>2 DEF PutTimeout, LockTimeout
    <3>2. ~Kill(b) /\ ~RestoreError(b) /\ ~SaveError(b)
      BY <1>1, <2>1 DEF Kill, RestoreError, SaveError, Release
    <3> QED BY <3>1, <3>2 DEF Mishap
  <2>10. ~SkipSave(b) /\ ~OpenWrite(b) /\ ~OpenWriteFails(b)
    BY <2>2 DEF SkipSave, OpenWrite, OpenWriteFails
  <2> QED BY <1>1, <2>3, <2>4, <2>5, <2>6, <2>7, <2>8, <2>9, <2>10 DEF Next
<1>2. ASSUME LockInv, TypeOK, [Next]_vars
      PROVE  [\A b \in Builds : lock[b] = "exclusive" /\ lock'[b] = "exclusive" =>
                \/ /\ WritesLeft(b) \in 1..AllWrites
                   /\ WritesLeft(b)' \in 0..(WritesLeft(b) - 1)
                \/ UNCHANGED <<pc[b], tries[b], next[b], fd[b]>>]_vars
  BY <1>1, <1>2
<1> QED BY <1>2, Invariance, PTL DEF Spec

\* The chunks and attempts that are left to an upload; the file may be emptied under it.
ReadsLeft(b) == (MaxLength - pos[b]) + tries[b]

\* An upload that has the lock comes to its end, however its file grows or shrinks meanwhile:
\* it goes on from its place in it, which the longest archive bounds, and nothing that another
\* build does takes it back (restore_caches, _put_cache_in_container).
THEOREM RestoresRunOut ==
  Spec => [][\A b \in Builds : lock[b] = "shared" /\ lock'[b] = "shared" =>
               \/ /\ ReadsLeft(b) \in 1..(MaxLength + Tries)
                  /\ ReadsLeft(b)' \in 0..(ReadsLeft(b) - 1)
               \/ UNCHANGED <<pc[b], tries[b], pos[b], fd[b]>>]_vars
<1>1. ASSUME LockInv, TypeOK, SizeInv, SizeInv', Next, NEW b \in Builds,
             lock[b] = "shared", lock'[b] = "shared"
      PROVE  \/ /\ ReadsLeft(b) \in 1..(MaxLength + Tries)
                /\ ReadsLeft(b)' \in 0..(ReadsLeft(b) - 1)
             \/ UNCHANGED <<pc[b], tries[b], pos[b], fd[b]>>
  <2>1. /\ pc \in [Builds -> Phases] /\ pos \in [Builds -> Nat]
        /\ tries \in [Builds -> 0 .. Tries] /\ fd \in [Builds -> {0} \cup Files]
        /\ lock \in [Builds -> {"none", "shared", "exclusive"}]
        /\ Tries \in Nat \ {0} /\ MaxLength \in Nat
    BY <1>1, CacheAssumption DEF TypeOK, MaxLength
  <2>2. pc[b] = "reading" /\ tries[b] \in 1..Tries /\ pos[b] \in 0..MaxLength
    BY <1>1, <2>1 DEF LockInv, PhaseLocks, TriesLeft, SizeInv, PlaceBound
  <2>3. ASSUME NEW c \in Builds, c # b, RestoreStep(c) \/ SaveStep(c) \/ Mishap(c)
                                          \/ SkipSave(c) \/ OpenWrite(c) \/ OpenWriteFails(c)
        PROVE  UNCHANGED <<pc[b], tries[b], pos[b], fd[b]>>
    <3> USE DEF Goto, Release, Acquire, writer
    <3>1. CASE RestoreStep(c)
      BY <2>1, <2>3, <3>1
      DEF RestoreStep, FindCache, Lookup, OpenRead, LockShared, ReadChunk, EndRead
    <3>2. CASE SaveStep(c)
      BY <2>1, <2>3, <3>2 DEF SaveStep, LockExclusive, WriteChunk, Unlock, Close, Verify
    <3>3. CASE Mishap(c)
      BY <2>1, <2>3, <3>3 DEF Mishap, PutTimeout, WriteTimeout, LockTimeout, Kill, RestoreError,
                              SaveError
    <3>4. CASE SkipSave(c) \/ OpenWrite(c) \/ OpenWriteFails(c)
      BY <2>1, <2>3, <3>4 DEF SkipSave, OpenWrite, OpenWriteFails
    <3> QED BY <2>3, <3>1, <3>2, <3>3, <3>4
  <2>4. CASE ReadChunk(b)
    <3>1. tries'[b] = tries[b] /\ pos'[b] = pos[b] + 1 /\ pc'[b] = "reading"
      BY <2>1, <2>2, <2>4 DEF ReadChunk
    <3>2. pos[b] + 1 <= MaxLength
      BY <1>1, <3>1 DEF SizeInv, PlaceBound
    <3> QED BY <2>1, <2>2, <3>1, <3>2 DEF ReadsLeft, MaxLength
  <2>5. CASE PutTimeout(b)
    <3>1. tries'[b] = tries[b] - 1 /\ pos'[b] = pos[b]
      BY <2>1, <2>5 DEF PutTimeout
    <3> QED BY <2>1, <2>2, <3>1 DEF ReadsLeft, MaxLength
  <2>6. CASE CleanCache
    <3>1. UNCHANGED <<pc, tries, pos, fd>>
      BY <2>6 DEF CleanCache
    <3> QED BY <3>1
  <2>7. RestoreStep(b) => ReadChunk(b)
    <3>1. ~FindCache(b) /\ ~Lookup(b) /\ ~OpenRead(b) /\ ~LockShared(b)
      BY <2>2 DEF FindCache, Lookup, OpenRead, LockShared
    <3>2. ~EndRead(b)
      BY <1>1, <2>1 DEF EndRead, Release
    <3> QED BY <3>1, <3>2 DEF RestoreStep
  <2>8. ~SaveStep(b)
    BY <2>2 DEF SaveStep, LockExclusive, WriteChunk, Unlock, Close, Verify
  <2>9. Mishap(b) => PutTimeout(b)
    <3>1. ~WriteTimeout(b) /\ ~LockTimeout(b)
      BY <2>2 DEF WriteTimeout, LockTimeout
    <3>2. ~Kill(b) /\ ~RestoreError(b) /\ ~SaveError(b)
      BY <1>1, <2>1 DEF Kill, RestoreError, SaveError, Release
    <3> QED BY <3>1, <3>2 DEF Mishap
  <2>10. ~SkipSave(b) /\ ~OpenWrite(b) /\ ~OpenWriteFails(b)
    BY <2>2 DEF SkipSave, OpenWrite, OpenWriteFails
  <2> QED BY <1>1, <2>3, <2>4, <2>5, <2>6, <2>7, <2>8, <2>9, <2>10 DEF Next
<1>2. ASSUME LockInv, TypeOK, SizeInv, SizeInv', [Next]_vars
      PROVE  [\A b \in Builds : lock[b] = "shared" /\ lock'[b] = "shared" =>
                \/ /\ ReadsLeft(b) \in 1..(MaxLength + Tries)
                   /\ ReadsLeft(b)' \in 0..(ReadsLeft(b) - 1)
                \/ UNCHANGED <<pc[b], tries[b], pos[b], fd[b]>>]_vars
  BY <1>1, <1>2
<1> QED BY <1>2, Invariance, SizeInvHolds, PTL DEF Spec

=============================================================================
