---------------------- MODULE MultiPlatformBuildProofs ----------------------
(***************************************************************************)
(* Proofs about MultiPlatformBuild, for any platforms and any numbers of   *)
(* builds, attempts and tags, and that it implements PlatformBuilds.       *)
(***************************************************************************)
EXTENDS MultiPlatformBuild, FiniteSetTheorems, SequenceTheorems, TLAPS

-----------------------------------------------------------------------------
(* Types. *)

LEMMA InitType == Init => TypeOK
<1> SUFFICES ASSUME Init PROVE TypeOK
  OBVIOUS
<1>1. NBuilds \in Nat /\ MaxTags \in Nat /\ Tries \in Nat \ {0} /\ PushTries \in Nat \ {0}
  BY MultiPlatformAssumption
<1>2. /\ at \in (1..(NBuilds + 1)) \X (1..(MaxTags + 1))
      /\ pushTries \in 1..PushTries /\ left \in 0..MaxTags /\ current \in 0..NBuilds
  BY <1>1 DEF Init
<1>3. /\ tagged \in [1..NBuilds -> 0..MaxTags] /\ tries \in [Platforms -> 1..Tries]
  BY <1>1 DEF Init
<1>4. /\ stored \in [Refs -> 0..Tries] /\ local \in [Refs -> 0..Tries]
  BY <1>1 DEF Init
<1>5. /\ queue \in Seq(Entries) /\ images \in [1..NBuilds -> Seq(Entries)]
      /\ remote \in [Places -> SUBSET Entries]
  BY DEF Init
<1>6. /\ platforms \in [1..NBuilds -> SUBSET Platforms]
      /\ pc \in [Platforms -> Active \cup {"none", "done", "dead"}]
  BY DEF Init
<1> QED BY <1>2, <1>3, <1>4, <1>5, <1>6 DEF Init, TypeOK

LEMMA ThreadType == ASSUME TypeOK, NEW p \in Platforms, Thread(p), current \in 1..NBuilds
                    PROVE  TypeOK'
<1> USE MultiPlatformAssumption DEF TypeOK, Refs, Ref, Entries, Active, Move, build, push, history
<1>1. CASE BuildImage(p)
  <2>1. Tries - tries[p] + 1 \in 0..Tries
    OBVIOUS
  <2>2. local' \in [Refs -> 0..Tries]
    BY <1>1, <2>1 DEF BuildImage
  <2> QED BY <1>1, <2>2 DEF BuildImage
<1>2. CASE PushImage(p)
  BY <1>2 DEF PushImage
<1>3. CASE ReportDigest(p)
  <2>1. Ref(p) \in Refs
    OBVIOUS
  <2>2. stored[Ref(p)] \in 0..Tries /\ stored[Ref(p)] # 0
    BY <1>3, <2>1 DEF ReportDigest
  <2>3. <<p, stored[Ref(p)]>> \in Entries
    <3>1. \A n \in 0..Tries : n # 0 => n \in 1..Tries
      OBVIOUS
    <3> QED BY <2>2, <3>1
  <2>4. queue' \in Seq(Entries)
    BY <1>3, <2>3 DEF ReportDigest
  <2> QED BY <1>3, <2>4 DEF ReportDigest
<1>4. CASE DockerError(p)
  <2>1. stored' \in [Refs -> 0..Tries]
    BY <1>4 DEF DockerError
  <2>2. tries' \in [Platforms -> 1..Tries]
    <3>1. tries[p] > 1 => tries[p] - 1 \in 1..Tries
      OBVIOUS
    <3> QED BY <1>4, <3>1 DEF DockerError
  <2>3. pc' \in [Platforms -> Active \cup {"none", "done", "dead"}]
    BY <1>4 DEF DockerError
  <2> QED BY <1>4, <2>1, <2>2, <2>3 DEF DockerError
<1>5. CASE ThreadError(p)
  BY <1>5 DEF ThreadError
<1> QED BY <1>1, <1>2, <1>3, <1>4, <1>5 DEF Thread

LEMMA BuildType == ASSUME TypeOK, BeginBuild \/ MainBuild, main # "idle" => current \in 1..NBuilds
                   PROVE  TypeOK'
<1> USE MultiPlatformAssumption DEF TypeOK, Refs, Active, build, push, history, threads, Fail
<1>1. CASE BeginBuild
  <2>1. PICK P \in SUBSET Platforms :
          platforms' = [platforms EXCEPT ![current + 1] = P] /\ unclaimed' = P
    BY <1>1 DEF BeginBuild
  <2>2. platforms' \in [1..NBuilds -> SUBSET Platforms] /\ unclaimed' \subseteq Platforms
    BY <2>1
  <2>3. current' \in 0..NBuilds
    BY <1>1 DEF BeginBuild
  <2> QED BY <1>1, <2>2, <2>3 DEF BeginBuild
<1>2. CASE StartRegistry
  BY <1>2 DEF StartRegistry
<1>3. CASE RegistryFails
  BY <1>3 DEF RegistryFails
<1>4. CASE StartThreads
  <2>1. /\ pc' \in [Platforms -> Active \cup {"none", "done", "dead"}]
        /\ tries' \in [Platforms -> 1..Tries] /\ queue' \in Seq(Entries)
    BY <1>4 DEF StartThreads
  <2> QED BY <1>4, <2>1 DEF StartThreads
<1>5. CASE Join
  BY <1>5 DEF Join
<1>6. CASE Claim
  <2>1. Head(queue) \in Entries /\ Tail(queue) \in Seq(Entries)
    BY <1>6 DEF Claim
  <2>2. images' \in [1..NBuilds -> Seq(Entries)]
    BY <1>6, <2>1 DEF Claim
  <2> QED BY <1>6, <2>1, <2>2 DEF Claim
<1>7. CASE EndClaims
  BY <1>7 DEF EndClaims
<1> QED BY <1>1, <1>2, <1>3, <1>4, <1>5, <1>6, <1>7 DEF MainBuild, BeginBuild

LEMMA TagType == ASSUME TypeOK, TagStep, current \in 1..NBuilds PROVE TypeOK'
<1> USE MultiPlatformAssumption DEF TypeOK, Refs, Ref, build, push, history, threads, Fail
<1>1. CASE AddTags
  <2> USE DEF AddTags
  <2>1. PICK n \in 1..(MaxTags - tagged[current]) :
          /\ tagged' = [tagged EXCEPT ![current] = @ + n]
          /\ left' = tagged[current] + n
    BY <1>1 DEF AddTags
  <2>2. tagged[current] \in 0..MaxTags /\ MaxTags \in Nat
    OBVIOUS
  <2>3. tagged[current] + n \in 0..MaxTags
    BY <2>1, <2>2
  <2>4. tagged' \in [1..NBuilds -> 0..MaxTags] /\ left' \in 0..MaxTags
    BY <2>1, <2>3
  <2>5. main' \in {"tag", "closing"} /\ failure' \in {"none", "build", "docker", "timeout"}
    BY <1>1
  <2> QED BY <1>1, <2>4, <2>5
<1>2. CASE TagsDone
  BY <1>2 DEF TagsDone
<1>3. ASSUME main = "tag", NEW i \in DOMAIN images[current], TagNative(i) PROVE TypeOK'
  <2>1. left' \in 0..MaxTags
    BY <1>3 DEF TagNative
  <2>2. local' \in [Refs -> 0..Tries]
    <3>1. local' = [local EXCEPT ![Ref(images[current][i][1])] = 0]
      BY <1>3 DEF TagNative
    <3>2. local \in [Refs -> 0..Tries] /\ 0 \in 0..Tries
      OBVIOUS
    <3> HIDE DEF TypeOK, Ref, Refs
    <3> QED BY <3>1, <3>2
  <2> QED BY <1>3, <2>1, <2>2 DEF TagNative
<1>4. ASSUME main = "tag", NEW i \in DOMAIN images[current], TagNativeFails(i) PROVE TypeOK'
  <2>1. images[current][i][1] \in Platforms
    BY DEF Entries
  <2>2. local' \in [Refs -> 0..Tries]
    <3>1. Ref(images[current][i][1]) \in Refs
      BY <2>1
    <3>2. stored[Ref(images[current][i][1])] \in 0..Tries
      BY <3>1
    <3>3. local' \in {local, [local EXCEPT ![Ref(images[current][i][1])] = stored[Ref(images[current][i][1])]]}
      BY <1>4 DEF TagNativeFails
    <3>4. local \in [Refs -> 0..Tries]
      OBVIOUS
    <3> HIDE DEF TypeOK, Ref, Refs
    <3> QED BY <3>1, <3>2, <3>3, <3>4
  <2> QED BY <1>4, <2>2 DEF TagNativeFails
<1> QED BY <1>1, <1>2, <1>3, <1>4 DEF TagStep

\* What a manifest names are images of its build.
LEMMA CreateType ==
  ASSUME TypeOK, Pushing, Create
  PROVE  remote' \in [Places -> SUBSET Entries]
<1>1. at[1] \in 1..NBuilds
  BY MultiPlatformAssumption DEF TypeOK, Pushing
<1> DEFINE manifest(p) == <<p, stored[<<at[1], p>>]>>
<1>2. Claimed(at[1]) \subseteq Platforms
  BY <1>1 DEF TypeOK, Claimed, Entries
<1>3. ASSUME NEW p \in Claimed(at[1]) PROVE manifest(p) \in Entries
  <2>1. p \in Platforms /\ <<at[1], p>> \in Refs
    BY <1>1, <1>2 DEF Refs
  <2>2. stored[<<at[1], p>>] \in 0..Tries /\ stored[<<at[1], p>>] # 0
    BY <2>1 DEF TypeOK, Create
  <2> QED BY <2>1, <2>2, MultiPlatformAssumption DEF Entries
<1> HIDE DEF manifest
<1>4. {manifest(p) : p \in Claimed(at[1])} \in SUBSET Entries
  BY <1>3
<1> QED BY <1>4 DEF Create, TypeOK, manifest

LEMMA PushType == ASSUME TypeOK, PushStep PROVE TypeOK'
<1> USE MultiPlatformAssumption DEF TypeOK, build, push, history, threads, Fail
<1>0. /\ at[1] \in 1..(NBuilds + 1) /\ at[2] \in 1..(MaxTags + 1) /\ NBuilds \in Nat /\ MaxTags \in Nat
      /\ at[1] <= current => at[1] \in 1..NBuilds
  OBVIOUS
<1>1. CASE BeginPush
  BY <1>1 DEF BeginPush
<1>2. CASE PushTag
  <2>1. remote' \in [Places -> SUBSET Entries]
    BY <1>2, CreateType DEF PushTag
  <2>2. tagged[at[1]] \in 0..MaxTags /\ at[2] <= tagged[at[1]]
    BY <1>0, <1>2 DEF PushTag, Pushing
  <2>3. at' \in (1..(NBuilds + 1)) \X (1..(MaxTags + 1))
    <3>1. at[2] + 1 \in 1..(MaxTags + 1)
      BY <1>0, <2>2
    <3> QED BY <1>0, <1>2, <3>1 DEF PushTag
  <2>4. pushTries' \in 1..PushTries
    BY <1>2 DEF PushTag
  <2> QED BY <1>2, <2>1, <2>3, <2>4 DEF PushTag
<1>3. CASE NextBuild
  <2>1. at' \in (1..(NBuilds + 1)) \X (1..(MaxTags + 1))
    <3>1. at[1] + 1 \in 1..(NBuilds + 1) /\ 1 \in 1..(MaxTags + 1)
      <4>1. at[1] \in 1..NBuilds
        BY <1>0, <1>3 DEF NextBuild
      <4> HIDE DEF TypeOK
      <4> QED BY <1>0, <4>1
    <3> QED BY <1>3, <3>1 DEF NextBuild
  <2> QED BY <1>3, <2>1 DEF NextBuild
<1>4. ASSUME NEW class, PushTimesOut(class) PROVE TypeOK'
  <2>1. remote' \in [Places -> SUBSET Entries]
    BY <1>4, CreateType DEF PushTimesOut
  <2>2. pushTries' \in 1..PushTries
    BY <1>4 DEF PushTimesOut
  <2> QED BY <1>4, <2>1, <2>2 DEF PushTimesOut
<1>5. CASE PushFails
  BY <1>5 DEF PushFails
<1>6. CASE Pushed
  BY <1>6 DEF Pushed
<1> QED BY <1>1, <1>2, <1>3, <1>4, <1>5, <1>6 DEF PushStep

LEMMA ExitType == ASSUME TypeOK, Exit PROVE TypeOK'
<1> USE MultiPlatformAssumption DEF TypeOK, build, push, history, threads, Fail
<1>1. CASE Leave
  BY <1>1 DEF Leave
<1>2. CASE RemoveImages
  <2>1. local' \in [Refs -> 0..Tries]
    BY <1>2 DEF RemoveImages
  <2>2. refused' \in BOOLEAN
    BY <1>2 DEF RemoveImages
  <2> QED BY <1>2, <2>1, <2>2 DEF RemoveImages
<1>3. CASE NoClient
  BY <1>3 DEF NoClient
<1>4. CASE StopRegistry
  <2>1. stored' \in [Refs -> 0..Tries]
    BY <1>4 DEF StopRegistry
  <2>2. refused' \in BOOLEAN
    BY <1>4 DEF StopRegistry
  <2> QED BY <1>4, <2>1, <2>2 DEF StopRegistry
<1> QED BY <1>1, <1>2, <1>3, <1>4 DEF Exit

-----------------------------------------------------------------------------
(* The phases of the main thread and its threads. *)

PhaseInv ==
  /\ \A p \in Platforms : pc[p] \in Active => main = "join"
  /\ main \in {"registry", "join", "claim", "tag", "push"} => current # 0
  /\ main \in {"registry", "join"} => dockerfile # "none"
  /\ main \in {"join", "claim"} => RegistryUp

TypeInv == TypeOK /\ PhaseInv

LEMMA CurrentBuild == TypeInv /\ current # 0 => current \in 1..NBuilds
BY MultiPlatformAssumption DEF TypeInv, TypeOK

\* A step of a thread is taken while the main thread waits in the join.
LEMMA ThreadInJoin ==
  ASSUME TypeInv, NEW p \in Platforms, Thread(p)
  PROVE  main = "join" /\ pc[p] \in Active /\ current \in 1..NBuilds
<1>1. pc[p] \in Active
  BY DEF Thread, BuildImage, PushImage, ReportDigest, DockerError, ThreadError, Active
<1> QED BY <1>1, CurrentBuild DEF TypeInv, PhaseInv

LEMMA TypeInvInductive == TypeInv /\ [Next]_vars => TypeInv'
<1> SUFFICES ASSUME TypeInv, [Next]_vars PROVE TypeInv'
  OBVIOUS
<1>1. ASSUME NEW p \in Platforms, Thread(p) PROVE TypeInv'
  <2>1. TypeOK'
    BY <1>1, ThreadInJoin, ThreadType DEF TypeInv
  <2>2. UNCHANGED <<main, current, dockerfile, registry>>
    BY <1>1 DEF Thread, BuildImage, PushImage, ReportDigest, DockerError, ThreadError, build
  <2> QED BY <1>1, <2>1, <2>2, ThreadInJoin DEF TypeInv, PhaseInv, RegistryUp
<1>2. CASE BeginBuild
  <2>1. TypeOK'
    BY <1>2, BuildType DEF TypeInv, BeginBuild
  <2>2. PhaseInv'
    BY <1>2, MultiPlatformAssumption
    DEF BeginBuild, TypeInv, TypeOK, PhaseInv, threads, RegistryUp
  <2> QED BY <2>1, <2>2 DEF TypeInv
<1>3. CASE MainBuild
  <2>1. current # 0
    BY <1>3 DEF MainBuild, StartRegistry, RegistryFails, StartThreads, Join, Claim, EndClaims,
                TypeInv, PhaseInv
  <2>2. TypeOK'
    BY <1>3, <2>1, CurrentBuild, BuildType DEF TypeInv
  <2>3. PhaseInv'
    BY <1>3, <2>1
    DEF MainBuild, StartRegistry, RegistryFails, StartThreads, Join, Claim, EndClaims,
        Fail, build, threads, TypeInv, PhaseInv, RegistryUp
  <2> QED BY <2>2, <2>3 DEF TypeInv
<1>4. CASE TagStep
  <2>1. current # 0
    BY <1>4 DEF TagStep, AddTags, TagNative, TagNativeFails, TagsDone, TypeInv, PhaseInv, TypeOK
  <2>2. TypeOK'
    BY <1>4, <2>1, CurrentBuild, TagType DEF TypeInv
  <2>3. PhaseInv'
    BY <1>4, <2>1 DEF TagStep, AddTags, TagNative, TagNativeFails, TagsDone,
        Fail, build, threads, TypeInv, PhaseInv, RegistryUp
  <2> QED BY <2>2, <2>3 DEF TypeInv
<1>5. CASE PushStep
  <2>1. TypeOK'
    BY <1>5, PushType DEF TypeInv
  <2>2. PhaseInv'
    BY <1>5 DEF PushStep, BeginPush, PushTag, NextBuild, PushFails, Pushed, PushTimesOut, Pushing,
        Fail, build, threads, TypeInv, PhaseInv, TypeOK, RegistryUp
  <2> QED BY <2>1, <2>2 DEF TypeInv
<1>6. CASE Exit
  <2>1. TypeOK'
    BY <1>6, ExitType DEF TypeInv
  <2>2. PhaseInv'
    BY <1>6 DEF Exit, Leave, RemoveImages, NoClient, StopRegistry,
        build, threads, TypeInv, PhaseInv, RegistryUp
  <2> QED BY <2>1, <2>2 DEF TypeInv
<1>7. CASE Exited \/ UNCHANGED vars
  BY <1>7 DEF Exited, vars, TypeInv, TypeOK, PhaseInv, RegistryUp
<1> QED BY <1>1, <1>2, <1>3, <1>4, <1>5, <1>6, <1>7 DEF Next

\* The invariant on which the others build.
THEOREM TypeInvHolds == Spec => []TypeInv
<1>1. Init => TypeInv
  BY InitType DEF Init, TypeInv, PhaseInv, Active
<1> QED BY <1>1, TypeInvInductive, PTL DEF Spec

\* Every variable of the builder stays in its type.
THEOREM TypeCorrect == Spec => []TypeOK
<1>1. TypeInv => TypeOK
  BY DEF TypeInv
<1> QED BY <1>1, TypeInvHolds, PTL

\* A thread that runs has its Dockerfile and its registry.
THEOREM InputsKept == Spec => []ThreadsKeepInputs
<1>1. TypeInv => ThreadsKeepInputs
  BY DEF TypeInv, PhaseInv, ThreadsKeepInputs
<1> QED BY <1>1, TypeInvHolds, PTL

-----------------------------------------------------------------------------
(* The accounting of platforms. *)

Complete(b) ==
  Claimed(b) = platforms[b] /\ Len(images[b]) = Cardinality(platforms[b])

\* Every platform of the current build is claimed or in image_info_by_image_ref;
\* the earlier builds are complete, the later ones are empty.
AccountInv ==
  /\ \A b \in 1..NBuilds : b < current => Complete(b)
  /\ \A b \in 1..NBuilds : b > current => images[b] = <<>>
  /\ current # 0 =>
       /\ Claimed(current) \cup unclaimed = platforms[current]
       /\ Len(images[current]) + Cardinality(unclaimed) = Cardinality(platforms[current])
  /\ main \in {"registry", "join"} => images[current] = <<>>
  /\ main \in {"idle", "tag", "push"} => unclaimed = {}

LEMMA ClaimedEmpty == \A b : images[b] = <<>> => Claimed(b) = {}
BY DEF Claimed

\* A claim moves one platform from one side of the account to the other.
LEMMA ClaimAccounts ==
  ASSUME TypeInv, AccountInv, Claim
  PROVE  AccountInv'
<1>1. current \in 1..NBuilds /\ main = "claim"
  BY CurrentBuild DEF Claim, TypeInv, PhaseInv
<1> DEFINE p == Head(queue)[1]
<1>0. queue \in Seq(Entries) /\ queue # <<>>
  BY DEF Claim, TypeInv, TypeOK
<1>2. /\ Head(queue) \in Entries /\ p \in unclaimed
      /\ images[current] \in Seq(Entries) /\ unclaimed \subseteq Platforms
      /\ unclaimed' = unclaimed \ {p}
      /\ images'[current] = Append(images[current], Head(queue))
      /\ \A b \in 1..NBuilds \ {current} : images'[b] = images[b]
      /\ UNCHANGED <<current, platforms, main>>
  <2>1. Head(queue) \in Entries
    BY <1>0
  <2>2. images \in [1..NBuilds -> Seq(Entries)] /\ unclaimed \subseteq Platforms
    BY DEF TypeInv, TypeOK
  <2>3. /\ p \in unclaimed /\ unclaimed' = unclaimed \ {p}
        /\ images' = [images EXCEPT ![current] = Append(@, Head(queue))]
        /\ UNCHANGED <<current, platforms, main>>
    BY DEF Claim
  <2> QED BY <1>1, <2>1, <2>2, <2>3
<1> HIDE DEF p
<1>3. /\ Len(images[current]) \in Nat /\ Len(images'[current]) = Len(images[current]) + 1
      /\ images'[current][Len(images[current]) + 1] = Head(queue)
      /\ \A i \in 1..Len(images[current]) : images'[current][i] = images[current][i]
  BY <1>2
<1>4. Claimed(current)' = Claimed(current) \cup {p}
  <2>1. DOMAIN images[current] = 1..Len(images[current])
        /\ DOMAIN images'[current] = 1..(Len(images[current]) + 1)
    BY <1>2, <1>3
  <2>2. ASSUME NEW q \in Claimed(current)' PROVE q \in Claimed(current) \cup {p}
    <3>1. PICK i \in 1..(Len(images[current]) + 1) : q = images'[current][i][1]
      BY <1>2, <2>1 DEF Claimed
    <3>2. CASE i = Len(images[current]) + 1
      BY <1>3, <3>1, <3>2 DEF p
    <3>3. CASE i \in 1..Len(images[current])
      BY <1>3, <2>1, <3>1, <3>3 DEF Claimed
    <3> QED BY <1>3, <3>1, <3>2, <3>3
  <2>3. ASSUME NEW q \in Claimed(current) \cup {p} PROVE q \in Claimed(current)'
    <3>1. CASE q = p
      BY <1>2, <1>3, <2>1, <3>1 DEF Claimed, p
    <3>2. CASE q \in Claimed(current)
      <4>1. PICK i \in 1..Len(images[current]) : q = images[current][i][1]
        BY <2>1, <3>2 DEF Claimed
      <4> QED BY <1>2, <1>3, <2>1, <4>1 DEF Claimed
    <3> QED BY <2>3, <3>1, <3>2
  <2> QED BY <2>2, <2>3
<1>5. IsFiniteSet(unclaimed) /\ Cardinality(unclaimed) \in Nat
      /\ Cardinality(unclaimed') = Cardinality(unclaimed) - 1
  BY <1>2, MultiPlatformAssumption, FS_Subset, FS_RemoveElement, FS_CardinalityType
<1>6. /\ Claimed(current)' \cup unclaimed' = platforms[current]
      /\ Len(images'[current]) + Cardinality(unclaimed') = Cardinality(platforms[current])
  <2>1. /\ current # 0
        /\ Claimed(current) \cup unclaimed = platforms[current]
        /\ Len(images[current]) + Cardinality(unclaimed) = Cardinality(platforms[current])
    BY <1>1 DEF AccountInv
  <2>2. Claimed(current)' \cup unclaimed' = platforms[current]
    BY <1>2, <1>4, <2>1
  <2>3. Len(images'[current]) + Cardinality(unclaimed') = Cardinality(platforms[current])
    BY <1>3, <1>5, <2>1
  <2> QED BY <2>2, <2>3
<1>7. \A b \in 1..NBuilds : b < current => Complete(b)'
  BY <1>1, <1>2 DEF AccountInv, Complete, Claimed
<1>8. \A b \in 1..NBuilds : b > current => images'[b] = <<>>
  BY <1>1, <1>2 DEF AccountInv
<1> QED BY <1>1, <1>2, <1>6, <1>7, <1>8 DEF AccountInv

LEMMA BeginAccounts ==
  ASSUME TypeInv, AccountInv, BeginBuild
  PROVE  AccountInv'
<1>1. /\ current \in 0..NBuilds /\ current < NBuilds /\ NBuilds \in Nat
      /\ current' = current + 1 /\ images' = images /\ main' = "registry"
  BY MultiPlatformAssumption DEF BeginBuild, TypeInv, TypeOK
<1>2. PICK P \in SUBSET Platforms :
        /\ platforms' = [platforms EXCEPT ![current + 1] = P]
        /\ unclaimed' = P
  BY DEF BeginBuild
<1>3. /\ platforms'[current + 1] = P
      /\ \A b \in 1..NBuilds : b # current + 1 => platforms'[b] = platforms[b]
  BY <1>1, <1>2 DEF TypeInv, TypeOK
<1>4. images[current + 1] = <<>>
  BY <1>1 DEF AccountInv
<1>5. \A b \in 1..NBuilds : b < current' => Complete(b)'
  <2> SUFFICES ASSUME NEW b \in 1..NBuilds, b < current' PROVE Complete(b)'
    OBVIOUS
  <2>1. Complete(b)
    <3>1. CASE b < current
      BY <3>1 DEF AccountInv
    <3>2. CASE b = current
      <4>1. current # 0 /\ unclaimed = {}
        BY <3>2 DEF AccountInv, BeginBuild
      <4>2. Cardinality(unclaimed) = 0 /\ Len(images[current]) \in Nat
        BY <3>2, <4>1, FS_EmptySet DEF TypeInv, TypeOK
      <4> QED BY <3>2, <4>1, <4>2 DEF AccountInv, Complete
    <3> QED BY <1>1, <3>1, <3>2
  <2> QED BY <1>1, <1>3, <2>1 DEF Complete, Claimed
<1>6. Claimed(current)' = {} /\ Len(images[current + 1]) = 0
  BY <1>1, <1>4 DEF Claimed
<1>7. Cardinality(P) \in Nat
  BY MultiPlatformAssumption, FS_Subset, FS_CardinalityType
<1> QED BY <1>1, <1>2, <1>3, <1>4, <1>5, <1>6, <1>7 DEF AccountInv

LEMMA SameAccount ==
  ASSUME AccountInv, UNCHANGED <<current, platforms, unclaimed, images>>,
         main' \in {"registry", "join"} => main \in {"registry", "join"},
         main' \in {"idle", "tag", "push"} => unclaimed = {}
  PROVE  AccountInv'
BY DEF AccountInv, Complete, Claimed

LEMMA AccountInductive == TypeInv /\ AccountInv /\ [Next]_vars => AccountInv'
<1> SUFFICES ASSUME TypeInv, AccountInv, [Next]_vars PROVE AccountInv'
  OBVIOUS
<1>1. ASSUME NEW p \in Platforms, Thread(p) PROVE AccountInv'
  <2>1. UNCHANGED <<main, current, platforms, unclaimed, images>>
    BY <1>1 DEF Thread, BuildImage, PushImage, ReportDigest, DockerError, ThreadError, build
  <2> QED BY <2>1, SameAccount DEF AccountInv
<1>2. CASE BeginBuild
  BY <1>2, BeginAccounts
<1>3. CASE Claim
  BY <1>3, ClaimAccounts
<1>4. CASE MainBuild /\ ~Claim
  BY <1>4, SameAccount
  DEF MainBuild, StartRegistry, RegistryFails, StartThreads, Join, EndClaims, Fail, build
<1>5. CASE TagStep
  BY <1>5, SameAccount
  DEF TagStep, AddTags, TagNative, TagNativeFails, TagsDone, Fail, build, AccountInv
<1>6. CASE PushStep
  BY <1>6, SameAccount
  DEF PushStep, BeginPush, PushTag, NextBuild, PushFails, Pushed, PushTimesOut, Pushing, Fail,
      build, AccountInv
<1>7. CASE Exit
  BY <1>7, SameAccount DEF Exit, Leave, RemoveImages, NoClient, StopRegistry, build
<1>8. CASE Exited \/ UNCHANGED vars
  BY <1>8, SameAccount DEF Exited, vars, AccountInv
<1> QED BY <1>1, <1>2, <1>3, <1>4, <1>5, <1>6, <1>7, <1>8 DEF Next

THEOREM AccountHolds == Spec => []AccountInv
<1>1. Init => AccountInv
  BY DEF Init, AccountInv
<1> QED BY <1>1, AccountInductive, TypeInvHolds, PTL DEF Spec

\* A build that returns has one image for each platform.
THEOREM BuildsComplete == Spec => []ReturnedComplete
<1>1. TypeInv /\ AccountInv => ReturnedComplete
  <2> SUFFICES ASSUME TypeInv, AccountInv, main \in {"idle", "tag", "push"},
                      NEW b \in 1..current
               PROVE  Complete(b)
    BY DEF ReturnedComplete, Complete
  <2>1. b \in 1..NBuilds /\ current # 0 /\ unclaimed = {} /\ current \in Nat
    BY MultiPlatformAssumption DEF TypeInv, TypeOK, AccountInv
  <2>2. CASE b < current
    BY <2>1, <2>2 DEF AccountInv
  <2>3. CASE b = current
    <3>1. Cardinality(unclaimed) = 0 /\ Len(images[current]) \in Nat
      BY <2>1, <2>3, FS_EmptySet DEF TypeInv, TypeOK
    <3> QED BY <2>1, <2>3, <3>1 DEF AccountInv, Complete
  <2> QED BY <2>1, <2>2, <2>3
<1> QED BY <1>1, TypeInvHolds, AccountHolds, PTL

-----------------------------------------------------------------------------
(* Digests. *)

\* A thread reports once, when it is done, and the queue is empty outside the
\* builds.  There is nothing to agree with before the registry starts.
DigestInv ==
  /\ main \notin {"join", "claim"} => queue = <<>>
  /\ \A i \in DOMAIN queue : pc[queue[i][1]] = "done"
  /\ registry = "off" /\ main # "exited" => \A b \in 1..NBuilds : images[b] = <<>>
  /\ DigestsCurrent

\* Where neither images nor references change.
LEMMA SameDigests ==
  ASSUME DigestInv, UNCHANGED <<images, queue, pc, current, registry, stored>>,
         main' \notin {"join", "claim"} => queue = <<>>,
         main' # "exited" => main # "exited"
  PROVE  DigestInv'
BY DEF DigestInv, DigestsCurrent, RegistryUp, Ref

\* A push changes what is behind the reference of its own thread only, which
\* nobody has reported yet.
LEMMA PushKeepsDigests ==
  ASSUME TypeInv, AccountInv, DigestInv, NEW p \in Platforms, main = "join",
         pc[p] \in Active, pc' = [pc EXCEPT ![p] = pc'[p]],
         stored' \in {stored, [stored EXCEPT ![Ref(p)] = local[Ref(p)]]},
         UNCHANGED <<main, images, queue, current, registry>>
  PROVE  DigestInv'
<1>1. current \in 1..NBuilds /\ RegistryUp
  BY CurrentBuild DEF TypeInv, PhaseInv
<1>2. /\ pc \in [Platforms -> Active \cup {"none", "done", "dead"}]
      /\ stored \in [Refs -> 0..Tries] /\ queue \in Seq(Entries)
      /\ images \in [1..NBuilds -> Seq(Entries)]
  BY DEF TypeInv, TypeOK
<1>3. ASSUME NEW i \in DOMAIN queue
      PROVE  /\ queue[i][1] \in Platforms \ {p}
             /\ pc'[queue[i][1]] = "done"
             /\ queue[i][2] = stored'[Ref(queue[i][1])]
  <2>1. queue[i] \in Entries /\ pc[queue[i][1]] = "done"
    BY <1>2 DEF DigestInv
  <2>2. queue[i][1] \in Platforms /\ queue[i][1] # p
    BY <2>1 DEF Entries, Active
  <2>3. queue[i][2] = stored[Ref(queue[i][1])]
    BY <1>1 DEF DigestInv, DigestsCurrent
  <2>4. stored'[Ref(queue[i][1])] = stored[Ref(queue[i][1])]
    BY <1>1, <1>2, <2>2 DEF Ref, Refs
  <2>5. pc'[queue[i][1]] = pc[queue[i][1]]
    BY <1>2, <2>2
  <2> QED BY <2>1, <2>2, <2>3, <2>4, <2>5
<1>4. ASSUME NEW b \in 1..NBuilds, NEW i \in DOMAIN images[b]
      PROVE  images[b][i][2] = stored'[<<b, images[b][i][1]>>]
  <2>1. b # current
    BY <1>4 DEF AccountInv
  <2>2. images[b][i] \in Entries
    <3>1. images[b] \in Seq(Entries)
      BY <1>2
    <3> QED BY <3>1, <1>4
  <2>3. stored'[<<b, images[b][i][1]>>] = stored[<<b, images[b][i][1]>>]
    BY <1>1, <1>2, <2>1, <2>2 DEF Ref, Refs, Entries
  <2> QED BY <1>1, <2>3 DEF DigestInv, DigestsCurrent
<1> QED BY <1>1, <1>3, <1>4 DEF DigestInv, DigestsCurrent, RegistryUp, Ref

\* A report is of what the registry has.
LEMMA ReportKeepsDigests ==
  ASSUME TypeInv, DigestInv, NEW p \in Platforms, ReportDigest(p), main = "join"
  PROVE  DigestInv'
<1>1. current \in 1..NBuilds /\ RegistryUp
  BY CurrentBuild DEF TypeInv, PhaseInv
<1>2. /\ pc \in [Platforms -> Active \cup {"none", "done", "dead"}]
      /\ stored \in [Refs -> 0..Tries] /\ queue \in Seq(Entries) /\ Tries \in Nat
  BY MultiPlatformAssumption DEF TypeInv, TypeOK
<1> DEFINE e == <<p, stored[Ref(p)]>>
<1>3. /\ queue' = Append(queue, e) /\ pc' = [pc EXCEPT ![p] = "done"]
      /\ UNCHANGED <<main, images, current, registry, stored>>
  BY DEF ReportDigest, build, Move
<1>4. e \in Entries
  <2>1. Ref(p) \in Refs /\ stored[Ref(p)] # 0
    BY <1>1 DEF Ref, Refs, ReportDigest
  <2>2. stored[Ref(p)] \in 1..Tries
    BY <1>2, <2>1
  <2> QED BY <2>2 DEF Entries
<1>5. e[1] = p /\ e[2] = stored[Ref(p)]
  OBVIOUS
<1> HIDE DEF e
<1>6. /\ Len(queue') = Len(queue) + 1 /\ Len(queue) \in Nat
      /\ queue'[Len(queue) + 1] = e
      /\ \A i \in 1..Len(queue) : queue'[i] = queue[i]
      /\ DOMAIN queue' = 1..(Len(queue) + 1) /\ DOMAIN queue = 1..Len(queue)
  BY <1>2, <1>3, <1>4
<1>7. ASSUME NEW i \in DOMAIN queue'
      PROVE  /\ pc'[queue'[i][1]] = "done"
             /\ queue'[i][2] = stored[Ref(queue'[i][1])]
  <2>1. CASE i = Len(queue) + 1
    BY <1>2, <1>3, <1>5, <1>6, <2>1
  <2>2. CASE i \in DOMAIN queue
    <3>1. queue'[i] = queue[i] /\ pc[queue[i][1]] = "done"
          /\ queue[i][2] = stored[Ref(queue[i][1])]
      BY <1>1, <1>6, <2>2 DEF DigestInv, DigestsCurrent
    <3> QED BY <1>2, <1>3, <3>1
  <2> QED BY <1>6, <2>1, <2>2
<1> QED BY <1>1, <1>3, <1>7 DEF DigestInv, DigestsCurrent, RegistryUp, Ref

\* A claim moves an entry with its digest.
LEMMA ClaimKeepsDigests ==
  ASSUME TypeInv, DigestInv, Claim
  PROVE  DigestInv'
<1>1. current \in 1..NBuilds /\ main = "claim"
  BY CurrentBuild DEF Claim, TypeInv, PhaseInv
<1>2. /\ queue \in Seq(Entries) /\ queue # <<>>
      /\ images \in [1..NBuilds -> Seq(Entries)]
  BY DEF Claim, TypeInv, TypeOK
<1>3. /\ images' = [images EXCEPT ![current] = Append(@, Head(queue))]
      /\ queue' = Tail(queue)
      /\ UNCHANGED <<main, current, pc, registry, stored>>
  BY DEF Claim
<1>4. ASSUME NEW i \in DOMAIN queue' PROVE i + 1 \in DOMAIN queue /\ queue'[i] = queue[i + 1]
  BY <1>2, <1>3
<1>5. Head(queue) = queue[1] /\ 1 \in DOMAIN queue /\ Head(queue) \in Entries
  BY <1>2
<1>6. ASSUME RegistryUp, NEW b \in 1..NBuilds, NEW i \in DOMAIN images'[b]
      PROVE  images'[b][i][2] = stored[<<b, images'[b][i][1]>>]
  <2>1. CASE b # current
    BY <1>2, <1>3, <1>6, <2>1 DEF DigestInv, DigestsCurrent
  <2>2. CASE b = current
    <3>1. images'[b] = Append(images[b], Head(queue)) /\ images[b] \in Seq(Entries)
      BY <1>1, <1>2, <1>3, <2>2
    <3>2. CASE i \in DOMAIN images[b]
      <4>1. images'[b][i] = images[b][i]
        BY <3>1, <3>2, <1>5
      <4> QED BY <1>6, <3>2, <4>1 DEF DigestInv, DigestsCurrent
    <3>3. CASE i \notin DOMAIN images[b]
      <4>1. images'[b][i] = queue[1]
        BY <1>5, <3>1, <3>3
      <4>2. queue[1][2] = stored[Ref(queue[1][1])]
        BY <1>5, <1>6 DEF DigestInv, DigestsCurrent
      <4> QED BY <2>2, <4>1, <4>2 DEF Ref
    <3> QED BY <3>2, <3>3
  <2> QED BY <2>1, <2>2
<1>7. registry # "off"
  BY <1>1 DEF TypeInv, PhaseInv, RegistryUp
<1> QED BY <1>1, <1>3, <1>4, <1>6, <1>7 DEF DigestInv, DigestsCurrent, RegistryUp, Ref

LEMMA DigestInductive == TypeInv /\ AccountInv /\ DigestInv /\ [Next]_vars => DigestInv'
<1> SUFFICES ASSUME TypeInv, AccountInv, DigestInv, [Next]_vars PROVE DigestInv'
  OBVIOUS
<1>1. ASSUME NEW p \in Platforms, Thread(p) PROVE DigestInv'
  <2>1. main = "join" /\ pc[p] \in Active /\ pc \in [Platforms -> Active \cup {"none", "done", "dead"}]
    BY <1>1, ThreadInJoin DEF TypeInv, TypeOK
  <2>2. CASE ReportDigest(p)
    BY <2>1, <2>2, ReportKeepsDigests
  <2>3. CASE ~ReportDigest(p)
    <3>1. /\ UNCHANGED <<main, images, queue, current, registry>>
          /\ pc' = [pc EXCEPT ![p] = pc'[p]]
          /\ stored' \in {stored, [stored EXCEPT ![Ref(p)] = local[Ref(p)]]}
      BY <1>1, <2>1, <2>3
      DEF Thread, BuildImage, PushImage, DockerError, ThreadError, build, Move
    <3> QED BY <2>1, <3>1, PushKeepsDigests
  <2> QED BY <2>2, <2>3
<1>2. CASE BeginBuild
  BY <1>2 DEF BeginBuild, threads, DigestInv, DigestsCurrent, RegistryUp
<1>3. CASE MainBuild
  <2>1. CASE StartRegistry
    BY <2>1 DEF StartRegistry, build, threads, DigestInv, DigestsCurrent
  <2>2. CASE RegistryFails
    BY <2>2 DEF RegistryFails, Fail, build, threads, DigestInv, DigestsCurrent, RegistryUp
  <2>3. CASE StartThreads
    BY <2>3 DEF StartThreads, build, DigestInv, DigestsCurrent, RegistryUp
  <2>4. CASE Join
    BY <2>4, SameDigests DEF Join, build, threads
  <2>5. CASE Claim
    BY <2>5, ClaimKeepsDigests
  <2>6. CASE EndClaims
    BY <2>6, SameDigests DEF EndClaims, Fail, threads
  <2> QED BY <1>3, <2>1, <2>2, <2>3, <2>4, <2>5, <2>6 DEF MainBuild
<1>4. CASE TagStep
  BY <1>4, SameDigests
  DEF TagStep, AddTags, TagNative, TagNativeFails, TagsDone, Fail, build, threads, DigestInv
<1>5. CASE PushStep
  BY <1>5, SameDigests
  DEF PushStep, BeginPush, PushTag, NextBuild, PushFails, Pushed, PushTimesOut, Pushing, Fail,
      build, threads, DigestInv
<1>6. CASE Exit
  <2>1. CASE Leave \/ RemoveImages \/ NoClient
    BY <2>1, SameDigests DEF Leave, RemoveImages, NoClient, build, threads, DigestInv
  <2>2. CASE StopRegistry
    BY <2>2 DEF StopRegistry, build, threads, DigestInv, DigestsCurrent, RegistryUp, Ref
  <2> QED BY <1>6, <2>1, <2>2 DEF Exit
<1>7. CASE Exited \/ UNCHANGED vars
  BY <1>7, SameDigests DEF Exited, vars, DigestInv
<1> QED BY <1>1, <1>2, <1>3, <1>4, <1>5, <1>6, <1>7 DEF Next

\* Whatever the retries do, a digest is that of the image in the registry.
THEOREM DigestsHold == Spec => []DigestsCurrent
<1>1. Init => DigestInv
  BY DEF Init, DigestInv, DigestsCurrent
<1>2. DigestInv => DigestsCurrent
  BY DEF DigestInv
<1> QED BY <1>1, <1>2, DigestInductive, TypeInvHolds, AccountHolds, PTL DEF Spec

-----------------------------------------------------------------------------
(* The refinement. *)

Outcomes == [b \in 1..NBuilds |-> Outcome(b)]
Published == [bt \in Places |-> {e[1] : e \in remote[bt]}]

\* A step that begins or ends no build, and publishes nothing.
LEMMA Stutters ==
  ASSUME UNCHANGED <<current, platforms, unclaimed, remote>>,
         main' \in {"registry", "join", "claim"} <=> main \in {"registry", "join", "claim"}
  PROVE  UNCHANGED Promise!vars
BY DEF Promise!vars, Outcome

\* What Create makes is a publication of the whole build.
LEMMA CreatePublishes ==
  ASSUME TypeInv, AccountInv, Pushing, Create, UNCHANGED <<current, platforms, unclaimed>>,
         main' \notin {"registry", "join", "claim"}
  PROVE  \E bt \in Places : Promise!Publish(bt)
<1>1. /\ current \in 1..NBuilds /\ main = "push" /\ unclaimed = {} /\ NBuilds \in Nat /\ MaxTags \in Nat
      /\ at \in (1..(NBuilds + 1)) \X (1..(MaxTags + 1)) /\ at[1] <= current
      /\ at[2] <= tagged[at[1]] /\ tagged \in [1..NBuilds -> 0..MaxTags]
  BY CurrentBuild, MultiPlatformAssumption DEF Pushing, TypeInv, TypeOK, PhaseInv, AccountInv
<1>2. at[1] \in 1..NBuilds /\ at[1] \in 1..current
  BY <1>1
<1>3. at[2] \in 1..MaxTags
  <2>1. tagged[at[1]] \in 0..MaxTags /\ at[2] \in 1..(MaxTags + 1)
    BY <1>1, <1>2
  <2> QED BY <1>1, <2>1
<1>4. at \in Places
  BY <1>1, <1>2, <1>3 DEF Places
<1>5. \A b \in 1..NBuilds : Outcome(b) = IF b > current THEN "none" ELSE "built"
  BY <1>1 DEF Outcome
<1>6. \A b \in 1..NBuilds : Outcome(b)' = Outcome(b)
  BY <1>1 DEF Outcome
<1>7. Claimed(at[1]) = platforms[at[1]]
  <2>1. CASE at[1] < current
    BY <1>2, <2>1 DEF AccountInv, Complete
  <2>2. CASE at[1] = current
    BY <1>1, <2>2 DEF AccountInv
  <2> QED BY <1>1, <1>2, <2>1, <2>2
<1>8. Published' = [Published EXCEPT ![at] = platforms[at[1]]]
  <2>1. remote \in [Places -> SUBSET Entries]
    BY DEF TypeInv, TypeOK
  <2> DEFINE made == {<<p, stored[<<at[1], p>>]>> : p \in Claimed(at[1])}
  <2>2. remote' = [remote EXCEPT ![at] = made]
    BY DEF Create
  <2>3. {e[1] : e \in made} = Claimed(at[1])
    <3>1. \A p \in Claimed(at[1]) :
            <<p, stored[<<at[1], p>>]>> \in made /\ <<p, stored[<<at[1], p>>]>>[1] = p
      OBVIOUS
    <3>2. ASSUME NEW e \in made PROVE e[1] \in Claimed(at[1])
      <4>1. PICK p \in Claimed(at[1]) : e = <<p, stored[<<at[1], p>>]>>
        OBVIOUS
      <4> QED BY <4>1
    <3> HIDE DEF made
    <3> QED BY <3>1, <3>2
  <2> HIDE DEF made
  <2> QED BY <1>4, <1>7, <2>1, <2>2, <2>3 DEF Published
<1>9. ~(at[1] > current) /\ Outcome(at[1]) = "built"
  BY <1>1, <1>2, <1>5
<1>10. PICK bt \in Places : bt = at
  BY <1>4
<1>11. Promise!Publish(bt)
  BY <1>2, <1>4, <1>5, <1>6, <1>8, <1>9, <1>10 DEF Promise!Publish, Published
<1> QED BY <1>11

\* Every step of the builder is one of the promise, or stutters.
LEMMA StepPromise == TypeInv /\ AccountInv /\ [Next]_vars => [Promise!Next]_Promise!vars
<1> SUFFICES ASSUME TypeInv, AccountInv, [Next]_vars PROVE [Promise!Next]_Promise!vars
  OBVIOUS
<1>1. ASSUME NEW p \in Platforms, Thread(p) PROVE UNCHANGED Promise!vars
  BY <1>1, Stutters
  DEF Thread, BuildImage, PushImage, ReportDigest, DockerError, ThreadError, build, push
<1>2. CASE BeginBuild
  <2>1. /\ current \in 0..NBuilds /\ current < NBuilds /\ NBuilds \in Nat
        /\ main = "idle" /\ unclaimed = {} /\ current' = current + 1 /\ main' = "registry"
        /\ remote' = remote
    BY <1>2, MultiPlatformAssumption DEF BeginBuild, TypeInv, TypeOK, AccountInv, push
  <2>2. \A b \in 1..NBuilds : Outcome(b) = IF b > current THEN "none" ELSE "built"
    BY <2>1 DEF Outcome
  <2>3. PICK n \in 1..NBuilds : n = current + 1
    BY <2>1
  <2>4. Outcome(n)' = "running"
    BY <2>1, <2>3 DEF Outcome
  <2>5. \A b \in 1..NBuilds : b # n => Outcome(b)' = Outcome(b)
    <3> SUFFICES ASSUME NEW b \in 1..NBuilds, b # n PROVE Outcome(b)' = Outcome(b)
      OBVIOUS
    <3>1. CASE b > n
      BY <2>1, <2>3, <3>1 DEF Outcome
    <3>2. CASE b <= current
      BY <2>1, <2>3, <3>2 DEF Outcome
    <3> QED BY <2>1, <2>3, <3>1, <3>2
  <2>6. Outcomes' = [Outcomes EXCEPT ![n] = "running"]
    BY <2>3, <2>4, <2>5 DEF Outcomes
  <2>7. Outcome(n) = "none" /\ \A a \in 1..(n - 1) : a \in 1..NBuilds /\ Outcome(a) = "built"
    BY <2>1, <2>2, <2>3
  <2>8. Published' = Published
    BY <2>1 DEF Published
  <2>9. \E P \in (SUBSET Platforms) \ {{}} : platforms' = [platforms EXCEPT ![n] = P]
    BY <1>2, <2>3 DEF BeginBuild
  <2>10. Promise!Ask(n)
    BY <2>3, <2>6, <2>7, <2>8, <2>9 DEF Promise!Ask, Outcomes, Published
  <2> QED BY <2>10 DEF Promise!Next
<1>3. CASE RegistryFails \/ EndClaims
  <2>1. current \in 1..NBuilds /\ main \in {"registry", "claim"}
    BY <1>3, CurrentBuild DEF RegistryFails, EndClaims, TypeInv, PhaseInv
  <2>2. /\ UNCHANGED <<current, platforms, unclaimed, remote>>
        /\ main' \in {"idle", "closing"}
    BY <1>3 DEF RegistryFails, EndClaims, Fail, build, push
  <2> DEFINE o == IF unclaimed = {} THEN "built" ELSE "failed"
  <2>3. Outcome(current) = "running" /\ Outcome(current)' = o
    BY <2>1, <2>2 DEF Outcome
  <2>4. \A b \in 1..NBuilds : b # current => Outcome(b)' = Outcome(b)
    BY <2>1, <2>2 DEF Outcome
  <2>5. Outcomes' = [Outcomes EXCEPT ![current] = o] /\ o \in {"built", "failed"}
    BY <2>1, <2>2, <2>3, <2>4 DEF Outcomes
  <2>6. Promise!Finish(current)
    BY <2>1, <2>2, <2>3, <2>5 DEF Promise!Finish, Outcomes
  <2> QED BY <2>1, <2>6 DEF Promise!Next
<1>4. CASE Claim
  <2>1. /\ main = "claim" /\ UNCHANGED <<main, current, platforms, remote>>
    BY <1>4 DEF Claim, push
  <2> QED BY <2>1 DEF Promise!vars, Outcome
<1>5. CASE StartRegistry \/ StartThreads \/ Join
  BY <1>5, Stutters DEF StartRegistry, StartThreads, Join, build, push
<1>6. CASE TagStep
  BY <1>6, Stutters DEF TagStep, AddTags, TagNative, TagNativeFails, TagsDone, Fail, build, push
<1>7. CASE PushStep
  <2>1. CASE PushTag
    <3>1. \E bt \in Places : Promise!Publish(bt)
      BY <2>1, CreatePublishes DEF PushTag, Pushing, build
    <3> QED BY <3>1 DEF Promise!Next, Promise!Places, Places
  <2>2. ASSUME NEW class, PushTimesOut(class) PROVE [Promise!Next]_Promise!vars
    <3>1. UNCHANGED <<current, platforms, unclaimed>> /\ main' \in {"push", "closing"} /\ main = "push"
      BY <2>2 DEF PushTimesOut, Pushing, Fail, build
    <3>2. CASE Create
      <4>1. \E bt \in Places : Promise!Publish(bt)
        BY <2>2, <3>1, <3>2, CreatePublishes DEF PushTimesOut
      <4> QED BY <4>1 DEF Promise!Next, Promise!Places, Places
    <3>3. CASE UNCHANGED remote
      BY <3>1, <3>3, Stutters
    <3> QED BY <2>2, <3>2, <3>3 DEF PushTimesOut
  <2>3. CASE BeginPush \/ NextBuild \/ PushFails \/ Pushed
    BY <2>3, Stutters DEF BeginPush, NextBuild, PushFails, Pushed, Pushing, Fail, build, push
  <2> QED BY <1>7, <2>1, <2>2, <2>3 DEF PushStep
<1>8. CASE Exit
  BY <1>8, Stutters DEF Exit, Leave, RemoveImages, NoClient, StopRegistry, build, push
<1>9. CASE Exited \/ UNCHANGED vars
  BY <1>9, Stutters DEF Exited, vars
<1> QED
  BY <1>1, <1>2, <1>3, <1>4, <1>5, <1>6, <1>7, <1>8, <1>9 DEF Next, MainBuild

\* The builder implements its promise.
THEOREM PromiseKept == Spec => KeepsPromise
<1>1. Init => Promise!Init
  <2> SUFFICES ASSUME Init PROVE Promise!Init
    OBVIOUS
  <2>1. \A b \in 1..NBuilds : Outcome(b) = "none"
    BY DEF Init, Outcome
  <2> QED BY <2>1 DEF Init, Promise!Init, Places, Promise!Places
<1> QED
  BY <1>1, StepPromise, TypeInvHolds, AccountHolds, PTL DEF Spec, KeepsPromise, Promise!Spec

-----------------------------------------------------------------------------
(* What the push has published. *)

Entered(b) == {images[b][i] : i \in DOMAIN images[b]}
PushedSoFar(b, t) == b < at[1] \/ (b = at[1] /\ t < at[2])

\* The push begins when the builds and their tags are settled, and what is behind it has the
\* images of its build.
PushInv ==
  /\ main \notin {"push", "closing", "stopping", "exited"} => at = <<1, 1>>
  /\ \A b \in 1..current : \A t \in 1..tagged[b] :
       PushedSoFar(b, t) => remote[<<b, t>>] = Entered(b)

\* Before it begins, nothing is behind it.
LEMMA BeforePush ==
  ASSUME at' = <<1, 1>>, TypeOK'
  PROVE  PushInv'
BY MultiPlatformAssumption DEF PushInv, PushedSoFar, TypeOK

\* Where it does not move, it leaves what it has published.
LEMMA SamePush ==
  ASSUME PushInv, UNCHANGED <<current, tagged, images, at, remote>>,
         main' \notin {"push", "closing", "stopping", "exited"} =>
           main \notin {"push", "closing", "stopping", "exited"}
  PROVE  PushInv'
BY DEF PushInv, PushedSoFar, Entered

\* A manifest made from the references of a build names its images: the digests of the
\* claims are those in the registry.
LEMMA CreateEnters ==
  ASSUME TypeInv, DigestInv, Pushing, Create
  PROVE  /\ at \in Places /\ remote'[at] = Entered(at[1])
         /\ \A bt \in Places : bt # at => remote'[bt] = remote[bt]
<1>1. /\ current \in 0..NBuilds /\ NBuilds \in Nat /\ MaxTags \in Nat
      /\ at \in (1..(NBuilds + 1)) \X (1..(MaxTags + 1)) /\ at[1] <= current
      /\ at[2] <= tagged[at[1]] /\ tagged \in [1..NBuilds -> 0..MaxTags]
      /\ remote \in [Places -> SUBSET Entries] /\ images \in [1..NBuilds -> Seq(Entries)]
  BY MultiPlatformAssumption DEF TypeInv, TypeOK, Pushing
<1>2. at[1] \in 1..NBuilds
  BY <1>1
<1>3. at[2] \in 1..MaxTags
  <2>1. tagged[at[1]] \in 0..MaxTags /\ at[2] \in 1..(MaxTags + 1)
    BY <1>1, <1>2
  <2> QED BY <1>1, <2>1
<1>4. at \in Places
  BY <1>1, <1>2, <1>3 DEF Places
<1>5. PICK b \in 1..NBuilds : b = at[1]
  BY <1>2
<1> DEFINE made == {<<p, stored[<<b, p>>]>> : p \in Claimed(b)}
<1>6. remote' = [remote EXCEPT ![at] = made]
  BY <1>5 DEF Create
<1>7. \A i \in DOMAIN images[b] : images[b][i] = <<images[b][i][1], stored[<<b, images[b][i][1]>>]>>
  <2> SUFFICES ASSUME NEW i \in DOMAIN images[b]
               PROVE  images[b][i] = <<images[b][i][1], stored[<<b, images[b][i][1]>>]>>
    OBVIOUS
  <2>1. images[b] \in Seq(Entries)
    BY <1>1
  <2>2. images[b][i] \in Entries
    BY <2>1
  <2>3. images[b][i][2] = stored[<<b, images[b][i][1]>>]
    BY DEF DigestInv, DigestsCurrent, Create
  <2> QED BY <2>2, <2>3 DEF Entries
<1>8. made = Entered(b)
  <2>1. ASSUME NEW e \in made PROVE e \in Entered(b)
    <3>1. PICK p \in Claimed(b) : e = <<p, stored[<<b, p>>]>>
      OBVIOUS
    <3>2. PICK i \in DOMAIN images[b] : p = images[b][i][1]
      BY <3>1 DEF Claimed
    <3> QED BY <1>7, <3>1, <3>2 DEF Entered
  <2>2. ASSUME NEW e \in Entered(b) PROVE e \in made
    <3>1. PICK i \in DOMAIN images[b] : e = images[b][i]
      BY DEF Entered
    <3>2. images[b][i][1] \in Claimed(b)
      BY <3>1 DEF Claimed
    <3> QED BY <1>7, <3>1, <3>2
  <2> QED BY <2>1, <2>2
<1> HIDE DEF made
<1> QED BY <1>1, <1>4, <1>5, <1>6, <1>8

LEMMA PushInductive ==
  ASSUME TypeInv, TypeInv', AccountInv, DigestInv, PushInv, [Next]_vars
  PROVE  PushInv'
<1>0. /\ current \in 0..NBuilds /\ NBuilds \in Nat /\ MaxTags \in Nat
      /\ at \in (1..(NBuilds + 1)) \X (1..(MaxTags + 1))
      /\ tagged \in [1..NBuilds -> 0..MaxTags]
  BY MultiPlatformAssumption DEF TypeInv, TypeOK
<1>1. ASSUME NEW p \in Platforms, Thread(p) PROVE PushInv'
  BY <1>1, SamePush
  DEF Thread, BuildImage, PushImage, ReportDigest, DockerError, ThreadError, build, push
<1>2. CASE BeginBuild \/ Claim \/ AddTags
  <2>1. at = <<1, 1>> /\ at' = at
    BY <1>2 DEF BeginBuild, Claim, AddTags, push, PushInv
  <2> QED BY <2>1, BeforePush DEF TypeInv
<1>3. CASE MainBuild /\ ~Claim
  BY <1>3, SamePush
  DEF MainBuild, StartRegistry, RegistryFails, StartThreads, Join, EndClaims, Fail, build, push
<1>4. CASE TagStep /\ ~AddTags
  BY <1>4, SamePush
  DEF TagStep, TagNative, TagNativeFails, TagsDone, Fail, build, push
<1>5. CASE BeginPush \/ PushFails \/ Pushed
  BY <1>5, SamePush DEF BeginPush, PushFails, Pushed, Pushing, Fail, build, push
<1>6. CASE NextBuild
  <2>1. /\ main = "push" /\ main' = "push" /\ at[1] <= current /\ at[2] > tagged[at[1]]
        /\ at' = <<at[1] + 1, 1>> /\ UNCHANGED <<current, tagged, images, remote>>
    BY <1>6 DEF NextBuild, build
  <2>2. ASSUME NEW b \in 1..current, NEW t \in 1..tagged[b], PushedSoFar(b, t)'
        PROVE  PushedSoFar(b, t)
    <3>1. b \in 1..NBuilds /\ tagged[b] \in 0..MaxTags /\ at[1] \in Nat /\ at[2] \in Nat
      BY <1>0
    <3>2. b < at[1] + 1
      BY <2>1, <2>2, <3>1 DEF PushedSoFar
    <3>3. CASE b < at[1]
      BY <3>3 DEF PushedSoFar
    <3>4. CASE b = at[1]
      BY <2>1, <3>1, <3>4 DEF PushedSoFar
    <3> QED BY <3>1, <3>2, <3>3, <3>4
  <2> QED BY <2>1, <2>2 DEF PushInv, Entered
<1>7. ASSUME Pushing, Create, UNCHANGED <<current, tagged, images>>, at' = <<at[1], at[2] + 1>>,
             main' \in {"push", "closing"}
      PROVE  PushInv'
  <2> SUFFICES ASSUME NEW b \in 1..current, NEW t \in 1..tagged[b], PushedSoFar(b, t)'
               PROVE  remote'[<<b, t>>] = Entered(b)
    BY <1>7 DEF PushInv, Entered
  <2>1. /\ b \in 1..NBuilds /\ tagged[b] \in 0..MaxTags /\ at[1] \in Nat /\ at[2] \in Nat
        /\ <<b, t>> \in Places
    BY <1>0 DEF Places
  <2>2. PushedSoFar(b, t) \/ (b = at[1] /\ t = at[2])
    BY <1>7, <2>1 DEF PushedSoFar
  <2>3. CASE b = at[1] /\ t = at[2]
    <3>1. <<b, t>> = at
      BY <1>0, <2>3
    <3> QED BY <1>7, <2>3, <3>1, CreateEnters
  <2>4. CASE PushedSoFar(b, t)
    <3>1. <<b, t>> # at
      BY <2>1, <2>4 DEF PushedSoFar
    <3>2. remote[<<b, t>>] = Entered(b)
      BY <2>4 DEF PushInv
    <3> QED BY <1>7, <2>1, <3>1, <3>2, CreateEnters
  <2> QED BY <2>2, <2>3, <2>4
<1>8. ASSUME Pushing, Create, UNCHANGED <<current, tagged, images, at>>,
             main' \in {"push", "closing"}
      PROVE  PushInv'
  <2> SUFFICES ASSUME NEW b \in 1..current, NEW t \in 1..tagged[b], PushedSoFar(b, t)
               PROVE  remote'[<<b, t>>] = Entered(b)
    BY <1>8 DEF PushInv, Entered, PushedSoFar
  <2>1. /\ b \in 1..NBuilds /\ tagged[b] \in 0..MaxTags /\ at[1] \in Nat /\ at[2] \in Nat
        /\ <<b, t>> \in Places
    BY <1>0 DEF Places
  <2>2. <<b, t>> # at /\ remote[<<b, t>>] = Entered(b)
    BY <2>1 DEF PushedSoFar, PushInv
  <2> QED BY <1>8, <2>1, <2>2, CreateEnters
<1>9. CASE PushTag
  BY <1>7, <1>9 DEF PushTag, Pushing, build
<1>10. ASSUME NEW class, PushTimesOut(class) PROVE PushInv'
  <2>1. /\ Pushing /\ UNCHANGED <<current, tagged, images, at>> /\ main' \in {"push", "closing"}
        /\ Create \/ UNCHANGED remote
    BY <1>10 DEF PushTimesOut, Pushing, Fail, build
  <2> QED BY <1>8, <2>1, SamePush DEF Pushing
<1>11. CASE Exit
  BY <1>11, SamePush DEF Exit, Leave, RemoveImages, NoClient, StopRegistry, build, push
<1>12. CASE Exited \/ UNCHANGED vars
  BY <1>12, SamePush DEF Exited, vars
<1> QED
  BY <1>1, <1>2, <1>3, <1>4, <1>5, <1>6, <1>9, <1>10, <1>11, <1>12
  DEF Next, MainBuild, TagStep, PushStep

\* When the push has come to the end of the builds, each tag names the images of its build,
\* with the digests that its threads reported.
THEOREM PushesComplete == Spec => []PushComplete
<1>1. Init => PushInv
  BY DEF Init, PushInv, PushedSoFar
<1>2. TypeInv /\ TypeInv' /\ AccountInv /\ DigestInv /\ PushInv /\ [Next]_vars => PushInv'
  BY PushInductive
<1>3. TypeInv /\ PushInv => PushComplete
  <2> SUFFICES ASSUME TypeInv, PushInv, at[1] > current, NEW b \in 1..current, NEW t \in 1..tagged[b]
               PROVE  remote[<<b, t>>] = Entered(b)
    BY DEF PushComplete, Entered
  <2>1. at[1] \in Nat /\ current \in Nat
    BY MultiPlatformAssumption DEF TypeInv, TypeOK
  <2>2. b < at[1]
    BY <2>1
  <2> QED BY <2>2 DEF PushInv, PushedSoFar
<1>4. Spec => []DigestInv
  <2>1. Init => DigestInv
    BY DEF Init, DigestInv, DigestsCurrent
  <2> QED BY <2>1, DigestInductive, TypeInvHolds, AccountHolds, PTL DEF Spec
<1> QED BY <1>1, <1>2, <1>3, <1>4, TypeInvHolds, AccountHolds, PTL DEF Spec

-----------------------------------------------------------------------------
(* The images of the docker daemon. *)

\* They are of platforms that a build names; after the cleanup only those that docker kept or
\* that no claim was made for.
LocalInv ==
  /\ \A p \in Platforms : pc[p] \in Active => p \in platforms[current]
  /\ \A r \in Refs : local[r] # 0 => r[1] <= current /\ r[2] \in platforms[r[1]]
  /\ main \in {"stopping", "exited"} =>
       \A r \in Refs : local[r] # 0 => refused \/ (r[1] = current /\ r[2] \in unclaimed)

\* Where nothing comes to the docker daemon.
LEMMA SameLocal ==
  ASSUME LocalInv, UNCHANGED <<current, platforms>>,
         \A p \in Platforms : pc'[p] \in Active => pc[p] \in Active,
         \A r \in Refs : local'[r] # 0 => local[r] # 0,
         main' \notin {"stopping", "exited"}
  PROVE  LocalInv'
BY DEF LocalInv

\* A thread builds for a platform of its build.
LEMMA ThreadLocal ==
  ASSUME TypeInv, LocalInv, NEW p \in Platforms, Thread(p)
  PROVE  LocalInv'
<1>1. main = "join" /\ pc[p] \in Active /\ current \in 1..NBuilds
  BY ThreadInJoin
<1>2. /\ UNCHANGED <<main, current, platforms>>
      /\ \E next : pc' = [pc EXCEPT ![p] = next]
      /\ \/ local' = local
         \/ local' = [local EXCEPT ![Ref(p)] = Tries - tries[p] + 1]
  BY DEF Thread, BuildImage, PushImage, ReportDigest, DockerError, ThreadError, Move, build
<1>3. \A q \in Platforms : pc'[q] \in Active => q \in platforms[current]
  <2>1. pc \in [Platforms -> Active \cup {"none", "done", "dead"}]
    BY DEF TypeInv, TypeOK
  <2>2. \A q \in Platforms : q # p => pc'[q] = pc[q]
    BY <1>2, <2>1
  <2> QED BY <1>1, <2>2 DEF LocalInv
<1>4. ASSUME NEW r \in Refs, local'[r] # 0 PROVE r[1] <= current /\ r[2] \in platforms[r[1]]
  <2>1. local \in [Refs -> 0..Tries] /\ current \in Nat
    BY MultiPlatformAssumption DEF TypeInv, TypeOK
  <2>2. CASE r = Ref(p)
    BY <1>1, <2>1, <2>2 DEF Ref, LocalInv
  <2>3. CASE r # Ref(p)
    <3>1. local'[r] = local[r]
      BY <1>2, <2>1, <2>3
    <3> QED BY <1>4, <3>1 DEF LocalInv
  <2> QED BY <2>2, <2>3
<1> QED BY <1>1, <1>2, <1>3, <1>4 DEF LocalInv

\* What was claimed and is not kept is gone after the cleanup; an image of an earlier build
\* was claimed.
LEMMA RemovalExplained ==
  ASSUME TypeInv, AccountInv, LocalInv, RemoveImages
  PROVE  LocalInv'
<1>1. /\ main' = "stopping" /\ UNCHANGED <<current, platforms, unclaimed, images, pc>>
  BY DEF RemoveImages, build, threads
<1>2. PICK kept \in SUBSET {r \in Refs : r[2] \in Claimed(r[1]) /\ local[r] # 0} :
        /\ local' = [r \in Refs |-> IF r[2] \in Claimed(r[1]) \ {p \in Platforms : <<r[1], p>> \in kept}
                                    THEN 0 ELSE local[r]]
        /\ refused' = (refused \/ kept # {})
  BY DEF RemoveImages
<1>3. ASSUME NEW r \in Refs, local'[r] # 0
      PROVE  /\ r[1] <= current /\ r[2] \in platforms[r[1]]
             /\ refused' \/ (r[1] = current /\ r[2] \in unclaimed)
  <2>1. local[r] # 0 /\ r[2] \notin Claimed(r[1]) \ {p \in Platforms : <<r[1], p>> \in kept}
    BY <1>2, <1>3
  <2>2. r[1] <= current /\ r[2] \in platforms[r[1]] /\ r[1] \in 1..NBuilds /\ current \in Nat
    BY <2>1, MultiPlatformAssumption DEF LocalInv, Refs, TypeInv, TypeOK
  <2>3. CASE r[2] \in Claimed(r[1])
    <3>1. kept # {}
      BY <2>1, <2>3
    <3> QED BY <1>2, <2>2, <3>1
  <2>4. CASE r[2] \notin Claimed(r[1])
    <3>1. r[1] = current
      BY <2>2, <2>4 DEF AccountInv, Complete
    <3>2. r[2] \in unclaimed
      BY <2>2, <2>4, <3>1 DEF AccountInv
    <3> QED BY <2>2, <3>1, <3>2
  <2> QED BY <2>3, <2>4
<1> QED BY <1>1, <1>3 DEF LocalInv

LEMMA LocalInductive == TypeInv /\ AccountInv /\ LocalInv /\ [Next]_vars => LocalInv'
<1> SUFFICES ASSUME TypeInv, AccountInv, LocalInv, [Next]_vars PROVE LocalInv'
  OBVIOUS
<1>1. ASSUME NEW p \in Platforms, Thread(p) PROVE LocalInv'
  BY <1>1, ThreadLocal
<1>2. CASE BeginBuild
  <2>1. /\ main = "idle" /\ main' = "registry" /\ current' = current + 1 /\ current \in 0..NBuilds
        /\ current < NBuilds /\ UNCHANGED <<pc, local>> /\ NBuilds \in Nat
    BY <1>2, MultiPlatformAssumption DEF BeginBuild, threads, TypeInv, TypeOK
  <2>2. PICK P \in SUBSET Platforms : platforms' = [platforms EXCEPT ![current + 1] = P]
    BY <1>2 DEF BeginBuild
  <2>3. \A b \in 1..NBuilds : b <= current => platforms'[b] = platforms[b]
    BY <2>1, <2>2 DEF TypeInv, TypeOK
  <2>4. \A p \in Platforms : pc[p] \notin Active
    BY <2>1 DEF TypeInv, PhaseInv
  <2>5. ASSUME NEW r \in Refs, local[r] # 0 PROVE r[1] <= current' /\ r[2] \in platforms'[r[1]]
    <3>1. r[1] \in 1..NBuilds /\ r[1] <= current /\ r[2] \in platforms[r[1]]
      BY <2>5 DEF LocalInv, Refs
    <3> QED BY <2>1, <2>3, <3>1
  <2> QED BY <2>1, <2>4, <2>5 DEF LocalInv
<1>3. CASE StartThreads
  <2>1. /\ main' = "join" /\ UNCHANGED <<current, platforms, local>>
        /\ \A p \in Platforms : pc'[p] \in Active => p \in platforms[current]
    BY <1>3 DEF StartThreads, build, Active
  <2> QED BY <2>1 DEF LocalInv
<1>4. CASE MainBuild /\ ~StartThreads
  BY <1>4, SameLocal
  DEF MainBuild, StartRegistry, RegistryFails, Join, Claim, EndClaims, Fail, build, threads
<1>5. CASE TagStep
  <2>1. CASE AddTags \/ TagsDone
    BY <2>1, SameLocal DEF AddTags, TagsDone, Fail, build, threads
  <2>2. ASSUME main = "tag", NEW i \in DOMAIN images[current], TagNative(i) \/ TagNativeFails(i)
        PROVE  LocalInv'
    <3>1. /\ current \in 1..NBuilds /\ local \in [Refs -> 0..Tries] /\ current \in Nat
      BY <2>2, CurrentBuild, MultiPlatformAssumption DEF TypeInv, TypeOK, PhaseInv
    <3>2. images[current][i][1] \in platforms[current]
      BY <2>2, <3>1 DEF AccountInv, Claimed
    <3>3. PICK p \in platforms[current] : p = images[current][i][1]
      BY <3>2
    <3>4. /\ main' \in {"tag", "closing"} /\ UNCHANGED <<current, platforms, pc>>
          /\ local' \in {local, [local EXCEPT ![Ref(p)] = 0], [local EXCEPT ![Ref(p)] = stored[Ref(p)]]}
      BY <2>2, <3>3 DEF TagNative, TagNativeFails, Fail, build, threads
    <3>5. ASSUME NEW r \in Refs, local'[r] # 0 PROVE r[1] <= current /\ r[2] \in platforms[r[1]]
      <4>1. CASE r = Ref(p)
        BY <3>1, <4>1 DEF Ref
      <4>2. CASE r # Ref(p)
        <5>1. local'[r] = local[r]
          BY <3>1, <3>4, <4>2
        <5> QED BY <3>5, <5>1 DEF LocalInv
      <4> QED BY <4>1, <4>2
    <3> QED BY <3>4, <3>5 DEF LocalInv
  <2> QED BY <1>5, <2>1, <2>2 DEF TagStep
<1>6. CASE PushStep
  BY <1>6, SameLocal
  DEF PushStep, BeginPush, PushTag, NextBuild, PushFails, Pushed, PushTimesOut, Pushing, Fail,
      build, threads
<1>7. CASE Leave
  BY <1>7, SameLocal DEF Leave, build, threads
<1>8. CASE NoClient \/ StopRegistry
  <2>1. /\ UNCHANGED <<current, platforms, unclaimed, pc, local>>
        /\ refused' \/ (main = "stopping" /\ refused' = refused)
    BY <1>8 DEF NoClient, StopRegistry, build, threads
  <2> QED BY <2>1 DEF LocalInv
<1>9. CASE Exited \/ UNCHANGED vars
  BY <1>9 DEF Exited, vars, LocalInv
<1> QED
  BY <1>1, <1>2, <1>3, <1>4, <1>5, <1>6, <1>7, <1>8, <1>9, RemovalExplained DEF Next, Exit

\* An intermediate image that is left is one docker refused to remove, or one that a thread of
\* the build that failed made and nobody claimed.
THEOREM LeftoversHaveCauses == Spec => []LeftoversExplained
<1>1. Init => LocalInv
  BY DEF Init, LocalInv, Active
<1>2. LocalInv => LeftoversExplained
  BY DEF LocalInv, LeftoversExplained
<1> QED BY <1>1, <1>2, LocalInductive, TypeInvHolds, AccountHolds, PTL DEF Spec
-----------------------------------------------------------------------------
(* Progress. *)

\* What the next call of a thread, of the claims, of a task's tags and of the push needs is
\* there: none of them is kept waiting, and no call fails for want of it.
NeedsMet ==
  /\ \A p \in Platforms :
       /\ pc[p] = "build" => dockerfile # "none"
       /\ pc[p] = "push" => RegistryUp /\ local[Ref(p)] # 0
       /\ pc[p] = "inspect" => RegistryUp /\ stored[Ref(p)] # 0
  /\ main = "claim" /\ queue # <<>> => Head(queue)[1] \in unclaimed
  /\ main = "tag" =>
       /\ RegistryUp /\ images[current] # <<>>
       /\ \A i \in DOMAIN images[current] : stored[Ref(images[current][i][1])] # 0
  /\ Pushing => RegistryUp /\ \A p \in Claimed(at[1]) : stored[<<at[1], p>>] # 0

\* No build is without platforms; an image is pushed that is in docker, and a digest looked
\* for that is in the registry; of each thread the queue holds one digest, which is unclaimed.
NeedInv ==
  /\ registry = "stray" => main \in {"closing", "stopping", "exited"}
  /\ \A b \in 1..NBuilds : b <= current => platforms[b] # {}
  /\ \A p \in Platforms : /\ pc[p] = "push" => local[Ref(p)] # 0
                          /\ pc[p] = "inspect" => stored[Ref(p)] # 0
  /\ main \in {"join", "claim"} => \A i \in DOMAIN queue : queue[i][1] \in unclaimed
  /\ \A i, j \in DOMAIN queue : queue[i][1] = queue[j][1] => i = j

\* Steps of the main thread, when no other is left.
LEMMA SameNeeds ==
  ASSUME NeedInv, TypeInv', main' # "join", UNCHANGED <<current, platforms, queue>>,
         registry' = "stray" => main' \in {"closing", "stopping", "exited"},
         main' = "claim" => main \in {"join", "claim"} /\ unclaimed' = unclaimed
  PROVE  NeedInv'
<1>1. \A p \in Platforms : pc'[p] \notin Active
  BY DEF TypeInv, PhaseInv
<1>2. \A p \in Platforms : pc'[p] # "push" /\ pc'[p] # "inspect"
  BY <1>1 DEF Active
<1> QED BY <1>2 DEF NeedInv

\* A thread builds what it pushes and pushes what it inspects; it reports once.
LEMMA ThreadNeeds ==
  ASSUME TypeInv, AccountInv, DigestInv, LocalInv, NeedInv, NEW p \in Platforms, Thread(p)
  PROVE  NeedInv'
<1>1. main = "join" /\ pc[p] \in Active /\ current \in 1..NBuilds
  BY ThreadInJoin
<1>2. /\ pc \in [Platforms -> Active \cup {"none", "done", "dead"}]
      /\ tries \in [Platforms -> 1..Tries] /\ queue \in Seq(Entries)
      /\ stored \in [Refs -> 0..Tries] /\ local \in [Refs -> 0..Tries] /\ Tries \in Nat
  BY MultiPlatformAssumption DEF TypeInv, TypeOK
<1>3. UNCHANGED <<main, current, platforms, unclaimed, registry>>
  BY DEF Thread, BuildImage, PushImage, ReportDigest, DockerError, ThreadError, build
<1>4. Ref(p) \in Refs /\ \A q \in Platforms : q # p => Ref(q) # Ref(p)
  BY <1>1 DEF Ref, Refs
<1>5. \A q \in Platforms : Ref(q)' = Ref(q)
  BY <1>3 DEF Ref
<1>6. ASSUME NEW q \in Platforms
      PROVE  /\ pc'[q] = "push" => local'[Ref(q)] # 0
             /\ pc'[q] = "inspect" => stored'[Ref(q)] # 0
  <2>1. CASE q # p
    <3>1. Ref(q) \in Refs /\ Ref(q) # Ref(p)
      BY <1>1, <1>4, <2>1 DEF Ref, Refs
    <3>2. \E next \in Active \cup {"done", "dead"} : pc' = [pc EXCEPT ![p] = next]
      BY DEF Thread, BuildImage, PushImage, ReportDigest, DockerError, ThreadError, Move, Active
    <3>3. local' = local \/ local' = [local EXCEPT ![Ref(p)] = Tries - tries[p] + 1]
      BY DEF Thread, BuildImage, PushImage, ReportDigest, DockerError, ThreadError
    <3>4. stored' = stored \/ stored' = [stored EXCEPT ![Ref(p)] = local[Ref(p)]]
      BY DEF Thread, BuildImage, PushImage, ReportDigest, DockerError, ThreadError
    <3>5. pc'[q] = pc[q]
      BY <1>2, <2>1, <3>2
    <3>6. local'[Ref(q)] = local[Ref(q)]
      BY <1>2, <3>1, <3>3
    <3>7. stored'[Ref(q)] = stored[Ref(q)]
      BY <1>2, <3>1, <3>4
    <3> QED BY <3>5, <3>6, <3>7 DEF NeedInv
  <2>2. CASE q = p /\ BuildImage(p)
    <3>1. pc'[p] = "push" /\ local'[Ref(p)] = Tries - tries[p] + 1
      BY <1>2, <1>4, <2>2 DEF BuildImage, Move
    <3>2. Tries - tries[p] + 1 # 0
      BY <1>2
    <3> QED BY <2>2, <3>1, <3>2
  <2>3. CASE q = p /\ PushImage(p)
    BY <1>2, <1>4, <2>3 DEF PushImage, Move
  <2>4. CASE q = p /\ (ReportDigest(p) \/ DockerError(p) \/ ThreadError(p))
    BY <1>2, <2>4 DEF ReportDigest, DockerError, ThreadError, Move
  <2> QED BY <2>1, <2>2, <2>3, <2>4 DEF Thread
<1>7. /\ \A i \in DOMAIN queue' : queue'[i][1] \in unclaimed
      /\ \A i, j \in DOMAIN queue' : queue'[i][1] = queue'[j][1] => i = j
  <2>1. CASE queue' = queue
    BY <1>1, <2>1 DEF NeedInv
  <2>2. CASE ReportDigest(p)
    <3>1. <<p, stored[Ref(p)]>> \in Entries
      <4>1. stored[Ref(p)] \in 1..Tries
        BY <1>2, <1>4, <2>2 DEF ReportDigest
      <4> QED BY <4>1 DEF Entries
    <3>2. queue' = Append(queue, <<p, stored[Ref(p)]>>)
      BY <2>2 DEF ReportDigest
    <3>3. /\ Len(queue) \in Nat /\ DOMAIN queue = 1..Len(queue)
          /\ DOMAIN queue' = 1..(Len(queue) + 1)
          /\ \A i \in 1..Len(queue) : queue'[i] = queue[i]
          /\ queue'[Len(queue) + 1] = <<p, stored[Ref(p)]>>
      BY <1>2, <3>1, <3>2
    <3>4. p \in unclaimed
      <4>1. p \in platforms[current] /\ images[current] = <<>>
        BY <1>1 DEF LocalInv, AccountInv
      <4>2. Claimed(current) \cup unclaimed = platforms[current]
        BY <1>1 DEF AccountInv
      <4> QED BY <4>1, <4>2, ClaimedEmpty
    <3>5. \A i \in DOMAIN queue : queue[i][1] # p /\ queue[i][1] \in unclaimed
      BY <1>1 DEF DigestInv, Active, NeedInv
    <3>6. \A i, j \in DOMAIN queue : queue[i][1] = queue[j][1] => i = j
      BY DEF NeedInv
    <3>7. \A i \in DOMAIN queue' : i \in DOMAIN queue \/ i = Len(queue) + 1
      BY <3>3
    <3>8. queue'[Len(queue) + 1][1] = p
      BY <3>3
    <3> QED BY <3>3, <3>4, <3>5, <3>6, <3>7, <3>8
  <2> QED
    BY <2>1, <2>2 DEF Thread, BuildImage, PushImage, DockerError, ThreadError
<1> QED BY <1>1, <1>3, <1>5, <1>6, <1>7 DEF NeedInv

\* A claim leaves the digests of other platforms.
LEMMA ClaimNeeds ==
  ASSUME TypeInv, TypeInv', NeedInv, Claim
  PROVE  NeedInv'
<1>1. /\ main = "claim" /\ queue \in Seq(Entries) /\ queue # <<>>
      /\ queue' = Tail(queue) /\ unclaimed' = unclaimed \ {Head(queue)[1]}
      /\ UNCHANGED <<main, current, platforms, registry>>
  BY DEF Claim, TypeInv, TypeOK
<1>2. /\ Len(queue) \in Nat \ {0} /\ DOMAIN queue = 1..Len(queue)
      /\ Head(queue) = queue[1] /\ 1 \in DOMAIN queue
  BY <1>1
<1>3. \A i \in DOMAIN queue' : i + 1 \in DOMAIN queue /\ queue'[i] = queue[i + 1] /\ i \in Nat \ {0}
  BY <1>1, <1>2
<1>4. ASSUME NEW i \in DOMAIN queue' PROVE queue'[i][1] \in unclaimed'
  <2>1. queue[i + 1][1] \in unclaimed
    BY <1>1, <1>3 DEF NeedInv
  <2>2. i + 1 # 1
    BY <1>3
  <2>3. queue[i + 1][1] # queue[1][1]
    BY <1>2, <1>3, <2>2 DEF NeedInv
  <2> QED BY <1>1, <1>2, <1>3, <2>1, <2>3
<1>5. ASSUME NEW i \in DOMAIN queue', NEW j \in DOMAIN queue', queue'[i][1] = queue'[j][1]
      PROVE  i = j
  <2>1. i + 1 = j + 1
    BY <1>3, <1>5 DEF NeedInv
  <2> QED BY <1>3, <2>1
<1>6. \A q \in Platforms : pc'[q] # "push" /\ pc'[q] # "inspect"
  BY <1>1 DEF TypeInv, PhaseInv, Active
<1> QED BY <1>1, <1>4, <1>5, <1>6 DEF NeedInv

LEMMA NeedInductive ==
  TypeInv /\ TypeInv' /\ AccountInv /\ DigestInv /\ LocalInv /\ NeedInv /\ [Next]_vars => NeedInv'
<1> SUFFICES ASSUME TypeInv, TypeInv', AccountInv, DigestInv, LocalInv, NeedInv, [Next]_vars
             PROVE  NeedInv'
  OBVIOUS
<1>1. ASSUME NEW p \in Platforms, Thread(p) PROVE NeedInv'
  BY <1>1, ThreadNeeds
<1>2. CASE BeginBuild
  <2>1. /\ main = "idle" /\ main' = "registry" /\ current' = current + 1 /\ current \in 0..NBuilds
        /\ current < NBuilds /\ UNCHANGED <<queue, registry>> /\ NBuilds \in Nat
    BY <1>2, MultiPlatformAssumption DEF BeginBuild, threads, TypeInv, TypeOK
  <2>2. PICK P \in (SUBSET Platforms) \ {{}} : platforms' = [platforms EXCEPT ![current + 1] = P]
    BY <1>2 DEF BeginBuild
  <2>3. ASSUME NEW b \in 1..NBuilds, b <= current' PROVE platforms'[b] # {}
    <3>1. b <= current \/ b = current + 1
      BY <2>1, <2>3
    <3>2. platforms \in [1..NBuilds -> SUBSET Platforms]
      BY DEF TypeInv, TypeOK
    <3>3. CASE b = current + 1
      BY <2>1, <2>2, <3>2, <3>3
    <3>4. CASE b <= current
      <4>1. platforms'[b] = platforms[b]
        BY <2>1, <2>2, <3>2, <3>4
      <4> QED BY <3>4, <4>1 DEF NeedInv
    <3> QED BY <3>1, <3>3, <3>4
  <2>4. \A q \in Platforms : pc'[q] # "push" /\ pc'[q] # "inspect"
    BY <2>1 DEF TypeInv, PhaseInv, Active
  <2> QED BY <2>1, <2>3, <2>4 DEF NeedInv
<1>3. CASE StartThreads
  <2>1. /\ main' = "join" /\ UNCHANGED <<current, platforms, registry>> /\ queue' = <<>> /\ RegistryUp
        /\ \A q \in Platforms : pc'[q] \in {"build", "none"}
    BY <1>3 DEF StartThreads, build
  <2>2. DOMAIN queue' = {}
    BY <2>1
  <2> QED BY <2>1, <2>2 DEF NeedInv, RegistryUp
<1>4. CASE Claim
  BY <1>4, ClaimNeeds
<1>5. CASE MainBuild /\ ~StartThreads /\ ~Claim
  BY <1>5, SameNeeds
  DEF MainBuild, StartRegistry, RegistryFails, Join, EndClaims, Fail, build, threads, NeedInv
<1>6. CASE TagStep
  BY <1>6, SameNeeds
  DEF TagStep, AddTags, TagNative, TagNativeFails, TagsDone, Fail, build, threads, NeedInv
<1>7. CASE PushStep
  BY <1>7, SameNeeds
  DEF PushStep, BeginPush, PushTag, NextBuild, PushFails, Pushed, PushTimesOut, Pushing, Fail,
      build, threads, NeedInv
<1>8. CASE Exit
  BY <1>8, SameNeeds DEF Exit, Leave, RemoveImages, NoClient, StopRegistry, build, threads, NeedInv
<1>9. CASE Exited \/ UNCHANGED vars
  BY <1>9 DEF Exited, vars, NeedInv, Ref
<1> QED BY <1>1, <1>2, <1>3, <1>4, <1>5, <1>6, <1>7, <1>8, <1>9 DEF Next

\* The images of a build that returned are in the registry, which is up.
LEMMA BuiltInRegistry ==
  ASSUME TypeInv, AccountInv, DigestInv, NeedInv, main \in {"tag", "push"},
         NEW b \in 1..current
  PROVE  /\ RegistryUp /\ images[b] # <<>>
         /\ \A i \in DOMAIN images[b] : stored[<<b, images[b][i][1]>>] # 0
<1>1. current \in 1..NBuilds /\ NBuilds \in Nat
  BY CurrentBuild, MultiPlatformAssumption DEF TypeInv, PhaseInv
<1>2. b \in 1..NBuilds /\ b <= current
  BY <1>1
<1>3. platforms[b] # {}
  BY <1>2 DEF NeedInv
<1>4. Claimed(b) = platforms[b]
  <2>1. CASE b < current
    BY <1>2, <2>1 DEF AccountInv, Complete
  <2>2. CASE b = current
    <3>1. current # 0 /\ unclaimed = {}
      BY <1>1 DEF AccountInv
    <3>2. Claimed(current) \cup unclaimed = platforms[current]
      BY <3>1 DEF AccountInv
    <3> QED BY <2>2, <3>1, <3>2
  <2> QED BY <1>1, <1>2, <2>1, <2>2
<1>5. images[b] # <<>>
  BY <1>3, <1>4, ClaimedEmpty
<1>6. registry # "off" /\ registry # "stray"
  BY <1>2, <1>5 DEF DigestInv, NeedInv
<1>7. RegistryUp
  BY <1>6 DEF TypeInv, TypeOK, RegistryUp
<1>8. ASSUME NEW i \in DOMAIN images[b] PROVE stored[<<b, images[b][i][1]>>] # 0
  <2>1. images[b][i] \in Entries
    <3>1. images[b] \in Seq(Entries)
      BY <1>2 DEF TypeInv, TypeOK
    <3> QED BY <1>8, <3>1
  <2>2. images[b][i][2] \in 1..Tries
    BY <2>1 DEF Entries
  <2>3. images[b][i][2] = stored[<<b, images[b][i][1]>>]
    BY <1>2, <1>7, <1>8 DEF DigestInv, DigestsCurrent
  <2>4. \A n \in 1..Tries : n # 0
    BY MultiPlatformAssumption
  <2> QED BY <2>2, <2>3, <2>4
<1> QED BY <1>5, <1>7, <1>8

\* In any order of the threads, and whichever attempts fail: a thread finds the image it
\* pushes and the digest it looks for, the assertion on claims holds, and the images that a
\* task tags and that the push makes manifests of are in the registry
\* (_build_single_image, build_multiple_images, tag_native_platform, push).
THEOREM CallsFindTheirInputs == Spec => []NeedsMet
<1>1. TypeInv /\ AccountInv /\ DigestInv /\ NeedInv => NeedsMet
  <2> SUFFICES ASSUME TypeInv, AccountInv, DigestInv, NeedInv PROVE NeedsMet
    OBVIOUS
  <2>1. ASSUME NEW p \in Platforms
        PROVE  /\ pc[p] = "build" => dockerfile # "none"
               /\ pc[p] = "push" => RegistryUp /\ local[Ref(p)] # 0
               /\ pc[p] = "inspect" => RegistryUp /\ stored[Ref(p)] # 0
    <3>1. pc[p] \in Active => dockerfile # "none" /\ RegistryUp
      BY DEF TypeInv, PhaseInv
    <3> QED BY <3>1 DEF Active, NeedInv
  <2>2. main = "claim" /\ queue # <<>> => Head(queue)[1] \in unclaimed
    <3>1. queue \in Seq(Entries)
      BY DEF TypeInv, TypeOK
    <3>2. queue # <<>> => Head(queue) = queue[1] /\ 1 \in DOMAIN queue
      BY <3>1
    <3> QED BY <3>2 DEF NeedInv
  <2>3. main = "tag" =>
          /\ RegistryUp /\ images[current] # <<>>
          /\ \A i \in DOMAIN images[current] : stored[Ref(images[current][i][1])] # 0
    <3> SUFFICES ASSUME main = "tag"
                 PROVE  /\ RegistryUp /\ images[current] # <<>>
                        /\ \A i \in DOMAIN images[current] : stored[Ref(images[current][i][1])] # 0
      OBVIOUS
    <3>1. current \in 1..NBuilds /\ current \in 1..current
      BY CurrentBuild, MultiPlatformAssumption DEF TypeInv, PhaseInv
    <3> QED BY <3>1, BuiltInRegistry DEF Ref
  <2>4. Pushing => RegistryUp /\ \A p \in Claimed(at[1]) : stored[<<at[1], p>>] # 0
    <3> SUFFICES ASSUME Pushing
                 PROVE  RegistryUp /\ \A p \in Claimed(at[1]) : stored[<<at[1], p>>] # 0
      OBVIOUS
    <3>1. main = "push" /\ at[1] \in 1..current
      <4>1. at \in (1..(NBuilds + 1)) \X (1..(MaxTags + 1)) /\ current \in 0..NBuilds
        BY DEF TypeInv, TypeOK
      <4>2. at[1] \in 1..(NBuilds + 1) /\ at[1] <= current /\ main = "push"
        BY <4>1 DEF Pushing
      <4> QED BY <4>1, <4>2, MultiPlatformAssumption
    <3> QED BY <3>1, BuiltInRegistry DEF Claimed
  <2> QED BY <2>1, <2>2, <2>3, <2>4 DEF NeedsMet
<1>2. Init => DigestInv
  BY DEF Init, DigestInv, DigestsCurrent
<1>3. Init => LocalInv
  BY DEF Init, LocalInv, Active
<1>4. Init => NeedInv
  <2> SUFFICES ASSUME Init PROVE NeedInv
    OBVIOUS
  <2>1. DOMAIN queue = {}
    BY DEF Init
  <2>2. \A b \in 1..NBuilds : ~(b <= current)
    BY MultiPlatformAssumption DEF Init
  <2>3. registry # "stray" /\ \A p \in Platforms : pc[p] = "none"
    BY DEF Init
  <2> QED BY <2>1, <2>2, <2>3 DEF NeedInv
<1>5. Spec => []DigestInv
  BY <1>2, DigestInductive, TypeInvHolds, AccountHolds, PTL DEF Spec
<1>6. Spec => []LocalInv
  BY <1>3, LocalInductive, TypeInvHolds, AccountHolds, PTL DEF Spec
<1>7. Spec => []NeedInv
  BY <1>4, <1>5, <1>6, NeedInductive, TypeInvHolds, AccountHolds, PTL DEF Spec
<1> QED BY <1>1, <1>5, <1>7, TypeInvHolds, AccountHolds, PTL

\* The calls that are left to a thread: three for each of its attempts.
CallsLeft(p) ==
  CASE pc[p] = "build" -> 3 * tries[p]
    [] pc[p] = "push" -> 3 * tries[p] - 1
    [] pc[p] = "inspect" -> 3 * tries[p] - 2
    [] OTHER -> 0

\* The safety part of BuildEnds, for any number of platforms and attempts: each call of a
\* thread, whether it succeeds, fails or is tried again, is one of at most three for each of
\* its attempts, and takes none from another thread, so that the join comes to its end
\* (_build_single_image).
THEOREM ThreadsRunOut ==
  Spec => [][\A p \in Platforms : Thread(p) =>
               /\ CallsLeft(p) \in 1..(3 * Tries)
               /\ CallsLeft(p)' \in 0..(CallsLeft(p) - 1)
               /\ \A q \in Platforms \ {p} : CallsLeft(q)' = CallsLeft(q)]_vars
<1>1. ASSUME TypeInv, NEW p \in Platforms, Thread(p)
      PROVE  /\ CallsLeft(p) \in 1..(3 * Tries)
             /\ CallsLeft(p)' \in 0..(CallsLeft(p) - 1)
             /\ \A q \in Platforms \ {p} : CallsLeft(q)' = CallsLeft(q)
  <2>1. /\ pc \in [Platforms -> Active \cup {"none", "done", "dead"}]
        /\ tries \in [Platforms -> 1..Tries] /\ Tries \in Nat
    BY <1>1, MultiPlatformAssumption DEF TypeInv, TypeOK
  <2>2. pc[p] \in Active
    BY <1>1, ThreadInJoin
  <2>3. tries[p] \in 1..Tries /\ tries[p] \in Nat
    BY <2>1
  <2>4. CallsLeft(p) \in 1..(3 * Tries)
    BY <2>1, <2>2, <2>3 DEF CallsLeft, Active
  <2>5. CallsLeft(p)' \in 0..(CallsLeft(p) - 1)
    <3>1. CASE BuildImage(p)
      <4>1. pc[p] = "build" /\ pc'[p] = "push" /\ tries'[p] = tries[p]
        BY <2>1, <3>1 DEF BuildImage, Move
      <4>2. CallsLeft(p) = 3 * tries[p] /\ CallsLeft(p)' = 3 * tries[p] - 1
        BY <4>1 DEF CallsLeft
      <4> QED BY <2>3, <4>2
    <3>2. CASE PushImage(p)
      <4>1. pc[p] = "push" /\ pc'[p] = "inspect" /\ tries'[p] = tries[p]
        BY <2>1, <3>2 DEF PushImage, Move
      <4>2. CallsLeft(p) = 3 * tries[p] - 1 /\ CallsLeft(p)' = 3 * tries[p] - 2
        BY <4>1 DEF CallsLeft
      <4> QED BY <2>3, <4>2
    <3>3. ASSUME pc'[p] \in {"done", "dead"} PROVE CallsLeft(p)' \in 0..(CallsLeft(p) - 1)
      <4>1. CallsLeft(p)' = 0
        BY <3>3 DEF CallsLeft
      <4> QED BY <2>4, <4>1, <2>1
    <3>4. CASE ReportDigest(p) \/ ThreadError(p)
      BY <2>1, <3>3, <3>4 DEF ReportDigest, ThreadError, Move
    <3>5. CASE DockerError(p)
      <4>1. CASE tries[p] > 1
        <5>1. pc'[p] = "build" /\ tries'[p] = tries[p] - 1
          BY <2>1, <3>5, <4>1 DEF DockerError, Move
        <5>2. CallsLeft(p)' = 3 * (tries[p] - 1)
          BY <5>1 DEF CallsLeft
        <5>3. CallsLeft(p) \in {3 * tries[p], 3 * tries[p] - 1, 3 * tries[p] - 2}
          BY <2>2 DEF CallsLeft, Active
        <5> QED BY <2>3, <4>1, <5>2, <5>3
      <4>2. CASE ~(tries[p] > 1)
        BY <2>1, <3>3, <3>5, <4>2 DEF DockerError, Move
      <4> QED BY <4>1, <4>2
    <3> QED BY <1>1, <3>1, <3>2, <3>4, <3>5 DEF Thread
  <2>6. ASSUME NEW q \in Platforms \ {p} PROVE CallsLeft(q)' = CallsLeft(q)
    <3>1. pc'[q] = pc[q] /\ tries'[q] = tries[q]
      BY <1>1, <2>1
      DEF Thread, BuildImage, PushImage, ReportDigest, DockerError, ThreadError, Move
    <3> QED BY <3>1 DEF CallsLeft
  <2> QED BY <2>4, <2>5, <2>6
<1>2. TypeInv =>
        [\A p \in Platforms : Thread(p) =>
           /\ CallsLeft(p) \in 1..(3 * Tries)
           /\ CallsLeft(p)' \in 0..(CallsLeft(p) - 1)
           /\ \A q \in Platforms \ {p} : CallsLeft(q)' = CallsLeft(q)]_vars
  BY <1>1
<1> QED BY <1>2, TypeInvHolds, PTL
=============================================================================
