--------------------------- MODULE PublishProofs ---------------------------
(***************************************************************************)
(* That what Publish uploads is what the configuration promises, that no   *)
(* upload slips past the scan of its push, and that a manifest is replaced *)
(* only where validation does not look.                                    *)
(***************************************************************************)
EXTENDS Publish, SequenceTheorems, WellFoundedInduction, TLAPS

-----------------------------------------------------------------------------
(* Sequences and maxima. *)

\* A function on an initial interval of the naturals is a sequence.
LEMMA SequenceOfLength ==
  ASSUME NEW S, NEW n \in Nat, NEW f \in [1..n -> S]
  PROVE  f \in Seq(S) /\ Len(f) = n
<1>1. f \in Seq(S)
  BY SeqDef
<1>2. Len(f) \in Nat /\ 1..Len(f) = 1..n
  BY <1>1, LenProperties
<1> QED
  BY <1>1, <1>2

\* A nonempty set of positions of a sequence has a maximum, and Max is it: the distances
\* from the end have a least element.
LEMMA MaxOfInterval ==
  ASSUME NEW n \in Nat, NEW S \in SUBSET (1..n), S # {}
  PROVE  Max(S) \in S /\ \A x \in S : x <= Max(S)
<1> DEFINE T == {n - x : x \in S}
           R == {ss \in Nat \X Nat : ss[1] < ss[2]}
<1>1. IsWellFoundedOn(R, Nat)
  BY NatLessThanWellFounded DEF OpToRel
<1>2. T \subseteq Nat /\ T # {}
  <2>1. \A x \in S : x \in 1..n /\ n - x \in Nat
    OBVIOUS
  <2> QED
    BY <2>1
<1> HIDE DEF T, R
<1>3. PICK m \in T : \A k \in T : <<k, m>> \notin R
  BY <1>1, <1>2, WFMin
<1>4. PICK x \in S : m = n - x
  BY <1>3 DEF T
<1>5. ASSUME NEW y \in S PROVE y <= x
  <2>1. n - y \in T /\ n - y \in Nat /\ m \in Nat
    BY <1>2, <1>3 DEF T
  <2>2. ~(n - y < m)
    BY <2>1, <1>3 DEF R
  <2> QED
    BY <2>2, <1>4
<1>6. \A y \in S : x >= y
  BY <1>5
<1>7. Max(S) \in S /\ \A y \in S : Max(S) >= y
  BY <1>6 DEF Max
<1> QED
  BY <1>7

-----------------------------------------------------------------------------
(* The operators of the model. *)

TagLists == {<<>>, <<OwnTag>>, <<BuildTag>>, <<OwnTag, BuildTag>>}

\* The build tag goes behind the tags that are given.
LEMMA BuildTagAdded ==
  ASSUME NEW given \in {<<>>, <<OwnTag>>}, NEW addBuildTag \in BOOLEAN
  PROVE  WithBuildTag(given, addBuildTag) \in TagLists
<1>1. Append(<<>>, BuildTag) = <<BuildTag>> /\ Append(<<OwnTag>>, BuildTag) = <<OwnTag, BuildTag>>
  <2>1. /\ <<>> \in Seq(Refs) /\ <<OwnTag>> \in Seq(Refs) /\ BuildTag \in Refs
        /\ <<BuildTag>> \in Seq(Refs) /\ <<OwnTag, BuildTag>> \in Seq(Refs)
    BY DEF Refs
  <2>2. Append(<<>>, BuildTag) = <<BuildTag>>
    BY <2>1, AppendProperties, SeqEqual
  <2>3. Append(<<OwnTag>>, BuildTag) = <<OwnTag, BuildTag>>
    <3> DEFINE given2 == Append(<<OwnTag>>, BuildTag)
    <3>1. /\ given2 \in Seq(Refs) /\ Len(given2) = 2
          /\ given2[1] = OwnTag /\ given2[2] = BuildTag
      BY <2>1, AppendProperties
    <3>2. /\ Len(<<OwnTag, BuildTag>>) = 2
          /\ <<OwnTag, BuildTag>>[1] = OwnTag /\ <<OwnTag, BuildTag>>[2] = BuildTag
      OBVIOUS
    <3> HIDE DEF given2
    <3>3. \A i \in 1..2 : given2[i] = <<OwnTag, BuildTag>>[i]
      BY <3>1, <3>2
    <3>4. given2 = <<OwnTag, BuildTag>>
      BY <2>1, <3>1, <3>2, <3>3, SeqEqual
    <3> QED
      BY <3>4 DEF given2
  <2> QED
    BY <2>2, <2>3
<1>2. CASE given = <<>>
  BY <1>1, <1>2 DEF WithBuildTag, TagLists
<1>3. CASE given = <<OwnTag>>
  BY <1>1, <1>3 DEF WithBuildTag, TagLists
<1> QED
  BY <1>2, <1>3

\* The tags of an entry are references.
LEMMA TagsAreRefs ==
  ASSUME NEW entry \in Entries
  PROVE  TagsOf(entry) \in Seq(Refs)
<1>1. entry.tags \in Seq(Refs)
  <2>1. entry.tags \in TagLists
    BY DEF Entries, TagLists
  <2>2. OwnTag \in Refs /\ BuildTag \in Refs
    BY DEF Refs
  <2>3. <<>> \in Seq(Refs)
    OBVIOUS
  <2>4. <<OwnTag>> \in Seq(Refs) /\ <<BuildTag>> \in Seq(Refs)
    BY <2>2
  <2>5. <<OwnTag, BuildTag>> \in Seq(Refs)
    BY <2>2
  <2> QED
    BY <2>1, <2>3, <2>4, <2>5 DEF TagLists
<1>2. OwnTag \in Refs
  BY DEF Refs
<1>3. Append(entry.tags, OwnTag) \in Seq(Refs)
  BY <1>1, <1>2, AppendProperties
<1> QED
  BY <1>1, <1>3 DEF TagsOf

\* What an entry of a built image adds to the tagged images.
NewTags(entry) == [k \in DOMAIN TagsOf(entry) |-> <<entry.step, TagsOf(entry)[k]>>]

LEMMA NewTagsAreTags ==
  ASSUME NEW entry \in Entries
  PROVE  /\ NewTags(entry) \in Seq(Steps \X Refs)
         /\ \A ref \in Refs : Contains(NewTags(entry), <<entry.step, ref>>)
                                <=> Contains(TagsOf(entry), ref)
         /\ \A k \in 1..Len(NewTags(entry)) :
              /\ NewTags(entry)[k][1] = entry.step
              /\ Contains(TagsOf(entry), NewTags(entry)[k][2])
<1> DEFINE n == Len(TagsOf(entry))
<1>1. TagsOf(entry) \in Seq(Refs) /\ entry.step \in Steps
  BY TagsAreRefs DEF Entries
<1>2. /\ n \in Nat /\ DOMAIN TagsOf(entry) = 1..n
      /\ \A k \in 1..n : TagsOf(entry)[k] \in Refs
  BY <1>1, LenProperties
<1>3. NewTags(entry) \in [1..n -> Steps \X Refs]
  BY <1>1, <1>2 DEF NewTags
<1>4. NewTags(entry) \in Seq(Steps \X Refs) /\ Len(NewTags(entry)) = n
  BY <1>2, <1>3, SequenceOfLength
<1>5. \A k \in 1..n : NewTags(entry)[k] = <<entry.step, TagsOf(entry)[k]>>
  BY <1>2 DEF NewTags
<1> QED
  BY <1>4, <1>5 DEF Contains

\* The members of a concatenation.
LEMMA ContainsConcat ==
  ASSUME NEW S, NEW s \in Seq(S), NEW t \in Seq(S), NEW e
  PROVE  Contains(s \o t, e) <=> Contains(s, e) \/ Contains(t, e)
<1>1. /\ Len(s) \in Nat /\ Len(t) \in Nat /\ Len(s \o t) = Len(s) + Len(t)
      /\ \A i \in 1..(Len(s) + Len(t)) :
           (s \o t)[i] = IF i <= Len(s) THEN s[i] ELSE t[i - Len(s)]
  BY ConcatProperties, LenProperties
<1>2. ASSUME Contains(s \o t, e) PROVE Contains(s, e) \/ Contains(t, e)
  <2>1. PICK i \in 1..(Len(s) + Len(t)) : (s \o t)[i] = e
    BY <1>1, <1>2 DEF Contains
  <2>2. CASE i <= Len(s)
    BY <1>1, <2>1, <2>2 DEF Contains
  <2>3. CASE ~(i <= Len(s))
    <3>1. i - Len(s) \in 1..Len(t)
      BY <1>1, <2>3
    <3> QED
      BY <1>1, <2>1, <2>3, <3>1 DEF Contains
  <2> QED
    BY <2>2, <2>3
<1>3. ASSUME Contains(s, e) PROVE Contains(s \o t, e)
  <2>1. PICK i \in 1..Len(s) : s[i] = e
    BY <1>3 DEF Contains
  <2>2. i \in 1..Len(s \o t) /\ (s \o t)[i] = e
    BY <1>1, <2>1
  <2> QED
    BY <2>2 DEF Contains
<1>4. ASSUME Contains(t, e) PROVE Contains(s \o t, e)
  <2>1. PICK i \in 1..Len(t) : t[i] = e
    BY <1>4 DEF Contains
  <2>2. /\ i + Len(s) \in 1..(Len(s) + Len(t)) /\ ~(i + Len(s) <= Len(s))
        /\ (i + Len(s)) - Len(s) = i
    BY <1>1, <2>1
  <2>3. (s \o t)[i + Len(s)] = e
    BY <1>1, <2>1, <2>2
  <2> QED
    BY <1>1, <2>2, <2>3 DEF Contains
<1> QED
  BY <1>2, <1>3, <1>4

-----------------------------------------------------------------------------
(* Types. *)

ConfigType ==
  /\ kind \in [Steps -> Kinds]
  /\ entries \in Seq(Entries) /\ Len(entries) <= MaxEntries
FlowType ==
  /\ phase \in {"config", "rejected", "tag", "scan", "next", "push", "failed", "done"}
  /\ at \in 1..(Len(entries) + 1) /\ (phase \in {"scan", "next"} => at <= Len(entries))
ScanType ==
  /\ scores \in [1..MaxEntries -> {<<>>} \cup [Platforms -> 0..MaxScore]
                                    \cup [{"native"} -> 0..MaxScore]]
  /\ limit \in [1..MaxEntries -> 0..MaxScore] /\ verdict \in [1..MaxEntries -> Verdicts]
ImageType == local \in [Refs -> Images] /\ registry \in [Refs -> Images]
QueueType ==
  /\ tagged \in Seq(Steps \X Refs) /\ registered \in Seq(Refs)
  /\ sent \in 0..(Len(tagged) + Len(registered))

\* TypeOK in the parts that the actions are looked at by.
LEMMA PartsOfType == TypeOK <=> ConfigType /\ FlowType /\ ScanType /\ ImageType /\ QueueType
BY DEF TypeOK, ConfigType, FlowType, ScanType, ImageType, QueueType

\* What the type says of the entry at a position.
LEMMA EntryType ==
  ASSUME ConfigType, NEW i \in DOMAIN entries
  PROVE  /\ i \in 1..Len(entries) /\ Len(entries) \in Nat /\ i \in 1..MaxEntries
         /\ entries[i] \in Entries /\ entries[i].step \in Steps /\ entries[i].task \in Tasks
         /\ TagsOf(entries[i]) \in Seq(Refs)
<1>1. /\ entries \in Seq(Entries) /\ Len(entries) \in Nat /\ Len(entries) <= MaxEntries
      /\ i \in 1..Len(entries)
  BY LenProperties DEF ConfigType
<1>2. entries[i] \in Entries
  BY <1>1, ElementOfSeq
<1>3. i \in 1..MaxEntries
  BY <1>1, PublishAssumption
<1> QED
  BY <1>1, <1>2, <1>3, TagsAreRefs DEF Entries

LEMMA WorkingEntry ==
  ASSUME ConfigType, FlowType, at <= Len(entries)
  PROVE  at \in DOMAIN entries /\ at \in 1..Len(entries)
BY LenProperties DEF ConfigType, FlowType

\* The lengths that the type is about.
LEMMA Lengths ==
  ASSUME ConfigType, QueueType
  PROVE  /\ Len(entries) \in Nat /\ Len(tagged) \in Nat /\ Len(registered) \in Nat
         /\ DOMAIN entries = 1..Len(entries) /\ DOMAIN tagged = 1..Len(tagged)
         /\ DOMAIN registered = 1..Len(registered) /\ sent \in Nat
BY LenProperties DEF ConfigType, QueueType

\* The uploads are those of the tagged images and then those of the registered references.
LEMMA UploadsInOrder ==
  ASSUME QueueType, ImageType
  PROVE  /\ Uploads \in Seq(Refs \X Images)
         /\ Len(Uploads) = Len(tagged) + Len(registered)
         /\ \A k \in 1..Len(tagged) :
              Uploads[k] = <<tagged[k][2], <<tagged[k][1], "all">>>>
         /\ \A k \in 1..(Len(tagged) + Len(registered)) : k > Len(tagged) =>
              /\ k - Len(tagged) \in 1..Len(registered)
              /\ Uploads[k] = <<registered[k - Len(tagged)],
                                local[registered[k - Len(tagged)]]>>
<1> DEFINE m == Len(tagged)
           n == Len(registered)
<1>1. /\ m \in Nat /\ n \in Nat /\ DOMAIN tagged = 1..m /\ DOMAIN registered = 1..n
      /\ tagged \in [1..m -> Steps \X Refs] /\ registered \in [1..n -> Refs]
  BY LenProperties DEF QueueType
<1>2. /\ PlatformUploads \in Seq(Refs \X Images) /\ Len(PlatformUploads) = m
      /\ \A k \in 1..m : PlatformUploads[k] = <<tagged[k][2], <<tagged[k][1], "all">>>>
  <2>1. \A k \in 1..m : tagged[k][2] \in Refs /\ <<tagged[k][1], "all">> \in Images
    BY <1>1 DEF Images
  <2>2. PlatformUploads \in [1..m -> Refs \X Images]
    BY <1>1, <2>1 DEF PlatformUploads
  <2> QED
    BY <1>1, <2>2, SequenceOfLength DEF PlatformUploads
<1>3. /\ DockerUploads \in Seq(Refs \X Images) /\ Len(DockerUploads) = n
      /\ \A k \in 1..n : DockerUploads[k] = <<registered[k], local[registered[k]]>>
  <2>1. \A k \in 1..n : registered[k] \in Refs /\ local[registered[k]] \in Images
    BY <1>1 DEF ImageType
  <2>2. DockerUploads \in [1..n -> Refs \X Images]
    BY <1>1, <2>1 DEF DockerUploads
  <2> QED
    BY <1>1, <2>2, SequenceOfLength DEF DockerUploads
<1> HIDE DEF m, n
<1>4. /\ Uploads \in Seq(Refs \X Images) /\ Len(Uploads) = m + n
      /\ \A k \in 1..(m + n) :
           Uploads[k] = IF k <= m THEN PlatformUploads[k] ELSE DockerUploads[k - m]
  BY <1>2, <1>3, ConcatProperties DEF Uploads
<1>5. \A k \in 1..m : k \in 1..(m + n) /\ k <= m
  BY <1>1
<1>6. \A k \in 1..(m + n) : k > m => k - m \in 1..n /\ ~(k <= m)
  BY <1>1
<1>7. \A k \in 1..m : Uploads[k] = <<tagged[k][2], <<tagged[k][1], "all">>>>
  BY <1>2, <1>4, <1>5
<1>8. \A k \in 1..(m + n) : k > m =>
        k - m \in 1..n /\ Uploads[k] = <<registered[k - m], local[registered[k - m]]>>
  BY <1>3, <1>4, <1>6
<1> QED
  BY <1>4, <1>7, <1>8 DEF m, n

LEMMA InitialType == Init => TypeOK
<1> SUFFICES ASSUME Init PROVE ConfigType /\ FlowType /\ ScanType /\ ImageType /\ QueueType
  BY PartsOfType
<1>1. Len(<<>>) = 0 /\ <<>> \in Seq(Entries) /\ <<>> \in Seq(Steps \X Refs) /\ <<>> \in Seq(Refs)
  BY EmptySeq
<1>2. ConfigType
  BY <1>1, PublishAssumption DEF Init, ConfigType
<1>3. FlowType
  BY <1>1 DEF Init, FlowType
<1>4. ScanType
  BY PublishAssumption DEF Init, ScanType, Verdicts
<1>5. ImageType
  BY DEF Init, ImageType, Images
<1>6. QueueType
  BY <1>1 DEF Init, QueueType
<1> QED
  BY <1>2, <1>3, <1>4, <1>5, <1>6

\* What a scan comes to: its scores, where it goes by some, are those of the images of its
\* entry, and if it passes they are below its threshold.
ScanComesTo(v, t, found) ==
  /\ verdict' = [verdict EXCEPT ![at] = v] /\ limit' = [limit EXCEPT ![at] = t]
  /\ scores' = [scores EXCEPT ![at] = found]
  /\ phase' = IF v = "failed" THEN "failed" ELSE "next"
  /\ v = "passed" /\ t > 0 => /\ found \in [Scanned(Entry) -> 0..MaxScore]
                              /\ \A p \in Scanned(Entry) : found[p] < t

LEMMA ScanSteps ==
  ASSUME ScanType, Scan, at \in 1..MaxEntries
  PROVE  /\ Scanned(Entry) \in {Platforms, {"native"}}
         /\ \E v \in {"off", "passed", "failed"}, t \in 0..MaxScore,
               found \in {scores[at]} \cup [Scanned(Entry) -> 0..MaxScore] :
              ScanComesTo(v, t, found)
<1>0. /\ Scanned(Entry) \in {Platforms, {"native"}}
      /\ scores = [scores EXCEPT ![at] = scores[at]] /\ limit = [limit EXCEPT ![at] = limit[at]]
      /\ limit[at] \in 0..MaxScore
  BY DEF Scanned, ScanType
<1>1. PICK enabled \in {Unset, 0, 1}, threshold \in {Unset} \cup 0..MaxScore :
        LET scan == MergeScanConfig(enabled, threshold) IN
        IF scan.enabled
        THEN /\ limit' = [limit EXCEPT ![at] = scan.threshold]
             /\ ScanImages(scan.threshold) \/ (ScanFails /\ UNCHANGED scores)
        ELSE ScanGoesOn("off") /\ UNCHANGED <<limit, scores>>
  BY DEF Scan
<1>2. PICK t \in 0..MaxScore : t = MergeScanConfig(enabled, threshold).threshold
  BY PublishAssumption DEF MergeScanConfig
<1>3. CASE ScanGoesOn("off") /\ UNCHANGED <<limit, scores>>
  <2>1. ScanComesTo("off", limit[at], scores[at])
    BY <1>0, <1>3 DEF ScanGoesOn, ScanComesTo
  <2> QED
    BY <1>0, <2>1
<1>4. CASE limit' = [limit EXCEPT ![at] = t] /\ ScanFails /\ UNCHANGED scores
  <2>1. ScanComesTo("failed", t, scores[at])
    BY <1>0, <1>4 DEF ScanFails, ScanComesTo
  <2> QED
    BY <1>0, <2>1
<1>5. CASE limit' = [limit EXCEPT ![at] = t] /\ ScanImages(t)
  <2>1. CASE t = 0 /\ ScanGoesOn("passed") /\ UNCHANGED scores
    <3>1. ScanComesTo("passed", t, scores[at])
      BY <1>0, <1>5, <2>1 DEF ScanGoesOn, ScanComesTo
    <3> QED
      BY <1>0, <3>1
  <2>2. CASE t > 0 /\ ~(t = 0 /\ ScanGoesOn("passed") /\ UNCHANGED scores)
    <3>1. PICK found \in [Scanned(Entry) -> 0..MaxScore] :
            /\ scores' = [scores EXCEPT ![at] = found]
            /\ IF \E p \in Scanned(Entry) : Blocks(t, found[p])
               THEN ScanFails ELSE ScanGoesOn("passed")
      BY <1>5, <2>2 DEF ScanImages
    <3>2. CASE ScanFails
      <4>1. ScanComesTo("failed", t, found)
        BY <1>5, <3>1, <3>2 DEF ScanFails, ScanComesTo
      <4> QED
        BY <1>0, <4>1
    <3>3. CASE ScanGoesOn("passed") /\ \A p \in Scanned(Entry) : ~Blocks(t, found[p])
      <4>1. \A p \in Scanned(Entry) : found[p] < t
        BY <2>2, <3>1, <3>3, PublishAssumption DEF Blocks
      <4>2. ScanComesTo("passed", t, found)
        BY <1>5, <3>1, <3>3, <4>1 DEF ScanGoesOn, ScanComesTo
      <4> QED
        BY <1>0, <4>2
    <3> QED
      BY <3>1, <3>2, <3>3
  <2> QED
    BY <1>5, <2>1, <2>2 DEF ScanImages
<1> QED
  BY <1>0, <1>1, <1>2, <1>3, <1>4, <1>5

\* The variables keep their types: no entry is worked at that is not there, scores and
\* thresholds stay in bounds, and no more is sent than was queued.
THEOREM TypeCorrect == Spec => []TypeOK
<1>1. TypeOK /\ [Next]_vars => TypeOK'
  <2> SUFFICES ASSUME ConfigType, FlowType, ScanType, ImageType, QueueType, [Next]_vars
               PROVE  (ConfigType /\ FlowType /\ ScanType /\ ImageType /\ QueueType)'
    BY DEF TypeOK, ConfigType, FlowType, ScanType, ImageType, QueueType
  <2> USE DEF config, scanning, uploading
  <2>0. /\ Len(entries) \in Nat /\ Len(tagged) \in Nat /\ Len(registered) \in Nat
        /\ sent \in Nat /\ at \in Nat
    BY Lengths DEF FlowType
  <2>1. ASSUME NEW step \in Steps, NEW task \in Tasks, NEW repository \in Spellings,
               NEW given \in {<<>>, <<OwnTag>>}, NEW addBuildTag \in BOOLEAN,
               AddEntry(step, task, repository, given, addBuildTag)
        PROVE  (ConfigType /\ FlowType /\ ScanType /\ ImageType /\ QueueType)'
    <3>1. [step |-> step, task |-> task, repository |-> repository,
           tags |-> WithBuildTag(given, addBuildTag)] \in Entries
      BY <2>1, BuildTagAdded DEF Entries, TagLists
    <3>2. entries' \in Seq(Entries) /\ Len(entries') = Len(entries) + 1
      BY <2>1, <3>1, AppendProperties DEF AddEntry, ConfigType
    <3>3. ConfigType'
      BY <2>0, <2>1, <3>2, PublishAssumption DEF AddEntry, ConfigType
    <3>4. FlowType'
      BY <2>0, <2>1, <3>2 DEF AddEntry, FlowType
    <3> QED
      BY <2>1, <3>3, <3>4 DEF AddEntry, ScanType, ImageType, QueueType
  <2>2. CASE Validate
    BY <2>2 DEF Validate, ConfigType, FlowType, ScanType, ImageType, QueueType
  <2>3. CASE TagBuiltImage
    <3>1. at \in DOMAIN entries /\ Entry \in Entries
      BY <2>3, WorkingEntry, EntryType DEF TagBuiltImage, Working, Entry
    <3>2. tagged' = tagged \o NewTags(Entry) /\ NewTags(Entry) \in Seq(Steps \X Refs)
      BY <2>3, <3>1, NewTagsAreTags DEF TagBuiltImage, NewTags
    <3>3. /\ tagged' \in Seq(Steps \X Refs) /\ Len(tagged') = Len(tagged) + Len(NewTags(Entry))
          /\ Len(NewTags(Entry)) \in Nat
      BY <3>2, ConcatProperties, LenProperties DEF QueueType
    <3>4. QueueType'
      BY <2>0, <2>3, <3>3 DEF TagBuiltImage, QueueType
    <3>5. FlowType'
      BY <2>3 DEF TagBuiltImage, FlowType, Working
    <3> QED
      BY <2>3, <3>4, <3>5 DEF TagBuiltImage, ConfigType, ScanType, ImageType
  <2>4. CASE TagImage
    <3>1. at \in DOMAIN entries /\ Entry \in Entries /\ Entry.step \in Steps
      BY <2>4, WorkingEntry, EntryType DEF TagImage, Working, Entry
    <3>2. local' \in [Refs -> Images]
      <4>1. ImageToUse(Entry.step) \in Images
        BY <3>1 DEF ImageToUse, Images
      <4> QED
        BY <2>4, <4>1 DEF TagImage, ImageType
    <3>3. \/ registered' = registered
          \/ /\ registered' \in Seq(Refs) /\ Len(registered') \in Nat
             /\ Len(registered') >= Len(registered)
      <4>1. TagsOf(Entry) \in Seq(Refs)
        BY <3>1, TagsAreRefs
      <4>2. CASE Entry.task = "push"
        <5>1. registered' = registered \o TagsOf(Entry)
          BY <2>4, <4>2 DEF TagImage
        <5>2. /\ registered' \in Seq(Refs) /\ Len(TagsOf(Entry)) \in Nat
              /\ Len(registered') = Len(registered) + Len(TagsOf(Entry))
          BY <4>1, <5>1, ConcatProperties, LenProperties DEF QueueType
        <5> QED
          BY <2>0, <5>2
      <4> QED
        BY <2>4, <4>2 DEF TagImage
    <3>4. QueueType'
      BY <2>0, <2>4, <3>3 DEF TagImage, QueueType
    <3>5. FlowType'
      BY <2>4 DEF TagImage, FlowType, Working
    <3> QED
      BY <2>4, <3>2, <3>4, <3>5 DEF TagImage, ConfigType, ScanType, ImageType
  <2>5. CASE Scan
    <3>1. at \in DOMAIN entries /\ Entry \in Entries /\ Entry.step \in Steps /\ at \in 1..MaxEntries
      BY <2>5, WorkingEntry, EntryType DEF Scan, Entry, FlowType
    <3>0. PICK v \in {"off", "passed", "failed"}, t \in 0..MaxScore,
               found \in {scores[at]} \cup [Scanned(Entry) -> 0..MaxScore] :
            ScanComesTo(v, t, found)
      BY <2>5, <3>1, ScanSteps
    <3>2. ScanType'
      <4>1. found \in {<<>>} \cup [Platforms -> 0..MaxScore] \cup [{"native"} -> 0..MaxScore]
        BY <2>5, <3>0, <3>1, ScanSteps DEF ScanType
      <4> QED
        BY <3>0, <4>1 DEF ScanComesTo, ScanType, Verdicts
    <3>3. FlowType'
      <4>1. phase' \in {"next", "failed"} /\ at' = at /\ entries' = entries
        BY <2>5, <3>0 DEF Scan, ScanComesTo
      <4> QED
        BY <2>5, <4>1 DEF Scan, FlowType
    <3> QED
      BY <2>5, <3>2, <3>3 DEF Scan, ConfigType, ImageType, QueueType
  <2>6. CASE NextEntry
    <3>1. at \in DOMAIN entries /\ Entry \in Entries /\ Entry.step \in Steps
      BY <2>6, WorkingEntry, EntryType DEF NextEntry, Entry, FlowType
    <3>2. local' \in [Refs -> Images]
      BY <2>6, <3>1 DEF NextEntry, ImageType, Images
    <3>3. FlowType'
      BY <2>0, <2>6 DEF NextEntry, FlowType
    <3> QED
      BY <2>6, <3>2, <3>3 DEF NextEntry, ConfigType, ScanType, ImageType, QueueType
  <2>7. CASE TaskFails
    BY <2>7 DEF TaskFails, ConfigType, FlowType, ScanType, ImageType, QueueType
  <2>8. CASE BeginPush
    BY <2>8 DEF BeginPush, ConfigType, FlowType, ScanType, ImageType, QueueType
  <2>9. CASE Upload
    <3>1. sent + 1 \in 1..Len(Uploads)
      BY <2>0, <2>9, UploadsInOrder DEF Upload
    <3>2. Uploads[sent + 1] \in Refs \X Images
      BY <3>1, UploadsInOrder, ElementOfSeq
    <3>3. registry' \in [Refs -> Images]
      BY <2>9, <3>2 DEF Upload, ImageType
    <3>4. QueueType'
      BY <2>0, <2>9, UploadsInOrder DEF Upload, QueueType
    <3> QED
      BY <2>9, <3>3, <3>4 DEF Upload, ConfigType, FlowType, ScanType, ImageType
  <2>10. CASE UploadFails
    BY <2>10 DEF UploadFails, ConfigType, FlowType, ScanType, ImageType, QueueType
  <2>11. CASE EndPush
    BY <2>11 DEF EndPush, ConfigType, FlowType, ScanType, ImageType, QueueType
  <2>12. CASE UNCHANGED vars
    BY <2>12 DEF vars, ConfigType, FlowType, ScanType, ImageType, QueueType
  <2> QED
    BY <2>1, <2>2, <2>3, <2>4, <2>5, <2>6, <2>7, <2>8, <2>9, <2>10, <2>11, <2>12
       DEF Next, Ended
<1> QED
  BY <1>1, InitialType, PTL DEF Spec

-----------------------------------------------------------------------------
(* The order of the entries, and what holds in each phase. *)

\* Entry f runs no earlier than entry e.
NotBefore(f, e) ==
  \/ e.step < f.step
  \/ e.step = f.step /\ (e.task = f.task \/ f.task = "commit")

OrderInv == \A i, j \in DOMAIN entries : i < j => NotBefore(entries[j], entries[i])

PhaseInv ==
  /\ phase = "config" =>
       at = 1 /\ tagged = <<>> /\ registered = <<>> /\ \A i \in 1..MaxEntries : verdict[i] = "none"
  /\ phase = "rejected" => at = 1
  /\ phase \notin {"config", "rejected"} => Valid
  /\ phase \in {"push", "done"} => at = Len(entries) + 1
  /\ phase \notin {"push", "failed", "done"} => sent = 0
  /\ phase = "done" => sent = Len(Uploads)
  /\ sent > 0 => at = Len(entries) + 1

\* The entries whose tags have been set, and the ones that have left their image in docker:
\* that of a built image is not there before its task ends.
Handled == IF phase \in {"scan", "next"} THEN 1..at ELSE 1..(at - 1)
OfTask(i) == at <= Len(entries) /\ entries[i].step = Entry.step /\ entries[i].task = Entry.task
Settled == {i \in Handled : Built(entries[i].step) => ~OfTask(i)}

Names(i, ref) == Contains(TagsOf(entries[i]), ref)

\* What is said of the configuration does not change once it is read.
LEMMA ConfigurationStands ==
  ASSUME kind' = kind, entries' = entries
  PROVE  /\ Valid' = Valid
         /\ \A i : PushedByDocker(i)' = PushedByDocker(i)
         /\ \A i, ref : Names(i, ref)' = Names(i, ref)
         /\ \A step : Built(step)' = Built(step)
         /\ \A step : ImageToUse(step)' = ImageToUse(step)
<1>1. Valid' = Valid
  BY DEF Valid, DuplicateTag, IsMultiPlatform, Written
<1>2. \A i : PushedByDocker(i)' = PushedByDocker(i)
  BY DEF PushedByDocker, Built
<1>3. \A i, ref : Names(i, ref)' = Names(i, ref)
  BY DEF Names
<1>4. \A step : Built(step)' = Built(step)
  BY DEF Built
<1>5. \A step : ImageToUse(step)' = ImageToUse(step)
  BY DEF ImageToUse
<1> QED
  BY <1>1, <1>2, <1>3, <1>4, <1>5

\* What docker has of a step is an image of that step.
LEMMA ImageOfStep ==
  ASSUME NEW step \in Steps
  PROVE  /\ ImageToUse(step) \in Images /\ ImageToUse(step) # None
         /\ ImageToUse(step)[1] = step /\ ImageToUse(step)[2] # "all"
         /\ Built(step) => ImageToUse(step) = <<step, "one">>
BY DEF ImageToUse, Images, None, Steps, Built

LEMMA OrderOfSteps ==
  ASSUME TypeOK, OrderInv, NEW i \in DOMAIN entries, NEW j \in DOMAIN entries, i <= j
  PROVE  entries[i].step <= entries[j].step
<1>1. i \in Nat /\ j \in Nat /\ entries[i].step \in Nat /\ entries[j].step \in Nat
  BY PartsOfType, EntryType DEF Steps
<1>2. CASE i = j
  BY <1>1, <1>2
<1>3. CASE i < j
  BY <1>1, <1>3 DEF OrderInv, NotBefore
<1> QED
  BY <1>1, <1>2, <1>3

LEMMA OrderKept ==
  ASSUME TypeOK, OrderInv, [Next]_vars
  PROVE  OrderInv'
<1> USE DEF config
<1>1. ASSUME NEW step \in Steps, NEW task \in Tasks, NEW repository \in Spellings,
             NEW given \in {<<>>, <<OwnTag>>}, NEW addBuildTag \in BOOLEAN,
             AddEntry(step, task, repository, given, addBuildTag)
      PROVE  OrderInv'
  <2> DEFINE new == [step |-> step, task |-> task, repository |-> repository,
                     tags |-> WithBuildTag(given, addBuildTag)]
             n == Len(entries)
  <2>1. /\ entries \in Seq(Entries) /\ n \in Nat /\ DOMAIN entries = 1..n
        /\ \A i \in 1..n : entries[i].step \in Nat /\ entries[i].task \in Tasks
    BY PartsOfType, EntryType, Lengths DEF ConfigType, Steps
  <2>2. new \in Entries /\ new.step = step /\ new.task = task /\ step \in Nat
    BY BuildTagAdded DEF Entries, TagLists, Steps
  <2>3. /\ entries' \in Seq(Entries) /\ Len(entries') = n + 1 /\ entries'[n + 1] = new
        /\ \A i \in 1..n : entries'[i] = entries[i]
    BY <1>1, <2>1, <2>2, AppendProperties DEF AddEntry
  <2>4. DOMAIN entries' = 1..(n + 1)
    BY <2>3, LenProperties
  <2>5. entries # <<>> => RunsAfter(step, task, entries[n])
    BY <1>1 DEF AddEntry, Last
  <2> HIDE DEF new, n
  <2>6. ASSUME NEW i \in 1..n PROVE NotBefore(new, entries[i])
    <3>1. n \in 1..n /\ i <= n /\ entries # <<>>
      BY <2>1 DEF n
    <3>2. RunsAfter(step, task, entries[n])
      BY <2>5, <3>1
    <3>3. i = n \/ NotBefore(entries[n], entries[i])
      BY <2>1, <3>1 DEF OrderInv
    <3>4. /\ entries[i].step \in Nat /\ entries[i].task \in {"push", "commit"}
          /\ entries[n].step \in Nat /\ entries[n].task \in {"push", "commit"}
      BY <2>1, <3>1 DEF Tasks
    <3>5. \/ step > entries[n].step
          \/ step = entries[n].step /\ (task = "commit" \/ entries[n].task = "push")
      BY <3>2 DEF RunsAfter
    <3>6. task \in {"push", "commit"}
      BY DEF Tasks
    <3>7. CASE i = n
      BY <2>2, <3>4, <3>5, <3>6, <3>7 DEF NotBefore
    <3>8. CASE NotBefore(entries[n], entries[i])
      BY <2>2, <3>4, <3>5, <3>6, <3>8 DEF NotBefore
    <3> QED
      BY <3>3, <3>7, <3>8
  <2>7. ASSUME NEW i \in 1..(n + 1), NEW j \in 1..(n + 1), i < j
        PROVE  NotBefore(entries'[j], entries'[i])
    <3>1. i \in 1..n
      BY <2>1, <2>7
    <3>2. CASE j = n + 1
      BY <2>3, <2>6, <3>1, <3>2
    <3>3. CASE j \in 1..n
      BY <2>1, <2>3, <2>7, <3>1, <3>3 DEF OrderInv
    <3> QED
      BY <2>1, <3>2, <3>3
  <2> QED
    BY <2>4, <2>7 DEF OrderInv
<1>2. CASE UNCHANGED entries
  BY <1>2 DEF OrderInv
<1> QED
  BY <1>1, <1>2
     DEF Next, Validate, TagBuiltImage, TagImage, Scan, NextEntry, TaskFails, BeginPush, Upload,
         UploadFails, EndPush, Ended, vars

LEMMA PhaseKept ==
  ASSUME TypeOK, PhaseInv, [Next]_vars
  PROVE  PhaseInv'
<1> USE DEF config, scanning, uploading
<1>0. at \in Nat /\ Len(entries) \in Nat
  BY PartsOfType, Lengths DEF FlowType
<1>1. ASSUME NEW step \in Steps, NEW task \in Tasks, NEW repository \in Spellings,
             NEW given \in {<<>>, <<OwnTag>>}, NEW addBuildTag \in BOOLEAN,
             AddEntry(step, task, repository, given, addBuildTag)
      PROVE  PhaseInv'
  BY <1>1 DEF AddEntry, PhaseInv
<1>2. ASSUME UNCHANGED <<kind, entries>>, Valid' = Valid PROVE Next => PhaseInv'
  <2>1. CASE Validate
    BY <1>2, <2>1 DEF Validate, PhaseInv
  <2>2. CASE TagBuiltImage \/ TagImage
    BY <1>2, <2>2 DEF TagBuiltImage, TagImage, PhaseInv
  <2>3. CASE Scan
    <3>1. phase' \in {"next", "failed"}
      BY <2>3 DEF Scan, ScanImages, ScanGoesOn, ScanFails
    <3>2. sent = 0
      BY <2>3 DEF Scan, PhaseInv
    <3> QED
      BY <1>2, <2>3, <3>1, <3>2 DEF Scan, PhaseInv
  <2>4. CASE NextEntry
    BY <1>2, <2>4 DEF NextEntry, PhaseInv
  <2>5. CASE TaskFails \/ UploadFails
    BY <1>2, <2>5 DEF TaskFails, UploadFails, PhaseInv
  <2>6. CASE BeginPush
    <3>1. at = Len(entries) + 1
      BY <1>0, <2>6, PartsOfType DEF BeginPush, Working, FlowType
    <3> QED
      BY <1>2, <2>6, <3>1 DEF BeginPush, PhaseInv
  <2>7. CASE Upload
    BY <1>2, <2>7 DEF Upload, PhaseInv
  <2>8. CASE EndPush
    <3>1. Uploads' = Uploads
      BY <2>8 DEF EndPush, Uploads, PlatformUploads, DockerUploads
    <3> QED
      BY <1>2, <2>8, <3>1 DEF EndPush, PhaseInv
  <2>9. CASE Ended
    <3>1. Uploads' = Uploads
      BY <2>9 DEF Ended, vars, Uploads, PlatformUploads, DockerUploads
    <3> QED
      BY <1>2, <2>9, <3>1 DEF Ended, vars, PhaseInv
  <2> QED
    BY <1>1, <2>1, <2>2, <2>3, <2>4, <2>5, <2>6, <2>7, <2>8, <2>9 DEF Next
<1>3. CASE UNCHANGED vars
  <2>1. Uploads' = Uploads /\ Valid' = Valid
    BY <1>3, ConfigurationStands DEF vars, Uploads, PlatformUploads, DockerUploads
  <2> QED
    BY <1>3, <2>1 DEF vars, PhaseInv
<1>4. Next => (\/ \E step \in Steps, task \in Tasks, repository \in Spellings,
                     given \in {<<>>, <<OwnTag>>}, addBuildTag \in BOOLEAN :
                    AddEntry(step, task, repository, given, addBuildTag)
               \/ UNCHANGED <<kind, entries>>)
  BY DEF Next, Validate, TagBuiltImage, TagImage, Scan, NextEntry, TaskFails, BeginPush, Upload,
         UploadFails, EndPush, Ended, vars
<1> QED
  BY <1>1, <1>2, <1>3, <1>4, ConfigurationStands

-----------------------------------------------------------------------------
(* The queues of the push phase. *)

\* The tagged images are those of the entries of built images, in the order of the steps.
BuiltTagged == \A k \in DOMAIN tagged : Built(tagged[k][1])
TaggedInOrder == \A k, l \in DOMAIN tagged : k < l => tagged[k][1] <= tagged[l][1]
TaggedNamed ==
  \A k \in DOMAIN tagged :
    \E i \in Handled : entries[i].step = tagged[k][1] /\ Names(i, tagged[k][2])
NamedTagged ==
  \A i \in Handled, ref \in Refs :
    Built(entries[i].step) /\ Names(i, ref) => Contains(tagged, <<entries[i].step, ref>>)
TaggedInv ==
  /\ BuiltTagged
  /\ phase # "failed" => TaggedInOrder /\ TaggedNamed /\ NamedTagged

\* The registered references are those of the pushes of docker.
RegisteredInv ==
  phase # "failed" =>
    \A ref \in Refs :
      Contains(registered, ref) <=> \E i \in Handled : PushedByDocker(i) /\ Names(i, ref)

\* The steps of a run but the two that tag leave the entries that are handled.
LEMMA HandledKept ==
  ASSUME TypeOK, PhaseInv, [Next]_vars, ~TagBuiltImage, ~TagImage, phase' # "failed"
  PROVE  Handled' = Handled /\ Handled \subseteq DOMAIN entries /\ phase # "failed"
<1>0. /\ at \in Nat /\ at \in 1..(Len(entries) + 1) /\ Len(entries) \in Nat
      /\ DOMAIN entries = 1..Len(entries)
      /\ phase \in {"scan", "next"} => at <= Len(entries)
  BY PartsOfType, Lengths DEF FlowType
<1>1. Handled \subseteq DOMAIN entries
  BY <1>0 DEF Handled
<1>2. CASE NextEntry
  <2>1. (at + 1) - 1 = at
    BY <1>0
  <2> QED
    BY <1>1, <1>2, <2>1 DEF NextEntry, Handled
<1>3. CASE UNCHANGED vars
  BY <1>1, <1>3 DEF vars, Handled
<1>4. CASE Next /\ ~NextEntry /\ ~Scan
  BY <1>1, <1>4 DEF Next, AddEntry, Validate, TaskFails, BeginPush, Upload, UploadFails,
                    EndPush, Ended, vars, Handled
<1>5. CASE Scan
  <2>1. phase = "scan" /\ phase' \in {"next", "failed"} /\ at' = at
    BY <1>5 DEF Scan, ScanImages, ScanGoesOn, ScanFails
  <2> QED
    BY <1>1, <2>1 DEF Handled
<1> QED
  BY <1>2, <1>3, <1>4, <1>5

LEMMA HandledGrows ==
  ASSUME TypeOK, TagBuiltImage \/ TagImage
  PROVE  /\ Handled = 1..(at - 1) /\ Handled' = 1..at /\ at' = at
         /\ at \in 1..Len(entries) /\ at \in DOMAIN entries /\ Len(entries) \in Nat
         /\ DOMAIN entries = 1..Len(entries) /\ Entry \in Entries /\ Entry.step \in Steps
         /\ kind' = kind /\ entries' = entries /\ phase' # "failed" /\ phase = "tag"
<1>1. at <= Len(entries)
  BY DEF TagBuiltImage, TagImage, Working
<1>2. /\ at \in 1..Len(entries) /\ at \in DOMAIN entries /\ Len(entries) \in Nat
      /\ DOMAIN entries = 1..Len(entries)
  BY <1>1, PartsOfType, WorkingEntry, Lengths
<1>3. Entry \in Entries /\ Entry.step \in Steps
  BY <1>2, PartsOfType, EntryType DEF Entry
<1> QED
  BY <1>2, <1>3 DEF TagBuiltImage, TagImage, Handled, config

LEMMA TaggedKept ==
  ASSUME TypeOK, OrderInv, PhaseInv, TaggedInv, [Next]_vars
  PROVE  TaggedInv'
<1>0. ConfigType /\ FlowType /\ QueueType /\ tagged \in Seq(Steps \X Refs)
  BY PartsOfType DEF QueueType
<1>1. CASE TagBuiltImage
  <2> DEFINE new == NewTags(Entry)
             m == Len(tagged)
             n == Len(new)
  <2>1. /\ tagged' = tagged \o new /\ Built(Entry.step)
        /\ TaggedInOrder /\ TaggedNamed /\ NamedTagged /\ BuiltTagged
    BY <1>1 DEF TagBuiltImage, NewTags, TaggedInv
  <2>2. /\ Handled = 1..(at - 1) /\ Handled' = 1..at /\ at \in 1..Len(entries)
        /\ at \in DOMAIN entries /\ Len(entries) \in Nat /\ DOMAIN entries = 1..Len(entries)
        /\ Entry \in Entries /\ Entry.step \in Steps
        /\ kind' = kind /\ entries' = entries
    BY <1>1, HandledGrows
  <2>3. /\ new \in Seq(Steps \X Refs)
        /\ \A ref \in Refs : Contains(new, <<Entry.step, ref>>) <=> Contains(TagsOf(Entry), ref)
        /\ \A k \in 1..n : new[k][1] = Entry.step /\ Contains(TagsOf(Entry), new[k][2])
    BY <2>2, NewTagsAreTags
  <2> HIDE DEF new
  <2>4. /\ m \in Nat /\ n \in Nat /\ DOMAIN tagged = 1..m /\ DOMAIN tagged' = 1..(m + n)
        /\ \A k \in 1..(m + n) : tagged'[k] = IF k <= m THEN tagged[k] ELSE new[k - m]
    BY <1>0, <2>1, <2>3, LenProperties, ConcatProperties
  <2> HIDE DEF m, n
  <2>5. \A k \in 1..(m + n) :
          \/ k \in 1..m /\ tagged'[k] = tagged[k]
          \/ /\ k > m /\ tagged'[k][1] = Entry.step /\ Contains(TagsOf(Entry), tagged'[k][2])
    <3> TAKE k \in 1..(m + n)
    <3>1. CASE k <= m
      BY <2>4, <3>1
    <3>2. CASE ~(k <= m)
      <4>1. k - m \in 1..n /\ tagged'[k] = new[k - m] /\ k > m
        BY <2>4, <3>2
      <4> QED
        BY <2>3, <4>1 DEF n
    <3> QED
      BY <3>1, <3>2
  <2>6. BuiltTagged'
    BY <2>1, <2>2, <2>4, <2>5, ConfigurationStands DEF BuiltTagged
  <2>7. TaggedNamed'
    <3> SUFFICES ASSUME NEW k \in 1..(m + n)
                 PROVE  \E i \in 1..at : entries[i].step = tagged'[k][1] /\ Names(i, tagged'[k][2])
      BY <2>2, <2>4, ConfigurationStands DEF TaggedNamed
    <3>1. CASE k \in 1..m /\ tagged'[k] = tagged[k]
      <4>1. PICK i \in 1..(at - 1) : entries[i].step = tagged[k][1] /\ Names(i, tagged[k][2])
        BY <2>1, <2>2, <2>4, <3>1 DEF TaggedNamed
      <4>2. i \in 1..at
        BY <2>2
      <4> QED
        BY <3>1, <4>1, <4>2
    <3>2. CASE tagged'[k][1] = Entry.step /\ Contains(TagsOf(Entry), tagged'[k][2])
      BY <2>2, <3>2 DEF Entry, Names
    <3> QED
      BY <2>5, <3>1, <3>2
  <2>8. TaggedInOrder'
    <3>1. \A k \in 1..m : tagged[k][1] <= Entry.step /\ tagged[k][1] \in Nat
      <4> TAKE k \in 1..m
      <4>1. PICK i \in 1..(at - 1) : entries[i].step = tagged[k][1]
        BY <2>1, <2>2, <2>4 DEF TaggedNamed
      <4>2. i \in DOMAIN entries /\ i <= at
        BY <2>2
      <4> QED
        BY <1>0, <2>2, <4>1, <4>2, OrderOfSteps, EntryType DEF Entry, Steps
    <3>2. Entry.step \in Nat
      BY <2>2 DEF Steps
    <3> SUFFICES ASSUME NEW k \in 1..(m + n), NEW l \in 1..(m + n), k < l
                 PROVE  tagged'[k][1] <= tagged'[l][1]
      BY <2>4 DEF TaggedInOrder
    <3>3. CASE l \in 1..m /\ tagged'[l] = tagged[l]
      <4>1. k \in 1..m /\ tagged'[k] = tagged[k]
        BY <2>4, <3>3
      <4> QED
        BY <2>1, <2>4, <3>3, <4>1 DEF TaggedInOrder
    <3>4. CASE tagged'[l][1] = Entry.step
      BY <2>5, <3>1, <3>2, <3>4
    <3> QED
      BY <2>5, <3>3, <3>4
  <2>9. NamedTagged'
    <3> SUFFICES ASSUME NEW i \in 1..at, NEW ref \in Refs, Built(entries[i].step), Names(i, ref)
                 PROVE  Contains(tagged', <<entries[i].step, ref>>)
      BY <2>2, ConfigurationStands DEF NamedTagged
    <3>1. CASE i \in 1..(at - 1)
      <4>1. Contains(tagged, <<entries[i].step, ref>>)
        BY <2>1, <2>2, <3>1 DEF NamedTagged
      <4> QED
        BY <1>0, <2>1, <2>3, <4>1, ContainsConcat
    <3>2. CASE i = at
      <4>1. Contains(new, <<entries[i].step, ref>>)
        BY <2>3, <3>2 DEF Entry, Names
      <4> QED
        BY <1>0, <2>1, <2>3, <4>1, ContainsConcat
    <3> QED
      BY <2>2, <3>1, <3>2
  <2> QED
    BY <2>6, <2>7, <2>8, <2>9 DEF TaggedInv
<1>2. CASE TagImage
  <2>1. /\ Handled = 1..(at - 1) /\ Handled' = 1..at /\ at \in 1..Len(entries)
        /\ kind' = kind /\ entries' = entries /\ tagged' = tagged /\ phase # "failed"
        /\ ~Built(entries[at].step) /\ Len(entries) \in Nat
    BY <1>2, HandledGrows DEF TagImage, Entry
  <2>2. \A i \in 1..at : i = at \/ i \in 1..(at - 1)
    BY <2>1
  <2>3. Handled \subseteq Handled'
    BY <2>1
  <2>4. BuiltTagged' /\ TaggedInOrder'
    BY <2>1, ConfigurationStands DEF TaggedInv, BuiltTagged, TaggedInOrder
  <2>5. TaggedNamed'
    BY <2>1, <2>3, ConfigurationStands DEF TaggedInv, TaggedNamed
  <2>6. NamedTagged'
    BY <2>1, <2>2, ConfigurationStands DEF TaggedInv, NamedTagged
  <2> QED
    BY <2>4, <2>5, <2>6 DEF TaggedInv
<1>3. CASE ~TagBuiltImage /\ ~TagImage /\ UNCHANGED <<kind, entries, tagged>>
  <2>1. BuiltTagged'
    BY <1>3, ConfigurationStands DEF TaggedInv, BuiltTagged
  <2>2. CASE phase' # "failed"
    <3>1. Handled' = Handled /\ phase # "failed"
      BY <1>3, <2>2, HandledKept
    <3> QED
      BY <1>3, <2>1, <3>1, ConfigurationStands
         DEF TaggedInv, TaggedInOrder, TaggedNamed, NamedTagged
  <2> QED
    BY <2>1, <2>2 DEF TaggedInv
<1>4. CASE phase = "config" /\ phase' = "config" /\ UNCHANGED <<at, tagged>>
  <2>1. at = 1 /\ tagged = <<>>
    BY <1>4 DEF PhaseInv
  <2>2. DOMAIN tagged' = {} /\ Handled' = {}
    BY <1>4, <2>1, LenProperties, EmptySeq DEF Handled
  <2> QED
    BY <2>2 DEF TaggedInv, BuiltTagged, TaggedInOrder, TaggedNamed, NamedTagged
<1> QED
  BY <1>1, <1>2, <1>3, <1>4
     DEF Next, AddEntry, Validate, Scan, NextEntry, TaskFails, BeginPush, Upload, UploadFails,
         EndPush, Ended, vars, config

LEMMA RegisteredKept ==
  ASSUME TypeOK, PhaseInv, RegisteredInv, [Next]_vars
  PROVE  RegisteredInv'
<1>0. QueueType /\ registered \in Seq(Refs)
  BY PartsOfType DEF QueueType
<1>1. CASE TagBuiltImage \/ TagImage
  <2>1. /\ Handled = 1..(at - 1) /\ Handled' = 1..at /\ at \in 1..Len(entries)
        /\ kind' = kind /\ entries' = entries /\ phase # "failed"
        /\ Entry \in Entries /\ Len(entries) \in Nat
    BY <1>1, HandledGrows
  <2>2. \A i \in 1..at : i = at \/ i \in 1..(at - 1)
    BY <2>1
  <2>3. at \in 1..at /\ \A i \in 1..(at - 1) : i \in 1..at
    BY <2>1
  <2> SUFFICES ASSUME NEW ref \in Refs
               PROVE  Contains(registered', ref)
                        <=> \E i \in 1..at : PushedByDocker(i) /\ Names(i, ref)
    BY <2>1, ConfigurationStands DEF RegisteredInv
  <2>4. Contains(registered, ref) <=> \E i \in 1..(at - 1) : PushedByDocker(i) /\ Names(i, ref)
    BY <2>1 DEF RegisteredInv
  <2>5. CASE PushedByDocker(at)
    <3>1. registered' = registered \o TagsOf(Entry)
      BY <1>1, <2>5 DEF TagBuiltImage, TagImage, PushedByDocker, Entry
    <3>2. Contains(registered', ref) <=> Contains(registered, ref) \/ Names(at, ref)
      BY <1>0, <2>1, <3>1, ContainsConcat, TagsAreRefs DEF Names, Entry
    <3> QED
      BY <2>2, <2>3, <2>4, <2>5, <3>2
  <2>6. CASE ~PushedByDocker(at)
    <3>1. registered' = registered
      BY <1>1, <2>6 DEF TagBuiltImage, TagImage, PushedByDocker, Entry
    <3> QED
      BY <2>2, <2>3, <2>4, <2>6, <3>1
  <2> QED
    BY <2>5, <2>6
<1>2. CASE ~TagBuiltImage /\ ~TagImage /\ UNCHANGED <<kind, entries, registered>> /\ phase' # "failed"
  <2>1. Handled' = Handled /\ phase # "failed"
    BY <1>2, HandledKept
  <2> QED
    BY <1>2, <2>1, ConfigurationStands DEF RegisteredInv
<1>3. CASE phase = "config" /\ phase' = "config" /\ UNCHANGED <<at, registered>>
  <2>1. at = 1 /\ registered = <<>> /\ Handled' = {}
    BY <1>3 DEF PhaseInv, Handled
  <2>2. \A ref \in Refs : ~Contains(registered', ref)
    BY <1>3, <2>1, EmptySeq DEF Contains
  <2> QED
    BY <2>1, <2>2 DEF RegisteredInv
<1>4. CASE phase' = "failed"
  BY <1>4 DEF RegisteredInv
<1> QED
  BY <1>1, <1>2, <1>3, <1>4
     DEF Next, AddEntry, Validate, Scan, NextEntry, TaskFails, BeginPush, Upload, UploadFails,
         EndPush, Ended, vars, config

-----------------------------------------------------------------------------
(* What docker has under a reference. *)

\* The image is of an entry that has left it, and of no earlier step than any other of them.
LocalInv ==
  phase # "failed" => \A ref \in Refs :
    /\ local[ref] # None => \E i \in Settled :
         Names(i, ref) /\ local[ref] = ImageToUse(entries[i].step)
    /\ \A i \in Settled : Names(i, ref) =>
         local[ref] # None /\ entries[i].step <= local[ref][1]

\* Docker has no manifests, and so it is when a task has failed.
SingleInv == \A ref \in Refs : local[ref] # None => local[ref][2] # "all"

LEMMA SingleKept ==
  ASSUME SingleInv, [Next]_vars
  PROVE  SingleInv'
<1>1. CASE TagImage \/ NextEntry
  <2> SUFFICES ASSUME NEW ref \in Refs, local'[ref] # None PROVE local'[ref][2] # "all"
    BY DEF SingleInv
  <2>1. local'[ref] = local[ref] \/ local'[ref][2] # "all"
    <3>1. CASE TagImage
      <4>1. local'[ref] = local[ref] \/ local'[ref] = ImageToUse(Entry.step)
        BY <3>1 DEF TagImage
      <4> QED
        BY <4>1 DEF ImageToUse
    <3>2. CASE NextEntry
      <4>1. local'[ref] = local[ref] \/ local'[ref] = <<Entry.step, "one">>
        BY <3>2 DEF NextEntry
      <4> QED
        BY <4>1
    <3> QED
      BY <1>1, <3>1, <3>2
  <2> QED
    BY <2>1 DEF SingleInv
<1>2. CASE UNCHANGED local
  BY <1>2 DEF SingleInv
<1> QED
  BY <1>1, <1>2 DEF Next, AddEntry, Validate, TagBuiltImage, Scan, TaskFails, BeginPush, Upload,
                    UploadFails, EndPush, Ended, vars

\* Of the entries up to the last one of a task, none is of the task of the next entry.
LEMMA TaskOver ==
  ASSUME TypeOK, OrderInv, at < Len(entries), EndOfTask, NEW i \in 1..at
  PROVE  entries[i].step # entries[at + 1].step \/ entries[i].task # entries[at + 1].task
<1>1. /\ Len(entries) \in Nat /\ DOMAIN entries = 1..Len(entries) /\ at \in 1..Len(entries)
      /\ i \in 1..Len(entries) /\ at + 1 \in 1..Len(entries) /\ i \in Nat /\ at \in Nat
  BY PartsOfType, Lengths DEF FlowType
<1>2. /\ entries[at].step \in Nat /\ entries[at].task \in {"push", "commit"}
      /\ entries[i].step \in Nat /\ entries[i].task \in {"push", "commit"}
      /\ entries[at + 1].step \in Nat /\ entries[at + 1].task \in {"push", "commit"}
  BY <1>1, PartsOfType, EntryType DEF Steps, Tasks
<1>3. entries[at + 1].step # entries[at].step \/ entries[at + 1].task # entries[at].task
  BY DEF EndOfTask, Entry
<1>4. NotBefore(entries[at + 1], entries[at])
  BY <1>1 DEF OrderInv
<1>5. i = at \/ NotBefore(entries[at], entries[i])
  BY <1>1 DEF OrderInv
<1>6. CASE i = at
  BY <1>3, <1>6
<1>7. CASE NotBefore(entries[at], entries[i])
  BY <1>2, <1>3, <1>4, <1>7 DEF NotBefore
<1> QED
  BY <1>5, <1>6, <1>7

LEMMA LocalKept ==
  ASSUME TypeOK, OrderInv, PhaseInv, TaggedInv, LocalInv, [Next]_vars
  PROVE  LocalInv'
<1>1. CASE TagBuiltImage
  <2>1. /\ Handled = 1..(at - 1) /\ Handled' = 1..at /\ at' = at /\ at \in 1..Len(entries)
        /\ kind' = kind /\ entries' = entries /\ phase # "failed" /\ local' = local
        /\ Built(entries[at].step) /\ Len(entries) \in Nat
    BY <1>1, HandledGrows DEF TagBuiltImage, Entry
  <2>2. OfTask(at) /\ \A i : OfTask(i)' = OfTask(i)
    BY <2>1 DEF OfTask, Entry
  <2>3. \A i \in 1..at : i = at \/ i \in 1..(at - 1)
    BY <2>1
  <2>4. \A i \in 1..(at - 1) : i \in 1..at
    BY <2>1
  <2>5. Settled' = Settled
    BY <2>1, <2>2, <2>3, <2>4, ConfigurationStands DEF Settled
  <2> QED
    BY <2>1, <2>5, ConfigurationStands DEF LocalInv
<1>2. CASE TagImage
  <2>1. /\ Handled = 1..(at - 1) /\ Handled' = 1..at /\ at' = at /\ at \in 1..Len(entries)
        /\ kind' = kind /\ entries' = entries /\ phase # "failed" /\ DOMAIN entries = 1..Len(entries)
        /\ ~Built(entries[at].step) /\ Len(entries) \in Nat
    BY <1>2, HandledGrows DEF TagImage, Entry
  <2>2. \A i : OfTask(i)' = OfTask(i)
    BY <2>1 DEF OfTask, Entry
  <2>3. \A i \in 1..at : i = at \/ i \in 1..(at - 1)
    BY <2>1
  <2>4. at \in 1..at /\ \A i \in 1..(at - 1) : i \in 1..at
    BY <2>1
  <2>5. Settled' = Settled \cup {at} /\ Settled \subseteq 1..at
    BY <2>1, <2>2, <2>3, <2>4, ConfigurationStands DEF Settled
  <2>6. \A i \in 1..at : entries[i].step <= entries[at].step
    <3> TAKE i \in 1..at
    <3>1. i \in DOMAIN entries /\ at \in DOMAIN entries /\ i <= at
      BY <2>1
    <3> QED
      BY <3>1, OrderOfSteps
  <2>7. ASSUME NEW ref \in Refs
        PROVE  /\ local'[ref] # None => \E i \in Settled' :
                    Names(i, ref) /\ local'[ref] = ImageToUse(entries[i].step)
               /\ \A i \in Settled' : Names(i, ref) =>
                    local'[ref] # None /\ entries[i].step <= local'[ref][1]
    <3>1. CASE Names(at, ref)
      <4>1. local'[ref] = ImageToUse(entries[at].step)
        BY <1>2, <3>1 DEF TagImage, Names, Entry
      <4>2. local'[ref] # None /\ local'[ref][1] = entries[at].step
        BY <2>1, <4>1, PartsOfType, EntryType, ImageOfStep
      <4> QED
        BY <2>4, <2>5, <2>6, <3>1, <4>1, <4>2
    <3>2. CASE ~Names(at, ref)
      <4>1. local'[ref] = local[ref]
        BY <1>2, <3>2 DEF TagImage, Names, Entry
      <4> QED
        BY <2>1, <2>5, <3>2, <4>1 DEF LocalInv
    <3> QED
      BY <3>1, <3>2
  <2> QED
    BY <2>1, <2>7, ConfigurationStands DEF LocalInv
<1>3. CASE NextEntry
  <2>1. /\ phase = "next" /\ phase' = "tag" /\ at' = at + 1 /\ kind' = kind /\ entries' = entries
        /\ tagged' = tagged
        /\ local' = [r \in Refs |-> IF EndOfTask /\ Contains(tagged, <<Entry.step, r>>)
                                    THEN <<Entry.step, "one">> ELSE local[r]]
    BY <1>3 DEF NextEntry, config
  <2>2. /\ at \in 1..Len(entries) /\ Len(entries) \in Nat /\ DOMAIN entries = 1..Len(entries)
        /\ at \in Nat /\ (at + 1) - 1 = at
    BY <2>1, PartsOfType, Lengths DEF FlowType
  <2>3. Handled = 1..at /\ Handled' = 1..at
    BY <2>1, <2>2 DEF Handled
  <2>4. CASE ~EndOfTask
    <3>1. /\ at + 1 <= Len(entries) /\ at <= Len(entries)
          /\ entries[at + 1].step = entries[at].step /\ entries[at + 1].task = entries[at].task
      <4>1. /\ at < Len(entries)
            /\ entries[at + 1].step = entries[at].step /\ entries[at + 1].task = entries[at].task
        BY <2>4 DEF EndOfTask, Entry
      <4>2. \A n \in Nat : \A m \in 1..n : m < n => m + 1 <= n /\ m <= n
        OBVIOUS
      <4> QED
        BY <2>2, <4>1, <4>2
    <3>2. \A i : OfTask(i)' = OfTask(i)
      BY <2>1, <3>1 DEF OfTask, Entry
    <3>3. Settled' = Settled
      BY <2>1, <2>3, <3>2, ConfigurationStands DEF Settled
    <3>4. \A ref \in Refs : local'[ref] = local[ref]
      BY <2>1, <2>4
    <3> QED
      BY <2>1, <3>3, <3>4, ConfigurationStands DEF LocalInv
  <2>5. CASE EndOfTask
    <3>1. \A i \in 1..at : ~OfTask(i)'
      <4> SUFFICES ASSUME NEW i \in 1..at, OfTask(i)' PROVE FALSE
        OBVIOUS
      <4>1. /\ at + 1 <= Len(entries) /\ entries[i].step = entries[at + 1].step
            /\ entries[i].task = entries[at + 1].task
        BY <2>1 DEF OfTask, Entry
      <4>2. at < Len(entries)
        BY <2>2, <4>1
      <4> QED
        BY <2>5, <4>1, <4>2, TaskOver
    <3>2. Settled' = 1..at /\ Settled \subseteq 1..at
      BY <2>3, <3>1 DEF Settled
    <3>3. \A i \in 1..at : entries[i].step <= entries[at].step
      <4> TAKE i \in 1..at
      <4>1. i \in DOMAIN entries /\ at \in DOMAIN entries /\ i <= at
        BY <2>2
      <4> QED
        BY <4>1, OrderOfSteps
    <3>4. TaggedNamed /\ NamedTagged /\ BuiltTagged
      BY <2>1 DEF TaggedInv
    <3>5. ASSUME NEW ref \in Refs
          PROVE  /\ local'[ref] # None => \E i \in 1..at :
                      Names(i, ref) /\ local'[ref] = ImageToUse(entries[i].step)
                 /\ \A i \in 1..at : Names(i, ref) =>
                      local'[ref] # None /\ entries[i].step <= local'[ref][1]
      <4>1. CASE Contains(tagged, <<Entry.step, ref>>)
        <5>1. local'[ref] = <<entries[at].step, "one">> /\ local'[ref] # None
          BY <2>1, <2>5, <4>1 DEF Entry, None
        <5>0. local'[ref] = ImageToUse(entries[at].step)
          <6>1. PICK l \in 1..Len(tagged) : tagged[l] = <<entries[at].step, ref>>
            BY <4>1 DEF Contains, Entry
          <6>2. Built(tagged[l][1]) /\ tagged[l][1] = entries[at].step
            BY <3>4, <6>1, PartsOfType, Lengths DEF BuiltTagged
          <6>3. Built(entries[at].step) /\ entries[at].step \in Steps
            BY <2>2, <6>2, PartsOfType, EntryType
          <6> QED
            BY <5>1, <6>3, ImageOfStep
        <5>2. PICK k \in 1..Len(tagged) : tagged[k] = <<entries[at].step, ref>>
          BY <4>1 DEF Contains, Entry
        <5>3. k \in DOMAIN tagged /\ tagged[k][1] = entries[at].step /\ tagged[k][2] = ref
          BY <5>2, PartsOfType, Lengths
        <5>4. \E i \in 1..at : entries[i].step = entries[at].step /\ Names(i, ref)
          BY <2>3, <3>4, <5>3 DEF TaggedNamed
        <5>5. PICK i \in 1..at : entries[i].step = entries[at].step /\ Names(i, ref)
          BY <5>4
        <5>6. local'[ref] = ImageToUse(entries[i].step)
          BY <5>0, <5>5
        <5>7. local'[ref][1] = entries[at].step
          BY <5>1
        <5> QED
          BY <3>3, <5>1, <5>5, <5>6, <5>7
      <4>2. CASE ~Contains(tagged, <<Entry.step, ref>>)
        <5>1. local'[ref] = local[ref]
          BY <2>1, <4>2
        <5>2. ASSUME NEW i \in 1..at, Names(i, ref) PROVE i \in Settled
          <6>1. ~(Built(entries[i].step) /\ entries[i].step = Entry.step)
            BY <2>3, <3>4, <4>2, <5>2 DEF NamedTagged
          <6> QED
            BY <2>3, <6>1 DEF Settled, OfTask
        <5> QED
          BY <2>1, <3>2, <5>1, <5>2 DEF LocalInv
      <4> QED
        BY <4>1, <4>2
    <3>6. \A i, ref : Names(i, ref)' = Names(i, ref)
      BY <2>1, ConfigurationStands
    <3>7. \A i : ImageToUse(entries[i].step)' = ImageToUse(entries[i].step)
      BY <2>1, ConfigurationStands
    <3> HIDE DEF Settled
    <3> QED
      BY <2>1, <3>2, <3>5, <3>6, <3>7 DEF LocalInv
  <2> QED
    BY <2>4, <2>5
<1>4. CASE /\ ~TagBuiltImage /\ ~TagImage /\ UNCHANGED <<kind, entries, at, local>>
           /\ phase' # "failed"
  <2>1. Handled' = Handled /\ phase # "failed"
    BY <1>4, HandledKept
  <2>2. \A i : OfTask(i)' = OfTask(i)
    BY <1>4 DEF OfTask, Entry
  <2>3. Settled' = Settled
    BY <1>4, <2>1, <2>2, ConfigurationStands DEF Settled
  <2> QED
    BY <1>4, <2>1, <2>3, ConfigurationStands DEF LocalInv
<1>5. CASE phase = "config" /\ phase' = "config" /\ UNCHANGED <<at, local>>
  <2>1. at = 1 /\ Handled = {} /\ Handled' = {}
    BY <1>5 DEF PhaseInv, Handled
  <2>2. Settled = {} /\ Settled' = {}
    BY <2>1 DEF Settled
  <2>3. \A ref \in Refs : local'[ref] = None
    BY <1>5, <2>2 DEF LocalInv
  <2> QED
    BY <2>2, <2>3 DEF LocalInv
<1>6. CASE phase' = "failed"
  BY <1>6 DEF LocalInv
<1> QED
  BY <1>1, <1>2, <1>3, <1>4, <1>5, <1>6
     DEF Next, AddEntry, Validate, Scan, TaskFails, BeginPush, Upload, UploadFails,
         EndPush, Ended, vars, config

-----------------------------------------------------------------------------
(* What the repository has under a reference. *)

\* It is what the last of the uploads under the reference has put there.
LastOf(k, ref) ==
  Uploads[k] = <<ref, registry[ref]>> /\ \A l \in (k + 1)..sent : Uploads[l][1] # ref
SentInv ==
  \A ref \in Refs :
    \/ registry[ref] = None /\ \A k \in 1..sent : Uploads[k][1] # ref
    \/ \E k \in 1..sent : LastOf(k, ref)

LEMMA SentKept ==
  ASSUME TypeOK, PhaseInv, SentInv, [Next]_vars
  PROVE  SentInv'
<1>0. /\ sent \in Nat /\ Len(tagged) \in Nat /\ Len(registered) \in Nat
      /\ Uploads \in Seq(Refs \X Images) /\ registry \in [Refs -> Images]
  BY PartsOfType, Lengths, UploadsInOrder DEF ImageType
<1>1. CASE Upload
  <2>1. /\ Uploads' = Uploads /\ sent' = sent + 1 /\ sent + 1 \in 1..Len(Uploads)
        /\ registry' = [registry EXCEPT ![Uploads[sent + 1][1]] = Uploads[sent + 1][2]]
    BY <1>0, <1>1, PartsOfType, UploadsInOrder DEF Upload, Uploads, PlatformUploads, DockerUploads
  <2>2. Uploads[sent + 1] \in Refs \X Images
    BY <1>0, <2>1, ElementOfSeq
  <2>3. \A k \in 1..(sent + 1) : k = sent + 1 \/ k \in 1..sent
    BY <1>0
  <2> SUFFICES ASSUME NEW ref \in Refs
               PROVE  \/ registry'[ref] = None /\ \A k \in 1..(sent + 1) : Uploads[k][1] # ref
                      \/ \E k \in 1..(sent + 1) :
                           /\ Uploads[k] = <<ref, registry'[ref]>>
                           /\ \A l \in (k + 1)..(sent + 1) : Uploads[l][1] # ref
    BY <2>1 DEF SentInv, LastOf
  <2>4. CASE Uploads[sent + 1][1] = ref
    <3>1. registry'[ref] = Uploads[sent + 1][2]
      BY <1>0, <2>1, <2>4
    <3>2. Uploads[sent + 1] = <<ref, registry'[ref]>>
      BY <2>2, <2>4, <3>1
    <3>3. sent + 1 \in 1..(sent + 1) /\ ((sent + 1) + 1)..(sent + 1) = {}
      BY <1>0
    <3> QED
      BY <3>2, <3>3
  <2>5. CASE Uploads[sent + 1][1] # ref
    <3>1. registry'[ref] = registry[ref]
      BY <1>0, <2>1, <2>5
    <3>2. CASE registry[ref] = None /\ \A k \in 1..sent : Uploads[k][1] # ref
      BY <2>3, <2>5, <3>1, <3>2
    <3>3. CASE \E k \in 1..sent : LastOf(k, ref)
      <4>1. PICK k \in 1..sent : LastOf(k, ref)
        BY <3>3
      <4>2. \A l \in (k + 1)..(sent + 1) : l = sent + 1 \/ l \in (k + 1)..sent
        BY <1>0
      <4>3. k \in 1..(sent + 1)
        BY <1>0
      <4> QED
        BY <2>5, <3>1, <4>1, <4>2, <4>3 DEF LastOf
    <3> QED
      BY <3>2, <3>3 DEF SentInv
  <2> QED
    BY <2>4, <2>5
<1>2. CASE sent = 0 /\ UNCHANGED <<sent, registry>>
  <2>1. 1..sent = {} /\ 1..sent' = {}
    BY <1>2
  <2> QED
    BY <1>2, <2>1 DEF SentInv
<1>3. CASE UNCHANGED <<sent, registry, local, tagged, registered>>
  <2>1. Uploads' = Uploads
    BY <1>3 DEF Uploads, PlatformUploads, DockerUploads
  <2> QED
    BY <1>3, <2>1 DEF SentInv, LastOf
<1>4. phase \in {"config", "tag", "scan", "next"} => sent = 0
  BY DEF PhaseInv
<1> QED
  BY <1>1, <1>2, <1>3, <1>4
     DEF Next, AddEntry, Validate, TagBuiltImage, TagImage, Scan, NextEntry, TaskFails, BeginPush,
         UploadFails, EndPush, Ended, vars, uploading

-----------------------------------------------------------------------------
(* The scans. *)

\* A push that was passed is below its threshold everywhere, and one that has been worked at
\* was passed or let through without a scan.
ScanInv ==
  /\ \A i \in DOMAIN entries : verdict[i] = "passed" /\ limit[i] > 0 =>
       /\ scores[i] \in [Scanned(entries[i]) -> 0..MaxScore]
       /\ \A p \in Scanned(entries[i]) : scores[i][p] < limit[i]
  /\ \A i \in DOMAIN entries :
       (i < at \/ (i = at /\ phase = "next")) /\ entries[i].task = "push" =>
         verdict[i] \in {"off", "passed"}

LEMMA NativeIsScanned ==
  ASSUME NEW entry
  PROVE  "native" \in Scanned(entry) /\ (Built(entry.step) => Scanned(entry) = Platforms)
BY DEF Scanned, Platforms

LEMMA ScanKept ==
  ASSUME TypeOK, PhaseInv, ScanInv, [Next]_vars
  PROVE  ScanInv'
<1>0. ConfigType /\ FlowType /\ ScanType /\ Len(entries) \in Nat /\ DOMAIN entries = 1..Len(entries)
  BY PartsOfType, Lengths
<1>1. ASSUME NEW step \in Steps, NEW task \in Tasks, NEW repository \in Spellings,
             NEW given \in {<<>>, <<OwnTag>>}, NEW addBuildTag \in BOOLEAN,
             AddEntry(step, task, repository, given, addBuildTag)
      PROVE  ScanInv'
  <2> DEFINE new == [step |-> step, task |-> task, repository |-> repository,
                     tags |-> WithBuildTag(given, addBuildTag)]
             n == Len(entries)
  <2>1. /\ kind' = kind /\ UNCHANGED <<scores, limit, verdict>> /\ phase = "config"
        /\ n < MaxEntries /\ entries' = Append(entries, new) /\ new \in Entries
    BY <1>1, BuildTagAdded DEF AddEntry, scanning, Entries, TagLists
  <2>2. entries \in Seq(Entries) /\ n \in Nat
    BY <1>0 DEF ConfigType
  <2>3. /\ DOMAIN entries' = 1..(n + 1)
        /\ \A i \in 1..n : entries'[i] = entries[i]
    BY <2>1, <2>2, AppendProperties, LenProperties
  <2>4. verdict[n + 1] = "none" /\ at = 1 /\ at' = 1 /\ phase' = "config"
    BY <1>1, <2>1, <2>2, PublishAssumption DEF PhaseInv, AddEntry
  <2>5. \A entry : Scanned(entry)' = Scanned(entry)
    BY <2>1 DEF Scanned, Built
  <2>6. \A i \in 1..(n + 1) : ~(i < 1) /\ (i = n + 1 \/ i \in 1..n)
    BY <2>2
  <2>7. \A i \in 1..n : i \in DOMAIN entries
    BY <1>0
  <2> HIDE DEF new, n
  <2>8. ASSUME NEW i \in 1..(n + 1), verdict[i] = "passed", limit[i] > 0
        PROVE  /\ scores[i] \in [Scanned(entries'[i]) -> 0..MaxScore]
               /\ \A p \in Scanned(entries'[i]) : scores[i][p] < limit[i]
    <3>1. i \in 1..n
      BY <2>4, <2>6, <2>8
    <3> QED
      BY <2>3, <2>7, <2>8, <3>1 DEF ScanInv
  <2> QED
    BY <2>1, <2>3, <2>4, <2>5, <2>6, <2>8 DEF ScanInv
<1>2. CASE UNCHANGED <<kind, entries, scores, limit, verdict>>
  <2>1. \A entry : Scanned(entry)' = Scanned(entry)
    BY <1>2 DEF Scanned, Built
  <2>2. ASSUME NEW i \in DOMAIN entries, (i < at \/ (i = at /\ phase = "next"))',
               entries[i].task = "push"
        PROVE  verdict[i] \in {"off", "passed"}
    <3>1. CASE UNCHANGED at /\ (phase' = "next" => phase = "next")
      BY <2>2, <3>1 DEF ScanInv
    <3>2. CASE NextEntry
      <4>1. at' = at + 1 /\ phase = "next" /\ phase' = "tag" /\ at \in Nat /\ i \in Nat
        BY <1>0, <3>2 DEF NextEntry, FlowType
      <4> QED
        BY <2>2, <4>1 DEF ScanInv
    <3>3. CASE (TagBuiltImage \/ TagImage) /\ entries[at].task # "push"
      <4>1. at' = at
        BY <3>3 DEF TagBuiltImage, TagImage
      <4>2. i < at
        BY <2>2, <3>3, <4>1
      <4> QED
        BY <2>2, <4>2 DEF ScanInv
    <3>4. CASE (TagBuiltImage \/ TagImage) /\ entries[at].task = "push"
      BY <2>2, <3>4 DEF ScanInv, TagBuiltImage, TagImage, Entry
    <3>5. CASE Scan
      <4>1. at \in 1..Len(entries) /\ at \in 1..MaxEntries /\ phase = "scan"
        BY <1>0, <3>5, WorkingEntry, EntryType DEF Scan, FlowType
      <4>2. PICK v \in {"off", "passed", "failed"} :
              /\ verdict' = [verdict EXCEPT ![at] = v]
              /\ phase' = IF v = "failed" THEN "failed" ELSE "next"
        BY <1>0, <3>5, <4>1, ScanSteps DEF ScanComesTo
      <4>3. verdict'[at] = v /\ verdict'[at] = verdict[at] /\ at' = at
        BY <1>0, <1>2, <3>5, <4>1, <4>2 DEF ScanType, Scan
      <4> QED
        BY <2>2, <4>2, <4>3 DEF ScanInv
    <3> QED
      BY <3>1, <3>2, <3>3, <3>4, <3>5
         DEF Next, AddEntry, Validate, TaskFails, BeginPush, Upload, UploadFails, EndPush, Ended,
             vars
  <2>3. \A i \in DOMAIN entries : verdict[i] = "passed" /\ limit[i] > 0 =>
          /\ scores[i] \in [Scanned(entries[i]) -> 0..MaxScore]
          /\ \A p \in Scanned(entries[i]) : scores[i][p] < limit[i]
    BY DEF ScanInv
  <2> QED
    BY <1>2, <2>1, <2>2, <2>3 DEF ScanInv
<1>3. CASE Scan
  <2>1. /\ at \in DOMAIN entries /\ at \in 1..MaxEntries /\ kind' = kind /\ entries' = entries
        /\ at' = at /\ phase = "scan" /\ at \in Nat
    BY <1>0, <1>3, WorkingEntry, EntryType DEF Scan, FlowType, config
  <2>2. PICK v \in {"off", "passed", "failed"}, t \in 0..MaxScore,
             found \in {scores[at]} \cup [Scanned(Entry) -> 0..MaxScore] :
          ScanComesTo(v, t, found)
    BY <1>0, <1>3, <2>1, ScanSteps
  <2>3. \A entry : Scanned(entry)' = Scanned(entry)
    BY <2>1 DEF Scanned, Built
  <2>4. \A i \in DOMAIN entries : i \in 1..MaxEntries /\ i \in Nat
    BY <1>0, EntryType
  <2>5. verdict'[at] = v /\ limit'[at] = t /\ scores'[at] = found
    BY <1>0, <2>1, <2>2 DEF ScanType, ScanComesTo
  <2>6. \A i \in DOMAIN entries : i # at =>
          verdict'[i] = verdict[i] /\ limit'[i] = limit[i] /\ scores'[i] = scores[i]
    BY <1>0, <2>2, <2>4 DEF ScanType, ScanComesTo
  <2>7. ASSUME NEW i \in DOMAIN entries, verdict'[i] = "passed", limit'[i] > 0
        PROVE  /\ scores'[i] \in [Scanned(entries[i]) -> 0..MaxScore]
               /\ \A p \in Scanned(entries[i]) : scores'[i][p] < limit'[i]
    <3>1. CASE i = at
      BY <2>2, <2>5, <2>7, <3>1 DEF Entry, ScanComesTo
    <3>2. CASE i # at
      BY <2>6, <2>7, <3>2 DEF ScanInv
    <3> QED
      BY <3>1, <3>2
  <2>8. ASSUME NEW i \in DOMAIN entries, i < at \/ (i = at /\ phase' = "next"),
               entries[i].task = "push"
        PROVE  verdict'[i] \in {"off", "passed"}
    <3>1. CASE i = at
      BY <2>2, <2>4, <2>5, <2>8, <3>1 DEF ScanComesTo
    <3>2. CASE i # at
      BY <2>6, <2>8, <3>2 DEF ScanInv
    <3> QED
      BY <3>1, <3>2
  <2> QED
    BY <2>1, <2>3, <2>7, <2>8 DEF ScanInv
<1> QED
  BY <1>1, <1>2, <1>3
     DEF Next, Validate, TagBuiltImage, TagImage, NextEntry, TaskFails, BeginPush, Upload,
         UploadFails, EndPush, Ended, vars, config, scanning

-----------------------------------------------------------------------------
(* The properties. *)

PublishInv ==
  /\ TypeOK /\ OrderInv /\ PhaseInv
  /\ TaggedInv /\ RegisteredInv
  /\ LocalInv /\ SingleInv
  /\ SentInv /\ ScanInv

LEMMA PublishInvHolds == Spec => []PublishInv
<1>1. Init => PublishInv
  <2> SUFFICES ASSUME Init PROVE PublishInv
    OBVIOUS
  <2>0. TypeOK
    BY InitialType
  <2>1. /\ DOMAIN entries = {} /\ DOMAIN tagged = {} /\ Handled = {}
        /\ \A ref : ~Contains(registered, ref)
    BY DEF Init, Handled, Contains
  <2>2. OrderInv /\ TaggedInv /\ RegisteredInv /\ ScanInv
    BY <2>1 DEF OrderInv, TaggedInv, BuiltTagged, TaggedInOrder, TaggedNamed, NamedTagged,
                RegisteredInv, ScanInv
  <2>3. PhaseInv
    BY DEF Init, PhaseInv
  <2>4. LocalInv /\ SingleInv
    BY <2>1 DEF Init, LocalInv, SingleInv, Settled
  <2>5. SentInv
    BY DEF Init, SentInv
  <2> QED
    BY <2>0, <2>2, <2>3, <2>4, <2>5 DEF PublishInv
<1>2. PublishInv /\ TypeOK' /\ [Next]_vars => PublishInv'
  BY OrderKept, PhaseKept, TaggedKept, RegisteredKept, LocalKept, SingleKept, SentKept, ScanKept
     DEF PublishInv
<1> QED
  BY <1>1, <1>2, TypeCorrect, PTL DEF Spec

\* An upload is that of a tagged image, a manifest of a built step that an entry names, or
\* that of a registered reference, of what docker has under it.
LEMMA WhatIsUploaded ==
  ASSUME PublishInv, NEW k \in 1..Len(Uploads)
  PROVE  \/ /\ k \in 1..Len(tagged) /\ k \in DOMAIN tagged
            /\ Built(tagged[k][1]) /\ tagged[k] \in Steps \X Refs
            /\ Uploads[k] = <<tagged[k][2], <<tagged[k][1], "all">>>>
         \/ /\ k > Len(tagged) /\ Uploads[k][1] \in Refs
            /\ Contains(registered, Uploads[k][1])
            /\ Uploads[k] = <<Uploads[k][1], local[Uploads[k][1]]>>
<1>1. /\ TypeOK /\ BuiltTagged
      /\ tagged \in Seq(Steps \X Refs) /\ registered \in Seq(Refs)
  BY PartsOfType DEF PublishInv, TaggedInv, QueueType
<1>2. /\ Len(tagged) \in Nat /\ Len(registered) \in Nat /\ DOMAIN tagged = 1..Len(tagged)
      /\ Len(Uploads) = Len(tagged) + Len(registered)
  BY <1>1, PartsOfType, Lengths, UploadsInOrder
<1>3. CASE k <= Len(tagged)
  <2>1. k \in 1..Len(tagged) /\ tagged[k] \in Steps \X Refs
    BY <1>1, <1>2, <1>3, ElementOfSeq
  <2> QED
    BY <1>1, <1>2, <2>1, PartsOfType, UploadsInOrder DEF BuiltTagged
<1>4. CASE k > Len(tagged)
  <2> DEFINE ref == registered[k - Len(tagged)]
  <2>1. k - Len(tagged) \in 1..Len(registered) /\ Uploads[k] = <<ref, local[ref]>>
    BY <1>1, <1>2, <1>4, PartsOfType, UploadsInOrder
  <2>2. ref \in Refs /\ Contains(registered, ref)
    BY <1>1, <2>1, ElementOfSeq DEF Contains
  <2> QED
    BY <1>4, <2>1, <2>2
<1> QED
  BY <1>2, <1>3, <1>4

\* What the repository has under a reference was uploaded.
LEMMA WhatIsThere ==
  ASSUME PublishInv, NEW ref \in Refs, registry[ref] # None
  PROVE  \E k \in 1..sent : k \in 1..Len(Uploads) /\ LastOf(k, ref)
<1>1. sent \in 0..Len(Uploads) /\ Len(Uploads) \in Nat
  BY PartsOfType, Lengths, UploadsInOrder DEF PublishInv, QueueType
<1>2. PICK k \in 1..sent : LastOf(k, ref)
  BY DEF PublishInv, SentInv
<1> QED
  BY <1>1, <1>2

\* What is in the repository under a reference is of a step with an entry that names it, also
\* when a later upload has failed.
NamedInv ==
  \A ref \in Refs : registry[ref] # None =>
    \E i \in DOMAIN entries : Names(i, ref) /\ entries[i].step = registry[ref][1]

LEMMA NamedKept ==
  ASSUME PublishInv, NamedInv, [Next]_vars
  PROVE  NamedInv'
<1>0. /\ sent \in Nat /\ Len(Uploads) \in Nat /\ registry \in [Refs -> Images]
      /\ Len(entries) \in Nat /\ DOMAIN entries = 1..Len(entries)
  BY PartsOfType, Lengths, UploadsInOrder DEF PublishInv, ImageType
<1>1. CASE Upload
  <2> DEFINE new == sent + 1
  <2>1. /\ new \in 1..Len(Uploads) /\ phase = "push" /\ kind' = kind /\ entries' = entries
        /\ registry' = [registry EXCEPT ![Uploads[new][1]] = Uploads[new][2]]
    BY <1>0, <1>1 DEF Upload, config
  <2>2. Handled \subseteq DOMAIN entries
    <3>1. at = Len(entries) + 1
      BY <2>1 DEF PublishInv, PhaseInv
    <3>2. (Len(entries) + 1) - 1 = Len(entries)
      BY <1>0
    <3> QED
      BY <1>0, <2>1, <3>1, <3>2 DEF Handled
  <2> HIDE DEF new
  <2>3. ASSUME NEW ref \in Refs, registry'[ref] # None, Uploads[new][1] = ref
        PROVE  \E i \in DOMAIN entries : Names(i, ref) /\ entries[i].step = registry'[ref][1]
    <3>1. registry'[ref] = Uploads[new][2]
      BY <1>0, <2>1, <2>3
    <3>2. CASE /\ new \in DOMAIN tagged /\ Uploads[new] = <<tagged[new][2], <<tagged[new][1], "all">>>>
      <4>1. tagged[new][2] = ref /\ registry'[ref][1] = tagged[new][1]
        BY <2>3, <3>1, <3>2
      <4> QED
        BY <2>1, <2>2, <3>2, <4>1 DEF PublishInv, TaggedInv, TaggedNamed
    <3>3. CASE Uploads[new] = <<Uploads[new][1], local[Uploads[new][1]]>>
      <4>1. registry'[ref] = local[ref] /\ local[ref] # None
        BY <2>3, <3>1, <3>3
      <4>2. PICK i \in Settled : Names(i, ref) /\ local[ref] = ImageToUse(entries[i].step)
        BY <2>1, <4>1 DEF PublishInv, LocalInv
      <4>3. i \in DOMAIN entries
        BY <2>2 DEF Settled
      <4>4. ImageToUse(entries[i].step)[1] = entries[i].step
        BY DEF ImageToUse
      <4> QED
        BY <4>1, <4>2, <4>3, <4>4
    <3> QED
      BY <2>1, <3>2, <3>3, WhatIsUploaded
  <2>4. ASSUME NEW ref \in Refs, Uploads[new][1] # ref PROVE registry'[ref] = registry[ref]
    BY <1>0, <2>1, <2>4
  <2> QED
    BY <2>1, <2>3, <2>4, ConfigurationStands DEF NamedInv
<1>2. CASE phase = "config" /\ UNCHANGED registry
  <2>1. sent = 0 /\ 1..0 = {}
    BY <1>2 DEF PublishInv, PhaseInv
  <2>2. \A ref \in Refs : registry[ref] = None
    BY <2>1 DEF PublishInv, SentInv
  <2> QED
    BY <1>2, <2>2 DEF NamedInv
<1>3. CASE UNCHANGED <<kind, entries, registry>>
  BY <1>3, ConfigurationStands DEF NamedInv
<1> QED
  BY <1>1, <1>2, <1>3
     DEF Next, AddEntry, Validate, TagBuiltImage, TagImage, Scan, NextEntry, TaskFails, BeginPush,
         UploadFails, EndPush, Ended, vars, config, uploading

LEMMA NamedInvHolds == Spec => []NamedInv
<1>1. Init => NamedInv
  BY DEF Init, NamedInv
<1> QED
  BY <1>1, NamedKept, PublishInvHolds, PTL DEF Spec

\* Once something has been uploaded all entries have been worked at.
LEMMA AfterTheTasks ==
  ASSUME PublishInv, NEW ref \in Refs, registry[ref] # None
  PROVE  /\ sent > 0 /\ at = Len(entries) + 1 /\ Len(entries) \in Nat
         /\ DOMAIN entries = 1..Len(entries)
         /\ registry[ref][2] = "all" => Built(registry[ref][1])
<1>1. Len(entries) \in Nat /\ DOMAIN entries = 1..Len(entries) /\ sent \in Nat
  BY PartsOfType, Lengths DEF PublishInv
<1>2. PICK k \in 1..sent : k \in 1..Len(Uploads) /\ Uploads[k] = <<ref, registry[ref]>>
  BY WhatIsThere DEF LastOf
<1>3. sent > 0 /\ at = Len(entries) + 1
  BY <1>1, <1>2 DEF PublishInv, PhaseInv
<1>4. registry[ref][2] = "all" => Built(registry[ref][1])
  <2>1. CASE Built(tagged[k][1]) /\ Uploads[k] = <<tagged[k][2], <<tagged[k][1], "all">>>>
    BY <1>2, <2>1
  <2>2. CASE Uploads[k] = <<Uploads[k][1], local[Uploads[k][1]]>>
    BY <1>2, <2>2 DEF PublishInv, SingleInv
  <2> QED
    BY <1>2, <2>1, <2>2, WhatIsUploaded
<1> QED
  BY <1>1, <1>3, <1>4

\* What is uploaded under a reference comes after the scans of all pushes that name it, of
\* which none failed or was left out, and is below the threshold of those of its own step on
\* every platform; what none of these has passed is of a commit (push.py, _security_scan).
THEOREM NothingUnscanned == Spec => []UploadsScanned
<1>1. PublishInv /\ NamedInv => UploadsScanned
  <2> SUFFICES ASSUME PublishInv, NamedInv, NEW ref \in Refs, registry[ref] # None,
                      NEW image, image = registry[ref],
                      NEW own, own = {i \in Naming(ref) : entries[i].step = image[1]}
               PROVE  /\ \A i \in Pushing(ref) : verdict[i] \in {"off", "passed"}
                      /\ \A i \in own : verdict[i] = "passed" /\ limit[i] > 0 =>
                           \A p \in PartsOf(image) : scores[i][p] < limit[i]
                      /\ \E i \in own : \/ verdict[i] \in {"off", "passed"}
                                        \/ entries[i].task = "commit"
    BY DEF UploadsScanned
  <2>1. /\ at = Len(entries) + 1 /\ Len(entries) \in Nat /\ DOMAIN entries = 1..Len(entries)
        /\ image[2] = "all" => Built(image[1])
    BY AfterTheTasks
  <2>2. ASSUME NEW i \in Pushing(ref) PROVE verdict[i] \in {"off", "passed"}
    <3>1. i \in 1..Len(entries) /\ i < at /\ entries[i].task = "push"
      BY <2>1 DEF Pushing, Naming
    <3> QED
      BY <2>1, <3>1 DEF PublishInv, ScanInv
  <2>3. ASSUME NEW i \in own, verdict[i] = "passed", limit[i] > 0, NEW p \in PartsOf(image)
        PROVE  scores[i][p] < limit[i]
    <3>1. i \in DOMAIN entries /\ entries[i].step = image[1]
      BY DEF Naming
    <3>2. p \in Scanned(entries[i])
      BY <2>1, <3>1, NativeIsScanned DEF PartsOf
    <3> QED
      BY <2>3, <3>1, <3>2 DEF PublishInv, ScanInv
  <2>4. PICK i \in own : TRUE
    BY DEF NamedInv, Naming, Names
  <2>5. i \in Naming(ref) /\ (i \in Pushing(ref) \/ entries[i].task = "commit")
    <3>1. i \in DOMAIN entries /\ i \in Naming(ref)
      BY DEF Naming
    <3>2. entries[i].task \in Tasks
      BY <3>1, PartsOfType, EntryType DEF PublishInv
    <3> QED
      BY <3>1, <3>2 DEF Pushing, Tasks
  <2> QED
    BY <2>2, <2>3, <2>4, <2>5
<1> QED
  BY <1>1, PublishInvHolds, NamedInvHolds, PTL

\* Validation saw two pushes of which one is of a step with platforms: they do not name the
\* same reference in the same spelling.
LEMMA PushesApart ==
  ASSUME TypeOK, Valid, NEW ref \in Refs, NEW i \in DOMAIN entries, NEW j \in DOMAIN entries,
         i # j, kind[entries[i].step] = "platforms"
  PROVE  Hidden(entries[i], entries[j], ref)
<1> SUFFICES ASSUME ~Hidden(entries[i], entries[j], ref) PROVE FALSE
  OBVIOUS
<1>1. /\ entries[i].task = "push" /\ entries[j].task = "push"
      /\ entries[i].repository = entries[j].repository
      /\ ref \in ToSet(entries[i].tags) /\ ref \in ToSet(entries[j].tags)
  BY PartsOfType, EntryType DEF Hidden, Tasks
<1>2. <<entries[i].repository, ref>> \in Written(entries[i]) \cap Written(entries[j])
  BY <1>1 DEF Written
<1>3. DuplicateTag(entries[i], entries[j])
  BY <1>1, <1>2 DEF DuplicateTag, IsMultiPlatform
<1> QED
  BY <1>3 DEF Valid

\* A manifest is replaced only where validation (validate_push) does not look: a second
\* upload of a reference is of an entry that names it, in a commit or another spelling.
THEOREM ManifestsKept == Spec => ManifestKept
<1>1. ASSUME PublishInv, [Next]_vars, NEW ref \in Refs, registry[ref] # None,
             kind[registry[ref][1]] = "platforms", registry'[ref] # registry[ref]
      PROVE  \E i, j \in Naming(ref) :
               /\ entries[i].step = registry[ref][1] /\ entries[j].step # registry[ref][1]
               /\ Built(entries[j].step) \/ PushedByDocker(j)
               /\ Hidden(entries[i], entries[j], ref)
  <2>1. Upload
    BY <1>1 DEF Next, AddEntry, Validate, TagBuiltImage, TagImage, Scan, NextEntry, TaskFails,
                BeginPush, UploadFails, EndPush, Ended, vars, uploading
  <2>2. /\ phase = "push" /\ Valid /\ TaggedInOrder /\ TaggedNamed
        /\ \A r \in Refs : Contains(registered, r)
                             <=> \E i \in Handled : PushedByDocker(i) /\ Names(i, r)
    BY <1>1, <2>1 DEF Upload, PublishInv, PhaseInv, TaggedInv, RegisteredInv
  <2>3. Handled \subseteq DOMAIN entries
    BY <1>1, <2>2, PartsOfType, Lengths DEF Handled, PublishInv, PhaseInv
  <2> DEFINE new == sent + 1
  <2>4. /\ new \in 1..Len(Uploads) /\ Uploads[new][1] = ref
        /\ registry'[ref] = Uploads[new][2] /\ sent < Len(Uploads) /\ sent \in Nat
    <3>1. sent \in Nat /\ Len(Uploads) \in Nat /\ registry \in [Refs -> Images]
      BY <1>1, PartsOfType, Lengths, UploadsInOrder DEF ImageType, PublishInv
    <3>2. /\ sent < Len(Uploads)
          /\ registry' = [registry EXCEPT ![Uploads[new][1]] = Uploads[new][2]]
      BY <2>1 DEF Upload
    <3> HIDE DEF new
    <3>3. Uploads[new][1] = ref
      BY <1>1, <3>1, <3>2
    <3>4. registry'[ref] = Uploads[new][2]
      BY <3>1, <3>2, <3>3
    <3> QED
      BY <3>1, <3>2, <3>3, <3>4 DEF new
  <2>5. PICK k \in 1..sent : k \in 1..Len(Uploads) /\ Uploads[k] = <<ref, registry[ref]>>
    BY <1>1, WhatIsThere DEF LastOf
  <2>6. k < new /\ k \in Nat /\ new \in Nat
    BY <2>4
  <2> HIDE DEF new
  <2>7. /\ k \in DOMAIN tagged /\ tagged[k] = <<registry[ref][1], ref>>
        /\ registry[ref] = <<tagged[k][1], "all">>
    <3>1. CASE Uploads[k] = <<Uploads[k][1], local[Uploads[k][1]]>> /\ k > Len(tagged)
      <4>1. registry[ref] = local[ref]
        BY <2>5, <3>1
      <4>2. ~(new \in 1..Len(tagged))
        BY <2>6, <3>1, <1>1, PartsOfType, Lengths DEF PublishInv
      <4>3. registry'[ref] = local[ref]
        BY <1>1, <2>4, <4>2, WhatIsUploaded
      <4> QED
        BY <1>1, <4>1, <4>3
    <3>2. CASE /\ k \in DOMAIN tagged /\ tagged[k] \in Steps \X Refs
               /\ Uploads[k] = <<tagged[k][2], <<tagged[k][1], "all">>>>
      BY <2>5, <3>2
    <3> QED
      BY <1>1, <2>5, <3>1, <3>2, WhatIsUploaded
  <2>8. PICK i \in DOMAIN entries : entries[i].step = registry[ref][1] /\ Names(i, ref)
    BY <2>2, <2>3, <2>7 DEF TaggedNamed
  <2>9. PICK j \in DOMAIN entries :
          /\ entries[j].step # registry[ref][1] /\ Names(j, ref)
          /\ Built(entries[j].step) \/ PushedByDocker(j)
    <3>1. CASE /\ new \in DOMAIN tagged /\ Built(tagged[new][1])
               /\ Uploads[new] = <<tagged[new][2], <<tagged[new][1], "all">>>>
      <4>1. tagged[new][2] = ref /\ tagged[new][1] # registry[ref][1]
        BY <1>1, <2>4, <2>7, <3>1
      <4>2. PICK j \in Handled : entries[j].step = tagged[new][1] /\ Names(j, tagged[new][2])
        BY <2>2, <3>1 DEF TaggedNamed
      <4> QED
        BY <2>3, <3>1, <4>1, <4>2
    <3>2. CASE Contains(registered, Uploads[new][1])
      <4>1. PICK j \in Handled : PushedByDocker(j) /\ Names(j, ref)
        BY <2>2, <2>4, <3>2
      <4>2. kind[entries[j].step] # "platforms"
        BY <4>1 DEF PushedByDocker, Built
      <4> QED
        BY <1>1, <2>3, <4>1, <4>2
    <3> QED
      BY <1>1, <2>4, <3>1, <3>2, WhatIsUploaded
  <2>10. Hidden(entries[i], entries[j], ref)
    BY <1>1, <2>2, <2>8, <2>9, PushesApart DEF PublishInv
  <2> QED
    BY <2>8, <2>9, <2>10 DEF Naming, Names
<1>2. ASSUME PublishInv, [Next]_vars
      PROVE  [\A ref \in Refs :
                registry[ref] # None /\ kind[registry[ref][1]] = "platforms"
                  /\ registry'[ref] # registry[ref]
                => \E i, j \in Naming(ref) :
                     /\ entries[i].step = registry[ref][1] /\ entries[j].step # registry[ref][1]
                     /\ Built(entries[j].step) \/ PushedByDocker(j)
                     /\ Hidden(entries[i], entries[j], ref)]_vars
  BY <1>1, <1>2
<1> QED
  BY <1>2, PublishInvHolds, PTL DEF Spec, ManifestKept

\* Where no departure is, what the code leaves is what README.rst promises.
LEMMA DepartureOrPromise ==
  ASSUME TypeOK, NEW ref \in Refs,
         ~CommitPushed(ref), ~EndStateIgnored(ref), ~Retagged(ref)
  PROVE  Departed(ref) = Documented(ref)
<1> DEFINE n == Len(entries)
           built == {i \in Naming(ref) : Built(entries[i].step)}
<1>1. /\ n \in Nat /\ Naming(ref) \in SUBSET (1..n) /\ Pushing(ref) \in SUBSET (1..n)
      /\ Pushing(ref) \subseteq Naming(ref)
      /\ \A i \in Naming(ref) : entries[i].task \in {"push", "commit"}
                               /\ entries[i].step \in Steps
  BY PartsOfType, Lengths, EntryType DEF Naming, Pushing, Tasks
<1>2. \A i \in Naming(ref) : kind[entries[i].step] \in Kinds
  BY <1>1 DEF TypeOK
<1> HIDE DEF n
<1>3. CASE \E i \in Naming(ref) : PushedByDocker(i)
  <2> DEFINE top == Max(Naming(ref))
             last == Max(Pushing(ref))
  <2>1. PICK i \in Naming(ref) : PushedByDocker(i)
    BY <1>3
  <2>2. /\ top \in Naming(ref) /\ \A x \in Naming(ref) : x <= top
        /\ i \in Pushing(ref) /\ last \in Pushing(ref) /\ \A x \in Pushing(ref) : x <= last
    BY <1>1, <2>1, MaxOfInterval DEF Pushing, PushedByDocker
  <2> HIDE DEF top, last
  <2>3. PushedByDocker(top)
    <3>1. CASE i = top
      BY <2>1, <3>1
    <3>2. CASE i # top
      <4>1. i < top
        BY <1>1, <2>2, <3>2
      <4> QED
        BY <2>1, <2>2, <4>1 DEF Retagged
    <3> QED
      BY <3>1, <3>2
  <2>4. top \in Pushing(ref)
    BY <2>2, <2>3 DEF PushedByDocker, Pushing
  <2>5. top = last
    <3>1. top <= last /\ last <= top
      BY <1>1, <2>2, <2>4
    <3> QED
      BY <1>1, <2>2, <3>1
  <2>6. kind[entries[top].step] \in {"docker", "run"}
    BY <1>2, <2>2, <2>3, <2>4 DEF PushedByDocker, Built, Kinds, EndStateIgnored
  <2>7. Departed(ref) = ImageToUse(entries[top].step)
    BY <1>3 DEF Departed, top
  <2>8. Documented(ref) = <<entries[last].step, IF HasRun(entries[last].step) THEN "end"
                            ELSE IF Built(entries[last].step) THEN "all" ELSE "one">>
    BY <2>2 DEF Documented, last
  <2> QED
    BY <2>5, <2>6, <2>7, <2>8 DEF ImageToUse, HasRun, Built
<1>4. CASE ~ \E i \in Naming(ref) : PushedByDocker(i)
  <2>1. Departed(ref) = IF built = {} THEN None ELSE <<entries[Max(built)].step, "all">>
    BY <1>4 DEF Departed
  <2>2. built = Pushing(ref)
    <3>1. ASSUME NEW i \in built PROVE i \in Pushing(ref)
      BY <1>1, <3>1 DEF CommitPushed, Pushing
    <3>2. ASSUME NEW i \in Pushing(ref) PROVE i \in built
      BY <1>4 DEF PushedByDocker, Pushing
    <3> QED
      BY <3>1, <3>2
  <2> HIDE DEF built
  <2>3. CASE Pushing(ref) = {}
    BY <2>1, <2>2, <2>3 DEF Documented
  <2>4. CASE Pushing(ref) # {}
    <3> DEFINE last == Max(Pushing(ref))
    <3>1. last \in Pushing(ref)
      BY <1>1, <2>4, MaxOfInterval
    <3> HIDE DEF last
    <3>2. /\ last \in built /\ Built(entries[last].step) /\ last \in Naming(ref)
          /\ kind[entries[last].step] \notin {"buildxRun", "xfail"}
      BY <2>2, <3>1 DEF built, EndStateIgnored, Pushing
    <3>3. ~HasRun(entries[last].step)
      BY <3>2 DEF HasRun, Built
    <3>4. Documented(ref) = <<entries[last].step, IF HasRun(entries[last].step) THEN "end"
                              ELSE IF Built(entries[last].step) THEN "all" ELSE "one">>
      BY <2>4 DEF Documented, last
    <3>5. Departed(ref) = <<entries[last].step, "all">>
      BY <2>1, <2>2, <2>4 DEF last
    <3> QED
      BY <3>2, <3>3, <3>4, <3>5
  <2> QED
    BY <2>3, <2>4
<1> QED
  BY <1>3, <1>4

\* When the push phase is over, each reference stands for the image that README.rst promises
\* or, in the three cases in which the code departs from it, for the one that docker has of
\* the last entry that names it or, if docker does not push it, for the last manifest.
THEOREM PromiseKept == Spec => []PublishedImage
<1>1. PublishInv => PublishedImage
  <2> SUFFICES ASSUME PublishInv, phase = "done", NEW ref \in Refs
               PROVE  registry[ref] = Departed(ref)
    BY DepartureOrPromise DEF PublishedImage, PublishInv
  <2> DEFINE n == Len(entries)
             m == Len(tagged)
             size == Len(Uploads)
  <2>1. /\ TypeOK /\ OrderInv /\ sent = size /\ at = n + 1 /\ n \in Nat /\ m \in Nat /\ size \in Nat
        /\ DOMAIN entries = 1..n /\ DOMAIN tagged = 1..m /\ m <= size
        /\ \A i \in 1..n : entries[i] \in Entries /\ entries[i].step \in Nat
    BY PartsOfType, Lengths, UploadsInOrder, EntryType DEF PublishInv, PhaseInv, Steps
  <2>2. Handled = 1..n /\ Settled = 1..n
    <3>1. (n + 1) - 1 = n /\ ~(n + 1 <= n)
      BY <2>1
    <3>2. Handled = 1..n
      BY <2>1, <3>1 DEF Handled
    <3> QED
      BY <2>1, <3>1, <3>2 DEF Settled, OfTask
  <2>3. /\ TaggedInOrder /\ TaggedNamed /\ NamedTagged
        /\ Contains(registered, ref) <=> \E i \in 1..n : PushedByDocker(i) /\ Names(i, ref)
        /\ local[ref] # None => \E i \in 1..n : Names(i, ref) /\ local[ref] = ImageToUse(entries[i].step)
        /\ \A i \in 1..n : Names(i, ref) => local[ref] # None /\ entries[i].step <= local[ref][1]
    BY <2>2 DEF PublishInv, TaggedInv, RegisteredInv, LocalInv
  <2> HIDE DEF n, m, size
  <2>4. Naming(ref) = {i \in 1..n : Names(i, ref)} /\ Naming(ref) \in SUBSET (1..n)
    BY <2>1 DEF Naming, Names
  <2>5. ASSUME NEW S \in SUBSET (1..n), S # {}
        PROVE  /\ Max(S) \in S
               /\ \A i \in S : entries[i].step <= entries[Max(S)].step
    <3>1. Max(S) \in S /\ \A i \in S : i <= Max(S)
      BY <2>1, <2>5, MaxOfInterval
    <3> QED
      BY <2>1, <2>5, <3>1, OrderOfSteps
  <2>6. ASSUME NEW k \in 1..size
        PROVE  \/ /\ k \in 1..m /\ Built(tagged[k][1]) /\ tagged[k] \in Steps \X Refs
                  /\ Uploads[k] = <<tagged[k][2], <<tagged[k][1], "all">>>>
               \/ /\ k > m /\ Contains(registered, Uploads[k][1])
                  /\ Uploads[k] = <<Uploads[k][1], local[Uploads[k][1]]>>
    BY WhatIsUploaded DEF size, m
  <2>7. \/ registry[ref] = None /\ \A k \in 1..size : Uploads[k][1] # ref
        \/ \E k \in 1..size : LastOf(k, ref)
    BY <2>1 DEF PublishInv, SentInv
  <2>8. CASE Contains(registered, ref)
    <3>1. PICK p \in 1..n : PushedByDocker(p) /\ Names(p, ref)
      BY <2>3, <2>8
    <3>2. Departed(ref) = ImageToUse(entries[Max(Naming(ref))].step)
      BY <2>4, <3>1 DEF Departed
    <3>3. local[ref] = ImageToUse(entries[Max(Naming(ref))].step)
      <4>1. /\ Max(Naming(ref)) \in 1..n /\ Names(Max(Naming(ref)), ref)
            /\ \A i \in 1..n : Names(i, ref) => entries[i].step <= entries[Max(Naming(ref))].step
        BY <2>4, <2>5, <3>1
      <4>2. local[ref] # None /\ entries[Max(Naming(ref))].step <= local[ref][1]
        BY <2>3, <4>1
      <4>3. PICK i \in 1..n : Names(i, ref) /\ local[ref] = ImageToUse(entries[i].step)
        BY <2>3, <4>2
      <4>4. entries[i].step <= entries[Max(Naming(ref))].step
        BY <4>1, <4>3
      <4>6. local[ref][1] = entries[i].step
        BY <4>3 DEF ImageToUse
      <4>5. entries[i].step = entries[Max(Naming(ref))].step
        BY <2>1, <4>1, <4>2, <4>4, <4>6
      <4> QED
        BY <4>3, <4>5
    <3>4. PICK k \in 1..size : k > m /\ Uploads[k][1] = ref
      <4>1. PICK r \in 1..Len(registered) : registered[r] = ref
        BY <2>8 DEF Contains
      <4>2. /\ size = m + Len(registered) /\ Len(registered) \in Nat
            /\ \A k \in 1..size : k > m => Uploads[k][1] = registered[k - m]
        BY <2>1, PartsOfType, Lengths, UploadsInOrder DEF size, m
      <4>3. m + r \in 1..size /\ m + r > m /\ (m + r) - m = r
        BY <2>1, <4>1, <4>2
      <4> QED
        BY <4>1, <4>2, <4>3
    <3>5. PICK l \in 1..size : LastOf(l, ref)
      BY <2>7, <3>4
    <3>6. l > m
      <4>1. k <= l
        <5> SUFFICES ASSUME l < k PROVE FALSE
          BY <2>1
        <5>1. k \in (l + 1)..sent
          BY <2>1
        <5> QED
          BY <3>4, <3>5, <5>1 DEF LastOf
      <4> QED
        BY <2>1, <3>4, <4>1
    <3>7. registry[ref] = local[ref]
      BY <2>1, <2>6, <3>5, <3>6 DEF LastOf
    <3> QED
      BY <3>2, <3>3, <3>7
  <2>9. CASE ~Contains(registered, ref)
    <3> DEFINE built == {i \in Naming(ref) : Built(entries[i].step)}
    <3>1. ~ \E i \in Naming(ref) : PushedByDocker(i)
      BY <2>3, <2>4, <2>9
    <3>2. Departed(ref) = IF built = {} THEN None ELSE <<entries[Max(built)].step, "all">>
      <4>1. CASE Naming(ref) = {}
        BY <4>1 DEF Departed
      <4>2. CASE Naming(ref) # {}
        BY <3>1, <4>2 DEF Departed
      <4> QED
        BY <4>1, <4>2
    <3>3. ASSUME NEW k \in 1..size, Uploads[k][1] = ref
          PROVE  /\ k \in 1..m /\ Uploads[k] = <<ref, <<tagged[k][1], "all">>>>
                 /\ \E i \in built : entries[i].step = tagged[k][1]
      <4>1. /\ k \in 1..m /\ Built(tagged[k][1]) /\ Uploads[k] = <<tagged[k][2], <<tagged[k][1], "all">>>>
        BY <2>6, <2>9, <3>3
      <4>2. tagged[k][2] = ref
        BY <3>3, <4>1
      <4>3. PICK i \in 1..n : entries[i].step = tagged[k][1] /\ Names(i, ref)
        BY <2>1, <2>2, <2>3, <4>1, <4>2 DEF TaggedNamed
      <4> QED
        BY <2>4, <4>1, <4>2, <4>3
    <3>4. CASE built = {}
      BY <2>7, <3>2, <3>3, <3>4 DEF LastOf
    <3>5. CASE built # {}
      <4> DEFINE top == Max(built)
      <4>1. /\ top \in 1..n /\ Names(top, ref) /\ Built(entries[top].step)
            /\ \A i \in built : entries[i].step <= entries[top].step
        BY <2>4, <2>5, <3>5
      <4> HIDE DEF top
      <4>2. PICK k \in 1..m : tagged[k] = <<entries[top].step, ref>>
        <5>1. Contains(tagged, <<entries[top].step, ref>>)
          BY <2>2, <2>3, <4>1 DEF NamedTagged
        <5> QED
          BY <5>1 DEF Contains, m
      <4>3. k \in 1..size /\ Uploads[k][1] = ref
        <5>1. k \in 1..size
          BY <2>1, <4>2
        <5>2. Uploads[k] = <<tagged[k][2], <<tagged[k][1], "all">>>>
          BY <2>1, <4>2, PartsOfType, UploadsInOrder DEF m
        <5> QED
          BY <4>2, <5>1, <5>2
      <4>4. PICK l \in 1..size : LastOf(l, ref)
        BY <2>7, <4>3
      <4>5. Uploads[l][1] = ref
        BY <4>4 DEF LastOf
      <4>6. PICK i \in built : entries[i].step = tagged[l][1]
        BY <3>3, <4>5
      <4>7. l \in 1..m /\ registry[ref] = <<tagged[l][1], "all">>
        BY <3>3, <4>4, <4>5 DEF LastOf
      <4>8. k <= l
        <5> SUFFICES ASSUME l < k PROVE FALSE
          BY <2>1
        <5>1. k \in (l + 1)..sent
          BY <2>1
        <5> QED
          BY <4>3, <4>4, <5>1 DEF LastOf
      <4>9. tagged[k][1] <= tagged[l][1]
        <5>1. CASE k = l
          BY <2>1, <4>1, <4>2, <5>1
        <5>2. CASE k < l
          BY <2>1, <2>3, <4>7, <5>2 DEF TaggedInOrder
        <5> QED
          BY <2>1, <4>8, <5>1, <5>2
      <4>10. tagged[l][1] = entries[top].step
        <5>1. i \in 1..n /\ entries[i].step <= entries[top].step
          BY <2>4, <4>1, <4>6
        <5> QED
          BY <2>1, <4>1, <4>2, <4>6, <4>9, <5>1
      <4> QED
        BY <3>2, <3>5, <4>7, <4>10 DEF top
    <3> QED
      BY <3>4, <3>5
  <2> QED
    BY <2>8, <2>9
<1> QED
  BY <1>1, PublishInvHolds, PTL
=============================================================================
