-------------------------- MODULE ConfigLoadProofs --------------------------
(***************************************************************************)
(* What holds of the loading for any number of files, keys, steps and      *)
(* dependencies.  Each value of the merged configuration is that of the    *)
(* last source that gives it and may (LastInv).  The steps are put in the  *)
(* order of their dependencies (SortInv): what a node still waits for are  *)
(* those of its dependencies that are not placed, so that a group may be   *)
(* placed when it waits for none, and a rest that waits for ever would be  *)
(* a cycle, which was looked for before.                                   *)
(***************************************************************************)
EXTENDS ConfigLoad, FiniteSetTheorems, SequenceTheorems, WellFoundedInduction, TLAPS

-----------------------------------------------------------------------------
(* Elements in the order of their ranks. *)

\* The places of a sequence are in the order of the ranks.
InOrderOf(s, rank) == \A i, j \in DOMAIN s : i < j => rank[s[i]] <= rank[s[j]]

\* A set of numbers has a least one.
LEMMA LeastNumber ==
  ASSUME NEW T \in SUBSET Nat, T # {}
  PROVE  \E m \in T : \A n \in T : m <= n
<1> DEFINE R == {ss \in Nat \X Nat : ss[1] < ss[2]}
<1>1. IsWellFoundedOn(R, Nat)
  BY NatLessThanWellFounded DEF OpToRel
<1>2. PICK m \in T : \A n \in T : <<n, m>> \notin R
  BY <1>1, WFMin
<1>3. ASSUME NEW n \in T PROVE m <= n
  <2>1. n \in Nat /\ m \in Nat /\ <<n, m>> \notin R
    BY <1>2
  <2>2. ~(n < m)
    BY <2>1
  <2> QED
    BY <2>1, <2>2
<1> QED
  BY <1>3

\* Min is one of the numbers.
LEMMA MinOf ==
  ASSUME NEW S \in SUBSET Nat, S # {}
  PROVE  Min(S) \in S
BY LeastNumber DEF Min

\* Max is one of finitely many numbers.
LEMMA MaxOf ==
  ASSUME NEW n \in Nat, NEW S \in SUBSET (1..n), S # {}
  PROVE  Max(S) \in S
<1> DEFINE T == {n - x : x \in S}
<1>1. T \subseteq Nat /\ T # {}
  <2>1. \A x \in S : n - x \in Nat
    OBVIOUS
  <2> QED
    BY <2>1
<1>2. PICK m \in T : \A k \in T : m <= k
  BY <1>1, LeastNumber
<1>3. PICK x \in S : m = n - x
  BY <1>2
<1>4. ASSUME NEW y \in S PROVE x >= y
  <2>1. m <= n - y
    BY <1>2
  <2> QED
    BY <1>3, <2>1
<1> QED
  BY <1>4 DEF Max

\* An element is of least rank.
LEMMA LeastRank ==
  ASSUME NEW S, S # {}, NEW rank, \A x \in S : rank[x] \in Nat
  PROVE  \E x \in S : \A y \in S : rank[x] <= rank[y]
<1> DEFINE T == {rank[x] : x \in S}
<1>1. PICK m \in T : \A n \in T : m <= n
  BY LeastNumber
<1> QED
  BY <1>1

\* The elements of a finite set can be put in the order of their ranks.
LEMMA Sortable ==
  ASSUME NEW S, IsFiniteSet(S), NEW rank, \A x \in S : rank[x] \in Nat
  PROVE  \E s \in SetToSeqs(S) : InOrderOf(s, rank)
<1> DEFINE Bad == {T \in SUBSET S : ~ \E s \in SetToSeqs(T) : InOrderOf(s, rank)}
           Sizes == {Cardinality(T) : T \in Bad}
<1> SUFFICES ASSUME S \in Bad PROVE FALSE
  OBVIOUS
<1>1. \A T \in SUBSET S : IsFiniteSet(T) /\ Cardinality(T) \in Nat
  BY FS_Subset, FS_CardinalityType
<1>2. Sizes \subseteq Nat /\ Sizes # {}
  BY <1>1
<1>3. PICK m \in Sizes : \A n \in Sizes : m <= n
  BY <1>2, LeastNumber
<1>4. PICK T \in Bad : m = Cardinality(T)
  BY <1>3
<1>5. T \in SUBSET S /\ IsFiniteSet(T) /\ m \in Nat
  BY <1>1, <1>4
<1>6. T # {}
  <2> SUFFICES ASSUME T = {} PROVE FALSE
    OBVIOUS
  <2>1. Cardinality(T) = 0
    BY FS_EmptySet
  <2>2. [i \in 1..0 |-> i] \in SetToSeqs(T)
    BY <2>1 DEF SetToSeqs
  <2>3. InOrderOf([i \in 1..0 |-> i], rank)
    BY DEF InOrderOf
  <2> QED
    BY <1>4, <2>2, <2>3
<1>7. PICK x \in T : \A y \in T : rank[x] <= rank[y]
  BY <1>5, <1>6, LeastRank
<1>8. IsFiniteSet(T \ {x}) /\ Cardinality(T \ {x}) = m - 1
  BY <1>4, <1>5, FS_RemoveElement
<1>9. m >= 1
  BY <1>1, <1>5, <1>8
<1>10. T \ {x} \notin Bad
  <2> SUFFICES ASSUME T \ {x} \in Bad PROVE FALSE
    OBVIOUS
  <2>1. m - 1 \in Sizes
    BY <1>8
  <2> QED
    BY <1>3, <1>5, <2>1
<1>11. PICK s \in SetToSeqs(T \ {x}) : InOrderOf(s, rank)
  BY <1>5, <1>10
<1>12. /\ s \in [1..(m - 1) -> T \ {x}]
       /\ \A i, j \in 1..(m - 1) : i # j => s[i] # s[j]
       /\ \A i, j \in 1..(m - 1) : i < j => rank[s[i]] <= rank[s[j]]
  BY <1>8, <1>11 DEF SetToSeqs, InOrderOf
<1> DEFINE t == [i \in 1..m |-> IF i = 1 THEN x ELSE s[i - 1]]
<1>13. \A i \in 1..m : i # 1 => i - 1 \in 1..(m - 1) /\ t[i] = s[i - 1]
  BY <1>5
<1>14. t[1] = x
  BY <1>5, <1>9
<1> HIDE DEF t
<1>15. t \in [1..m -> T]
  BY <1>5, <1>12, <1>13, <1>14 DEF t
<1>16. ASSUME NEW i \in 1..m, NEW j \in 1..m, i < j
       PROVE  t[i] # t[j] /\ rank[t[i]] <= rank[t[j]]
  <2>1. j # 1 /\ j - 1 \in 1..(m - 1) /\ t[j] = s[j - 1]
    BY <1>5, <1>13, <1>16
  <2>2. CASE i = 1
    BY <1>7, <1>12, <1>14, <2>1, <2>2
  <2>3. CASE i # 1
    <3>1. i - 1 \in 1..(m - 1) /\ t[i] = s[i - 1] /\ i - 1 < j - 1
      BY <1>5, <1>13, <1>16, <2>3
    <3> QED
      BY <1>12, <2>1, <3>1
  <2> QED
    BY <2>2, <2>3
<1>17. \A i, j \in 1..m : i # j => t[i] # t[j]
  <2> SUFFICES ASSUME NEW i \in 1..m, NEW j \in 1..m, i # j PROVE t[i] # t[j]
    OBVIOUS
  <2>1. i < j \/ j < i
    BY <1>5
  <2> QED
    BY <1>16, <2>1
<1>18. t \in SetToSeqs(T)
  BY <1>4, <1>15, <1>17 DEF SetToSeqs
<1>19. InOrderOf(t, rank)
  BY <1>15, <1>16 DEF InOrderOf
<1> QED
  BY <1>4, <1>18, <1>19

\* Ranked gives each element of a finite set once.
LEMMA RankedFacts ==
  ASSUME NEW S, IsFiniteSet(S), NEW rank, \A x \in S : rank[x] \in Nat
  PROVE  /\ Ranked(S, rank) \in Seq(S)
         /\ IsInjective(Ranked(S, rank))
         /\ ToSet(Ranked(S, rank)) = S
<1> DEFINE s == Ranked(S, rank)
           n == Cardinality(S)
<1>1. s \in SetToSeqs(S)
  BY Sortable DEF Ranked, InOrderOf
<1>2. n \in Nat
  BY FS_CardinalityType
<1>3. s \in [1..n -> S] /\ \A i, j \in 1..n : i # j => s[i] # s[j]
  BY <1>1 DEF SetToSeqs
<1> HIDE DEF s
<1>4. s \in Seq(S)
  BY <1>2, <1>3, SeqDef
<1>5. IsInjective(s)
  BY <1>3 DEF IsInjective
<1>6. s \in Injection(1..n, S)
  BY <1>3, <1>5 DEF Injection
<1>7. Cardinality(1..n) = n
  BY <1>2, FS_Interval
<1>8. s \in Surjection(1..n, S)
  BY <1>6, <1>7, FS_Injection
<1>9. \A x \in S : \E i \in 1..n : s[i] = x
  BY <1>8 DEF Surjection
<1>10. ToSet(s) = S
  BY <1>3, <1>9 DEF ToSet
<1> QED
  BY <1>4, <1>5, <1>10 DEF s

\* A sequence in which none occurs twice is as long as it has elements.
LEMMA LengthOfInjective ==
  ASSUME NEW S, NEW s \in Seq(S), IsInjective(s)
  PROVE  /\ IsFiniteSet(ToSet(s))
         /\ Cardinality(ToSet(s)) = Len(s)
<1>1. Len(s) \in Nat /\ DOMAIN s = 1..Len(s) /\ s \in [1..Len(s) -> S]
  BY LenProperties
<1>2. s \in [1..Len(s) -> ToSet(s)]
  BY <1>1 DEF ToSet
<1>3. s \in Bijection(1..Len(s), ToSet(s))
  BY <1>1, <1>2 DEF Bijection, Injection, Surjection, ToSet
<1>4. ExistsBijection(1..Len(s), ToSet(s))
  BY <1>3 DEF ExistsBijection
<1>5. IsFiniteSet(1..Len(s)) /\ Cardinality(1..Len(s)) = Len(s)
  BY <1>1, FS_Interval
<1> QED
  BY <1>4, <1>5, FS_Bijection

-----------------------------------------------------------------------------
(* The operators of a merge. *)

\* The merge of two mentions keeps a value where the later one says nothing of it.
Keeps(a, b, k) ==
  b.kind = "absent" \/ (a.kind = "dict" /\ b.kind = "dict" /\ b.at[k] = "none")

\* What the merge of two mentions says of a key (_deep_merge_dicts).
LEMMA MergeValues ==
  ASSUME NEW s \in Sections, NEW k \in Keys[s], NEW a, NEW b, NEW i
  PROVE  LET m == Merge(s, a, b, i) IN
           /\ m.kind = IF b.kind = "absent" THEN a.kind ELSE b.kind
           /\ m.at[k] = IF Keeps(a, b, k) THEN a.at[k] ELSE b.at[k]
           /\ m.from[k] = IF Keeps(a, b, k) THEN a.from[k]
                          ELSE IF b.at[k] = "none" THEN 0 ELSE i
<1>1. CASE b.kind = "absent"
  BY <1>1 DEF Merge, Keeps
<1>2. CASE b.kind # "absent" /\ a.kind = "dict" /\ b.kind = "dict"
  BY <1>2 DEF Merge, Keeps
<1>3. CASE b.kind # "absent" /\ ~(a.kind = "dict" /\ b.kind = "dict")
  BY <1>3 DEF Merge, Keeps, Given
<1> QED
  BY <1>1, <1>2, <1>3

\* A value that counts only in the master file.
ForeignTo(i, value) == value \in {"foreign", "missing"} /\ i # Master

\* What is merged of a mention: its values, but for those that are not the user's own.
Stands(i, s, b, c) ==
  /\ b.kind \in {"absent", "null", "dict"}
  /\ b.kind = "null" <=> c.kind = "null"
  /\ \A k \in Keys[s] :
       /\ b.kind # "dict" => b.at[k] = "none"
       /\ b.at[k] = "none" => c.at[k] = "none" \/ ForeignTo(i, c.at[k])
       /\ b.at[k] # "none" => b.at[k] = c.at[k] /\ ~ForeignTo(i, c.at[k])

\* The sections, one by one.
LEMMA SectionFacts ==
  /\ Sections = {"scan", "local"}
  /\ Keys["scan"] = ScanKeys /\ Keys["local"] = Aliases
  /\ Values["scan"] = {"given"} /\ Values["local"] = Paths
BY DEF Sections, Keys, Values

\* A mention is a kind and, in a dictionary only, values.
LEMMA MentionFacts ==
  ASSUME NEW s \in Sections, NEW c \in Mentions(s)
  PROVE  /\ c.kind \in {"absent", "null", "dict"}
         /\ \A k \in Keys[s] : c.at[k] \in Values[s] \cup {"none"}
         /\ c.kind # "dict" => \A k \in Keys[s] : c.at[k] = "none"
<1>1. CASE c = Absent(s)
  BY <1>1 DEF Absent
<1>2. CASE c = Null(s)
  BY <1>2 DEF Null, Absent
<1>3. CASE c \in [kind : {"dict"}, at : [Keys[s] -> Values[s] \cup {"none"}]]
  BY <1>3
<1> QED
  BY <1>1, <1>2, <1>3 DEF Mentions

\* What is read says something of both sections.
LEMMA ContentFacts ==
  ASSUME NEW content \in Contents, NEW s \in Sections
  PROVE  content[s] \in Mentions(s)
BY SectionFacts DEF Contents

\* Scrubbing drops the paths that are not the user's own, in any file but the master
\* (load_global_config_files).
LEMMA ScrubStands ==
  ASSUME NEW i, NEW content \in Contents, ~ScrubRaises(i, content), NEW s \in Sections
  PROVE  Stands(i, s, Scrub(i, content)[s], content[s])
<1>1. content[s] \in Mentions(s)
  BY ContentFacts
<1>2. CASE i = Master
  BY <1>1, <1>2, MentionFacts DEF Scrub, Stands, ForeignTo
<1>3. CASE i # Master /\ s = "scan"
  <2>1. Scrub(i, content)[s] = content[s]
    BY <1>3 DEF Scrub, Contents
  <2>2. \A k \in Keys[s] : content[s].at[k] \in {"given", "none"}
    BY <1>1, <1>3, MentionFacts, SectionFacts
  <2> QED
    BY <1>1, <2>1, <2>2, MentionFacts DEF Stands, ForeignTo
<1>4. CASE i # Master /\ s = "local"
  <2>1. Scrub(i, content)[s] = ScrubLocalFiles(content[s])
    BY <1>4 DEF Scrub, Contents
  <2>2. content[s].kind # "null"
    BY <1>4 DEF ScrubRaises
  <2>3. \A k \in Aliases : content[s].at[k] \in {"own", "foreign", "missing", "none"}
    BY <1>1, <1>4, MentionFacts, SectionFacts DEF Paths
  <2>4. Keys[s] = Aliases
    BY <1>4, SectionFacts
  <2> QED
    BY <1>4, <2>1, <2>2, <2>3, <2>4 DEF ScrubLocalFiles, Stands, ForeignTo
<1> QED
  BY <1>2, <1>3, <1>4, SectionFacts

\* The options of the command line are no paths.
LEMMA OptionsStand ==
  ASSUME NEW content \in Options, NEW s \in Sections
  PROVE  content \in Contents /\ Stands(Overrides, s, content[s], content[s])
<1>1. content \in Contents /\ content.local = Absent("local")
  BY DEF Options, Nothing, Contents, Mentions
<1>2. content[s] \in Mentions(s)
  BY <1>1, ContentFacts
<1>3. \A k \in Keys[s] : content[s].at[k] \in {"given", "none"}
  <2>1. CASE s = "scan"
    BY <1>2, <2>1, MentionFacts, SectionFacts
  <2>2. CASE s = "local"
    BY <1>1, <2>2, SectionFacts DEF Absent
  <2> QED
    BY <2>1, <2>2, SectionFacts
<1> QED
  BY <1>1, <1>2, <1>3, MentionFacts DEF Stands, ForeignTo

-----------------------------------------------------------------------------
(* The last source that gives a value. *)

\* The sources whose value may count: those of LastGiven.
Givers(s, k) ==
  {i \in Sources : Permitted(i, s, k) /\ \A j \in Sources : j > i => read[j][s].kind # "null"}

\* The value of a key is that of the last giver, and there is none where there is no giver.
KeyInv(s, k) ==
  LET f == context[s].from[k] IN
    /\ f \in {0} \cup Givers(s, k)
    /\ \A i \in Givers(s, k) : i <= f
    /\ context[s].at[k] = IF f = 0 THEN "none" ELSE read[f][s].at[k]
    /\ context[s].kind # "dict" => f = 0

\* A mention changes the merged value of a key exactly when its source becomes the last
\* giver, or, being null, undoes all others.
LEMMA MergeKeepsLast ==
  ASSUME NEW s \in Sections, NEW k \in Keys[s], NEW i \in Sources, NEW b, NEW content,
         read \in [Sources -> Contents],
         \A j \in Sources : j >= i => read[j] = Nothing,
         content \in Contents,
         read' = [read EXCEPT ![i] = content],
         Stands(i, s, b, content[s]),
         context'[s] = Merge(s, context[s], b, i),
         KeyInv(s, k)
  PROVE  KeyInv(s, k)'
<1> DEFINE f == context[s].from[k]
           c == content[s]
           keeps == Keeps(context[s], b, k)
<1>0. Sources \subseteq Nat \ {0}
  BY ConfigLoadAssumption DEF Sources, Overrides
<1>1. /\ context'[s].kind = IF b.kind = "absent" THEN context[s].kind ELSE b.kind
      /\ context'[s].at[k] = IF keeps THEN context[s].at[k] ELSE b.at[k]
      /\ context'[s].from[k] = IF keeps THEN f ELSE IF b.at[k] = "none" THEN 0 ELSE i
  BY MergeValues
<1>2. read'[i][s] = c /\ \A j \in Sources \ {i} : read'[j][s] = read[j][s]
  OBVIOUS
<1>3. \A j \in Sources : j >= i => read[j][s].kind = "absent" /\ read[j][s].at[k] = "none"
  BY SectionFacts DEF Nothing, Absent
<1>4. /\ b.kind = "null" <=> c.kind = "null"
      /\ b.kind # "dict" => b.at[k] = "none"
      /\ b.at[k] = "none" => c.at[k] = "none" \/ ForeignTo(i, c.at[k])
      /\ b.at[k] # "none" => b.at[k] = c.at[k] /\ ~ForeignTo(i, c.at[k])
      /\ b.kind \in {"absent", "null", "dict"}
  BY DEF Stands
<1>5. \A j \in Givers(s, k) : j < i
  BY <1>0, <1>3 DEF Givers, Permitted
<1>6. c.kind \in {"absent", "null", "dict"}
  BY ContentFacts, MentionFacts
\* Whether the source itself is a giver afterwards, and whether the earlier ones still are.
<1>7. i \in Givers(s, k)' <=> b.at[k] # "none"
  <2>1. \A j \in Sources : j > i => read'[j][s].kind # "null"
    BY <1>0, <1>2, <1>3
  <2>2. Permitted(i, s, k)' <=> b.at[k] # "none"
    BY <1>2, <1>4 DEF Permitted, ForeignTo
  <2> QED
    BY <2>1, <2>2 DEF Givers
<1>8. \A j \in Sources \ {i} : j \in Givers(s, k)' <=> (j \in Givers(s, k) /\ b.kind # "null")
  <2> SUFFICES ASSUME NEW j \in Sources \ {i}
               PROVE  j \in Givers(s, k)' <=> (j \in Givers(s, k) /\ b.kind # "null")
    OBVIOUS
  <2>1. Permitted(j, s, k)' <=> Permitted(j, s, k)
    BY <1>2 DEF Permitted
  <2>2. j > i => ~Permitted(j, s, k)
    BY <1>0, <1>3 DEF Permitted
  <2>3. j < i =>
          ((\A l \in Sources : l > j => read'[l][s].kind # "null") <=>
             (/\ \A l \in Sources : l > j => read[l][s].kind # "null"
              /\ b.kind # "null"))
    BY <1>0, <1>2, <1>3, <1>4
  <2>4. CASE j > i
    BY <2>1, <2>2, <2>4 DEF Givers
  <2>5. CASE j < i
    BY <2>1, <2>3, <2>5 DEF Givers
  <2> QED
    BY <1>0, <2>4, <2>5
<1>9. /\ f \in {0} \cup Givers(s, k)
      /\ \A j \in Givers(s, k) : j <= f
      /\ context[s].at[k] = IF f = 0 THEN "none" ELSE read[f][s].at[k]
      /\ context[s].kind # "dict" => f = 0
  BY DEF KeyInv
<1>10. Givers(s, k) \subseteq Sources /\ Givers(s, k)' \subseteq Sources
  BY DEF Givers, Sources
\* The value stays: the mention gives none and is not null.
<1>11. CASE keeps
  <2>1. b.kind # "null" /\ b.at[k] = "none"
    BY <1>4, <1>11 DEF Keeps
  <2>2. Givers(s, k)' = Givers(s, k)
    <3>1. i \notin Givers(s, k)
      BY <1>0, <1>5
    <3>2. i \notin Givers(s, k)'
      BY <1>7, <2>1
    <3>3. \A j \in Sources : j \in Givers(s, k)' <=> j \in Givers(s, k)
      BY <1>8, <2>1, <3>1, <3>2
    <3> QED
      BY <1>10, <3>3
  <2>3. f # 0 => read'[f][s].at[k] = read[f][s].at[k]
    BY <1>0, <1>2, <1>5, <1>9, <1>10
  <2>4. context'[s].kind # "dict" => f = 0
    BY <1>1, <1>9, <1>4, <2>1
  <2> QED
    BY <1>1, <1>9, <1>11, <2>2, <2>3, <2>4 DEF KeyInv
\* The mention gives the value.
<1>12. CASE ~keeps /\ b.at[k] # "none"
  <2>1. b.kind = "dict"
    BY <1>4, <1>12
  <2>2. i \in Givers(s, k)' /\ \A j \in Givers(s, k)' : j <= i
    <3>1. i \in Givers(s, k)'
      BY <1>7, <1>12
    <3>2. ASSUME NEW j \in Givers(s, k)' PROVE j <= i
      <4>1. j = i \/ j \in Givers(s, k)
        BY <1>8, <1>10
      <4>2. i \in Nat
        BY <1>0
      <4>3. CASE j = i
        BY <4>2, <4>3
      <4>4. CASE j \in Givers(s, k)
        <5>1. j < i /\ j \in Nat
          BY <1>0, <1>5, <1>10, <4>4
        <5> QED
          BY <4>2, <5>1
      <4> QED
        BY <4>1, <4>3, <4>4
    <3> QED
      BY <3>1, <3>2
  <2>3. context'[s].from[k] = i /\ context'[s].at[k] = read'[i][s].at[k]
    BY <1>1, <1>2, <1>4, <1>12
  <2>4. context'[s].kind = "dict" /\ i # 0
    BY <1>0, <1>1, <2>1
  <2> QED
    BY <2>2, <2>3, <2>4 DEF KeyInv
\* The mention replaces what there is and gives none: it is null, or there was no dictionary.
<1>13. CASE ~keeps /\ b.at[k] = "none"
  <2>1. b.kind = "null" \/ context[s].kind # "dict"
    BY <1>4, <1>13 DEF Keeps
  <2>2. b.kind # "null" => Givers(s, k) = {}
    <3> SUFFICES ASSUME b.kind # "null", NEW j \in Givers(s, k) PROVE FALSE
      OBVIOUS
    <3>1. f = 0
      BY <1>9, <2>1
    <3>2. j <= 0
      BY <1>9, <3>1
    <3>3. j \in Nat \ {0}
      BY <1>0, <1>10
    <3> QED
      BY <3>2, <3>3
  <2>3. Givers(s, k)' = {}
    BY <1>7, <1>8, <1>10, <1>13, <2>2
  <2>4. context'[s].from[k] = 0 /\ context'[s].at[k] = "none"
    BY <1>1, <1>13
  <2> QED
    BY <2>3, <2>4 DEF KeyInv
<1> QED
  BY <1>11, <1>12, <1>13

\* A source that says nothing of a section changes none of its values.
LEMMA SameSaid ==
  ASSUME NEW s \in Sections, NEW k \in Keys[s], KeyInv(s, k), UNCHANGED <<context, read>>
  PROVE  KeyInv(s, k)'
BY DEF KeyInv, Givers, Permitted

Loading == {"files", "fetch", "overrides", "global"}

\* Until the merged configuration is validated, its values are those of the last givers; the
\* sources that are still to come have said nothing.
LastInv ==
  /\ next \in 1..(NGlobal + 1)
  /\ read \in [Sources -> Contents]
  /\ phase = "fetch" => next <= NGlobal
  /\ phase = "overrides" => next = Overrides
  /\ phase \in {"files", "fetch", "overrides"} => \A j \in Sources : j >= next => read[j] = Nothing
  /\ DOMAIN context = Sections
  /\ phase \in Loading => \A s \in Sections : \A k \in Keys[s] : KeyInv(s, k)

\* A file or an option is no content before it is read.
LEMMA NothingFacts == Nothing \in Contents
BY DEF Nothing, Contents, Mentions

\* Before any source is read no value is given.
LEMMA InitLastInv == Init => LastInv
<1> SUFFICES ASSUME Init PROVE LastInv
  OBVIOUS
<1>1. read \in [Sources -> Contents] /\ \A j \in Sources : read[j] = Nothing
  BY NothingFacts DEF Init
<1>2. ASSUME NEW s \in Sections, NEW k \in Keys[s] PROVE KeyInv(s, k)
  <2>1. \A j \in Sources : read[j][s].at[k] = "none"
    BY <1>1, SectionFacts DEF Nothing, Absent
  <2>2. Givers(s, k) = {}
    BY <2>1 DEF Givers, Permitted
  <2>3. context[s] = Empty(s)
    BY DEF Init
  <2> QED
    BY <2>2, <2>3 DEF KeyInv, Empty
<1>3. next = 1 /\ phase = "files" /\ DOMAIN context = Sections
  BY DEF Init
<1> QED
  BY <1>1, <1>2, <1>3, ConfigLoadAssumption DEF LastInv

\* Each file and the options of the command line are merged once, in their order.
LEMMA NextLastInv == LastInv /\ [Next]_vars => LastInv'
<1> SUFFICES ASSUME LastInv, [Next]_vars PROVE LastInv'
  OBVIOUS
<1>a. /\ next \in 1..(NGlobal + 1) /\ NGlobal \in Nat \ {0}
      /\ read \in [Sources -> Contents]
      /\ phase = "fetch" => next <= NGlobal
      /\ phase = "overrides" => next = Overrides
      /\ phase \in {"files", "fetch", "overrides"} =>
           \A j \in Sources : j >= next => read[j] = Nothing
      /\ DOMAIN context = Sections
      /\ phase \in Loading => \A s \in Sections : \A k \in Keys[s] : KeyInv(s, k)
  BY ConfigLoadAssumption DEF LastInv
<1>b. Sources = 1..(NGlobal + 1) /\ Overrides = NGlobal + 1
  BY DEF Sources, Overrides
\* Steps that read nothing: the loading goes on, or is over.
<1>1. ASSUME UNCHANGED <<context, read>>,
             phase' \in Loading => phase \in Loading,
             next' \in 1..(NGlobal + 1), next' >= next,
             phase' = "fetch" => next' <= NGlobal,
             phase' = "overrides" => next' = Overrides,
             phase' \in {"files", "fetch", "overrides"} => phase \in {"files", "fetch", "overrides"}
      PROVE  LastInv'
  <2>1. phase' \in Loading => \A s \in Sections : \A k \in Keys[s] : KeyInv(s, k)'
    BY <1>a, <1>1, SameSaid
  <2>2. phase' \in {"files", "fetch", "overrides"} =>
          \A j \in Sources : j >= next' => read'[j] = Nothing
    BY <1>a, <1>b, <1>1
  <2> QED
    BY <1>a, <1>1, <2>1, <2>2 DEF LastInv
<1>2. CASE Fail
  BY <1>a, <1>1, <1>2 DEF Fail, Loading
<1>3. CASE SkipFile
  BY <1>a, <1>1, <1>3 DEF SkipFile, Loading
<1>4. CASE BeginFile
  BY <1>a, <1>1, <1>4 DEF BeginFile, Loading
<1>5. CASE FilesRead
  BY <1>a, <1>b, <1>1, <1>5 DEF FilesRead, Loading
<1>6. CASE ReadFile
  <2>1. CASE Fail
    BY <1>2, <2>1
  <2>2. ASSUME NEW content \in Contents, ~ScrubRaises(next, content),
               phase = "fetch", phase' = "files", next' = next + 1,
               DeepMergeDicts(Scrub(next, content), next),
               read' = [read EXCEPT ![next] = content]
        PROVE  LastInv'
    <3>1. next \in Sources /\ next \in 1..NGlobal
      BY <1>a, <1>b, <2>2
    <3>2. \A s \in Sections : Stands(next, s, Scrub(next, content)[s], content[s])
      BY <2>2, ScrubStands
    <3>3. ASSUME NEW s \in Sections, NEW k \in Keys[s] PROVE KeyInv(s, k)'
      <4>1. context'[s] = Merge(s, context[s], Scrub(next, content)[s], next)
        BY <2>2 DEF DeepMergeDicts
      <4>2. KeyInv(s, k)
        BY <1>a, <2>2 DEF Loading
      <4>3. \A j \in Sources : j >= next => read[j] = Nothing
        BY <1>a, <2>2
      <4> QED
        BY <1>a, <2>2, <3>1, <3>2, <4>1, <4>2, <4>3, MergeKeepsLast
    <3>4. read' \in [Sources -> Contents]
      BY <1>a, <2>2
    <3>5. \A j \in Sources : j >= next' => read'[j] = Nothing
      BY <1>a, <1>b, <2>2
    <3>6. next' \in 1..(NGlobal + 1)
      BY <1>a, <2>2, <3>1
    <3>7. DOMAIN context' = Sections
      BY <2>2 DEF DeepMergeDicts
    <3> QED
      BY <2>2, <3>3, <3>4, <3>5, <3>6, <3>7 DEF LastInv
  <2> QED
    BY <1>6, <2>1, <2>2 DEF ReadFile
<1>7. CASE MergeOverrides
  <2>1. PICK content \in Options :
          /\ phase = "overrides" /\ phase' = "global"
          /\ DeepMergeDicts(content, Overrides)
          /\ read' = [read EXCEPT ![Overrides] = content]
          /\ next' = next
    BY <1>7 DEF MergeOverrides
  <2>2. Overrides \in Sources /\ next = Overrides
    BY <1>a, <1>b, <2>1
  <2>3. content \in Contents /\ \A s \in Sections : Stands(Overrides, s, content[s], content[s])
    BY OptionsStand, SectionFacts
  <2>4. ASSUME NEW s \in Sections, NEW k \in Keys[s] PROVE KeyInv(s, k)'
    <3>1. context'[s] = Merge(s, context[s], content[s], Overrides)
      BY <2>1 DEF DeepMergeDicts
    <3>2. KeyInv(s, k)
      BY <1>a, <2>1 DEF Loading
    <3>3. \A j \in Sources : j >= Overrides => read[j] = Nothing
      BY <1>a, <2>1, <2>2
    <3> QED
      BY <1>a, <2>1, <2>2, <2>3, <3>1, <3>2, <3>3, MergeKeepsLast
  <2>5. read' \in [Sources -> Contents] /\ DOMAIN context' = Sections
    BY <1>a, <2>1, <2>3 DEF DeepMergeDicts
  <2> QED
    BY <1>a, <2>1, <2>4, <2>5 DEF LastInv
\* From here on the merged configuration is another object.
<1>8. CASE ValidateGlobal
  <2>1. CASE Fail
    BY <1>2, <2>1
  <2>2. CASE /\ phase' \in {"fetchRun", "done"}
             /\ context' = [s \in Sections |-> Empty(s)]
             /\ read' = [i \in Sources |-> Nothing]
             /\ next' = next
    BY <1>a, <2>2, NothingFacts DEF LastInv, Loading
  <2> QED
    BY <1>8, <2>1, <2>2 DEF ValidateGlobal
<1>9. CASE Redirect
  BY <1>a, <1>1, <1>2, <1>9 DEF Redirect, Loading
<1>10. CASE FetchFails
  BY <1>2, <1>10 DEF FetchFails
<1>11. CASE ReadRunFile
  BY <1>a, <1>1, <1>11 DEF ReadRunFile, Loading
<1>12. CASE ValidateVersion
  BY <1>a, <1>1, <1>2, <1>12 DEF ValidateVersion, Loading
<1>13. CASE KeepOrder
  BY <1>a, <1>1, <1>13 DEF KeepOrder, Loading
<1>14. CASE VersionNotComparable
  BY <1>2, <1>14 DEF VersionNotComparable
<1>15. CASE AddStep
  BY <1>a, <1>1, <1>15 DEF AddStep, Loading
<1>16. CASE BeginSort
  BY <1>a, <1>1, <1>2, <1>16 DEF BeginSort, Loading
<1>17. CASE PlaceReady
  BY <1>a, <1>1, <1>2, <1>17 DEF PlaceReady, Loading
<1>18. CASE EndSort
  BY <1>a, <1>1, <1>18 DEF EndSort, Loading
<1>19. CASE ValidateRun
  BY <1>a, <1>1, <1>2, <1>19 DEF ValidateRun, Loading
<1>20. CASE CheckRequested
  BY <1>a, <1>1, <1>2, <1>20 DEF CheckRequested, Loading
<1>21. CASE UNCHANGED vars
  BY <1>a, <1>1, <1>21 DEF vars
<1> QED
  BY <1>2, <1>3, <1>4, <1>5, <1>6, <1>7, <1>8, <1>9, <1>10, <1>11, <1>12, <1>13, <1>14, <1>15,
     <1>16, <1>17, <1>18, <1>19, <1>20, <1>21 DEF Next, Load, Stopped

\* The last giver is the one that is no earlier than any other.
LEMMA LastGivenIsFrom ==
  ASSUME NGlobal \in Nat, NEW s \in Sections, NEW k \in Keys[s], KeyInv(s, k)
  PROVE  LastGiven(s, k) = context[s].from[k]
<1> DEFINE f == context[s].from[k]
           S == {0} \cup Givers(s, k)
<1>1. S \subseteq Nat
  BY DEF Givers, Sources, Overrides
<1>2. f \in S /\ \A i \in S : f >= i
  <2>1. f \in S /\ \A i \in Givers(s, k) : i <= f
    BY DEF KeyInv
  <2> QED
    BY <1>1, <2>1
<1>3. \A x \in S : (\A y \in S : x >= y) => x = f
  BY <1>1, <1>2
<1>4. Max(S) = f
  BY <1>2, <1>3 DEF Max
<1> QED
  BY <1>4 DEF LastGiven, Givers

\* When all sources are merged, each value of the global configuration is that of the last
\* source that gives it and may, for any number of files: no later file, option or null loses
\* to an earlier one, and no path that is not the user's own comes from any file but the
\* master (_deep_merge_dicts, load_global_config_files).
THEOREM LastWins == Spec => []LastMentionWins
<1>1. LastInv => LastMentionWins
  <2> SUFFICES ASSUME LastInv, phase = "global", NEW s \in Sections, NEW k \in Keys[s]
               PROVE  /\ context[s].from[k] = LastGiven(s, k)
                      /\ context[s].at[k] = IF LastGiven(s, k) = 0 THEN "none"
                                            ELSE read[LastGiven(s, k)][s].at[k]
    BY DEF LastMentionWins
  <2>1. KeyInv(s, k)
    BY DEF LastInv, Loading
  <2>2. LastGiven(s, k) = context[s].from[k]
    BY <2>1, LastGivenIsFrom, ConfigLoadAssumption
  <2> QED
    BY <2>1, <2>2 DEF KeyInv
<1>2. Spec => []LastInv
  BY InitLastInv, NextLastInv, PTL DEF Spec
<1> QED
  BY <1>1, <1>2, PTL

-----------------------------------------------------------------------------
(* The dependencies of the steps. *)

\* The steps a step depends on.
Deps(n) == {d \in Names : DependsOn(n, d)}

\* The types of the sorter.
SortTypes ==
  /\ run \in [version : Versions, steps : 0..NSteps, depends : Seq(Depends)]
  /\ Len(run.depends) <= run.steps
  /\ ready \in Seq(Names)
  /\ waiting \in [Names -> 0..MaxDepends]
  /\ order \in Seq(1..NSteps) /\ IsInjective(order)

\* What a step says of its dependencies: names without repetition, and no more than the bound.
LEMMA DependsFacts ==
  ASSUME NEW d \in Depends
  PROVE  /\ d.on \in Seq(Names) /\ Len(d.on) <= MaxDepends
         /\ IsInjective(d.on)
<1>1. CASE d = Independent
  <2>1. d.on = << >>
    BY <1>1 DEF Independent
  <2>2. << >> \in Seq(Names) /\ Len(<< >>) = 0
    BY EmptySeq
  <2>3. DOMAIN << >> = {}
    BY <2>2, LenProperties
  <2> QED
    BY <2>1, <2>2, <2>3, ConfigLoadAssumption DEF IsInjective
<1>2. CASE d \in [has : {TRUE}, on : {s \in BoundedSeq(Names, MaxDepends) : IsInjective(s)}]
  <2>1. d.on \in BoundedSeq(Names, MaxDepends) /\ IsInjective(d.on)
    BY <1>2
  <2>2. PICK m \in 0..MaxDepends : d.on \in [1..m -> Names]
    BY <2>1 DEF BoundedSeq, SeqOf
  <2>3. m \in Nat /\ m <= MaxDepends
    BY <2>2, ConfigLoadAssumption
  <2>4. d.on \in Seq(Names)
    BY <2>2, <2>3, SeqDef
  <2>5. Len(d.on) = m
    <3>1. DOMAIN d.on = 1..m /\ DOMAIN d.on = 1..Len(d.on) /\ Len(d.on) \in Nat
      BY <2>2, <2>4, LenProperties
    <3> QED
      BY <2>3, <3>1
  <2> QED
    BY <2>1, <2>3, <2>4, <2>5
<1> QED
  BY <1>1, <1>2 DEF Depends

\* The steps that were looked at are names, and so is what they depend on.
LEMMA StepFacts ==
  ASSUME SortTypes
  PROVE  /\ NSteps \in Nat /\ MaxDepends \in Nat /\ Names = 1..(NSteps + 1)
         /\ run.steps \in 0..NSteps /\ Len(run.depends) \in 0..run.steps
         /\ DOMAIN run.depends = 1..Len(run.depends)
         /\ DOMAIN run.depends \subseteq 1..NSteps /\ DOMAIN run.depends \subseteq Names
         /\ \A i \in DOMAIN run.depends :
              /\ run.depends[i] \in Depends
              /\ run.depends[i].on \in Seq(Names) /\ Len(run.depends[i].on) <= MaxDepends
              /\ IsInjective(run.depends[i].on)
              /\ ToSet(run.depends[i].on) = Deps(i)
<1>1. NSteps \in Nat /\ MaxDepends \in Nat /\ Names = 1..(NSteps + 1)
  BY ConfigLoadAssumption DEF Names
<1>2. /\ run.depends \in Seq(Depends) /\ run.steps \in 0..NSteps
      /\ Len(run.depends) <= run.steps
  BY DEF SortTypes
<1>3. Len(run.depends) \in Nat /\ DOMAIN run.depends = 1..Len(run.depends)
  BY <1>2, LenProperties
<1>4. Len(run.depends) \in 0..run.steps
  BY <1>1, <1>2, <1>3
<1>5. DOMAIN run.depends \subseteq 1..NSteps /\ DOMAIN run.depends \subseteq Names
  BY <1>1, <1>2, <1>3
<1>6. ASSUME NEW i \in DOMAIN run.depends
      PROVE  /\ run.depends[i] \in Depends
             /\ run.depends[i].on \in Seq(Names) /\ Len(run.depends[i].on) <= MaxDepends
             /\ IsInjective(run.depends[i].on)
             /\ ToSet(run.depends[i].on) = Deps(i)
  <2>1. run.depends[i] \in Depends
    BY <1>2, <1>3, ElementOfSeq
  <2>2. /\ run.depends[i].on \in Seq(Names) /\ Len(run.depends[i].on) <= MaxDepends
        /\ IsInjective(run.depends[i].on)
    BY <2>1, DependsFacts
  <2>3. ToSet(run.depends[i].on) \subseteq Names
    BY <2>2, LenProperties DEF ToSet
  <2>4. ToSet(run.depends[i].on) = Deps(i)
    BY <2>3 DEF Deps, DependsOn
  <2> QED
    BY <2>1, <2>2, <2>4
<1> QED
  BY <1>1, <1>2, <1>3, <1>4, <1>5, <1>6

\* A node waits for as many as it depends on (TopologicalSorter.add).
LEMMA PredecessorsCountDeps ==
  ASSUME SortTypes, NEW n \in Names
  PROVE  /\ IsFiniteSet(Deps(n)) /\ Cardinality(Deps(n)) \in 0..MaxDepends
         /\ Predecessors(n) = Cardinality(Deps(n))
<1>1. MaxDepends \in Nat
  BY StepFacts
<1>2. CASE n \in DOMAIN run.depends
  <2>1. /\ run.depends[n].on \in Seq(Names) /\ IsInjective(run.depends[n].on)
        /\ ToSet(run.depends[n].on) = Deps(n) /\ Len(run.depends[n].on) <= MaxDepends
    BY <1>2, StepFacts
  <2>2. IsFiniteSet(Deps(n)) /\ Cardinality(Deps(n)) = Len(run.depends[n].on)
    BY <2>1, LengthOfInjective
  <2>3. Len(run.depends[n].on) \in Nat
    BY <2>1, LenProperties
  <2> QED
    BY <1>1, <1>2, <2>1, <2>2, <2>3 DEF Predecessors
<1>3. CASE n \notin DOMAIN run.depends
  <2>1. Deps(n) = {}
    BY <1>3 DEF Deps, DependsOn
  <2> QED
    BY <1>1, <1>3, <2>1, FS_EmptySet DEF Predecessors
<1> QED
  BY <1>2, <1>3

\* What the sorter learns of a step.
LEMMA AddsFacts ==
  ASSUME SortTypes, NEW i \in DOMAIN run.depends
  PROVE  /\ Adds(i) \in Seq(Names)
         /\ ToSet(Adds(i)) = IF run.depends[i].has /\ run.depends[i].on = << >> THEN {}
                             ELSE {i} \cup Deps(i)
<1> DEFINE d == run.depends[i]
<1>1. i \in Names /\ d.on \in Seq(Names) /\ ToSet(d.on) = Deps(i)
  BY StepFacts
<1>2. CASE d.has /\ d.on = << >>
  <2>1. << >> \in Seq(Names) /\ Len(<< >>) = 0
    BY EmptySeq
  <2>2. DOMAIN << >> = {}
    BY <2>1, LenProperties
  <2> QED
    BY <1>2, <2>1, <2>2 DEF Adds, ToSet
<1>3. CASE ~(d.has /\ d.on = << >>)
  <2>1. Adds(i) = <<i>> \o d.on
    BY <1>3 DEF Adds
  <2>2. <<i>> \in Seq(Names) /\ Len(<<i>>) = 1 /\ <<i>>[1] = i
    BY <1>1
  <2>3. /\ Adds(i) \in Seq(Names) /\ Len(Adds(i)) = 1 + Len(d.on)
        /\ \A j \in 1..(1 + Len(d.on)) : Adds(i)[j] = IF j <= 1 THEN <<i>>[j] ELSE d.on[j - 1]
    BY <1>1, <2>1, <2>2, ConcatProperties
  <2>4. /\ Len(d.on) \in Nat /\ DOMAIN d.on = 1..Len(d.on)
        /\ DOMAIN Adds(i) = 1..(1 + Len(d.on))
    BY <1>1, <2>3, LenProperties
  <2>5. ToSet(Adds(i)) \subseteq {i} \cup ToSet(d.on)
    <3> SUFFICES ASSUME NEW j \in 1..(1 + Len(d.on)) PROVE Adds(i)[j] \in {i} \cup ToSet(d.on)
      BY <2>4 DEF ToSet
    <3>1. CASE j = 1
      BY <2>2, <2>3, <2>4, <3>1
    <3>2. CASE j # 1
      <4>1. j - 1 \in DOMAIN d.on /\ Adds(i)[j] = d.on[j - 1]
        BY <2>3, <2>4, <3>2
      <4> QED
        BY <4>1 DEF ToSet
    <3> QED
      BY <3>1, <3>2
  <2>6. i \in ToSet(Adds(i))
    <3>1. 1 \in DOMAIN Adds(i) /\ Adds(i)[1] = i
      BY <2>2, <2>3, <2>4
    <3> QED
      BY <3>1 DEF ToSet
  <2>7. ToSet(d.on) \subseteq ToSet(Adds(i))
    <3> SUFFICES ASSUME NEW j \in DOMAIN d.on PROVE d.on[j] \in ToSet(Adds(i))
      BY DEF ToSet
    <3>1. j + 1 \in DOMAIN Adds(i) /\ Adds(i)[j + 1] = d.on[j]
      BY <2>3, <2>4
    <3> QED
      BY <3>1 DEF ToSet
  <2> QED
    BY <1>1, <1>3, <2>3, <2>5, <2>6, <2>7
<1> QED
  BY <1>2, <1>3

\* The nodes are the steps that were added and all that some step depends on.
LEMMA NodesFacts ==
  ASSUME SortTypes
  PROVE  /\ Nodes \subseteq Names /\ IsFiniteSet(Nodes)
         /\ \A n, d \in Names : d \in Deps(n) => n \in Nodes /\ d \in Nodes
         /\ \A n : n \in Nodes <=>
              \/ n \in DOMAIN run.depends /\ ~(run.depends[n].has /\ run.depends[n].on = << >>)
              \/ \E i \in DOMAIN run.depends : n \in Deps(i)
<1>1. ASSUME NEW i \in DOMAIN run.depends, NEW d \in Deps(i)
      PROVE  run.depends[i].on # << >>
  <2>1. << >> \in Seq(Names) /\ Len(<< >>) = 0
    BY EmptySeq
  <2>2. DOMAIN << >> = {}
    BY <2>1, LenProperties
  <2>3. ToSet(run.depends[i].on) = Deps(i)
    BY StepFacts
  <2> QED
    BY <2>2, <2>3, <1>1 DEF ToSet
<1>2. \A n : n \in Nodes <=> \E i \in DOMAIN run.depends : n \in ToSet(Adds(i))
  BY DEF Nodes
<1>3. \A i \in DOMAIN run.depends :
        ToSet(Adds(i)) = IF run.depends[i].has /\ run.depends[i].on = << >> THEN {}
                         ELSE {i} \cup Deps(i)
  BY AddsFacts
<1>4. ASSUME NEW n
      PROVE  n \in Nodes <=>
              \/ n \in DOMAIN run.depends /\ ~(run.depends[n].has /\ run.depends[n].on = << >>)
              \/ \E i \in DOMAIN run.depends : n \in Deps(i)
  BY <1>1, <1>2, <1>3
<1>5. DOMAIN run.depends \subseteq Names /\ \A i : Deps(i) \subseteq Names
  BY StepFacts DEF Deps
<1>6. Nodes \subseteq Names
  BY <1>4, <1>5
<1>7. IsFiniteSet(Nodes)
  <2>1. NSteps + 1 \in Int /\ Names = 1..(NSteps + 1)
    BY StepFacts
  <2>2. IsFiniteSet(1..(NSteps + 1))
    BY <2>1, FS_Interval
  <2> QED
    BY <1>6, <2>1, <2>2, FS_Subset
<1>8. ASSUME NEW n \in Names, NEW d \in Names, d \in Deps(n)
      PROVE  n \in Nodes /\ d \in Nodes
  <2>1. n \in DOMAIN run.depends
    BY <1>8 DEF Deps, DependsOn
  <2> QED
    BY <1>1, <1>4, <1>8, <2>1
<1> QED
  BY <1>4, <1>6, <1>7, <1>8

\* The product of two numbers is a number.
LEMMA ProductIsNat == \A a, b \in Nat : a * b \in Nat
OBVIOUS

\* Each node is first named somewhere.
LEMMA FirstNamedIsNat ==
  ASSUME SortTypes, NEW n \in Nodes
  PROVE  FirstNamed(n) \in Nat
<1> DEFINE S == {j \in DOMAIN run.depends : n \in ToSet(Adds(j))}
           i == Min(S)
           T == {j \in DOMAIN Adds(i) : Adds(i)[j] = n}
<1>1. DOMAIN run.depends \subseteq Nat /\ MaxDepends + 1 \in Nat
  BY StepFacts
<1>2. S \subseteq Nat /\ S # {}
  BY <1>1 DEF Nodes
<1>3. i \in S
  BY <1>2, MinOf
<1>4. Adds(i) \in Seq(Names)
  BY <1>3, AddsFacts
<1>5. DOMAIN Adds(i) \subseteq Nat
  <2>1. DOMAIN Adds(i) = 1..Len(Adds(i))
    BY <1>4, LenProperties
  <2> QED
    BY <2>1
<1>6. T \subseteq Nat /\ T # {}
  BY <1>3, <1>5 DEF ToSet
<1>7. Min(T) \in Nat
  BY <1>6, MinOf
<1>8. (MaxDepends + 1) * i \in Nat
  BY <1>1, <1>2, <1>3, ProductIsNat
<1>9. FirstNamed(n) = (MaxDepends + 1) * i + Min(T)
  BY DEF FirstNamed
<1> QED
  BY <1>7, <1>8, <1>9

-----------------------------------------------------------------------------
(* The groups of nodes that are ready. *)

\* A node is released by those of its dependencies that are done (TopologicalSorter.done).
LEMMA ReleasedCountsDeps ==
  ASSUME SortTypes, IsInjective(ready), NEW n \in Names
  PROVE  /\ Releasing(n) \subseteq 1..Len(ready) /\ Len(ready) \in Nat
         /\ Releasing(n) # {} <=> Deps(n) \cap ToSet(ready) # {}
         /\ Released(n) = Cardinality(Deps(n) \cap ToSet(ready))
<1> DEFINE I == Releasing(n)
           T == Deps(n) \cap ToSet(ready)
           f == [i \in I |-> ready[i]]
<1>1. Len(ready) \in Nat /\ DOMAIN ready = 1..Len(ready) /\ ready \in [1..Len(ready) -> Names]
  BY LenProperties DEF SortTypes
<1>2. I \subseteq 1..Len(ready)
  BY <1>1 DEF Releasing
<1>3. \A i \in I : ready[i] \in T
  BY <1>1 DEF Releasing, Deps, ToSet
<1>4. \A d \in T : \E i \in I : ready[i] = d
  BY <1>1 DEF Releasing, Deps, ToSet
<1>5. \A i, j \in I : ready[i] = ready[j] => i = j
  BY <1>1, <1>2 DEF IsInjective
<1>6. IsFiniteSet(I)
  <2>1. IsFiniteSet(1..Len(ready))
    BY <1>1, FS_Interval
  <2> QED
    BY <1>2, <2>1, FS_Subset
<1>7. f \in [I -> T] /\ \A i \in I : f[i] = ready[i]
  BY <1>3
<1> HIDE DEF f, I, T
<1>8. f \in Bijection(I, T)
  <2>1. IsInjective(f)
    BY <1>5, <1>7 DEF IsInjective
  <2>2. \A d \in T : \E i \in I : f[i] = d
    BY <1>4, <1>7
  <2> QED
    BY <1>7, <2>1, <2>2 DEF Bijection, Injection, Surjection
<1>9. ExistsBijection(I, T)
  BY <1>8 DEF ExistsBijection
<1>10. Cardinality(T) = Cardinality(I)
  BY <1>6, <1>9, FS_Bijection
<1>11. I # {} <=> T # {}
  BY <1>3, <1>4
<1> QED
  BY <1>1, <1>2, <1>10, <1>11 DEF Released, I, T

\* The nodes that are ready next are those that wait for none but the nodes that are done.
LEMMA NextReadyFacts ==
  ASSUME SortTypes, IsInjective(ready)
  PROVE  /\ NextReady \in Seq(Names) /\ IsInjective(NextReady)
         /\ ToSet(NextReady) = {n \in Names : Releasing(n) # {} /\ waiting[n] = Released(n)}
<1> DEFINE free == {n \in Names : Releasing(n) # {} /\ waiting[n] = Released(n)}
           rank == [n \in free |-> (NSteps + 2) * Max(Releasing(n)) + n]
<1>1. NextReady = Ranked(free, rank)
  BY DEF NextReady
<1>2. NSteps \in Nat /\ Names = 1..(NSteps + 1)
  BY StepFacts
<1>3. ASSUME NEW n \in free PROVE rank[n] \in Nat
  <2>1. Releasing(n) \in SUBSET (1..Len(ready)) /\ Len(ready) \in Nat /\ Releasing(n) # {}
    BY ReleasedCountsDeps
  <2>2. Max(Releasing(n)) \in Nat
    <3>1. Max(Releasing(n)) \in Releasing(n)
      BY <2>1, MaxOf
    <3> QED
      BY <2>1, <3>1
  <2>3. (NSteps + 2) * Max(Releasing(n)) \in Nat
    BY <1>2, <2>2, ProductIsNat
  <2>4. n \in Nat
    BY <1>2
  <2> QED
    BY <2>3, <2>4
<1>4. IsFiniteSet(free)
  <2>1. IsFiniteSet(1..(NSteps + 1))
    BY <1>2, FS_Interval
  <2> QED
    BY <1>2, <2>1, FS_Subset
<1> HIDE DEF free, rank
<1>5. /\ NextReady \in Seq(free) /\ IsInjective(NextReady)
      /\ ToSet(NextReady) = free
  BY <1>1, <1>3, <1>4, RankedFacts
<1>6. free \subseteq Names
  BY DEF free
<1>7. NextReady \in Seq(Names)
  BY <1>5, <1>6, SeqMonotonic
<1> QED
  BY <1>5, <1>7 DEF free

\* The nodes that wait for none before any is done.
LEMMA FirstReadyFacts ==
  ASSUME SortTypes, NEW S \in SUBSET Nodes
  PROVE  LET s == Ranked(S, [n \in Nodes |-> FirstNamed(n)]) IN
           s \in Seq(Names) /\ IsInjective(s) /\ ToSet(s) = S
<1> DEFINE rank == [n \in Nodes |-> FirstNamed(n)]
<1>1. \A n \in S : rank[n] \in Nat
  BY FirstNamedIsNat
<1>2. IsFiniteSet(S) /\ S \subseteq Names
  BY NodesFacts, FS_Subset
<1> HIDE DEF rank
<1>3. Ranked(S, rank) \in Seq(S) /\ IsInjective(Ranked(S, rank)) /\ ToSet(Ranked(S, rank)) = S
  BY <1>1, <1>2, RankedFacts
<1>4. Ranked(S, rank) \in Seq(Names)
  BY <1>2, <1>3, SeqMonotonic
<1> QED
  BY <1>3, <1>4 DEF rank

\* The nodes that are placed, and what is placed before what.
LEMMA PlacedFacts ==
  ASSUME NEW S, NEW s \in Seq(S), NEW t \in Seq(S), IsInjective(s), IsInjective(t),
         ToSet(s) \cap ToSet(t) = {}
  PROVE  /\ s \o t \in Seq(S) /\ IsInjective(s \o t)
         /\ ToSet(s \o t) = ToSet(s) \cup ToSet(t)
         /\ \A i \in DOMAIN s : i \in DOMAIN (s \o t) /\ (s \o t)[i] = s[i]
         /\ \A y \in ToSet(t) : \E j \in DOMAIN (s \o t) :
              (s \o t)[j] = y /\ \A i \in DOMAIN s : i < j
<1> DEFINE u == s \o t
<1>1. /\ Len(s) \in Nat /\ Len(t) \in Nat
      /\ DOMAIN s = 1..Len(s) /\ DOMAIN t = 1..Len(t)
  BY LenProperties
<1>2. /\ u \in Seq(S) /\ Len(u) = Len(s) + Len(t)
      /\ \A i \in 1..(Len(s) + Len(t)) : u[i] = IF i <= Len(s) THEN s[i] ELSE t[i - Len(s)]
  BY ConcatProperties
<1> HIDE DEF u
<1>3. DOMAIN u = 1..(Len(s) + Len(t))
  BY <1>2, LenProperties
<1>4. \A i \in DOMAIN s : i \in DOMAIN u /\ u[i] = s[i]
  BY <1>1, <1>2, <1>3
<1>5. \A i \in DOMAIN t : i + Len(s) \in DOMAIN u /\ u[i + Len(s)] = t[i]
  BY <1>1, <1>2, <1>3
<1>6. \A i \in DOMAIN u : \/ i \in DOMAIN s /\ u[i] = s[i]
                          \/ i - Len(s) \in DOMAIN t /\ u[i] = t[i - Len(s)]
  BY <1>1, <1>2, <1>3
<1>7. ToSet(u) = ToSet(s) \cup ToSet(t)
  <2>1. ToSet(s) \subseteq ToSet(u)
    BY <1>4 DEF ToSet
  <2>2. ToSet(t) \subseteq ToSet(u)
    BY <1>5 DEF ToSet
  <2>3. ToSet(u) \subseteq ToSet(s) \cup ToSet(t)
    BY <1>6 DEF ToSet
  <2> QED
    BY <2>1, <2>2, <2>3
<1>8. ASSUME NEW i \in DOMAIN u, NEW j \in DOMAIN u, u[i] = u[j]
      PROVE  i = j
  <2>1. CASE i \in DOMAIN s /\ u[i] = s[i] /\ j \in DOMAIN s /\ u[j] = s[j]
    BY <1>8, <2>1 DEF IsInjective
  <2>2. CASE i - Len(s) \in DOMAIN t /\ u[i] = t[i - Len(s)]
             /\ j - Len(s) \in DOMAIN t /\ u[j] = t[j - Len(s)]
    <3>1. i - Len(s) = j - Len(s)
      BY <1>8, <2>2 DEF IsInjective
    <3> QED
      BY <1>1, <1>3, <3>1
  <2>3. CASE i \in DOMAIN s /\ u[i] = s[i] /\ j - Len(s) \in DOMAIN t /\ u[j] = t[j - Len(s)]
    BY <1>8, <2>3 DEF ToSet
  <2>4. CASE i - Len(s) \in DOMAIN t /\ u[i] = t[i - Len(s)] /\ j \in DOMAIN s /\ u[j] = s[j]
    BY <1>8, <2>4 DEF ToSet
  <2> QED
    BY <1>6, <2>1, <2>2, <2>3, <2>4
<1>9. ASSUME NEW y \in ToSet(t)
      PROVE  \E j \in DOMAIN u : u[j] = y /\ \A i \in DOMAIN s : i < j
  <2>1. PICK k \in DOMAIN t : t[k] = y
    BY DEF ToSet
  <2>2. k + Len(s) \in DOMAIN u /\ u[k + Len(s)] = y
    BY <1>5, <2>1
  <2>3. \A i \in DOMAIN s : i < k + Len(s)
    BY <1>1, <2>1
  <2> QED
    BY <2>2, <2>3
<1>10. IsInjective(u)
  BY <1>8 DEF IsInjective
<1> QED
  BY <1>2, <1>4, <1>7, <1>9, <1>10 DEF u

-----------------------------------------------------------------------------
(* The order of the steps. *)

\* Every node that is placed comes after all it depends on.
Ordered ==
  /\ run.version = "new" /\ Len(run.depends) = run.steps
  /\ ToSet(order) \subseteq Nodes \cap 1..run.steps
  /\ \A n \in ToSet(order) : \A d \in Deps(n) : Before(d, n)

\* The nodes that are ready are those that are not placed and depend on placed ones only; each
\* node waits for those of its dependencies that are not placed.
Sorting ==
  /\ Ordered /\ ~HasCycle
  /\ IsInjective(ready)
  /\ ToSet(ready) = {n \in Nodes \ ToSet(order) : Deps(n) \subseteq ToSet(order)}
  /\ \A n \in Names : waiting[n] = Cardinality(Deps(n) \ ToSet(order))

AsInFile == order = [i \in 1..run.steps |-> i]

SortInv ==
  /\ SortTypes
  /\ phase \in {"version", "order"} => AsInFile
  /\ phase = "sort" => Sorting
  /\ phase \in {"run", "requested"} =>
       IF run.version = "new" THEN Ordered /\ ToSet(order) = Nodes ELSE AsInFile

\* The sequence of no steps.
LEMMA NoSteps ==
  ASSUME NEW S
  PROVE  /\ << >> \in Seq(S) /\ Len(<< >>) = 0 /\ DOMAIN << >> = {}
         /\ ToSet(<< >>) = {} /\ IsInjective(<< >>)
<1>1. << >> \in Seq(S) /\ Len(<< >>) = 0
  BY EmptySeq
<1>2. DOMAIN << >> = {}
  BY <1>1, LenProperties
<1> QED
  BY <1>1, <1>2 DEF ToSet, IsInjective

\* The steps of the file, each once.
LEMMA IdentityFacts ==
  ASSUME NEW n \in 0..NSteps
  PROVE  LET s == [i \in 1..n |-> i] IN
           s \in Seq(1..NSteps) /\ IsInjective(s) /\ ToSet(s) = 1..n
<1> DEFINE s == [i \in 1..n |-> i]
<1>1. NSteps \in Nat /\ n \in Nat /\ n <= NSteps
  BY ConfigLoadAssumption
<1>2. s \in [1..n -> 1..NSteps]
  BY <1>1
<1>3. s \in Seq(1..NSteps)
  BY <1>1, <1>2, SeqDef
<1> QED
  BY <1>3 DEF IsInjective, ToSet

\* Nothing is configured at first.
LEMMA InitSortInv == Init => SortInv
<1> SUFFICES ASSUME Init PROVE SortInv
  OBVIOUS
<1>1. /\ run = Unread /\ ready = << >> /\ order = << >> /\ waiting = [n \in Names |-> 0]
      /\ phase = "files"
  BY DEF Init
<1>2. << >> \in Seq(Depends) /\ << >> \in Seq(Names) /\ << >> \in Seq(1..NSteps)
  BY NoSteps
<1>3. IsInjective(<< >>) /\ Len(<< >>) = 0
  BY NoSteps
<1>4. NSteps \in Nat /\ MaxDepends \in Nat
  BY ConfigLoadAssumption
<1>5. waiting \in [Names -> 0..MaxDepends]
  BY <1>1, <1>4
<1>6. /\ run \in [version : Versions, steps : 0..NSteps, depends : Seq(Depends)]
      /\ Len(run.depends) <= run.steps
  BY <1>1, <1>2, <1>3, <1>4 DEF Unread, Versions
<1>7. SortTypes
  BY <1>1, <1>2, <1>3, <1>5, <1>6 DEF SortTypes
<1> QED
  BY <1>1, <1>7 DEF SortInv

\* What the sorter is told does not change while it sorts.
LEMMA SameRun ==
  ASSUME UNCHANGED run
  PROVE  /\ Nodes' = Nodes /\ HasCycle' = HasCycle
         /\ \A n : Deps(n)' = Deps(n) /\ Predecessors(n)' = Predecessors(n)
BY DEF Nodes, Adds, HasCycle, InCycle, DependsOn, Deps, Predecessors

\* The file is read: its steps are in its order.
LEMMA ReadRunFileSortInv ==
  ASSUME SortInv, ReadRunFile
  PROVE  SortInv'
<1>1. PICK n \in 0..NSteps, version \in Versions :
        /\ run' = [version |-> version, steps |-> n, depends |-> << >>]
        /\ order' = [i \in 1..n |-> i]
  BY DEF ReadRunFile
<1>2. phase' = "version" /\ UNCHANGED sorter
  BY DEF ReadRunFile
<1>3. << >> \in Seq(Depends) /\ Len(<< >>) = 0
  BY NoSteps
<1>4. order' \in Seq(1..NSteps) /\ IsInjective(order')
  BY <1>1, IdentityFacts
<1>5. /\ run' \in [version : Versions, steps : 0..NSteps, depends : Seq(Depends)]
      /\ Len(run'.depends) <= run'.steps
  BY <1>1, <1>3
<1>6. ready' \in Seq(Names) /\ waiting' \in [Names -> 0..MaxDepends]
  BY <1>2 DEF SortInv, SortTypes, sorter
<1>7. SortTypes'
  BY <1>4, <1>5, <1>6 DEF SortTypes
<1> QED
  BY <1>1, <1>2, <1>7 DEF SortInv, AsInFile

\* The next step of the file is looked at.
LEMMA AddStepSortInv ==
  ASSUME SortInv, AddStep
  PROVE  SortInv'
<1>1. PICK d \in Depends : run' = [run EXCEPT !.depends = Append(@, d)]
  BY DEF AddStep
<1>2. /\ phase = "order" /\ Len(run.depends) < run.steps
      /\ UNCHANGED <<phase, ready, waiting, order>>
  BY DEF AddStep, sorter
<1>3. SortTypes /\ AsInFile
  BY <1>2 DEF SortInv
<1>4. /\ run \in [version : Versions, steps : 0..NSteps, depends : Seq(Depends)]
      /\ Len(run.depends) \in Nat /\ run.steps \in Nat
  <2>1. run \in [version : Versions, steps : 0..NSteps, depends : Seq(Depends)]
    BY <1>3 DEF SortTypes
  <2>2. run.depends \in Seq(Depends)
    BY <2>1
  <2> QED
    BY <2>1, <2>2, LenProperties, ConfigLoadAssumption
<1>5. Append(run.depends, d) \in Seq(Depends) /\ Len(Append(run.depends, d)) = Len(run.depends) + 1
  BY <1>4, AppendProperties
<1>6. /\ run' \in [version : Versions, steps : 0..NSteps, depends : Seq(Depends)]
      /\ run'.steps = run.steps /\ run'.depends = Append(run.depends, d)
  BY <1>1, <1>4, <1>5
<1>7. Len(run'.depends) <= run'.steps
  BY <1>2, <1>4, <1>5, <1>6
<1>8. SortTypes'
  BY <1>2, <1>3, <1>6, <1>7 DEF SortTypes
<1>9. AsInFile'
  BY <1>2, <1>3, <1>6 DEF AsInFile
<1> QED
  BY <1>2, <1>8, <1>9 DEF SortInv

\* The sort begins with the nodes that depend on none.
LEMMA BeginSortSortInv ==
  ASSUME SortInv, BeginSort, ~Fail
  PROVE  SortInv'
<1>1. /\ phase = "order" /\ phase' = "sort"
      /\ run.version = "new" /\ Len(run.depends) = run.steps /\ ~HasCycle
      /\ waiting' = [n \in Names |-> Predecessors(n)]
      /\ ready' = Ranked({n \in Nodes : waiting'[n] = 0}, [n \in Nodes |-> FirstNamed(n)])
      /\ order' = << >> /\ UNCHANGED run
  BY DEF BeginSort
<1>2. SortTypes
  BY DEF SortInv
<1>3. /\ Nodes' = Nodes /\ HasCycle' = HasCycle /\ \A n : Deps(n)' = Deps(n)
  BY <1>1, SameRun
<1>4. \A n \in Names : /\ IsFiniteSet(Deps(n)) /\ Cardinality(Deps(n)) \in 0..MaxDepends
                       /\ waiting'[n] = Cardinality(Deps(n))
  BY <1>1, <1>2, PredecessorsCountDeps
<1>5. Nodes \subseteq Names
  BY <1>2, NodesFacts
<1> DEFINE S == {n \in Nodes : waiting'[n] = 0}
<1>6. S \in SUBSET Nodes
  OBVIOUS
<1>7. ready' \in Seq(Names) /\ IsInjective(ready') /\ ToSet(ready') = S
  <2> HIDE DEF S
  <2>1. ready' = Ranked(S, [n \in Nodes |-> FirstNamed(n)])
    BY <1>1 DEF S
  <2>2. /\ Ranked(S, [n \in Nodes |-> FirstNamed(n)]) \in Seq(Names)
        /\ IsInjective(Ranked(S, [n \in Nodes |-> FirstNamed(n)]))
        /\ ToSet(Ranked(S, [n \in Nodes |-> FirstNamed(n)])) = S
    BY <1>2, <1>6, FirstReadyFacts
  <2> QED
    BY <2>1, <2>2
<1>8. ToSet(order') = {} /\ IsInjective(order') /\ order' \in Seq(1..NSteps)
  BY <1>1, NoSteps
<1>9. waiting' \in [Names -> 0..MaxDepends]
  BY <1>1, <1>4
<1>10. SortTypes'
  BY <1>1, <1>2, <1>7, <1>8, <1>9 DEF SortTypes
<1>11. \A n \in Names : waiting'[n] = 0 <=> Deps(n) = {}
  BY <1>4, FS_EmptySet
<1>12. S = {n \in Nodes \ {} : Deps(n) \subseteq {}}
  BY <1>5, <1>11
<1>13. \A n \in Names : waiting'[n] = Cardinality(Deps(n) \ {})
  <2>1. \A n \in Names : Deps(n) \ {} = Deps(n)
    OBVIOUS
  <2> QED
    BY <1>4, <2>1
<1>14. Ordered'
  BY <1>1, <1>8 DEF Ordered
<1>15. Sorting'
  BY <1>1, <1>3, <1>7, <1>8, <1>12, <1>13, <1>14 DEF Sorting
<1> QED
  BY <1>1, <1>10, <1>15 DEF SortInv

\* A group is placed after all that was placed before, and the nodes it releases are ready.
LEMMA PlaceReadySortInv ==
  ASSUME SortInv, PlaceReady, ~Fail
  PROVE  SortInv'
<1> DEFINE P == ToSet(order)
           R == ToSet(ready)
<1>1. /\ phase = "sort" /\ phase' = "sort" /\ UNCHANGED run
      /\ R \subseteq DOMAIN run.depends
      /\ order' = order \o ready /\ ready' = NextReady
      /\ waiting' = [n \in Names |-> waiting[n] - Released(n)]
  BY DEF PlaceReady
<1>2. /\ SortTypes /\ Ordered /\ ~HasCycle /\ IsInjective(ready)
      /\ R = {n \in Nodes \ P : Deps(n) \subseteq P}
      /\ \A n \in Names : waiting[n] = Cardinality(Deps(n) \ P)
  BY <1>1 DEF SortInv, Sorting
<1>3. /\ Nodes' = Nodes /\ HasCycle' = HasCycle /\ \A n : Deps(n)' = Deps(n)
  BY <1>1, SameRun
<1>4. /\ run.version = "new" /\ Len(run.depends) = run.steps
      /\ P \subseteq Nodes \cap 1..run.steps
      /\ \A n \in P : \A d \in Deps(n) : Before(d, n)
  BY <1>2 DEF Ordered
<1>5. /\ Nodes \subseteq Names
      /\ \A n, d \in Names : d \in Deps(n) => n \in Nodes /\ d \in Nodes
  BY <1>2, NodesFacts
<1>6. \A n : Deps(n) \subseteq Names
  BY DEF Deps
<1>7. /\ DOMAIN run.depends = 1..run.steps /\ DOMAIN run.depends \subseteq 1..NSteps
      /\ MaxDepends \in Nat
  BY <1>2, <1>4, StepFacts
<1>8. P \cap R = {} /\ R \subseteq Nodes
  BY <1>2
\* The new order.
<1>9. order \in Seq(1..NSteps) /\ IsInjective(order) /\ ready \in Seq(1..NSteps)
  <2>1. ready \in Seq(Names)
    BY <1>2 DEF SortTypes
  <2>2. Len(ready) \in Nat /\ ready \in [1..Len(ready) -> Names]
    BY <2>1, LenProperties
  <2>3. \A i \in 1..Len(ready) : ready[i] \in R
    BY <2>2 DEF ToSet
  <2>4. ready \in [1..Len(ready) -> 1..NSteps]
    BY <1>1, <1>7, <2>2, <2>3
  <2>5. ready \in Seq(1..NSteps)
    BY <2>2, <2>4, SeqDef
  <2> QED
    BY <1>2, <2>5 DEF SortTypes
<1>10. /\ order' \in Seq(1..NSteps) /\ IsInjective(order') /\ ToSet(order') = P \cup R
       /\ \A i \in DOMAIN order : i \in DOMAIN order' /\ order'[i] = order[i]
       /\ \A y \in R : \E j \in DOMAIN order' : order'[j] = y /\ \A i \in DOMAIN order : i < j
  <2>1. /\ order \o ready \in Seq(1..NSteps) /\ IsInjective(order \o ready)
        /\ ToSet(order \o ready) = P \cup R
        /\ \A i \in DOMAIN order : i \in DOMAIN (order \o ready) /\ (order \o ready)[i] = order[i]
        /\ \A y \in R : \E j \in DOMAIN (order \o ready) :
             (order \o ready)[j] = y /\ \A i \in DOMAIN order : i < j
    BY <1>2, <1>8, <1>9, PlacedFacts
  <2> QED
    BY <1>1, <2>1
<1>11. ASSUME NEW n \in P \cup R, NEW d \in Deps(n)
       PROVE  Before(d, n)'
  <2>1. CASE n \in P
    <3>1. PICK i, j \in DOMAIN order : i < j /\ order[i] = d /\ order[j] = n
      BY <1>4, <1>11, <2>1 DEF Before
    <3> QED
      BY <1>10, <3>1 DEF Before
  <2>2. CASE n \in R
    <3>1. d \in P
      BY <1>2, <1>11, <2>2
    <3>2. PICK i \in DOMAIN order : order[i] = d
      BY <3>1 DEF ToSet
    <3>3. PICK j \in DOMAIN order' : order'[j] = n /\ i < j
      BY <1>10, <2>2, <3>2
    <3> QED
      BY <1>10, <3>2, <3>3 DEF Before
  <2> QED
    BY <1>11, <2>1, <2>2
<1>12. Ordered'
  <2>1. P \cup R \subseteq Nodes \cap 1..run.steps
    BY <1>1, <1>4, <1>7, <1>8
  <2> QED
    BY <1>1, <1>3, <1>4, <1>10, <1>11, <2>1 DEF Ordered
\* What the nodes still wait for.
<1>13. ASSUME NEW n \in Names
       PROVE  /\ waiting'[n] = Cardinality(Deps(n) \ (P \cup R))
              /\ waiting'[n] \in 0..MaxDepends
              /\ waiting[n] = Released(n) => Deps(n) \subseteq P \cup R
              /\ Deps(n) \subseteq P \cup R => waiting[n] = Released(n)
  <2>1. /\ IsFiniteSet(Deps(n)) /\ Cardinality(Deps(n)) \in 0..MaxDepends
    BY <1>2, PredecessorsCountDeps
  <2> DEFINE U == Deps(n) \ P
  <2>2. IsFiniteSet(U) /\ Cardinality(U) \in Nat /\ Cardinality(U) <= Cardinality(Deps(n))
    BY <2>1, FS_Subset, FS_CardinalityType
  <2>3. U \cap R = Deps(n) \cap R /\ U \ R = Deps(n) \ (P \cup R)
    BY <1>8
  <2>4. Released(n) = Cardinality(U \cap R)
    BY <1>2, <2>3, ReleasedCountsDeps
  <2>5. waiting[n] = Cardinality(U)
    BY <1>2
  <2> HIDE DEF U
  <2>6. IsFiniteSet(U \ R) /\ Cardinality(U \ R) = Cardinality(U) - Cardinality(U \cap R)
    BY <2>2, FS_Difference
  <2>7. Cardinality(U \ R) \in Nat
    BY <2>6, FS_CardinalityType
  <2>8. IsFiniteSet(U \cap R) /\ Cardinality(U \cap R) \in Nat
    BY <2>2, FS_Subset, FS_CardinalityType
  <2>9. waiting'[n] = Cardinality(U \ R)
    BY <1>1, <2>4, <2>5, <2>6
  <2>10. waiting'[n] \in 0..MaxDepends
    BY <1>7, <2>1, <2>2, <2>6, <2>7, <2>8, <2>9
  <2>11. waiting[n] = Released(n) <=> U \ R = {}
    <3>1. waiting[n] = Released(n) <=> Cardinality(U \ R) = 0
      BY <2>2, <2>4, <2>5, <2>6, <2>8
    <3> QED
      BY <2>6, <3>1, FS_EmptySet
  <2>12. U \ R = {} <=> Deps(n) \subseteq P \cup R
    BY <2>3
  <2> QED
    BY <2>3, <2>9, <2>10, <2>11, <2>12
\* The nodes that are ready next.
<1>14. /\ ready' \in Seq(Names) /\ IsInjective(ready')
       /\ ToSet(ready') = {n \in Names : Releasing(n) # {} /\ waiting[n] = Released(n)}
  BY <1>1, <1>2, NextReadyFacts
<1>15. ASSUME NEW n \in Names
       PROVE  (Releasing(n) # {} /\ waiting[n] = Released(n))
                <=> (n \in Nodes \ (P \cup R) /\ Deps(n) \subseteq P \cup R)
  <2>1. Releasing(n) # {} <=> Deps(n) \cap R # {}
    BY <1>2, ReleasedCountsDeps
  <2>2. ASSUME Deps(n) \cap R # {}
        PROVE  n \in Nodes /\ n \notin P /\ n \notin R
    <3>1. PICK d \in Deps(n) : d \in R
      BY <2>2
    <3>2. n \in Nodes
      BY <1>5, <1>6, <3>1
    <3>3. d \notin P
      BY <1>8, <3>1
    <3>4. n \notin R
      BY <1>2, <3>1, <3>3
    <3>5. ASSUME n \in P PROVE FALSE
      <4>1. Before(d, n)
        BY <1>4, <3>1, <3>5
      <4>2. d \in P
        BY <4>1 DEF Before, ToSet
      <4> QED
        BY <3>3, <4>2
    <3> QED
      BY <3>2, <3>4, <3>5
  <2>3. ASSUME n \in Nodes \ (P \cup R), Deps(n) \subseteq P \cup R
        PROVE  Deps(n) \cap R # {}
    BY <1>2, <2>3
  <2> QED
    BY <1>13, <2>1, <2>2, <2>3
<1>16. ToSet(ready') = {n \in Nodes \ (P \cup R) : Deps(n) \subseteq P \cup R}
  BY <1>5, <1>14, <1>15
<1>17. SortTypes'
  <2>1. waiting' \in [Names -> 0..MaxDepends]
    BY <1>1, <1>13
  <2> QED
    BY <1>1, <1>2, <1>10, <1>14, <2>1 DEF SortTypes
<1>18. Sorting'
  <2>1. \A n \in Names : waiting'[n] = Cardinality(Deps(n) \ (P \cup R))
    BY <1>13
  <2> QED
    BY <1>2, <1>3, <1>10, <1>12, <1>14, <1>16, <2>1 DEF Sorting
<1> QED
  BY <1>1, <1>17, <1>18 DEF SortInv

\* The sort ends when every node is placed: a rest would be a cycle.
LEMMA EndSortSortInv ==
  ASSUME SortInv, EndSort
  PROVE  SortInv'
<1>1. phase = "sort" /\ phase' = "run" /\ ready = << >> /\ UNCHANGED <<run, ready, waiting, order>>
  BY DEF EndSort, sorter
<1>2. /\ SortTypes /\ Ordered /\ ~HasCycle
      /\ ToSet(ready) = {n \in Nodes \ ToSet(order) : Deps(n) \subseteq ToSet(order)}
  BY <1>1 DEF SortInv, Sorting
<1>3. ToSet(ready) = {}
  BY <1>1, NoSteps
<1> DEFINE U == Nodes \ ToSet(order)
<1>4. \A n, d \in Names : d \in Deps(n) => d \in Nodes
  BY <1>2, NodesFacts
<1>5. ASSUME NEW n \in U PROVE \E d \in U : DependsOn(n, d)
  <2>1. PICK d \in Deps(n) : d \notin ToSet(order)
    BY <1>2, <1>3
  <2>2. n \in Names
    BY <1>2, NodesFacts
  <2>3. d \in Nodes /\ DependsOn(n, d)
    BY <1>4, <2>1, <2>2 DEF Deps
  <2> QED
    BY <2>1, <2>3
<1>6. U = {}
  <2>1. InCycle(U)
    BY <1>5 DEF InCycle
  <2>2. U \in SUBSET Nodes
    OBVIOUS
  <2> HIDE DEF U
  <2> QED
    BY <1>2, <2>1, <2>2 DEF HasCycle
<1>7. ToSet(order) = Nodes
  BY <1>2, <1>6 DEF Ordered
<1>8. /\ Nodes' = Nodes /\ \A n : Deps(n)' = Deps(n)
  BY <1>1, SameRun
<1>9. SortTypes'
  BY <1>1, <1>2 DEF SortTypes
<1>10. Ordered'
  BY <1>1, <1>2, <1>8 DEF Ordered, Before
<1> QED
  BY <1>1, <1>2, <1>7, <1>8, <1>9, <1>10 DEF SortInv, Ordered

\* Steps that leave the sorter and the order alone.
LEMMA SameSorted ==
  ASSUME SortInv, UNCHANGED <<run, sorter, order>>,
         phase' \in {"version", "order"} => phase \in {"version", "order"},
         phase' = "sort" => phase = "sort",
         phase' \in {"run", "requested"} =>
           \/ phase \in {"run", "requested"}
           \/ phase = "order" /\ run.version # "new"
  PROVE  SortInv'
<1>1. UNCHANGED <<run, ready, waiting, order>>
  BY DEF sorter
<1>2. /\ Nodes' = Nodes /\ HasCycle' = HasCycle /\ \A n : Deps(n)' = Deps(n)
  BY <1>1, SameRun
<1>3. SortTypes'
  BY <1>1 DEF SortInv, SortTypes
<1>4. (AsInFile => AsInFile')
  BY <1>1 DEF AsInFile
<1>5. (Ordered => Ordered')
  BY <1>1, <1>2 DEF Ordered, Before
<1>6. (Sorting => Sorting')
  BY <1>1, <1>2, <1>5 DEF Sorting
<1> QED
  BY <1>1, <1>2, <1>3, <1>4, <1>5, <1>6 DEF SortInv

\* Each group is placed after the groups before it.
LEMMA NextSortInv == SortInv /\ [Next]_vars => SortInv'
<1> SUFFICES ASSUME SortInv, [Next]_vars PROVE SortInv'
  OBVIOUS
<1>1. CASE Fail
  BY <1>1, SameSorted DEF Fail
<1>2. CASE SkipFile
  BY <1>2, SameSorted DEF SkipFile
<1>3. CASE BeginFile
  BY <1>3, SameSorted DEF BeginFile
<1>4. CASE ReadFile
  BY <1>1, <1>4, SameSorted DEF ReadFile
<1>5. CASE FilesRead
  BY <1>5, SameSorted DEF FilesRead
<1>6. CASE MergeOverrides
  BY <1>6, SameSorted DEF MergeOverrides
<1>7. CASE ValidateGlobal
  BY <1>1, <1>7, SameSorted DEF ValidateGlobal
<1>8. CASE Redirect
  BY <1>1, <1>8, SameSorted DEF Redirect
<1>9. CASE FetchFails
  BY <1>1, <1>9 DEF FetchFails
<1>10. CASE ReadRunFile
  BY <1>10, ReadRunFileSortInv
<1>11. CASE ValidateVersion
  BY <1>1, <1>11, SameSorted DEF ValidateVersion
<1>12. CASE KeepOrder
  BY <1>12, SameSorted DEF KeepOrder
<1>13. CASE VersionNotComparable
  BY <1>1, <1>13 DEF VersionNotComparable
<1>14. CASE AddStep
  BY <1>14, AddStepSortInv
<1>15. CASE BeginSort
  BY <1>1, <1>15, BeginSortSortInv
<1>16. CASE PlaceReady
  BY <1>1, <1>16, PlaceReadySortInv
<1>17. CASE EndSort
  BY <1>17, EndSortSortInv
<1>18. CASE ValidateRun
  BY <1>1, <1>18, SameSorted DEF ValidateRun
<1>19. CASE CheckRequested
  BY <1>1, <1>19, SameSorted DEF CheckRequested
<1>20. CASE UNCHANGED vars
  BY <1>20, SameSorted DEF vars, sorter
<1> QED
  BY <1>1, <1>2, <1>3, <1>4, <1>5, <1>6, <1>7, <1>8, <1>9, <1>10, <1>11, <1>12, <1>13, <1>14,
     <1>15, <1>16, <1>17, <1>18, <1>19, <1>20 DEF Next, Load, Stopped

\* Whatever the dependencies are, the sort keeps its books.
LEMMA SortInvHolds == Spec => []SortInv
BY InitSortInv, NextSortInv, PTL DEF Spec

\* The configured steps, for any number of steps and of dependencies: each step of the file
\* once, in a file of version 2.0 or higher each after the steps it depends on, in any other
\* as in the file, and none of them lost but where its list of dependencies is empty and no
\* step depends on it (_reorder_dependency_steps, TopologicalSorter).
THEOREM StepsSorted == Spec => []StepsInOrder
<1>1. SortInv => StepsInOrder
  <2> SUFFICES ASSUME SortInv, phase = "requested" PROVE StepsInOrder
    BY DEF StepsInOrder
  <2>1. /\ SortTypes
        /\ IF run.version = "new" THEN Ordered /\ ToSet(order) = Nodes ELSE AsInFile
    BY DEF SortInv
  <2>2. IsInjective(order) /\ run.steps \in 0..NSteps
    BY <2>1, StepFacts DEF SortTypes
  <2>3. CASE run.version = "new"
    <3>1. /\ Len(run.depends) = run.steps /\ ToSet(order) = Nodes
          /\ ToSet(order) \subseteq 1..run.steps
          /\ \A n \in ToSet(order) : \A d \in Deps(n) : Before(d, n)
      BY <2>1, <2>3 DEF Ordered
    <3>2. /\ DOMAIN run.depends = 1..run.steps
          /\ \A i \in DOMAIN run.depends : ToSet(run.depends[i].on) = Deps(i)
      BY <2>1, <3>1, StepFacts
    <3>3. \A i \in ToSet(order) : \A d \in ToSet(run.depends[i].on) : Before(d, i)
      BY <3>1, <3>2
    <3>4. \A n : n \in Nodes <=>
            \/ n \in DOMAIN run.depends /\ ~(run.depends[n].has /\ run.depends[n].on = << >>)
            \/ \E i \in DOMAIN run.depends : n \in Deps(i)
      BY <2>1, NodesFacts
    <3>5. ToSet(order) = {i \in 1..run.steps :
            ~(/\ run.version = "new"
              /\ run.depends[i].has /\ run.depends[i].on = << >>
              /\ \A j \in DOMAIN run.depends : i \notin ToSet(run.depends[j].on))}
      BY <2>3, <3>1, <3>2, <3>4
    <3> QED
      BY <2>2, <2>3, <3>3, <3>5 DEF StepsInOrder
  <2>4. CASE run.version # "new"
    <3>1. ToSet(order) = 1..run.steps
      BY <2>1, <2>2, <2>4, IdentityFacts DEF AsInFile
    <3>2. {i \in 1..run.steps :
            ~(/\ run.version = "new"
              /\ run.depends[i].has /\ run.depends[i].on = << >>
              /\ \A j \in DOMAIN run.depends : i \notin ToSet(run.depends[j].on))} = 1..run.steps
      BY <2>4
    <3>3. order = [i \in 1..run.steps |-> i]
      BY <2>1, <2>4 DEF AsInFile
    <3> QED
      BY <2>2, <2>4, <3>1, <3>2, <3>3 DEF StepsInOrder
  <2> QED
    BY <2>3, <2>4
<1> QED
  BY <1>1, SortInvHolds, PTL

-----------------------------------------------------------------------------
(* The types of what is loaded. *)

\* A merged section: its kind, and its values with their sources.
IsMerged(s, a) ==
  /\ a.kind \in {"absent", "null", "dict"}
  /\ a.at \in [Keys[s] -> Values[s] \cup {"none"}]
  /\ a.from \in [Keys[s] -> Sources \cup {0}]

\* What is merged of a mention.
IsSaid(s, b) ==
  /\ b.kind \in {"absent", "null", "dict"}
  /\ b.at \in [Keys[s] -> Values[s] \cup {"none"}]

\* A merge gives a section again.
LEMMA MergeType ==
  ASSUME NEW s \in Sections, NEW a, IsMerged(s, a), NEW b, IsSaid(s, b), NEW i \in Sources
  PROVE  IsMerged(s, Merge(s, a, b, i))
<1>1. CASE b.kind = "absent"
  BY <1>1 DEF Merge
<1>2. CASE b.kind # "absent" /\ a.kind = "dict" /\ b.kind = "dict"
  <2> DEFINE m == Merge(s, a, b, i)
  <2>1. /\ m.kind = "dict"
        /\ m.at = [k \in Keys[s] |-> IF b.at[k] = "none" THEN a.at[k] ELSE b.at[k]]
        /\ m.from = [k \in Keys[s] |-> IF b.at[k] = "none" THEN a.from[k] ELSE i]
    BY <1>2 DEF Merge
  <2> HIDE DEF m
  <2>2. /\ a.at \in [Keys[s] -> Values[s] \cup {"none"}]
        /\ a.from \in [Keys[s] -> Sources \cup {0}]
        /\ b.at \in [Keys[s] -> Values[s] \cup {"none"}]
    BY DEF IsMerged, IsSaid
  <2>3. m.at \in [Keys[s] -> Values[s] \cup {"none"}]
    BY <2>1, <2>2
  <2>4. m.from \in [Keys[s] -> Sources \cup {0}]
    BY <2>1, <2>2
  <2>5. IsMerged(s, m)
    BY <2>1, <2>3, <2>4 DEF IsMerged
  <2> QED
    BY <2>5 DEF m
<1>3. CASE b.kind # "absent" /\ ~(a.kind = "dict" /\ b.kind = "dict")
  BY <1>3 DEF Merge, Given, IsMerged, IsSaid
<1> QED
  BY <1>1, <1>2, <1>3

\* A mention says something of its section.
LEMMA MentionType ==
  ASSUME NEW s \in Sections, NEW c \in Mentions(s)
  PROVE  IsSaid(s, c)
<1>1. CASE c = Absent(s)
  BY <1>1 DEF Absent, IsSaid
<1>2. CASE c = Null(s)
  BY <1>2 DEF Null, Absent, IsSaid
<1>3. CASE c \in [kind : {"dict"}, at : [Keys[s] -> Values[s] \cup {"none"}]]
  BY <1>3 DEF IsSaid
<1> QED
  BY <1>1, <1>2, <1>3 DEF Mentions

\* So does what is left of it after scrubbing (load_global_config_files).
LEMMA ScrubType ==
  ASSUME NEW i, NEW content \in Contents, NEW s \in Sections
  PROVE  IsSaid(s, Scrub(i, content)[s])
<1>1. content["scan"] \in Mentions("scan") /\ content["local"] \in Mentions("local")
  BY DEF Contents
<1>2. content[s] \in Mentions(s)
  BY <1>1, SectionFacts
<1>3. CASE i = Master
  BY <1>2, <1>3, MentionType DEF Scrub
<1>4. CASE i # Master /\ s = "scan"
  <2>1. Scrub(i, content)[s] = content[s]
    BY <1>4 DEF Scrub, Contents
  <2> QED
    BY <1>2, <2>1, MentionType
<1>5. CASE i # Master /\ s = "local"
  <2>1. Scrub(i, content)[s] = ScrubLocalFiles(content[s])
    BY <1>5 DEF Scrub, Contents
  <2>2. Keys[s] = Aliases /\ "own" \in Values[s]
    BY <1>5, SectionFacts DEF Paths
  <2> QED
    BY <2>1, <2>2 DEF ScrubLocalFiles, IsSaid
<1> QED
  BY <1>3, <1>4, <1>5, SectionFacts

\* Where the loading is, and what it has merged.
LoadTypes ==
  /\ phase \in Phases
  /\ url \in Files /\ visited \subseteq Files
  /\ \A s \in Sections : IsMerged(s, context[s])

\* Nothing merged is a section.
LEMMA EmptyType ==
  ASSUME NEW s \in Sections
  PROVE  IsMerged(s, Empty(s))
BY DEF Empty, IsMerged

\* The files by their places.
LEMMA FilesFacts == Master \in Files /\ RunFile \in Files /\ 1..NGlobal \subseteq Files
BY ConfigLoadAssumption DEF Master, RunFile, Files

\* Loading begins with nothing merged.
LEMMA InitLoadTypes == Init => LoadTypes
<1> SUFFICES ASSUME Init PROVE LoadTypes
  OBVIOUS
<1>1. phase = "files" /\ url = Master /\ visited = {} /\ context = [s \in Sections |-> Empty(s)]
  BY DEF Init
<1> QED
  BY <1>1, EmptyType, FilesFacts DEF LoadTypes, Phases

\* Whatever is read, what is merged are sections.
LEMMA NextLoadTypes == LoadTypes /\ LastInv /\ [Next]_vars => LoadTypes'
<1> SUFFICES ASSUME LoadTypes, LastInv, [Next]_vars PROVE LoadTypes'
  OBVIOUS
<1>a. /\ phase \in Phases /\ url \in Files /\ visited \subseteq Files
      /\ \A s \in Sections : IsMerged(s, context[s])
  BY DEF LoadTypes
\* Steps that merge nothing.
<1>0. ASSUME phase' \in Phases, url' \in Files, visited' \subseteq Files, UNCHANGED context
      PROVE  LoadTypes'
  BY <1>a, <1>0 DEF LoadTypes
<1>1. CASE Fail
  BY <1>a, <1>0, <1>1 DEF Fail, chain, Phases
<1>2. CASE SkipFile
  BY <1>a, <1>0, <1>2 DEF SkipFile, chain
<1>3. CASE BeginFile
  <2>1. phase' = "fetch" /\ url' = next /\ visited' = {} /\ UNCHANGED context /\ next <= NGlobal
    BY <1>3 DEF BeginFile
  <2>2. next \in 1..NGlobal
    BY <2>1 DEF LastInv
  <2> QED
    BY <1>0, <2>1, <2>2, FilesFacts DEF Phases
<1>4. CASE ReadFile
  <2>1. CASE Fail
    BY <1>1, <2>1
  <2>2. ASSUME NEW content \in Contents, phase = "fetch", phase' = "files",
               url' = Master, visited' = {},
               DeepMergeDicts(Scrub(next, content), next)
        PROVE  LoadTypes'
    <3>1. next \in Sources
      BY <2>2 DEF LastInv, Sources, Overrides
    <3>2. ASSUME NEW s \in Sections PROVE IsMerged(s, context'[s])
      <4>1. context'[s] = Merge(s, context[s], Scrub(next, content)[s], next)
        BY <2>2 DEF DeepMergeDicts
      <4>2. IsSaid(s, Scrub(next, content)[s])
        BY ScrubType
      <4> QED
        BY <1>a, <3>1, <4>1, <4>2, MergeType
    <3> QED
      BY <2>2, <3>2, FilesFacts DEF LoadTypes, Phases
  <2> QED
    BY <1>4, <2>1, <2>2 DEF ReadFile
<1>5. CASE FilesRead
  BY <1>a, <1>0, <1>5 DEF FilesRead, chain, Phases
<1>6. CASE MergeOverrides
  <2>1. PICK content \in Options :
          phase' = "global" /\ DeepMergeDicts(content, Overrides) /\ UNCHANGED chain
    BY <1>6 DEF MergeOverrides
  <2>2. Overrides \in Sources
    BY ConfigLoadAssumption DEF Sources, Overrides
  <2>3. ASSUME NEW s \in Sections PROVE IsMerged(s, context'[s])
    <3>1. context'[s] = Merge(s, context[s], content[s], Overrides)
      BY <2>1 DEF DeepMergeDicts
    <3>2. content[s] \in Mentions(s)
      BY SectionFacts DEF Options, Nothing, Mentions
    <3> QED
      BY <1>a, <2>2, <3>1, <3>2, MentionType, MergeType
  <2> QED
    BY <1>a, <2>1, <2>3 DEF LoadTypes, Phases, chain
<1>7. CASE ValidateGlobal
  <2>1. CASE Fail
    BY <1>1, <2>1
  <2>2. CASE /\ phase' \in {"fetchRun", "done"} /\ url' = RunFile /\ visited' = {}
             /\ context' = [s \in Sections |-> Empty(s)]
    BY <2>2, EmptyType, FilesFacts DEF LoadTypes, Phases
  <2> QED
    BY <1>7, <2>1, <2>2 DEF ValidateGlobal
<1>8. CASE Redirect
  <2>1. CASE Fail
    BY <1>1, <2>1
  <2>2. ASSUME NEW target \in Files, visited' = Visit, url' = target, UNCHANGED <<phase, context>>
        PROVE  LoadTypes'
    BY <1>a, <1>0, <2>2 DEF Visit
  <2> QED
    BY <1>8, <2>1, <2>2 DEF Redirect
<1>9. CASE FetchFails
  BY <1>1, <1>9 DEF FetchFails
<1>10. CASE ReadRunFile
  BY <1>a, <1>0, <1>10, FilesFacts DEF ReadRunFile, Phases
<1>11. CASE ValidateVersion
  BY <1>a, <1>0, <1>1, <1>11 DEF ValidateVersion, chain, Phases
<1>12. CASE KeepOrder
  BY <1>a, <1>0, <1>12 DEF KeepOrder, chain, Phases
<1>13. CASE VersionNotComparable
  BY <1>1, <1>13 DEF VersionNotComparable
<1>14. CASE AddStep
  BY <1>a, <1>0, <1>14 DEF AddStep, chain
<1>15. CASE BeginSort
  BY <1>a, <1>0, <1>1, <1>15 DEF BeginSort, chain, Phases
<1>16. CASE PlaceReady
  BY <1>a, <1>0, <1>1, <1>16 DEF PlaceReady, chain
<1>17. CASE EndSort
  BY <1>a, <1>0, <1>17 DEF EndSort, chain, Phases
<1>18. CASE ValidateRun
  BY <1>a, <1>0, <1>1, <1>18 DEF ValidateRun, chain, Phases
<1>19. CASE CheckRequested
  BY <1>a, <1>0, <1>1, <1>19 DEF CheckRequested, chain, Phases
<1>20. CASE UNCHANGED vars
  BY <1>a, <1>0, <1>20 DEF vars
<1> QED
  BY <1>1, <1>2, <1>3, <1>4, <1>5, <1>6, <1>7, <1>8, <1>9, <1>10, <1>11, <1>12, <1>13, <1>14,
     <1>15, <1>16, <1>17, <1>18, <1>19, <1>20 DEF Next, Load, Stopped

\* The order holds no step twice, so that it is no longer than there are steps.
LEMMA TypesTogether == LoadTypes /\ LastInv /\ SortInv => TypeOK
<1> SUFFICES ASSUME LoadTypes, LastInv, SortInv PROVE TypeOK
  OBVIOUS
<1>1. SortTypes
  BY DEF SortInv
<1>2. Len(order) <= NSteps
  <2>1. order \in Seq(1..NSteps) /\ IsInjective(order)
    BY <1>1 DEF SortTypes
  <2>2. IsFiniteSet(ToSet(order)) /\ Cardinality(ToSet(order)) = Len(order)
    BY <2>1, LengthOfInjective
  <2>3. ToSet(order) \subseteq 1..NSteps
    <3>1. DOMAIN order = 1..Len(order) /\ order \in [1..Len(order) -> 1..NSteps]
      BY <2>1, LenProperties
    <3> QED
      BY <3>1 DEF ToSet
  <2>4. NSteps \in Nat /\ IsFiniteSet(1..NSteps) /\ Cardinality(1..NSteps) = NSteps
    BY FS_Interval, ConfigLoadAssumption
  <2> QED
    BY <2>2, <2>3, <2>4, FS_Subset
<1>3. run.version \in Versions /\ run.steps \in 0..NSteps /\ run.depends \in Seq(Depends)
  BY <1>1 DEF SortTypes
<1> QED
  BY <1>1, <1>2, <1>3 DEF TypeOK, LoadTypes, LastInv, IsMerged, SortTypes

\* Every reachable state of the loading is well typed: the sorter counts within bounds and
\* places no more steps than there are (load_config, _reorder_dependency_steps).
THEOREM TypeCorrect == Spec => []TypeOK
<1>1. Spec => []LastInv
  BY InitLastInv, NextLastInv, PTL DEF Spec
<1>2. Spec => []LoadTypes
  BY <1>1, InitLoadTypes, NextLoadTypes, PTL DEF Spec
<1> QED
  BY <1>1, <1>2, SortInvHolds, TypesTogether, PTL

-----------------------------------------------------------------------------
(* The end of the loading. *)

Stage == [files |-> 0, fetch |-> 0, overrides |-> 1, global |-> 2, fetchRun |-> 3,
          version |-> 4, order |-> 5, sort |-> 6, run |-> 7, requested |-> 8,
          done |-> 9, failed |-> 9]

\* What brings the loading forward.  None of it can happen without end: there are so many
\* stages, files, files in a chain that are not visited, and steps that are not looked at or
\* not placed.
Advances ==
  \/ Stage[phase'] > Stage[phase]
  \/ phase \in {"files", "fetch"} /\ phase' = "files" /\ next' > next
  \/ phase = "files" /\ phase' = "fetch" /\ next' = next
  \/ /\ phase \in {"fetch", "fetchRun"} /\ phase' = phase /\ next' = next
     /\ Cardinality(Files \ visited') < Cardinality(Files \ visited)
  \/ /\ phase = "order" /\ phase' = "order"
     /\ run'.steps = run.steps /\ Len(run'.depends) > Len(run.depends)
  \/ phase = "sort" /\ phase' = "sort" /\ run' = run /\ Len(order') > Len(order)

\* A file that is fetched was not visited before.
FreshInv == phase \in {"fetch", "fetchRun"} => url \notin visited

LEMMA NextFreshInv == FreshInv /\ [Next]_vars => FreshInv'
<1> SUFFICES ASSUME FreshInv, [Next]_vars PROVE FreshInv'
  OBVIOUS
<1>1. ASSUME phase' \notin {"fetch", "fetchRun"} PROVE FreshInv'
  BY <1>1 DEF FreshInv
<1>2. CASE Fail
  BY <1>1, <1>2 DEF Fail
<1>3. CASE BeginFile \/ ValidateGlobal
  BY <1>2, <1>3 DEF FreshInv, BeginFile, ValidateGlobal
<1>4. CASE Redirect
  BY <1>2, <1>4 DEF FreshInv, Redirect, Visit
<1>5. CASE SkipFile \/ FilesRead \/ MergeOverrides
  BY <1>1, <1>5 DEF SkipFile, FilesRead, MergeOverrides
<1>6. CASE ReadFile \/ FetchFails \/ ReadRunFile \/ ValidateVersion
  BY <1>1, <1>2, <1>6 DEF ReadFile, FetchFails, ReadRunFile, ValidateVersion
<1>7. CASE KeepOrder \/ VersionNotComparable \/ AddStep \/ BeginSort \/ PlaceReady \/ EndSort
  BY <1>1, <1>2, <1>7
     DEF KeepOrder, VersionNotComparable, AddStep, BeginSort, PlaceReady, EndSort
<1>8. CASE ValidateRun \/ CheckRequested
  BY <1>1, <1>2, <1>8 DEF ValidateRun, CheckRequested
<1>9. CASE UNCHANGED vars
  BY <1>9 DEF FreshInv, vars, chain
<1> QED
  BY <1>2, <1>3, <1>4, <1>5, <1>6, <1>7, <1>8, <1>9 DEF Next, Load, Stopped

\* Following a redirect leaves one file less to visit.
LEMMA RedirectAdvances ==
  ASSUME LoadTypes, FreshInv, Redirect, ~Fail
  PROVE  Advances
<1>1. /\ phase \in {"fetch", "fetchRun"} /\ UNCHANGED <<phase, next>>
      /\ visited' = visited \cup {url}
  BY DEF Redirect, Visit
<1>2. url \in Files /\ url \notin visited
  BY <1>1 DEF LoadTypes, FreshInv
<1>3. IsFiniteSet(Files)
  <2>1. RunFile + NShared \in Int
    BY ConfigLoadAssumption DEF RunFile
  <2> QED
    BY <2>1, FS_Interval DEF Files
<1> DEFINE U == Files \ visited
<1>4. IsFiniteSet(U) /\ url \in U
  BY <1>2, <1>3, FS_Subset
<1>5. Cardinality(U \ {url}) = Cardinality(U) - 1 /\ Cardinality(U) \in Nat
  BY <1>4, FS_RemoveElement, FS_CardinalityType
<1>6. Files \ visited' = U \ {url}
  BY <1>1
<1>7. Cardinality(Files \ visited') < Cardinality(Files \ visited)
  <2> HIDE DEF U
  <2>1. Cardinality(U \ {url}) < Cardinality(U)
    BY <1>5
  <2> QED
    BY <1>6, <2>1 DEF U
<1> QED
  BY <1>1, <1>7 DEF Advances

\* Placing a group leaves fewer steps to place.
LEMMA PlaceReadyAdvances ==
  ASSUME SortInv, PlaceReady, ~Fail
  PROVE  Advances
<1>1. /\ phase = "sort" /\ ready # << >> /\ order' = order \o ready /\ UNCHANGED <<phase, run>>
  BY DEF PlaceReady
<1>2. ready \in Seq(Names) /\ order \in Seq(1..NSteps)
  BY DEF SortInv, SortTypes
<1>3. order \in Seq(Names)
  <2>1. 1..NSteps \subseteq Names
    BY ConfigLoadAssumption DEF Names
  <2> QED
    BY <1>2, <2>1, SeqMonotonic
<1>4. Len(order') = Len(order) + Len(ready)
  BY <1>1, <1>2, <1>3, ConcatProperties
<1>5. Len(order) \in Nat /\ Len(ready) \in Nat \ {0}
  BY <1>1, <1>2, <1>3, EmptySeq, LenProperties
<1>6. Len(order') > Len(order)
  BY <1>4, <1>5
<1> QED
  BY <1>1, <1>6 DEF Advances

\* Each step of the loading brings it forward, whatever redirects to what and depends on
\* what: by a stage, by a file, by a file that was not visited or by a step.
LEMMA LoadStepAdvances ==
  ASSUME LoadTypes, LastInv, SortInv, FreshInv, Load
  PROVE  Advances
<1>0. next \in Nat
  BY ConfigLoadAssumption DEF LastInv
<1>1. ASSUME Stage[phase'] > Stage[phase] PROVE Advances
  BY <1>1 DEF Advances
<1>2. ASSUME Fail, phase \notin {"done", "failed"} PROVE Advances
  <2>1. phase' = "failed" /\ phase \in Phases
    BY <1>2 DEF Fail, LoadTypes
  <2> QED
    BY <1>1, <1>2, <2>1 DEF Stage, Phases
<1>3. CASE SkipFile
  BY <1>0, <1>3 DEF SkipFile, Advances
<1>4. CASE BeginFile
  BY <1>4 DEF BeginFile, Advances
<1>5. CASE ReadFile
  <2>1. CASE Fail
    BY <1>2, <1>5, <2>1 DEF ReadFile
  <2>2. CASE phase = "fetch" /\ phase' = "files" /\ next' = next + 1
    BY <1>0, <2>2 DEF Advances
  <2> QED
    BY <1>5, <2>1, <2>2 DEF ReadFile
<1>6. CASE FilesRead
  BY <1>1, <1>6 DEF FilesRead, Stage
<1>7. CASE MergeOverrides
  BY <1>1, <1>7 DEF MergeOverrides, Stage
<1>8. CASE ValidateGlobal
  BY <1>1, <1>2, <1>8 DEF ValidateGlobal, Stage
<1>9. CASE Redirect
  <2>1. CASE Fail
    BY <1>2, <1>9, <2>1 DEF Redirect
  <2> QED
    BY <1>9, <2>1, RedirectAdvances
<1>10. CASE FetchFails
  BY <1>2, <1>10 DEF FetchFails
<1>11. CASE ReadRunFile
  BY <1>1, <1>11 DEF ReadRunFile, Stage
<1>12. CASE ValidateVersion
  BY <1>1, <1>2, <1>12 DEF ValidateVersion, Stage
<1>13. CASE KeepOrder
  BY <1>1, <1>13 DEF KeepOrder, Stage
<1>14. CASE VersionNotComparable
  BY <1>2, <1>14 DEF VersionNotComparable
<1>15. CASE AddStep
  <2>1. PICK d \in Depends : run' = [run EXCEPT !.depends = Append(@, d)]
    BY <1>15 DEF AddStep
  <2>2. run \in [version : Versions, steps : 0..NSteps, depends : Seq(Depends)]
    BY DEF SortInv, SortTypes
  <2>3. /\ Len(Append(run.depends, d)) = Len(run.depends) + 1
        /\ Len(run.depends) \in Nat
    <3>1. run.depends \in Seq(Depends)
      BY <2>2
    <3> QED
      BY <3>1, AppendProperties, LenProperties
  <2>4. run'.steps = run.steps /\ run'.depends = Append(run.depends, d)
    BY <2>1, <2>2
  <2>5. Len(run'.depends) > Len(run.depends)
    BY <2>3, <2>4
  <2> QED
    BY <1>15, <2>4, <2>5 DEF AddStep, Advances
<1>16. CASE BeginSort
  BY <1>1, <1>2, <1>16 DEF BeginSort, Stage
<1>17. CASE PlaceReady
  <2>1. CASE Fail
    BY <1>2, <1>17, <2>1 DEF PlaceReady
  <2> QED
    BY <1>17, <2>1, PlaceReadyAdvances
<1>18. CASE EndSort
  BY <1>1, <1>18 DEF EndSort, Stage
<1>19. CASE ValidateRun
  BY <1>1, <1>2, <1>19 DEF ValidateRun, Stage
<1>20. CASE CheckRequested
  BY <1>1, <1>2, <1>20 DEF CheckRequested, Stage
<1> QED
  BY <1>3, <1>4, <1>5, <1>6, <1>7, <1>8, <1>9, <1>10, <1>11, <1>12, <1>13, <1>14, <1>15, <1>16,
     <1>17, <1>18, <1>19, <1>20 DEF Load

\* The safety part of LoadEnds: each step of the loading brings it forward, for any number of
\* files and steps, whatever redirects to what (_fetch_template) and depends on what
\* (_reorder_dependency_steps).
THEOREM LoadAdvances == Spec => [][Load => Advances]_vars
<1>1. Spec => []LastInv
  BY InitLastInv, NextLastInv, PTL DEF Spec
<1>2. Spec => []LoadTypes
  BY <1>1, InitLoadTypes, NextLoadTypes, PTL DEF Spec
<1>3. Init => FreshInv
  BY DEF Init, FreshInv
<1>4. Spec => []FreshInv
  BY <1>3, NextFreshInv, PTL DEF Spec
<1>5. ASSUME LoadTypes, LastInv, SortInv, FreshInv, [Next]_vars
      PROVE  [Load => Advances]_vars
  BY <1>5, LoadStepAdvances
<1> QED
  BY <1>1, <1>2, <1>4, <1>5, SortInvHolds, PTL DEF Spec

=============================================================================
