--------------------------- MODULE PlatformBuilds ---------------------------
(***************************************************************************)
(* What the multi-platform builder promises the steps of a build: a build  *)
(* that was asked for ends with an image for each of its platforms or with *)
(* an exception, and what a tag names in the end is such a build, whole.   *)
(***************************************************************************)
EXTENDS Naturals

CONSTANTS NBuilds, Platforms, MaxTags

VARIABLES
  asked,     \* the platforms of each build
  outcome,   \* what has become of it
  published  \* the platforms each of its tags offers

vars == <<asked, outcome, published>>
Places == (1..NBuilds) \X (1..MaxTags)

Init ==
  /\ asked = [b \in 1..NBuilds |-> {}]
  /\ outcome = [b \in 1..NBuilds |-> "none"]
  /\ published = [bt \in Places |-> {}]

\* Builds follow one another, and none follows one that failed.
Ask(b) ==
  /\ outcome[b] = "none"
  /\ \A a \in 1..(b - 1) : outcome[a] = "built"
  /\ \E P \in (SUBSET Platforms) \ {{}} : asked' = [asked EXCEPT ![b] = P]
  /\ outcome' = [outcome EXCEPT ![b] = "running"]
  /\ UNCHANGED published

Finish(b) ==
  /\ outcome[b] = "running"
  /\ \E o \in {"built", "failed"} : outcome' = [outcome EXCEPT ![b] = o]
  /\ UNCHANGED <<asked, published>>

\* A tag offers every platform of its build, and no tag is published in a run
\* with a build that failed.
Publish(bt) ==
  /\ outcome[bt[1]] = "built"
  /\ \A a \in 1..NBuilds : outcome[a] \in {"none", "built"}
  /\ published' = [published EXCEPT ![bt] = asked[bt[1]]]
  /\ UNCHANGED <<asked, outcome>>

Next ==
  \/ \E b \in 1..NBuilds : Ask(b) \/ Finish(b)
  \/ \E bt \in Places : Publish(bt)

Spec == Init /\ [][Next]_vars
=============================================================================
