----------------------------- MODULE MCBuildRun -----------------------------
(***************************************************************************)
(* BuildRun with two steps: the first may register tags for the push phase *)
(* and leave images a later step builds on, the second may fail afterwards *)
(* in every kind of task.                                                  *)
(***************************************************************************)
EXTENDS BuildRun, TLC

MCKinds == <<{"build", "run", "push"},
             {"remote", "build", "commit", "pypi-push"}>>
\* The ids of the images are interchangeable.
MCSymmetry == Permutations(Images)
=============================================================================
