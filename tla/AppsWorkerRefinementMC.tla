------------------------ MODULE AppsWorkerRefinementMC ------------------------
(***************************************************************************)
(* Instances of AppsWorkerRefinement for TLC.                              *)
(***************************************************************************)
EXTENDS AppsWorkerRefinement, TLC

Symmetry == Permutations(Workers) \cup Permutations(Ops)
=============================================================================
