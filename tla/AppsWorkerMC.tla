----------------------------- MODULE AppsWorkerMC -----------------------------
(***************************************************************************)
(* Instances of AppsWorker for TLC.  Workers, operations, apps and keys    *)
(* are only compared for equality, so permuting them is sound for safety.  *)
(***************************************************************************)
EXTENDS AppsWorker, TLC

Symmetry == Permutations(Workers) \cup Permutations(Ops)
=============================================================================
