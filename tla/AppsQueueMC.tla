----------------------------- MODULE AppsQueueMC -----------------------------
(***************************************************************************)
(* Instances of AppsQueue for TLC.  Clients and operations are only        *)
(* compared for equality, so permuting them is sound for safety.           *)
(***************************************************************************)
EXTENDS AppsQueue, TLC

Symmetry == Permutations(Clients) \cup Permutations(Ops)
=============================================================================
