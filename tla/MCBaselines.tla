---------------------------- MODULE MCBaselines ----------------------------
(***************************************************************************)
(* Baselines on small instances.                                           *)
(***************************************************************************)
EXTENDS Baselines, ListProofs, CalQueueProofs, TLC

\* The memory the allocator recycles is interchangeable.
ItemSymmetry == Permutations(Items)
=============================================================================
