---------------------------- MODULE MCBucketList ----------------------------
(***************************************************************************)
(* BucketList on small instances.                                          *)
(***************************************************************************)
EXTENDS BucketProofs, TLC

\* Threads and nodes are both interchangeable here.
Symmetry == Permutations(Nodes) \cup Permutations(Threads)
=============================================================================
