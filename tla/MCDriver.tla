------------------------------ MODULE MCDriver ------------------------------
(***************************************************************************)
(* Driver on small instances.                                              *)
(***************************************************************************)
EXTENDS DriverProofs, TLC

\* With an init_size that is not a power of two the bit scan leads outside the
\* segments that were allocated: BucketsApart needs the power of two.
ASSUME PowerOfTwoNeeded == ~LayoutExact(6, 3)
============================================================================
