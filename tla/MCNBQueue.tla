------------------------------ MODULE MCNBQueue -----------------------------
(***************************************************************************)
(* NBQueue on small instances.                                             *)
(***************************************************************************)
EXTENDS NBQueueProofs, TLC

\* Nodes are interchangeable; threads are not (their lid goes into the marks).
NodeSymmetry == Permutations(Nodes)

\* Thread 1 may stop anywhere in the queue; the others keep being scheduled.
StallSpec == NBSpec /\ \A t \in Threads \ {1} : WF_allVars(NBStep(t))
=============================================================================
