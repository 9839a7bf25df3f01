----------------------------- MODULE MCCalendar -----------------------------
(***************************************************************************)
(* Calendar on small instances.                                            *)
(***************************************************************************)
EXTENDS CalendarProofs, TLC

\* The instances draw few enough marks for the theorems to apply to them.
ASSUME MarksFit == NoMarkLost

\* Nodes are interchangeable; threads are not (their lid goes into the marks).
NodeSymmetry == Permutations(Nodes)
=============================================================================
