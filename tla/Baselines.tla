----------------------------- MODULE Baselines -----------------------------
(***************************************************************************)
(* The two data structures the non-blocking queue is measured against.     *)
(* main() sets up the one that DATASTRUCT names, process() calls only it.  *)
(***************************************************************************)
EXTENDS RootsimList, CalQueue

VARIABLE DATASTRUCT   \* "L", the sorted list, or "C", the calendar queue

bvars == <<lvars, calvars, DATASTRUCT>>

BInit ==
  /\ ListInit
  /\ CalInit
  /\ DATASTRUCT \in {"L", "C"}
  /\ unlocked => DATASTRUCT = "L"

BNext ==
  \/ DATASTRUCT = "L" /\ ListNext /\ UNCHANGED <<calvars, DATASTRUCT>>
  \/ DATASTRUCT = "C" /\ CalNext /\ UNCHANGED <<lvars, DATASTRUCT>>

BSpec == BInit /\ [][BNext]_bvars
=============================================================================
