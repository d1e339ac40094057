------------------------- MODULE MCCoordinatorLease -------------------------
(***************************************************************************)
(* Instances of CoordinatorLease for TLC.  Durations are scaled: 3 : 1 is  *)
(* the code's 30 s to 10 s.                                                *)
(***************************************************************************)
EXTENDS CoordinatorLease

CONSTANTS o1, o2
=============================================================================
