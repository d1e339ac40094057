----------------------------- MODULE MCPlanning -----------------------------
(***************************************************************************)
(* Instances of Planning for TLC, with the code's default budgets.         *)
(***************************************************************************)
EXTENDS Planning

CONSTANTS p1, p2, d1, d2
=============================================================================
