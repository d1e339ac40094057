------------------------- MODULE MCProjectionOutbox -------------------------
(***************************************************************************)
(* Instances of ProjectionOutbox for TLC.  Ten attempts become two or      *)
(* three.                                                                  *)
(***************************************************************************)
EXTENDS ProjectionOutbox

CONSTANTS w1, w2
=============================================================================
