---------------------------- MODULE MCSessionLoop ----------------------------
(***************************************************************************)
(* Instances of SessionLoop for TLC: a plan that needs an approval and one *)
(* that needs none.                                                        *)
(***************************************************************************)
EXTENDS SessionLoop

CONSTANTS governed, plain, ann, req
=============================================================================
