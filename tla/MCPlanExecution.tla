-------------------------- MODULE MCPlanExecution --------------------------
(***************************************************************************)
(* Instances of PlanExecution for TLC.                                     *)
(***************************************************************************)
EXTENDS PlanExecution

CONSTANTS u1, u2

\* One step; two, of which the second may depend on the first.
OneStep == {<<{}>>}
TwoSteps == {<<{}, {}>>, <<{}, {1}>>}
=============================================================================
