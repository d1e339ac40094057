------------------------ MODULE ApprovalsRefinement ------------------------
(***************************************************************************)
(* Approvals implements ApprovalGate, for one deployment (one policy       *)
(* version, one registered risk) and digests that do not depend on the     *)
(* process.  The gate is refused from the moment the denial is recorded:   *)
(* the status column follows later, or never if the call is cut short.     *)
(***************************************************************************)
EXTENDS Approvals

Denied(r) == \E d \in approvals[r] : d.choice = "deny"

GateOf(r) ==
  IF Denied(r) THEN "refused"
  ELSE IF Withdrawn(r) THEN "void"
  ELSE IF r \in expired THEN "lapsed"
  ELSE IF Satisfied(r) THEN "open"
  ELSE "shut"

SignersOf(r) == Approvers({d \in approvals[r] : d.choice = "approve"})

\* The one deployment.
Deployed == CHOOSE b \in Boots : TRUE

Gate == INSTANCE ApprovalGate WITH
  Required <- [r \in Requests |-> RequiredCount(Deployed.risk[r], r \in Explicit)],
  gate     <- [r \in Requests |-> GateOf(r)],
  signers  <- [r \in Requests |-> SignersOf(r)]

\* Every step of decide, of the grant operations, of time and of a restart is a
\* step of the abstract gate or changes nothing it can see: the gate opens only
\* on enough distinct signatures, a denial is final from the instant it is
\* recorded, and an approval whose authority lapsed is never revived.
ImplementsGate == Gate!Spec
=============================================================================
