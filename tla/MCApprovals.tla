---------------------------- MODULE MCApprovals ----------------------------
(***************************************************************************)
(* Instances of Approvals for TLC: one governed step of a plan submitted   *)
(* by p, with a and b as possible approvers.                               *)
(***************************************************************************)
EXTENDS ApprovalsRefinement, TLC

CONSTANTS r1, p, a, b, n1, n2, n3, c1, c2, ga, ga2, gb, gp, xa

OneRequest == {r1}
People == {p, a, b}
ByPat == [r \in Requests |-> p]

\* ga, gb: approval grants of the two approvers; ga2: a spare one of a's that may
\* be issued later; gp: one of the requester's own; xa: an execution grant of a's,
\* which approves nothing but is part of a's snapshot.
SpareGrants == {ga, ga2, gb}
RequesterGrants == {ga, gb, gp}
MixedGrants == {ga, gb, xa}
OneGrantEach == {ga, gb}
OwnerOf == [g \in Grants |-> IF g = gp THEN p ELSE IF g = gb THEN b ELSE a]
ScopeOf == [g \in Grants |-> IF g = xa THEN {} ELSE Requests]
RiskOf == [g \in Grants |-> "critical"]

TwoNonces == {n1, n2}
ThreeNonces == {n1, n2, n3}

Boot(v, k, risk) == [policy |-> v, seed |-> k, risk |-> [r \in Requests |-> risk]]

CriticalBoot == {Boot("v1", 1, "critical")}
HighBoot == {Boot("v1", 1, "high")}

\* A new policy version is deployed, and rolled back; the operator is of medium
\* risk and asks for approval itself.
PolicyBoots == {Boot(v, 1, "medium") : v \in {"v1", "v2"}}

\* The same deployment started twice: Python draws a new string-hash seed.
SeedBoots == {Boot("v1", k, "high") : k \in {1, 2}}

\* The operator is registered again with a higher risk.
RiskBoots == {Boot("v1", 1, risk) : risk \in {"high", "critical"}}

Symmetry == Permutations(Nonces)
=============================================================================
