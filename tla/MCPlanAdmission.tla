-------------------------- MODULE MCPlanAdmission --------------------------
(***************************************************************************)
(* Instances of PlanAdmission for TLC: two-step plans over the operators o *)
(* (low risk) and g (needs approval).                                      *)
(***************************************************************************)
EXTENDS PlanAdmission, TLC

CONSTANTS t1, t2, o, g, e, svc, schema

\* The tasks are alike.
Swap == Permutations(Tasks)

Offer(name, governed, declared, model) ==
  [name |-> name, governed |-> governed, declared |-> declared, model |-> model]

\* g is offered twice, the second time without need for approval, and o with a
\* schema that nothing enforces.
TwoOffers == {Offer(o, FALSE, None, None), Offer(g, TRUE, schema, schema),
              Offer(g, FALSE, None, None), Offer(o, FALSE, schema, None)}

Step(id, op, deps, refs) ==
  [id |-> id, operator |-> op, depends_on |-> deps, evidence_refs |-> refs]

\* A plan in order, and others out of order, in a circle, and with a repeated id.
SmallPlans ==
  {<<Step(1, o, {}, {}), Step(2, g, {1}, {e})>>,
   <<Step(1, o, {2}, {}), Step(2, g, {}, {})>>,
   <<Step(1, o, {2}, {}), Step(2, g, {1}, {})>>,
   <<Step(1, g, {1}, {}), Step(2, o, {}, {})>>,
   <<Step(1, o, {}, {}), Step(1, g, {}, {})>>}
=============================================================================
