------------------------------ MODULE Approvals ------------------------------
(***************************************************************************)
(* Tiered approvals: services/identity.py (ApprovalService, and what it    *)
(* uses of IdentityService) over the approval tables of                    *)
(* services/ledger.py.                                                     *)
(*                                                                         *)
(* ApprovalService.decide is a sequence of separate reads and separate     *)
(* SQL transactions; nothing holds a lock across them, and neither it nor  *)
(* a grant revocation needs the coordinator lease.  Each read and each     *)
(* transaction is therefore one action here, and a call can be cut short   *)
(* between any two of them by a crash.  The verifier thread evaluates      *)
(* ApprovalService.satisfied step by step beside it.                       *)
(*                                                                         *)
(* Abstractions.  A SHA-256 content digest is the content itself (no       *)
(* collisions).  Signatures are valid: a rejected one changes nothing.     *)
(* Time only passes: an expiry is an event that happens once.  One session *)
(* asks for the approvals of a plan, so ensure_request is one action.      *)
(***************************************************************************)
EXTENDS Naturals, FiniteSets

CONSTANTS
  Requests,       \* the governed steps of the plan: one approval request each
  Explicit,       \* those whose operator says requires_approval
  Subjects,       \* registered identities
  Requester,      \* [Requests -> Subjects], requester_id of each request
  Grants,         \* grant ids, approval and execution grants together
  Owner,          \* [Grants -> Subjects]
  Scope,          \* [Grants -> SUBSET Requests] by project; {}: execution grant
  MaxRisk,        \* [Grants -> RiskLevels]
  Nonces,         \* signed actions that will ever be submitted
  Callers,        \* threads or processes that may be inside decide at once
  Unordered,      \* subjects whose snapshot has a set field of two or more
  Boots,          \* what a process start fixes: policy version, seed, risks
  MaxRevocations, \* bound: how often one grant is revoked
  None            \* "no value"

RiskLevels == {"low", "medium", "high", "critical"}

RiskOrder == [k \in RiskLevels |->
  IF k = "low" THEN 0 ELSE IF k = "medium" THEN 1 ELSE IF k = "high" THEN 2 ELSE 3]

Choices == {"approve", "deny"}

\* A process start: the configured policy version, the string-hash seed that
\* orders set-valued fields, and the risk each operator is registered with.
ASSUME ApprovalConstants ==
  /\ Requester \in [Requests -> Subjects]
  /\ Explicit \subseteq Requests
  /\ Unordered \subseteq Subjects
  /\ Owner \in [Grants -> Subjects]
  /\ Scope \in [Grants -> SUBSET Requests]
  /\ MaxRisk \in [Grants -> RiskLevels]
  /\ \A b \in Boots : DOMAIN b = {"policy", "seed", "risk"}
                      /\ b.risk \in [Requests -> RiskLevels]
  /\ IsFiniteSet(Subjects)
  /\ MaxRevocations \in Nat

VARIABLES
  request,   \* approval_requests: status, and policy and risk at creation
  expired,   \* requests past their expires_at
  approvals, \* approvals: the recorded decisions of each request
  stage,     \* grants: 0 absent, 1 added, k+1 revoked k times
  lapsed,    \* grants past their expires_at
  claimed,   \* used_nonces
  boot,      \* the running process: an element of Boots
  call,      \* per caller: the decide call it is in
  check      \* the verifier thread inside satisfied

vars == <<request, expired, approvals, stage, lapsed, claimed, boot, call, check>>

-----------------------------------------------------------------------------
(* What the ledger and the registry say. *)

\* ApprovalService.required_count
RequiredCount(risk, explicit) ==
  IF risk = "critical" THEN 2 ELSE IF risk = "high" \/ explicit THEN 1 ELSE 0

\* required_approvals of a stored request: fixed when it was created.
Needed(r) == RequiredCount(request[r].risk, r \in Explicit)

\* IdentityService.snapshot, up to what its digest tells apart: every grant the
\* subject owns with its revocation stamp, the policy version, and the order in
\* which the process happens to iterate the snapshot's sets.
Owned(a) == {g \in Grants : Owner[g] = a}

Snapshot(a) ==
  [grants |-> [g \in Owned(a) |-> stage[g]],
   policy |-> boot.policy,
   order  |-> IF a \in Unordered THEN boot.seed ELSE None]

\* ApprovalGrant.permits, for some approval grant of the snapshot
Permits(snap, r) ==
  \E g \in DOMAIN snap.grants :
    /\ snap.grants[g] = 1
    /\ g \notin lapsed
    /\ r \in Scope[g]
    /\ RiskOrder[request[r].risk] <= RiskOrder[MaxRisk[g]]

Approvers(decisions) == {d.approver : d \in decisions}

\* Mutant of Tally: enough approvals outweigh a denial.
TallyApprovalsFirst(r) ==
  IF Cardinality(Approvers({d \in approvals[r] : d.choice = "approve"})) >= Needed(r)
  THEN "approved"
  ELSE IF \E d \in approvals[r] : d.choice = "deny" THEN "denied" ELSE "pending"

\* The status decide computes from the recorded decisions of request r.
Tally(r) ==
  IF \E d \in approvals[r] : d.choice = "deny" THEN "denied"
  ELSE IF Cardinality(Approvers(approvals[r])) >= Needed(r) THEN "approved"
  ELSE "pending"

\* Mutant of Current: authority is checked afresh, the snapshot digest is not.
CurrentWithoutDigest(r, d) ==
  d.choice = "approve" /\ Permits(Snapshot(d.approver), r)

\* ApprovalService.satisfied, evaluated at one instant.
Current(r, d) ==
  d.choice = "approve" /\ d.snap = Snapshot(d.approver) /\ Permits(d.snap, r)

Live(r) ==
  request[r].status = "approved" /\ r \notin expired /\ request[r].policy = boot.policy

\* Those whose recorded approval of r still stands.
Standing(r) == Approvers({d \in approvals[r] : Current(r, d)})

Satisfied(r) == Live(r) /\ Cardinality(Standing(r)) >= Needed(r)

-----------------------------------------------------------------------------
(* The values the variables range over. *)

Statuses == {"none", "pending", "approved", "denied"}
Policies == {b.policy : b \in Boots}
Seeds == {b.seed : b \in Boots}

Snapshots == UNION {
  [grants : [Owned(a) -> 0 .. MaxRevocations + 1], policy : Policies, order : Seeds \cup {None}]
    : a \in Subjects}

Decisions == [approver : Subjects, choice : Choices, snap : Snapshots]

NoRequest == [status |-> "none", policy |-> None, risk |-> None]

NoCall == [pc |-> "idle", req |-> None, actor |-> None, choice |-> None,
           seen |-> None, snap |-> None, verdict |-> None]

NoCheck == [pc |-> "idle", req |-> None, seen |-> FALSE, todo |-> {}, valid |-> {},
            verdict |-> FALSE, witness |-> {}]

Init ==
  /\ request = [r \in Requests |-> NoRequest]
  /\ expired = {}
  /\ approvals = [r \in Requests |-> {}]
  /\ stage \in [Grants -> {0, 1}]
  /\ lapsed = {}
  /\ claimed = {}
  /\ boot \in Boots
  /\ call = [c \in Callers |-> NoCall]
  /\ check = NoCheck

-----------------------------------------------------------------------------
\* Mutant of EnsureRequest: a denied request is asked for again.
EnsureRequestAgain(r) ==
  /\ request[r].status \in {"none", "denied"}
  /\ RequiredCount(boot.risk[r], r \in Explicit) > 0
  /\ request' = [request EXCEPT ![r] =
       [status |-> "pending", policy |-> boot.policy, risk |-> boot.risk[r]]]
  /\ UNCHANGED <<expired, approvals, stage, lapsed, claimed, boot, call, check>>

(* ApprovalService.ensure_request: a stored request is returned as it is. *)

EnsureRequest(r) ==
  /\ request[r].status = "none"
  /\ RequiredCount(boot.risk[r], r \in Explicit) > 0
  /\ request' = [request EXCEPT ![r] =
       [status |-> "pending", policy |-> boot.policy, risk |-> boot.risk[r]]]
  /\ UNCHANGED <<expired, approvals, stage, lapsed, claimed, boot, call, check>>

(* ApprovalService.decide, one action for each of its reads and transactions. *)

DecideBegin(c, r, a, choice) ==
  /\ call[c].pc = "idle"
  /\ request[r].status # "none"
  /\ call' = [call EXCEPT ![c] = [NoCall EXCEPT
       !.pc = "begun", !.req = r, !.actor = a, !.choice = choice, !.seen = request[r].status]]
  /\ UNCHANGED <<request, expired, approvals, stage, lapsed, claimed, boot, check>>

\* The signature is accepted: the nonce is used up and the identity is read.
Authenticate(c, n) ==
  /\ call[c].pc = "begun"
  /\ n \notin claimed
  /\ claimed' = claimed \cup {n}
  /\ call' = [call EXCEPT ![c].pc = "vetted", ![c].snap = Snapshot(call[c].actor)]
  /\ UNCHANGED <<request, expired, approvals, stage, lapsed, boot, check>>

\* Mutant of Admissible: the request need not be pending.
AdmissibleAnyStatus(c) ==
  LET r == call[c].req IN
  /\ r \notin expired
  /\ request[r].policy = boot.policy
  /\ call[c].actor # Requester[r]
  /\ Permits(call[c].snap, r)

\* Mutant of Admissible: the requester may approve.
AdmissibleSelf(c) ==
  LET r == call[c].req IN
  /\ r \notin expired
  /\ request[r].policy = boot.policy
  /\ call[c].seen = "pending"
  /\ Permits(call[c].snap, r)

\* The conditions between authentication and the insert.  Only two readings of the
\* clock are not of data the call holds already; a request that expires between
\* them counts as one that expires after both.
Admissible(c) ==
  LET r == call[c].req IN
  /\ r \notin expired
  /\ request[r].policy = boot.policy
  /\ call[c].seen = "pending"
  /\ call[c].actor # Requester[r]
  /\ Permits(call[c].snap, r)

Vet(c) ==
  /\ call[c].pc = "vetted"
  /\ Admissible(c)
  /\ call' = [call EXCEPT ![c].pc = "checked"]
  /\ UNCHANGED <<request, expired, approvals, stage, lapsed, claimed, boot, check>>

\* UNIQUE(request_id, approver_id)
HasDecided(c) == call[c].actor \in Approvers(approvals[call[c].req])

\* The insert waits for the database's lock and looks at no condition again: by
\* then the request may have expired, or the grant be gone.
SaveApproval(c) ==
  /\ call[c].pc = "checked"
  /\ ~HasDecided(c)
  /\ approvals' = [approvals EXCEPT ![call[c].req] = @ \cup
       {[approver |-> call[c].actor, choice |-> call[c].choice, snap |-> call[c].snap]}]
  /\ call' = [call EXCEPT ![c].pc = "saved"]
  /\ UNCHANGED <<request, expired, stage, lapsed, claimed, boot, check>>

\* A refused call raises.  Before authentication nothing was written (a replayed
\* nonce ends here); after it the nonce stays used.
Reject(c) ==
  /\ \/ call[c].pc = "begun"
     \/ call[c].pc = "vetted" /\ ~Admissible(c)
     \/ call[c].pc = "checked" /\ HasDecided(c)
  /\ call' = [call EXCEPT ![c] = NoCall]
  /\ UNCHANGED <<request, expired, approvals, stage, lapsed, claimed, boot, check>>

ReadTally(c) ==
  /\ call[c].pc = "saved"
  /\ call' = [call EXCEPT ![c].pc = "tallied", ![c].verdict = Tally(call[c].req)]
  /\ UNCHANGED <<request, expired, approvals, stage, lapsed, claimed, boot, check>>

Publish(c) ==
  /\ call[c].pc = "tallied"
  /\ request' = [request EXCEPT ![call[c].req].status = call[c].verdict]
  /\ call' = [call EXCEPT ![c] = NoCall]
  /\ UNCHANGED <<expired, approvals, stage, lapsed, claimed, boot, check>>

-----------------------------------------------------------------------------
(* Grants.  Revoking one again moves its revoked_at once more. *)

AddGrant(g) ==
  /\ stage[g] = 0
  /\ stage' = [stage EXCEPT ![g] = 1]
  /\ UNCHANGED <<request, expired, approvals, lapsed, claimed, boot, call, check>>

RevokeGrant(g) ==
  /\ stage[g] \in 1 .. MaxRevocations
  /\ stage' = [stage EXCEPT ![g] = @ + 1]
  /\ UNCHANGED <<request, expired, approvals, lapsed, claimed, boot, call, check>>

(* Time. *)

GrantLapses(g) ==
  /\ g \notin lapsed
  /\ lapsed' = lapsed \cup {g}
  /\ UNCHANGED <<request, expired, approvals, stage, claimed, boot, call, check>>

RequestExpires(r) ==
  /\ request[r].status # "none"
  /\ r \notin expired
  /\ expired' = expired \cup {r}
  /\ UNCHANGED <<request, approvals, stage, lapsed, claimed, boot, call, check>>

(* The process stops, inside any call, and starts again. *)

Restart(b) ==
  /\ boot' = b
  /\ call' = [c \in Callers |-> NoCall]
  /\ check' = NoCheck
  /\ UNCHANGED <<request, expired, approvals, stage, lapsed, claimed>>

-----------------------------------------------------------------------------
(* ApprovalService.satisfied on the verifier's thread.  "witness" is no      *)
(* variable of the code: whose approval stood when the request row was read. *)

CheckBegin(r) ==
  /\ check.pc = "idle"
  /\ request[r].status # "none"
  /\ check' = [NoCheck EXCEPT
       !.pc = "read", !.req = r, !.seen = Live(r), !.witness = Standing(r)]
  /\ UNCHANGED <<request, expired, approvals, stage, lapsed, claimed, boot, call>>

CheckDecisions ==
  /\ check.pc = "read"
  /\ check' = IF check.seen
       THEN [check EXCEPT !.pc = "scan", !.todo = approvals[check.req]]
       ELSE NoCheck
  /\ UNCHANGED <<request, expired, approvals, stage, lapsed, claimed, boot, call>>

\* Mutant of CheckApprover: any authority the approver has by now will do.
CheckApproverNow(d) ==
  /\ check.pc = "scan"
  /\ d \in check.todo
  /\ check' = [check EXCEPT
       !.todo = @ \ {d},
       !.valid = IF d.choice = "approve" /\ Permits(Snapshot(d.approver), check.req)
                 THEN @ \cup {d.approver} ELSE @]
  /\ UNCHANGED <<request, expired, approvals, stage, lapsed, claimed, boot, call>>

\* One turn of the loop: the approver's snapshot is read afresh.
CheckApprover(d) ==
  /\ check.pc = "scan"
  /\ d \in check.todo
  /\ check' = [check EXCEPT
       !.todo = @ \ {d},
       !.valid = IF Current(check.req, d) THEN @ \cup {d.approver} ELSE @]
  /\ UNCHANGED <<request, expired, approvals, stage, lapsed, claimed, boot, call>>

CheckDone ==
  /\ check.pc = "scan"
  /\ check.todo = {}
  /\ check' = [check EXCEPT
       !.pc = "done", !.verdict = Cardinality(check.valid) >= Needed(check.req)]
  /\ UNCHANGED <<request, expired, approvals, stage, lapsed, claimed, boot, call>>

CheckReturn ==
  /\ check.pc = "done"
  /\ check' = NoCheck
  /\ UNCHANGED <<request, expired, approvals, stage, lapsed, claimed, boot, call>>

-----------------------------------------------------------------------------
Decide(c) ==
  \/ \E r \in Requests, a \in Subjects, choice \in Choices : DecideBegin(c, r, a, choice)
  \/ \E n \in Nonces : Authenticate(c, n)
  \/ Vet(c)
  \/ SaveApproval(c)
  \/ Reject(c)
  \/ ReadTally(c)
  \/ Publish(c)

Check ==
  \/ \E r \in Requests : CheckBegin(r)
  \/ CheckDecisions
  \/ \E d \in check.todo : CheckApprover(d)
  \/ CheckDone
  \/ CheckReturn

Next ==
  \/ \E r \in Requests : EnsureRequest(r) \/ RequestExpires(r)
  \/ \E c \in Callers : Decide(c)
  \/ \E g \in Grants : AddGrant(g) \/ RevokeGrant(g) \/ GrantLapses(g)
  \/ \E b \in Boots : Restart(b)
  \/ Check

Spec == Init /\ [][Next]_vars

-----------------------------------------------------------------------------
(* Properties. *)

CallType ==
  [pc : {"idle", "begun", "vetted", "checked", "saved", "tallied"}, req : Requests \cup {None},
   actor : Subjects \cup {None}, choice : Choices \cup {None}, seen : Statuses \cup {None},
   snap : Snapshots \cup {None}, verdict : Statuses \cup {None}]

CheckType ==
  [pc : {"idle", "read", "scan", "done"}, req : Requests \cup {None}, seen : BOOLEAN,
   todo : SUBSET Decisions, valid : SUBSET Subjects, verdict : BOOLEAN,
   witness : SUBSET Subjects]

\* A call holds what the steps it has taken have read.
WellFormed(k) ==
  /\ k.pc # "idle" => /\ k.req \in Requests /\ k.actor \in Subjects /\ k.choice \in Choices
  /\ k.pc \in {"vetted", "checked", "saved", "tallied"} => k.snap \in Snapshots
  /\ k.pc = "tallied" => k.verdict \in Statuses

\* Every variable has its type.
TypeOK ==
  /\ request \in [Requests ->
       [status : Statuses, policy : Policies \cup {None}, risk : RiskLevels \cup {None}]]
  /\ expired \subseteq Requests
  /\ approvals \in [Requests -> SUBSET Decisions]
  /\ stage \in [Grants -> 0 .. MaxRevocations + 1]
  /\ lapsed \subseteq Grants
  /\ claimed \subseteq Nonces
  /\ boot \in Boots
  /\ call \in [Callers -> CallType]
  /\ \A c \in Callers : WellFormed(call[c])
  /\ check \in CheckType
  /\ check.pc # "idle" => check.req \in Requests

\* A published verdict is the one the recorded decisions justify: decide reads,
\* inserts, reads again and overwrites the request row in separate steps, and a
\* crash may stop it at any of them (identity.py:190-238).
StatusMatchesLedger ==
  \A r \in Requests :
    request[r].status \in {"approved", "denied"} => request[r].status = Tally(r)

\* Once a denial is recorded, whether or not the call that recorded it lived to
\* publish the status, the verifier is never satisfied.
DenialBlocks ==
  \A r \in Requests : (\E d \in approvals[r] : d.choice = "deny") => ~Satisfied(r)

\* "A denial is terminal": a request published as denied is never anything else.
DenialIsTerminal ==
  [][\A r \in Requests :
       request[r].status = "denied" => request'[r].status = "denied"]_vars

\* Whenever the verifier would be satisfied, as many people as the request needs,
\* none of them the requester, have approved while holding a grant that covers the
\* step, the very grant they hold to this day: authority revoked since and issued
\* anew, or got only after the approval, does not count.
Backed(r, d) ==
  /\ d.choice = "approve"
  /\ d.approver # Requester[r]
  /\ \E g \in Owned(d.approver) :
       /\ d.snap.grants[g] = 1 /\ stage[g] = 1 /\ g \notin lapsed
       /\ r \in Scope[g]
       /\ RiskOrder[request[r].risk] <= RiskOrder[MaxRisk[g]]

SeparationOfDuties ==
  \A r \in Requests : Satisfied(r) =>
    Cardinality(Approvers({d \in approvals[r] : Backed(r, d)})) >= Needed(r)

\* satisfied answers yes only about an approval that stood at one instant of the
\* call, although it reads the request, the decisions and each approver's grants
\* at different times while grants are added, revoked and decided on.
VerdictHeldWhenRead ==
  check.pc = "done" /\ check.verdict =>
    check.seen /\ Cardinality(check.witness) >= Needed(check.req)

\* While a process runs, an approval that was withdrawn (a grant revoked, lapsed
\* or merely added, the request expired) never comes back by itself: restoring
\* authority does not revive old decisions.
Withdrawn(r) == request[r].status = "approved" /\ ~Satisfied(r)

WithdrawnStaysWithdrawn ==
  [][boot' = boot => \A r \in Requests : Withdrawn(r) => ~Satisfied(r)']_vars

\* What a digest "is order independent" (tests/test_authority.py:99) promises an
\* approver: starting the same deployment again leaves a valid approval valid.
RestartKeepsApprovals ==
  [][/\ boot'.policy = boot.policy
     /\ boot'.risk = boot.risk
     /\ UNCHANGED <<request, expired, approvals, stage, lapsed>>
     => \A r \in Requests : Satisfied(r) => Satisfied(r)']_vars

\* "Critical steps require two distinct approvers": a step whose operator is
\* critical in the registry that will run it is not satisfied by one approver.
CriticalNeedsTwo ==
  \A r \in Requests : boot.risk[r] = "critical" /\ Satisfied(r) =>
    Cardinality({d.approver : d \in {e \in approvals[r] : e.choice = "approve"}}) >= 2
=============================================================================
