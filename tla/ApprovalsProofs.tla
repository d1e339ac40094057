-------------------------- MODULE ApprovalsProofs --------------------------
(***************************************************************************)
(* Theorems about Approvals, for every plan, set of people, set of grants  *)
(* and sequence of process starts.  The theorems that need it say that     *)
(* decide has one caller at a time; MCApprovals has the run that shows     *)
(* what happens with two.                                                  *)
(***************************************************************************)
EXTENDS ApprovalsRefinement, TLAPS, FiniteSetTheorems

\* What identity.py reads of a subject is a snapshot.
LEMMA SnapshotType ==
  ASSUME TypeOK, NEW a \in Subjects
  PROVE  Snapshot(a) \in Snapshots
<1>1. [g \in Owned(a) |-> stage[g]] \in [Owned(a) -> 0 .. MaxRevocations + 1]
  BY DEF TypeOK, Owned
<1>2. boot.policy \in Policies /\ boot.seed \in Seeds
  BY DEF TypeOK, Policies, Seeds
<1> QED
  BY <1>1, <1>2 DEF Snapshot, Snapshots

LEMMA TallyType == \A r : Tally(r) \in {"pending", "approved", "denied"}
  BY DEF Tally

LEMMA InitType == Init => TypeOK
<1> SUFFICES ASSUME Init PROVE TypeOK
  OBVIOUS
<1>1. stage \in [Grants -> 0 .. MaxRevocations + 1]
  BY ApprovalConstants DEF Init
<1>2. NoCall \in CallType /\ WellFormed(NoCall)
  BY DEF NoCall, CallType, WellFormed
<1>3. check \in CheckType /\ check.pc = "idle"
  BY DEF Init, NoCheck, CheckType
<1> QED
  BY <1>1, <1>2, <1>3 DEF Init, TypeOK, NoRequest, Statuses

\* A step of decide: the caller's record stays well formed.
LEMMA DecideType ==
  ASSUME TypeOK, NEW c \in Callers, Decide(c)
  PROVE  TypeOK'
<1> USE DEF TypeOK
<1>1. call[c] \in CallType /\ WellFormed(call[c])
  OBVIOUS
<1>2. NoCall \in CallType /\ WellFormed(NoCall)
  BY DEF NoCall, CallType, WellFormed
<1>3. ASSUME NEW k \in CallType, WellFormed(k), call' = [call EXCEPT ![c] = k]
      PROVE  call' \in [Callers -> CallType] /\ \A d \in Callers : WellFormed(call'[d])
  BY <1>3
<1>4. ASSUME NEW r \in Requests, NEW a \in Subjects, NEW choice \in Choices,
             DecideBegin(c, r, a, choice)
      PROVE  TypeOK'
  <2> DEFINE k == [NoCall EXCEPT
       !.pc = "begun", !.req = r, !.actor = a, !.choice = choice, !.seen = request[r].status]
  <2>1. k \in CallType /\ WellFormed(k)
    BY DEF CallType, NoCall, WellFormed
  <2>2. call' = [call EXCEPT ![c] = k]
    BY <1>4 DEF DecideBegin
  <2> HIDE DEF k
  <2>3. call' \in [Callers -> CallType] /\ \A d \in Callers : WellFormed(call'[d])
    BY <2>1, <2>2, <1>3
  <2> QED
    BY <1>4, <2>3 DEF DecideBegin
<1>5. ASSUME NEW n \in Nonces, Authenticate(c, n) PROVE TypeOK'
  <2> DEFINE k == [call[c] EXCEPT !.pc = "vetted", !.snap = Snapshot(call[c].actor)]
  <2>1. call[c].actor \in Subjects
    BY <1>1, <1>5 DEF Authenticate, WellFormed
  <2>2. Snapshot(call[c].actor) \in Snapshots
    BY <2>1, SnapshotType
  <2>3. k \in CallType /\ WellFormed(k)
    BY <1>1, <1>5, <2>2 DEF CallType, Authenticate, WellFormed
  <2>4. call' = [call EXCEPT ![c] = k]
    BY <1>5 DEF Authenticate
  <2> HIDE DEF k
  <2>5. call' \in [Callers -> CallType] /\ \A d \in Callers : WellFormed(call'[d])
    BY <2>3, <2>4, <1>3
  <2> QED
    BY <1>5, <2>5 DEF Authenticate
<1>10. ASSUME Vet(c) PROVE TypeOK'
  <2> DEFINE k == [call[c] EXCEPT !.pc = "checked"]
  <2>1. k \in CallType /\ WellFormed(k)
    BY <1>1, <1>10 DEF CallType, Vet, WellFormed
  <2>2. call' = [call EXCEPT ![c] = k]
    BY <1>10 DEF Vet
  <2> HIDE DEF k
  <2>3. call' \in [Callers -> CallType] /\ \A d \in Callers : WellFormed(call'[d])
    BY <2>1, <2>2, <1>3
  <2> QED
    BY <1>10, <2>3 DEF Vet
<1>6. ASSUME SaveApproval(c) PROVE TypeOK'
  <2> DEFINE k == [call[c] EXCEPT !.pc = "saved"]
             d == [approver |-> call[c].actor, choice |-> call[c].choice, snap |-> call[c].snap]
  <2>1. k \in CallType /\ WellFormed(k)
    BY <1>1, <1>6 DEF CallType, SaveApproval, WellFormed
  <2>2. d \in Decisions /\ call[c].req \in Requests
    BY <1>1, <1>6 DEF SaveApproval, WellFormed, Decisions
  <2>3. call' = [call EXCEPT ![c] = k]
    BY <1>6 DEF SaveApproval
  <2>4. approvals' = [approvals EXCEPT ![call[c].req] = @ \cup {d}]
    BY <1>6 DEF SaveApproval
  <2> HIDE DEF k, d
  <2>5. call' \in [Callers -> CallType] /\ \A e \in Callers : WellFormed(call'[e])
    BY <2>1, <2>3, <1>3
  <2>6. approvals' \in [Requests -> SUBSET Decisions]
    BY <2>2, <2>4
  <2> QED
    BY <1>6, <2>5, <2>6 DEF SaveApproval
<1>7. ASSUME Reject(c) PROVE TypeOK'
  <2>1. call' \in [Callers -> CallType] /\ \A d \in Callers : WellFormed(call'[d])
    BY <1>2, <1>3, <1>7 DEF Reject
  <2> QED
    BY <1>7, <2>1 DEF Reject
<1>8. ASSUME ReadTally(c) PROVE TypeOK'
  <2> DEFINE k == [call[c] EXCEPT !.pc = "tallied", !.verdict = Tally(call[c].req)]
  <2>1. Tally(call[c].req) \in Statuses
    BY TallyType DEF Statuses
  <2>2. k \in CallType /\ WellFormed(k)
    BY <1>1, <1>8, <2>1 DEF CallType, ReadTally, WellFormed
  <2>3. call' = [call EXCEPT ![c] = k]
    BY <1>8 DEF ReadTally
  <2> HIDE DEF k
  <2>4. call' \in [Callers -> CallType] /\ \A d \in Callers : WellFormed(call'[d])
    BY <2>2, <2>3, <1>3
  <2> QED
    BY <1>8, <2>4 DEF ReadTally
<1>9. ASSUME Publish(c) PROVE TypeOK'
  <2>1. call[c].req \in Requests /\ call[c].verdict \in Statuses
    BY <1>1, <1>9 DEF Publish, WellFormed
  <2>2. call' \in [Callers -> CallType] /\ \A d \in Callers : WellFormed(call'[d])
    BY <1>2, <1>3, <1>9 DEF Publish
  <2> QED
    BY <1>9, <2>1, <2>2 DEF Publish
<1> QED
  BY <1>4, <1>5, <1>6, <1>7, <1>8, <1>9, <1>10 DEF Decide

\* A step of the verifier's scan.
LEMMA CheckStepType ==
  ASSUME TypeOK, Check
  PROVE  TypeOK'
<1> USE DEF TypeOK
<1>1. NoCheck \in CheckType /\ NoCheck.pc = "idle"
  BY DEF NoCheck, CheckType
<1>2. SUFFICES check' \in CheckType /\ (check'.pc # "idle" => check'.req \in Requests)
  BY DEF Check, CheckBegin, CheckDecisions, CheckApprover, CheckDone, CheckReturn
<1>3. ASSUME NEW r \in Requests, CheckBegin(r) PROVE <1>2!1
  <2>1. Standing(r) \subseteq Subjects
    BY DEF Standing, Approvers, Decisions
  <2>2. Live(r) \in BOOLEAN
    BY DEF Live
  <2> QED
    BY <1>3, <2>1, <2>2 DEF CheckBegin, NoCheck, CheckType
<1>4. ASSUME CheckDecisions PROVE <1>2!1
  BY <1>1, <1>4 DEF CheckDecisions, CheckType
<1>5. ASSUME NEW d \in check.todo, CheckApprover(d) PROVE <1>2!1
  <2>1. d \in Decisions
    BY DEF CheckType
  <2> QED
    BY <1>5, <2>1 DEF CheckApprover, CheckType, Decisions
<1>6. ASSUME CheckDone PROVE <1>2!1
  <2> DEFINE enough == Cardinality(check.valid) >= Needed(check.req)
  <2>1. enough \in BOOLEAN
    OBVIOUS
  <2>2. check' = [check EXCEPT !.pc = "done", !.verdict = enough]
    BY <1>6 DEF CheckDone
  <2> HIDE DEF enough
  <2> QED
    BY <1>6, <2>1, <2>2 DEF CheckDone, CheckType
<1>7. ASSUME CheckReturn PROVE <1>2!1
  BY <1>1, <1>7 DEF CheckReturn
<1> QED
  BY <1>3, <1>4, <1>5, <1>6, <1>7 DEF Check

LEMMA NextType == TypeOK /\ [Next]_vars => TypeOK'
<1> SUFFICES ASSUME TypeOK, [Next]_vars PROVE TypeOK'
  OBVIOUS
<1>1. ASSUME NEW r \in Requests, EnsureRequest(r) PROVE TypeOK'
  <2>1. boot.policy \in Policies /\ boot.risk[r] \in RiskLevels
    BY ApprovalConstants DEF TypeOK, Policies
  <2>2. request' \in [Requests ->
       [status : Statuses, policy : Policies \cup {None}, risk : RiskLevels \cup {None}]]
    BY <1>1, <2>1 DEF EnsureRequest, TypeOK, Statuses
  <2> QED
    BY <1>1, <2>2 DEF EnsureRequest, TypeOK
<1>2. ASSUME NEW r \in Requests, RequestExpires(r) PROVE TypeOK'
  BY <1>2 DEF RequestExpires, TypeOK
<1>3. ASSUME NEW c \in Callers, Decide(c) PROVE TypeOK'
  BY <1>3, DecideType
<1>4. ASSUME NEW g \in Grants, AddGrant(g) \/ RevokeGrant(g) PROVE TypeOK'
  <2>1. stage' \in [Grants -> 0 .. MaxRevocations + 1]
    BY <1>4, ApprovalConstants DEF AddGrant, RevokeGrant, TypeOK
  <2> QED
    BY <1>4, <2>1 DEF AddGrant, RevokeGrant, TypeOK
<1>5. ASSUME NEW g \in Grants, GrantLapses(g) PROVE TypeOK'
  BY <1>5 DEF GrantLapses, TypeOK
<1>6. ASSUME NEW b \in Boots, Restart(b) PROVE TypeOK'
  <2>1. NoCall \in CallType /\ WellFormed(NoCall)
    BY DEF NoCall, CallType, WellFormed
  <2>2. NoCheck \in CheckType /\ NoCheck.pc = "idle"
    BY DEF NoCheck, CheckType
  <2> QED
    BY <1>6, <2>1, <2>2 DEF Restart, TypeOK
<1>7. ASSUME Check PROVE TypeOK'
  BY <1>7, CheckStepType
<1>8. ASSUME UNCHANGED vars PROVE TypeOK'
  BY <1>8 DEF vars, TypeOK
<1> QED
  BY <1>1, <1>2, <1>3, <1>4, <1>5, <1>6, <1>7, <1>8 DEF Next

\* Every variable keeps its type, in every reachable state.
THEOREM TypeCorrect == Spec => []TypeOK
  BY InitType, NextType, PTL DEF Spec

-----------------------------------------------------------------------------
(* One caller at a time.                                                     *)
(*                                                                           *)
(* StatusMatchesLedger is not inductive: it says nothing of the verdict a    *)
(* call is about to publish.  What makes it so is that the row a call read   *)
(* first is still the row when it writes: nobody else is inside decide.      *)

\* What a call in flight knows of the request it is deciding.
CallFresh(c) ==
  LET k == call[c] IN
  /\ k.pc \in {"begun", "vetted"} =>
       k.seen = request[k.req].status /\ k.seen # "none"
  /\ k.pc \in {"checked", "saved", "tallied"} => request[k.req].status = "pending"
  /\ k.pc = "tallied" => k.verdict = Tally(k.req)

LedgerInv == StatusMatchesLedger /\ \A c \in Callers : CallFresh(c)

LEMMA LedgerInit == Init => LedgerInv
  BY DEF Init, LedgerInv, StatusMatchesLedger, CallFresh, NoCall, NoRequest

\* Tally looks at the decisions and at the risk the request was created with.
LEMMA TallyFrame ==
  ASSUME NEW r, approvals'[r] = approvals[r], request'[r].risk = request[r].risk
  PROVE  Tally(r)' = Tally(r)
  BY DEF Tally, Needed, Approvers

LEMMA LedgerNext ==
  ASSUME \A c, d \in Callers : c = d, TypeOK, LedgerInv, [Next]_vars
  PROVE  LedgerInv'
<1> DEFINE Frame == UNCHANGED <<request, approvals>>
<1>1. ASSUME Frame PROVE StatusMatchesLedger'
  BY <1>1, TallyFrame DEF LedgerInv, StatusMatchesLedger
<1>2. ASSUME Frame, NEW c \in Callers, call'[c] = call[c] PROVE CallFresh(c)'
  <2>1. Tally(call[c].req)' = Tally(call[c].req)'
    OBVIOUS
  <2>2. \A r : Tally(r)' = Tally(r)
    BY <1>2, TallyFrame
  <2> QED
    BY <1>2, <2>2 DEF LedgerInv, CallFresh
<1>3. ASSUME NEW c \in Callers, call'[c] = NoCall PROVE CallFresh(c)'
  BY <1>3 DEF CallFresh, NoCall
<1>4. ASSUME NEW r \in Requests, EnsureRequest(r) PROVE LedgerInv'
  <2>1. \A q \in Requests \ {r} : request'[q] = request[q]
    BY <1>4 DEF EnsureRequest, TypeOK
  <2>2. request'[r].status = "pending"
    BY <1>4 DEF EnsureRequest, TypeOK
  <2>3. \A q \in Requests \ {r} : Tally(q)' = Tally(q)
    BY <1>4, <2>1, TallyFrame DEF EnsureRequest
  <2>4. StatusMatchesLedger'
    BY <2>1, <2>2, <2>3 DEF LedgerInv, StatusMatchesLedger
  <2>5. ASSUME NEW c \in Callers PROVE CallFresh(c)'
    <3>1. call'[c] = call[c]
      BY <1>4 DEF EnsureRequest
    <3>2. CASE call[c].pc = "idle"
      BY <3>1, <3>2 DEF CallFresh
    <3>3. CASE call[c].pc # "idle"
      <4>1. call[c].req \in Requests \ {r}
        BY <1>4, <3>3 DEF EnsureRequest, LedgerInv, CallFresh, TypeOK, WellFormed, CallType
      <4> QED
        BY <3>1, <4>1, <2>1, <2>3 DEF LedgerInv, CallFresh
    <3> QED
      BY <3>2, <3>3
  <2> QED
    BY <2>4, <2>5 DEF LedgerInv
<1>5. ASSUME NEW c \in Callers, Decide(c) PROVE LedgerInv'
  <2>1. \A d \in Callers : d = c
    OBVIOUS
  <2>2. WellFormed(call[c]) /\ call[c] \in CallType /\ CallFresh(c)
    BY DEF TypeOK, LedgerInv
  <2>3. SUFFICES StatusMatchesLedger' /\ CallFresh(c)'
    BY <2>1 DEF LedgerInv
  <2>4. ASSUME NEW r \in Requests, NEW a \in Subjects, NEW choice \in Choices,
               DecideBegin(c, r, a, choice)
        PROVE  <2>3!1
    <3>1. call'[c].pc = "begun" /\ call'[c].req = r /\ call'[c].seen = request[r].status
      BY <2>4 DEF DecideBegin, NoCall, TypeOK
    <3>2. CallFresh(c)'
      BY <2>4, <3>1 DEF DecideBegin, CallFresh
    <3> QED
      BY <2>4, <3>2, <1>1 DEF DecideBegin
  <2>5. ASSUME NEW n \in Nonces, Authenticate(c, n) PROVE <2>3!1
    <3>1. /\ call'[c].pc = "vetted"
          /\ call'[c].req = call[c].req /\ call'[c].seen = call[c].seen
      BY <2>2, <2>5 DEF Authenticate, TypeOK, CallType
    <3>2. CallFresh(c)'
      BY <2>2, <2>5, <3>1 DEF Authenticate, CallFresh
    <3> QED
      BY <2>5, <3>2, <1>1 DEF Authenticate
  <2>10. ASSUME Vet(c) PROVE <2>3!1
    <3>1. call'[c].pc = "checked" /\ call'[c].req = call[c].req
      BY <2>2, <2>10 DEF Vet, TypeOK, CallType
    <3>2. CallFresh(c)'
      BY <2>2, <2>10, <3>1 DEF Vet, Admissible, CallFresh
    <3> QED
      BY <2>10, <3>2, <1>1 DEF Vet
  <2>6. ASSUME SaveApproval(c) PROVE <2>3!1
    <3>1. call'[c].pc = "saved" /\ call'[c].req = call[c].req
      BY <2>2, <2>6 DEF SaveApproval, TypeOK, CallType
    <3>2. call[c].req \in Requests /\ request[call[c].req].status = "pending"
      BY <2>2, <2>6 DEF SaveApproval, CallFresh, WellFormed
    <3>3. CallFresh(c)'
      BY <2>6, <3>1, <3>2 DEF SaveApproval, CallFresh
    <3>4. \A r \in Requests \ {call[c].req} : Tally(r)' = Tally(r)
      BY <2>6, TallyFrame DEF SaveApproval, TypeOK
    <3>5. StatusMatchesLedger'
      BY <2>6, <3>2, <3>4 DEF SaveApproval, LedgerInv, StatusMatchesLedger
    <3> QED
      BY <3>3, <3>5
  <2>7. ASSUME Reject(c) PROVE <2>3!1
    <3>1. call'[c] = NoCall
      BY <2>7 DEF Reject, TypeOK
    <3> QED
      BY <2>7, <3>1, <1>1, <1>3 DEF Reject
  <2>8. ASSUME ReadTally(c) PROVE <2>3!1
    <3>1. /\ call'[c].pc = "tallied" /\ call'[c].req = call[c].req
          /\ call'[c].verdict = Tally(call[c].req)
      BY <2>2, <2>8 DEF ReadTally, TypeOK, CallType
    <3>2. \A r : Tally(r)' = Tally(r)
      BY <2>8, TallyFrame DEF ReadTally
    <3>3. CallFresh(c)'
      BY <2>2, <2>8, <3>1, <3>2 DEF ReadTally, CallFresh
    <3> QED
      BY <2>8, <3>3, <1>1 DEF ReadTally
  <2>9. ASSUME Publish(c) PROVE <2>3!1
    <3>1. call'[c] = NoCall
      BY <2>9 DEF Publish, TypeOK
    <3>2. call[c].req \in Requests /\ call[c].verdict = Tally(call[c].req)
      BY <2>2, <2>9 DEF Publish, WellFormed, CallFresh
    <3>3. /\ request'[call[c].req].status = call[c].verdict
          /\ \A r \in Requests : request'[r].risk = request[r].risk
          /\ \A r \in Requests \ {call[c].req} : request'[r] = request[r]
      BY <2>9, <3>2 DEF Publish, TypeOK
    <3>4. \A r \in Requests : Tally(r)' = Tally(r)
      BY <2>9, <3>3, TallyFrame DEF Publish
    <3>5. StatusMatchesLedger'
      BY <3>2, <3>3, <3>4 DEF LedgerInv, StatusMatchesLedger
    <3> QED
      BY <3>1, <3>5, <1>3
  <2> QED
    BY <1>5, <2>4, <2>5, <2>6, <2>7, <2>8, <2>9, <2>10 DEF Decide
<1>6. ASSUME Frame, UNCHANGED call PROVE LedgerInv'
  BY <1>1, <1>2, <1>6 DEF LedgerInv
<1>7. ASSUME NEW b \in Boots, Restart(b) PROVE LedgerInv'
  <2>1. \A c \in Callers : call'[c] = NoCall
    BY <1>7 DEF Restart
  <2> QED
    BY <1>7, <2>1, <1>1, <1>3 DEF Restart, LedgerInv
<1>8. ASSUME \/ \E r \in Requests : RequestExpires(r)
             \/ \E g \in Grants : AddGrant(g) \/ RevokeGrant(g) \/ GrantLapses(g)
             \/ Check
             \/ UNCHANGED vars
      PROVE  Frame /\ UNCHANGED call
  BY <1>8 DEF RequestExpires, AddGrant, RevokeGrant, GrantLapses, Check, CheckBegin,
     CheckDecisions, CheckApprover, CheckDone, CheckReturn, vars
<1> QED
  BY <1>4, <1>5, <1>6, <1>7, <1>8 DEF Next

LEMMA LedgerHolds ==
  ASSUME \A c, d \in Callers : c = d
  PROVE  Spec => [](TypeOK /\ LedgerInv)
<1>1. Init => TypeOK /\ LedgerInv
  BY InitType, LedgerInit
<1>2. TypeOK /\ LedgerInv /\ [Next]_vars => (TypeOK /\ LedgerInv)'
  BY NextType, LedgerNext
<1> QED
  BY <1>1, <1>2, PTL DEF Spec

\* With one caller of decide at a time, the published status of a request is
\* always the one its recorded decisions justify, whatever crashes intervene.
THEOREM LedgerDecides ==
  ASSUME \A c, d \in Callers : c = d
  PROVE  Spec => []StatusMatchesLedger
<1>1. TypeOK /\ LedgerInv => StatusMatchesLedger
  BY DEF LedgerInv
<1> QED
  BY <1>1, LedgerHolds, PTL

\* With one caller at a time, a recorded denial keeps the verifier from ever
\* being satisfied, published or not.
THEOREM DenialAlwaysBlocks ==
  ASSUME \A c, d \in Callers : c = d
  PROVE  Spec => []DenialBlocks
<1>1. TypeOK /\ LedgerInv => DenialBlocks
  BY DEF LedgerInv, StatusMatchesLedger, DenialBlocks, Satisfied, Live, Tally
<1> QED
  BY <1>1, LedgerHolds, PTL

\* A row whose status is settled is never written again.
LEMMA SettledStays ==
  ASSUME \A c, d \in Callers : c = d, TypeOK, LedgerInv, [Next]_vars,
         NEW r \in Requests, request[r].status \in {"approved", "denied"}
  PROVE  request'[r] = request[r] /\ approvals'[r] = approvals[r]
<1>1. ASSUME NEW q \in Requests, EnsureRequest(q)
      PROVE  request'[r] = request[r] /\ approvals'[r] = approvals[r]
  BY <1>1 DEF EnsureRequest, TypeOK
<1>2. ASSUME NEW c \in Callers, Decide(c)
      PROVE  request'[r] = request[r] /\ approvals'[r] = approvals[r]
  <2>1. CallFresh(c) /\ WellFormed(call[c])
    BY DEF LedgerInv, TypeOK
  <2>2. ASSUME SaveApproval(c) PROVE call[c].req # r
    BY <2>1, <2>2 DEF SaveApproval, CallFresh
  <2>3. ASSUME Publish(c) PROVE call[c].req # r
    BY <2>1, <2>3 DEF Publish, CallFresh
  <2> QED
    BY <1>2, <2>2, <2>3
    DEF Decide, DecideBegin, Authenticate, Vet, SaveApproval, Reject, ReadTally, Publish, TypeOK
<1> QED
  BY <1>1, <1>2 DEF Next, RequestExpires, AddGrant, RevokeGrant, GrantLapses, Restart, Check,
     CheckBegin, CheckDecisions, CheckApprover, CheckDone, CheckReturn, vars

\* With one caller at a time, a denial is terminal.
THEOREM DeniedForGood ==
  ASSUME \A c, d \in Callers : c = d
  PROVE  Spec => DenialIsTerminal
<1>1. TypeOK /\ LedgerInv /\ [Next]_vars =>
        \A r \in Requests : request[r].status = "denied" => request'[r].status = "denied"
  BY SettledStays
<1> QED
  BY <1>1, LedgerHolds, PTL DEF Spec, DenialIsTerminal

-----------------------------------------------------------------------------
(* Separation of duties, for any number of callers.                          *)

NoSelfApproval ==
  /\ \A r \in Requests : \A d \in approvals[r] : d.approver # Requester[r]
  /\ \A c \in Callers : call[c].pc = "checked" => call[c].actor # Requester[call[c].req]

LEMMA NoSelfNext ==
  ASSUME TypeOK, NoSelfApproval, [Next]_vars
  PROVE  NoSelfApproval'
<1>1. ASSUME NEW c \in Callers, Vet(c) PROVE NoSelfApproval'
  BY <1>1 DEF Vet, Admissible, NoSelfApproval, TypeOK, CallType
<1>2. ASSUME NEW c \in Callers, SaveApproval(c) PROVE NoSelfApproval'
  <2>1. call[c].req \in Requests /\ call[c].actor # Requester[call[c].req]
    BY <1>2 DEF SaveApproval, NoSelfApproval, TypeOK, WellFormed
  <2> QED
    BY <1>2, <2>1 DEF SaveApproval, NoSelfApproval, TypeOK, CallType
<1>3. ASSUME NEW c \in Callers, Decide(c), ~Vet(c), ~SaveApproval(c) PROVE NoSelfApproval'
  <2> DEFINE Other == /\ approvals' = approvals
                      /\ \A d \in Callers \ {c} : call'[d] = call[d]
                      /\ call'[c].pc # "checked"
  <2>1. call[c] \in CallType
    BY DEF TypeOK
  <2>2. ASSUME NEW r \in Requests, NEW a \in Subjects, NEW choice \in Choices,
               DecideBegin(c, r, a, choice)
        PROVE  Other
    BY <2>2 DEF DecideBegin, TypeOK, NoCall
  <2>3. ASSUME (\E n \in Nonces : Authenticate(c, n)) \/ ReadTally(c) PROVE Other
    BY <2>1, <2>3 DEF Authenticate, ReadTally, TypeOK, CallType
  <2>4. ASSUME Reject(c) \/ Publish(c) PROVE Other
    BY <2>4 DEF Reject, Publish, TypeOK, NoCall
  <2>5. Other
    BY <1>3, <2>2, <2>3, <2>4 DEF Decide
  <2> QED
    BY <2>5 DEF NoSelfApproval
<1>4. ASSUME UNCHANGED <<approvals, call>> PROVE NoSelfApproval'
  BY <1>4 DEF NoSelfApproval
<1>5. ASSUME NEW b \in Boots, Restart(b) PROVE NoSelfApproval'
  BY <1>5 DEF Restart, NoSelfApproval, NoCall
<1> QED
  BY <1>1, <1>2, <1>3, <1>4, <1>5 DEF Next, EnsureRequest, RequestExpires, AddGrant, RevokeGrant,
     GrantLapses, Check, CheckBegin, CheckDecisions, CheckApprover, CheckDone, CheckReturn, vars

\* An approval that stands was made under a grant which its author holds now.
LEMMA StandingIsBacked ==
  ASSUME TypeOK, NoSelfApproval, NEW r \in Requests, NEW d \in approvals[r], Current(r, d)
  PROVE  Backed(r, d)
<1>1. d.snap.grants = [g \in Owned(d.approver) |-> stage[g]]
  BY DEF Current, Snapshot
<1> QED
  BY <1>1 DEF Current, Permits, Backed, NoSelfApproval

LEMMA DutiesFollow == TypeOK /\ NoSelfApproval => SeparationOfDuties
<1> SUFFICES ASSUME TypeOK, NoSelfApproval, NEW r \in Requests, Satisfied(r)
             PROVE  Cardinality(Approvers({d \in approvals[r] : Backed(r, d)})) >= Needed(r)
  BY DEF SeparationOfDuties
<1> DEFINE Holders == Approvers({d \in approvals[r] : Backed(r, d)})
<1>1. Standing(r) \subseteq Holders
  BY StandingIsBacked DEF Standing, Approvers
<1>2. Holders \subseteq Subjects
  BY DEF Approvers, TypeOK, Decisions
<1>3. IsFiniteSet(Holders)
  BY <1>2, ApprovalConstants, FS_Subset
<1>4. Cardinality(Standing(r)) <= Cardinality(Holders)
  BY <1>1, <1>3, FS_Subset
<1>5. IsFiniteSet(Standing(r))
  BY <1>1, <1>3, FS_Subset
<1>6. Cardinality(Standing(r)) \in Nat /\ Cardinality(Holders) \in Nat
  BY <1>3, <1>5, FS_CardinalityType
<1>7. Needed(r) \in Nat
  BY DEF Needed, RequiredCount
<1> QED
  BY <1>4, <1>6, <1>7 DEF Satisfied

\* However many callers race inside decide, the verifier is satisfied only when as
\* many people as the request needs, none of them the requester, have approved under
\* a grant that covers the step and that each of them holds to this day.
THEOREM DutiesSeparated == Spec => []SeparationOfDuties
<1>1. Init => TypeOK /\ NoSelfApproval
  BY InitType DEF Init, NoSelfApproval, NoCall
<1>2. TypeOK /\ NoSelfApproval /\ [Next]_vars => (TypeOK /\ NoSelfApproval)'
  BY NextType, NoSelfNext
<1> QED
  BY <1>1, <1>2, DutiesFollow, PTL DEF Spec

-----------------------------------------------------------------------------
(* An approval can only lose its standing.                                   *)
(*                                                                           *)
(* A recorded snapshot is of the past: it knows no grant better than the     *)
(* ledger does now.  Since revocation stamps only advance, a snapshot that   *)
(* matches the ledger after a step matched it before the step as well.       *)

SnapshotPast(snap, a, now) ==
  /\ DOMAIN snap.grants = Owned(a)
  /\ \A g \in Owned(a) : snap.grants[g] \in Nat /\ snap.grants[g] <= now[g]

PastInv ==
  /\ \A r \in Requests : \A d \in approvals[r] : SnapshotPast(d.snap, d.approver, stage)
  /\ \A c \in Callers : call[c].pc \in {"vetted", "checked", "saved", "tallied"} =>
       SnapshotPast(call[c].snap, call[c].actor, stage)

LEMMA PastNow ==
  ASSUME TypeOK, NEW a PROVE SnapshotPast(Snapshot(a), a, stage)
<1>1. \A g \in Owned(a) : stage[g] \in Nat
  BY ApprovalConstants DEF TypeOK, Owned
<1> QED
  BY <1>1 DEF SnapshotPast, Snapshot

LEMMA StageGrows ==
  ASSUME TypeOK, [Next]_vars
  PROVE  \A g \in Grants : stage[g] \in Nat /\ stage'[g] \in Nat /\ stage[g] <= stage'[g]
<1>1. \A g \in Grants : stage[g] \in Nat
  BY ApprovalConstants DEF TypeOK
<1>2. ASSUME NEW g \in Grants, AddGrant(g) \/ RevokeGrant(g)
      PROVE  \A h \in Grants : stage'[h] \in Nat /\ stage[h] <= stage'[h]
  BY <1>1, <1>2 DEF AddGrant, RevokeGrant, TypeOK
<1>3. ASSUME UNCHANGED stage
      PROVE  \A h \in Grants : stage'[h] \in Nat /\ stage[h] <= stage'[h]
  BY <1>1, <1>3
<1> QED
  BY <1>1, <1>2, <1>3 DEF Next, Decide, EnsureRequest, RequestExpires, DecideBegin,
     Authenticate, Vet, SaveApproval, Reject, ReadTally, Publish, GrantLapses, Restart, Check,
     CheckBegin, CheckDecisions, CheckApprover, CheckDone, CheckReturn, vars

LEMMA PastStays ==
  ASSUME TypeOK, [Next]_vars, NEW snap, NEW a, SnapshotPast(snap, a, stage)
  PROVE  SnapshotPast(snap, a, stage')
<1>1. \A g \in Owned(a) : stage[g] \in Nat /\ stage'[g] \in Nat /\ stage[g] <= stage'[g]
  BY StageGrows DEF Owned
<1>2. \A g \in Owned(a) : snap.grants[g] \in Nat /\ snap.grants[g] <= stage[g]
  BY DEF SnapshotPast
<1>3. \A g \in Owned(a) : snap.grants[g] \in Nat /\ snap.grants[g] <= stage'[g]
  BY <1>1, <1>2
<1> QED
  BY <1>3 DEF SnapshotPast

LEMMA PastNext ==
  ASSUME TypeOK, PastInv, [Next]_vars
  PROVE  PastInv'
<1>1. ASSUME UNCHANGED <<approvals, call>> PROVE PastInv'
  BY <1>1, PastStays DEF PastInv
<1>2. ASSUME NEW c \in Callers, Decide(c) PROVE PastInv'
  <2>1. WellFormed(call[c]) /\ call[c] \in CallType
    BY DEF TypeOK
  <2>2. \A d \in Callers \ {c} : call'[d] = call[d]
    BY <1>2 DEF Decide, DecideBegin, Authenticate, Vet, SaveApproval, Reject, ReadTally, Publish, TypeOK
  <2>3. \A d \in Callers \ {c} : call'[d].pc \in {"vetted", "checked", "saved", "tallied"} =>
          SnapshotPast(call'[d].snap, call'[d].actor, stage')
    BY <2>2, PastStays DEF PastInv
  <2>4. call'[c].pc \in {"vetted", "checked", "saved", "tallied"} =>
          SnapshotPast(call'[c].snap, call'[c].actor, stage')
    <3>1. ASSUME NEW n \in Nonces, Authenticate(c, n)
          PROVE  SnapshotPast(call'[c].snap, call'[c].actor, stage')
      <4>1. call'[c].snap = Snapshot(call[c].actor) /\ call'[c].actor = call[c].actor
        BY <2>1, <3>1 DEF Authenticate, TypeOK, CallType
      <4>2. SnapshotPast(Snapshot(call[c].actor), call[c].actor, stage)
        BY PastNow
      <4>3. SnapshotPast(call'[c].snap, call'[c].actor, stage)
        BY <4>1, <4>2
      <4> QED
        BY <4>3, PastStays
    <3>2. ASSUME Vet(c) \/ SaveApproval(c) \/ ReadTally(c)
          PROVE  SnapshotPast(call'[c].snap, call'[c].actor, stage')
      <4>1. call'[c].snap = call[c].snap /\ call'[c].actor = call[c].actor
        BY <2>1, <3>2 DEF Vet, SaveApproval, ReadTally, TypeOK, CallType
      <4>2. SnapshotPast(call[c].snap, call[c].actor, stage)
        BY <3>2 DEF Vet, SaveApproval, ReadTally, PastInv
      <4>3. SnapshotPast(call'[c].snap, call'[c].actor, stage)
        BY <4>1, <4>2
      <4> QED
        BY <4>3, PastStays
    <3>3. ASSUME \/ Reject(c) \/ Publish(c)
                 \/ \E r \in Requests, a \in Subjects, choice \in Choices :
                      DecideBegin(c, r, a, choice)
          PROVE  call'[c].pc \in {"idle", "begun"}
      <4>1. NoCall.pc = "idle"
        BY DEF NoCall
      <4>2. CASE Reject(c) \/ Publish(c)
        BY <4>1, <4>2 DEF Reject, Publish, TypeOK
      <4>3. CASE \E r \in Requests, a \in Subjects, choice \in Choices :
                   DecideBegin(c, r, a, choice)
        BY <4>3 DEF DecideBegin, NoCall, TypeOK
      <4> QED
        BY <3>3, <4>2, <4>3
    <3> QED
      BY <1>2, <3>1, <3>2, <3>3 DEF Decide
  <2>5. \A r \in Requests : \A d \in approvals'[r] : SnapshotPast(d.snap, d.approver, stage')
    <3>1. ASSUME SaveApproval(c), NEW r \in Requests, NEW d \in approvals'[r]
          PROVE  SnapshotPast(d.snap, d.approver, stage')
      <4>1. CASE d \in approvals[r]
        BY <4>1, PastStays DEF PastInv
      <4>2. CASE d \notin approvals[r]
        <5>1. d.snap = call[c].snap /\ d.approver = call[c].actor
          BY <2>1, <3>1, <4>2 DEF SaveApproval, TypeOK
        <5>2. SnapshotPast(d.snap, d.approver, stage)
          BY <3>1, <5>1 DEF SaveApproval, PastInv
        <5> QED
          BY <5>2, PastStays
      <4> QED
        BY <4>1, <4>2
    <3>2. ASSUME UNCHANGED approvals
          PROVE  \A r \in Requests : \A d \in approvals'[r] : SnapshotPast(d.snap, d.approver, stage')
      BY <3>2, PastStays DEF PastInv
    <3> QED
      BY <1>2, <3>1, <3>2 DEF Decide, DecideBegin, Authenticate, Vet, Reject, ReadTally, Publish
  <2> QED
    BY <2>3, <2>4, <2>5 DEF PastInv
<1>3. ASSUME NEW b \in Boots, Restart(b) PROVE PastInv'
  <2>1. \A c \in Callers : call'[c].pc = "idle"
    BY <1>3 DEF Restart, NoCall
  <2>2. approvals' = approvals
    BY <1>3 DEF Restart
  <2> QED
    BY <2>1, <2>2, PastStays DEF PastInv
<1> QED
  BY <1>1, <1>2, <1>3 DEF Next, EnsureRequest, RequestExpires, AddGrant, RevokeGrant,
     GrantLapses, Check, CheckBegin, CheckDecisions, CheckApprover, CheckDone, CheckReturn, vars

\* The heart of it: whatever step the process takes, an approval that stands
\* after the step stood before it.
LEMMA StandingShrinks ==
  ASSUME TypeOK, PastInv, [Next]_vars, boot' = boot,
         NEW r \in Requests, request'[r].risk = request[r].risk,
         NEW d \in approvals[r], Current(r, d)'
  PROVE  Current(r, d)
<1> DEFINE a == d.approver
<1>1. \A g \in Owned(a) : stage[g] \in Nat /\ stage'[g] \in Nat /\ stage[g] <= stage'[g]
  BY StageGrows DEF Owned
<1>2. \A g \in Owned(a) : d.snap.grants[g] \in Nat /\ d.snap.grants[g] <= stage[g]
  BY DEF PastInv, SnapshotPast
<1>3. d.snap = Snapshot(a)'
  BY DEF Current
<1>4. \A g \in Owned(a) : d.snap.grants[g] = stage'[g]
  BY <1>3 DEF Snapshot
<1>5. \A g \in Owned(a) : stage[g] = stage'[g]
  BY <1>1, <1>2, <1>4
<1>6. Snapshot(a)' = Snapshot(a)
  BY <1>5 DEF Snapshot
<1>7. lapsed \subseteq lapsed'
  BY DEF Next, Decide, EnsureRequest, RequestExpires, DecideBegin, Authenticate,
     Vet, SaveApproval, Reject, ReadTally, Publish, AddGrant, RevokeGrant, GrantLapses, Restart,
     Check, CheckBegin, CheckDecisions, CheckApprover, CheckDone, CheckReturn, vars
<1>8. Permits(d.snap, r)' => Permits(d.snap, r)
  BY <1>7 DEF Permits
<1> QED
  BY <1>3, <1>6, <1>8 DEF Current

LEMMA StandingFinite ==
  ASSUME TypeOK, NEW r \in Requests
  PROVE  /\ Standing(r) \subseteq Subjects
         /\ IsFiniteSet(Standing(r))
         /\ Cardinality(Standing(r)) \in Nat
         /\ Needed(r) \in Nat
<1>1. Standing(r) \subseteq Subjects
  BY DEF Standing, Approvers, TypeOK, Decisions
<1>2. IsFiniteSet(Standing(r))
  BY <1>1, ApprovalConstants, FS_Subset
<1> QED
  BY <1>1, <1>2, FS_CardinalityType DEF Needed, RequiredCount

LEMMA ExpiredGrows ==
  ASSUME [Next]_vars PROVE expired \subseteq expired'
  BY DEF Next, Decide, EnsureRequest, RequestExpires, DecideBegin, Authenticate,
     Vet, SaveApproval, Reject, ReadTally, Publish, AddGrant, RevokeGrant, GrantLapses, Restart,
     Check, CheckBegin, CheckDecisions, CheckApprover, CheckDone, CheckReturn, vars

LEMMA WithdrawnNext ==
  ASSUME \A c, d \in Callers : c = d, TypeOK, LedgerInv, PastInv, [Next]_vars,
         boot' = boot, NEW r \in Requests, Withdrawn(r)
  PROVE  ~Satisfied(r)'
<1>1. request'[r] = request[r] /\ approvals'[r] = approvals[r]
  BY SettledStays DEF Withdrawn
<1>2. SUFFICES ASSUME Satisfied(r)' PROVE FALSE
  OBVIOUS
<1>3. Live(r)
  BY <1>1, <1>2, ExpiredGrows DEF Satisfied, Live
<1>4. Standing(r)' \subseteq Standing(r)
  BY <1>1, StandingShrinks DEF Standing, Approvers
<1>5. Needed(r)' = Needed(r)
  BY <1>1 DEF Needed
<1>6. Cardinality(Standing(r)') <= Cardinality(Standing(r))
  BY <1>4, StandingFinite, FS_Subset
<1>7. IsFiniteSet(Standing(r)')
  BY <1>4, StandingFinite, FS_Subset
<1>8. Cardinality(Standing(r)') \in Nat
  BY <1>7, FS_CardinalityType
<1>9. Cardinality(Standing(r)') >= Needed(r)
  BY <1>2, <1>5 DEF Satisfied
<1>10. Cardinality(Standing(r)) >= Needed(r)
  BY <1>6, <1>8, <1>9, StandingFinite
<1> QED
  BY <1>3, <1>10 DEF Withdrawn, Satisfied

LEMMA AllHold ==
  ASSUME \A c, d \in Callers : c = d
  PROVE  Spec => [](TypeOK /\ LedgerInv /\ PastInv)
<1>1. Init => TypeOK /\ LedgerInv /\ PastInv
  BY InitType, LedgerInit DEF Init, PastInv, NoCall
<1>2. TypeOK /\ LedgerInv /\ PastInv /\ [Next]_vars => (TypeOK /\ LedgerInv /\ PastInv)'
  BY NextType, LedgerNext, PastNext
<1> QED
  BY <1>1, <1>2, PTL DEF Spec

\* With one caller at a time and until the process restarts, an approval that was
\* withdrawn never comes back, whatever grants are added or revoked afterwards.
THEOREM WithdrawnForGood ==
  ASSUME \A c, d \in Callers : c = d
  PROVE  Spec => WithdrawnStaysWithdrawn
<1>1. TypeOK /\ LedgerInv /\ PastInv /\ [Next]_vars =>
        (boot' = boot => \A r \in Requests : Withdrawn(r) => ~Satisfied(r)')
  BY WithdrawnNext
<1> QED
  BY <1>1, AllHold, PTL DEF Spec, WithdrawnStaysWithdrawn

-----------------------------------------------------------------------------
(* The verifier's answer.  Each approver is looked at when its turn comes;   *)
(* since standing is only lost, whoever stands then stood when the request   *)
(* row was read.                                                             *)

CheckInv ==
  /\ check.pc # "idle" /\ check.seen =>
       /\ request[check.req].status = "approved"
       /\ \A d \in approvals[check.req] : Current(check.req, d) => d.approver \in check.witness
  /\ check.pc \in {"scan", "done"} =>
       /\ check.seen
       /\ check.todo \subseteq approvals[check.req]
  /\ check.pc # "idle" => check.valid \subseteq check.witness
  /\ check.pc = "done" /\ check.verdict => Cardinality(check.valid) >= Needed(check.req)

\* Steps of the others leave the scan's facts alone.
LEMMA CheckUndisturbed ==
  ASSUME \A c, d \in Callers : c = d, TypeOK, LedgerInv, PastInv, CheckInv, [Next]_vars,
         UNCHANGED check, boot' = boot
  PROVE  CheckInv'
<1>1. CASE check.pc = "idle"
  BY <1>1 DEF CheckInv
<1>2. CASE check.pc # "idle"
  <2>1. check.req \in Requests
    BY <1>2 DEF TypeOK
  <2>2. CASE ~check.seen
    BY <1>2, <2>2 DEF CheckInv
  <2>3. CASE check.seen
    <3>1. request'[check.req] = request[check.req] /\ approvals'[check.req] = approvals[check.req]
      BY <1>2, <2>1, <2>3, SettledStays DEF CheckInv
    <3>2. \A d \in approvals[check.req] : Current(check.req, d)' => Current(check.req, d)
      BY <2>1, <3>1, StandingShrinks
    <3>3. Needed(check.req)' = Needed(check.req)
      BY <3>1 DEF Needed
    <3> QED
      BY <1>2, <2>3, <3>1, <3>2, <3>3 DEF CheckInv
  <2> QED
    BY <2>2, <2>3
<1> QED
  BY <1>1, <1>2

LEMMA CheckNext ==
  ASSUME \A c, d \in Callers : c = d, TypeOK, LedgerInv, PastInv, CheckInv, [Next]_vars
  PROVE  CheckInv'
<1>1. ASSUME check' = NoCheck PROVE CheckInv'
  BY <1>1 DEF CheckInv, NoCheck
<1>2. ASSUME NEW r \in Requests, CheckBegin(r) PROVE CheckInv'
  <2>1. /\ check'.pc = "read" /\ check'.req = r /\ check'.seen = Live(r)
        /\ check'.witness = Standing(r) /\ check'.valid = {}
    BY <1>2 DEF CheckBegin, NoCheck
  <2>2. UNCHANGED <<request, approvals, stage, lapsed, boot>>
    BY <1>2 DEF CheckBegin
  <2>3. \A d \in approvals[r] : Current(r, d)' = Current(r, d)
    BY <2>2 DEF Current, Snapshot, Permits
  <2> QED
    BY <2>1, <2>2, <2>3 DEF CheckInv, Live, Standing, Approvers
<1>3. ASSUME CheckDecisions, check.seen PROVE CheckInv'
  <2>1. /\ check'.pc = "scan" /\ check'.req = check.req /\ check'.seen = check.seen
        /\ check'.witness = check.witness /\ check'.todo = approvals[check.req]
        /\ check'.valid = check.valid
    BY <1>3 DEF CheckDecisions, TypeOK, CheckType
  <2> QED
    BY <1>3, <2>1 DEF CheckDecisions, CheckInv, Current, Snapshot, Permits
<1>4. ASSUME NEW d \in check.todo, CheckApprover(d) PROVE CheckInv'
  <2>1. /\ check'.pc = "scan" /\ check'.req = check.req /\ check'.seen = check.seen
        /\ check'.witness = check.witness /\ check'.todo = check.todo \ {d}
        /\ check'.valid = IF Current(check.req, d) THEN check.valid \cup {d.approver}
                          ELSE check.valid
    BY <1>4 DEF CheckApprover, TypeOK, CheckType
  <2>2. Current(check.req, d) => d.approver \in check.witness
    BY <1>4 DEF CheckApprover, CheckInv
  <2>3. check'.valid \subseteq check.witness
    BY <1>4, <2>1, <2>2 DEF CheckApprover, CheckInv
  <2>4. \A e : Current(check.req, e)' = Current(check.req, e)
    BY <1>4, <2>1 DEF CheckApprover, Current, Snapshot, Permits
  <2> QED
    BY <1>4, <2>1, <2>3, <2>4 DEF CheckApprover, CheckInv
<1>5. ASSUME CheckDone PROVE CheckInv'
  <2>1. /\ check'.pc = "done" /\ check'.req = check.req /\ check'.seen = check.seen
        /\ check'.witness = check.witness /\ check'.todo = check.todo
        /\ check'.valid = check.valid
        /\ check'.verdict = (Cardinality(check.valid) >= Needed(check.req))
    BY <1>5 DEF CheckDone, TypeOK, CheckType
  <2>2. \A e : Current(check.req, e)' = Current(check.req, e)
    BY <1>5, <2>1 DEF CheckDone, Current, Snapshot, Permits
  <2>3. Needed(check.req)' = Needed(check.req)
    BY <1>5, <2>1 DEF CheckDone, Needed
  <2> QED
    BY <1>5, <2>1, <2>2, <2>3 DEF CheckDone, CheckInv
<1>6. ASSUME UNCHANGED check, boot' = boot PROVE CheckInv'
  BY <1>6, CheckUndisturbed
<1> QED
  BY <1>1, <1>2, <1>3, <1>4, <1>5, <1>6 DEF Next, Decide, EnsureRequest, RequestExpires,
     DecideBegin, Authenticate, Vet, SaveApproval, Reject, ReadTally, Publish, AddGrant,
     RevokeGrant, GrantLapses, Restart, Check, CheckDecisions, CheckReturn, vars

LEMMA VerdictFollows == TypeOK /\ CheckInv => VerdictHeldWhenRead
<1> SUFFICES ASSUME TypeOK, CheckInv, check.pc = "done", check.verdict
             PROVE  check.seen /\ Cardinality(check.witness) >= Needed(check.req)
  BY DEF VerdictHeldWhenRead
<1>1. check.valid \subseteq check.witness /\ Cardinality(check.valid) >= Needed(check.req)
  BY DEF CheckInv
<1>2. IsFiniteSet(check.witness)
  BY ApprovalConstants, FS_Subset DEF TypeOK, CheckType
<1>3. IsFiniteSet(check.valid) /\ Cardinality(check.valid) <= Cardinality(check.witness)
  BY <1>1, <1>2, FS_Subset
<1>4. Cardinality(check.valid) \in Nat /\ Cardinality(check.witness) \in Nat
  BY <1>2, <1>3, FS_CardinalityType
<1>5. Needed(check.req) \in Nat
  BY DEF Needed, RequiredCount
<1> QED
  BY <1>1, <1>3, <1>4, <1>5 DEF CheckInv

\* With one caller of decide at a time, the verifier says yes only about an
\* approval that stood when it read the request, although it reads the request,
\* the decisions and every approver's grants at different instants.
THEOREM VerdictIsOfOneInstant ==
  ASSUME \A c, d \in Callers : c = d
  PROVE  Spec => []VerdictHeldWhenRead
<1> DEFINE Inv == TypeOK /\ LedgerInv /\ PastInv /\ CheckInv
<1>1. Init => Inv
  BY InitType, LedgerInit DEF Init, PastInv, NoCall, CheckInv, NoCheck
<1>2. Inv /\ [Next]_vars => Inv'
  BY NextType, LedgerNext, PastNext, CheckNext
<1>3. Inv => VerdictHeldWhenRead
  BY VerdictFollows
<1> QED
  BY <1>1, <1>2, <1>3, PTL DEF Spec

-----------------------------------------------------------------------------
(* Approvals implements ApprovalGate.                                        *)
(*                                                                           *)
(* A request keeps the risk it was created with, so in one deployment the    *)
(* number of signatures it needs is the gate's Required.  While the tables   *)
(* request and approvals stay as they are, a gate can only become void; the  *)
(* two steps of decide that write them are the ones that sign, refuse, open. *)

RiskKept ==
  \A r \in Requests : request[r].status # "none" => request[r].risk = Deployed.risk[r]

\* A call is about a request that exists, and publishes one that exists.
CallsAsked ==
  \A c \in Callers :
    /\ call[c].pc # "idle" => request[call[c].req].status # "none"
    /\ call[c].pc = "tallied" => call[c].verdict # "none"

RiskInv == CallsAsked /\ RiskKept

LEMMA RiskInit == Init => RiskInv
  BY DEF Init, RiskInv, CallsAsked, RiskKept, NoCall, NoRequest

\* However many calls there are, a request that exists goes on existing, with the
\* risk it has.
LEMMA RequestsLast ==
  ASSUME TypeOK, CallsAsked, [Next]_vars, NEW r \in Requests, request[r].status # "none"
  PROVE  request'[r].status # "none" /\ request'[r].risk = request[r].risk
<1>1. ASSUME NEW q \in Requests, EnsureRequest(q)
      PROVE  request'[r].status # "none" /\ request'[r].risk = request[r].risk
  BY <1>1 DEF EnsureRequest, TypeOK
<1>2. ASSUME NEW c \in Callers, Publish(c)
      PROVE  request'[r].status # "none" /\ request'[r].risk = request[r].risk
  <2>1. call[c].verdict # "none"
    BY <1>2 DEF Publish, CallsAsked
  <2> QED
    BY <1>2, <2>1 DEF Publish, TypeOK
<1> QED
  BY <1>1, <1>2 DEF Next, Decide, RequestExpires, DecideBegin, Authenticate, Vet, SaveApproval,
     Reject, ReadTally, AddGrant, RevokeGrant, GrantLapses, Restart, Check, CheckBegin,
     CheckDecisions, CheckApprover, CheckDone, CheckReturn, vars

LEMMA CallsAskedNext ==
  ASSUME TypeOK, CallsAsked, [Next]_vars
  PROVE  CallsAsked'
<1>1. ASSUME NEW c \in Callers, call'[c] = call[c] \/ call'[c] = NoCall
      PROVE  /\ call'[c].pc # "idle" => request'[call'[c].req].status # "none"
             /\ call'[c].pc = "tallied" => call'[c].verdict # "none"
  <2>1. CASE call'[c] = call[c] /\ call[c].pc # "idle"
    BY <2>1, RequestsLast DEF CallsAsked, TypeOK, WellFormed
  <2>2. CASE call'[c] = call[c] /\ call[c].pc = "idle"
    BY <2>2
  <2>3. CASE call'[c] = NoCall
    BY <2>3 DEF NoCall
  <2> QED
    BY <1>1, <2>1, <2>2, <2>3
<1>2. ASSUME NEW c \in Callers, Decide(c) PROVE CallsAsked'
  <2>1. \A d \in Callers \ {c} : call'[d] = call[d]
    BY <1>2 DEF Decide, DecideBegin, Authenticate, Vet, SaveApproval, Reject, ReadTally, Publish, TypeOK
  <2>2. call[c] \in CallType /\ WellFormed(call[c])
    BY DEF TypeOK
  <2>3. SUFFICES /\ call'[c].pc # "idle" => request'[call'[c].req].status # "none"
                 /\ call'[c].pc = "tallied" => call'[c].verdict # "none"
    BY <1>1, <2>1 DEF CallsAsked
  <2>4. ASSUME NEW r \in Requests, NEW a \in Subjects, NEW choice \in Choices,
               DecideBegin(c, r, a, choice)
        PROVE  <2>3!1
    BY <2>4 DEF DecideBegin, NoCall, TypeOK
  <2>5. ASSUME (\E n \in Nonces : Authenticate(c, n)) \/ Vet(c) \/ SaveApproval(c) PROVE <2>3!1
    <3>1. call[c].pc # "idle" /\ call'[c].pc # "tallied" /\ call'[c].req = call[c].req
      BY <2>2, <2>5 DEF Authenticate, Vet, SaveApproval, TypeOK, CallType
    <3> QED
      BY <2>2, <3>1, RequestsLast DEF CallsAsked, WellFormed
  <2>6. ASSUME ReadTally(c) PROVE <2>3!1
    <3>1. /\ call[c].pc # "idle" /\ call'[c].req = call[c].req
          /\ call'[c].verdict = Tally(call[c].req)
      BY <2>2, <2>6 DEF ReadTally, TypeOK, CallType
    <3> QED
      BY <2>2, <3>1, TallyType, RequestsLast DEF CallsAsked, WellFormed
  <2>7. ASSUME Reject(c) \/ Publish(c) PROVE <2>3!1
    <3>1. call'[c] = NoCall
      BY <2>7 DEF Reject, Publish, TypeOK
    <3> QED
      BY <3>1, <1>1
  <2> QED
    BY <1>2, <2>4, <2>5, <2>6, <2>7 DEF Decide
<1>3. ASSUME \A c \in Callers : call'[c] = call[c] \/ call'[c] = NoCall PROVE CallsAsked'
  BY <1>1, <1>3 DEF CallsAsked
<1> QED
  BY <1>2, <1>3 DEF Next, EnsureRequest, RequestExpires, AddGrant, RevokeGrant, GrantLapses,
     Restart, Check, CheckBegin, CheckDecisions, CheckApprover, CheckDone, CheckReturn, vars

LEMMA RiskNext ==
  ASSUME \A b, d \in Boots : b.risk = d.risk, TypeOK, RiskInv, [Next]_vars
  PROVE  RiskInv'
<1>1. ASSUME NEW r \in Requests, request[r].status = "none", request'[r].status # "none"
      PROVE  request'[r].risk = Deployed.risk[r]
  <2>1. ASSUME NEW q \in Requests, EnsureRequest(q) PROVE request'[r].risk = Deployed.risk[r]
    <3>1. Deployed \in Boots /\ boot \in Boots
      BY DEF TypeOK, Deployed
    <3>2. boot.risk = Deployed.risk
      BY <3>1
    <3> QED
      BY <1>1, <2>1, <3>2 DEF EnsureRequest, TypeOK
  <2>2. ASSUME NEW c \in Callers, Publish(c) PROVE FALSE
    <3>1. call[c].req \in Requests /\ call[c].req # r
      BY <1>1, <2>2 DEF Publish, RiskInv, CallsAsked, TypeOK, WellFormed
    <3> QED
      BY <1>1, <2>2, <3>1 DEF Publish, TypeOK
  <2> QED
    BY <1>1, <2>1, <2>2 DEF Next, Decide, RequestExpires, DecideBegin, Authenticate, Vet, SaveApproval,
       Reject, ReadTally, AddGrant, RevokeGrant, GrantLapses, Restart, Check, CheckBegin,
       CheckDecisions, CheckApprover, CheckDone, CheckReturn, vars
<1>2. RiskKept'
  BY <1>1, RequestsLast DEF RiskInv, RiskKept
<1> QED
  BY <1>2, CallsAskedNext DEF RiskInv

\* A deployment: every start of the process has the same policy version and the same
\* risks, and computes the same digest of a snapshot.
OneDeployment ==
  /\ \A b, d \in Boots : b.policy = d.policy /\ b.risk = d.risk
  /\ Unordered # {} => \A b, d \in Boots : b.seed = d.seed

\* A restart of the same deployment moves no approval.
LEMMA RestartSeesTheSame ==
  ASSUME OneDeployment, TypeOK, NEW b \in Boots, Restart(b), NEW r \in Requests
  PROVE  Satisfied(r)' = Satisfied(r)
<1>1. boot'.policy = boot.policy /\ (Unordered # {} => boot'.seed = boot.seed)
  BY DEF OneDeployment, Restart, TypeOK
<1>2. UNCHANGED <<request, expired, approvals, stage, lapsed>>
  BY DEF Restart
<1>3. \A a : Snapshot(a)' = Snapshot(a)
  BY <1>1, <1>2 DEF Snapshot, OneDeployment
<1>4. \A d : Current(r, d)' = Current(r, d)
  BY <1>2, <1>3 DEF Current, Permits
<1>5. Standing(r)' = Standing(r)
  BY <1>2, <1>4 DEF Standing
<1>6. Needed(r)' = Needed(r) /\ Live(r)' = Live(r)
  BY <1>1, <1>2 DEF Needed, Live
<1> QED
  BY <1>5, <1>6 DEF Satisfied

\* While a request and its decisions are not written, it can only stop being
\* satisfied.
LEMMA SatisfiedShrinks ==
  ASSUME OneDeployment, TypeOK, PastInv, [Next]_vars, UNCHANGED approvals,
         NEW r \in Requests, request'[r] = request[r], Satisfied(r)'
  PROVE  Satisfied(r)
<1>1. ASSUME boot' = boot PROVE Satisfied(r)
  <2>1. Live(r)
    BY <1>1, ExpiredGrows DEF Satisfied, Live
  <2>2. Standing(r)' \subseteq Standing(r)
    BY <1>1, StandingShrinks DEF Standing, Approvers
  <2>3. IsFiniteSet(Standing(r)') /\ Cardinality(Standing(r)') <= Cardinality(Standing(r))
    BY <2>2, StandingFinite, FS_Subset
  <2>4. Cardinality(Standing(r)') \in Nat
    BY <2>3, FS_CardinalityType
  <2>5. Cardinality(Standing(r)') >= Needed(r)
    BY DEF Satisfied, Needed
  <2> QED
    BY <2>1, <2>3, <2>4, <2>5, StandingFinite DEF Satisfied
<1>2. ASSUME NEW b \in Boots, Restart(b) PROVE Satisfied(r)
  BY <1>2, RestartSeesTheSame
<1> QED
  BY <1>1, <1>2 DEF Next, Decide, EnsureRequest, RequestExpires, DecideBegin, Authenticate,
     Vet, SaveApproval, Reject, ReadTally, Publish, AddGrant, RevokeGrant, GrantLapses, Check,
     CheckBegin, CheckDecisions, CheckApprover, CheckDone, CheckReturn, vars

\* What the gate shows of a request changes, while its row and its decisions do not,
\* only by being closed.
LEMMA GateMoves ==
  ASSUME OneDeployment, TypeOK, PastInv, [Next]_vars, UNCHANGED approvals,
         NEW r \in Requests, request'[r] = request[r], GateOf(r)' # GateOf(r)
  PROVE  /\ GateOf(r) \in {"shut", "open"}
         /\ GateOf(r)' = IF GateOf(r) = "open" THEN "void" ELSE "lapsed"
<1>1. Denied(r)' = Denied(r)
  BY DEF Denied
<1>2. expired \subseteq expired'
  BY ExpiredGrows
<1>3. Withdrawn(r) => Withdrawn(r)'
  BY SatisfiedShrinks DEF Withdrawn
<1>4. Satisfied(r)' => Satisfied(r)
  BY SatisfiedShrinks
<1>5. Satisfied(r) /\ ~Satisfied(r)' => Withdrawn(r)'
  BY DEF Withdrawn, Satisfied, Live
<1>6. Withdrawn(r)' => Withdrawn(r) \/ Satisfied(r)
  BY DEF Withdrawn
<1>7. (Satisfied(r) => r \notin expired) /\ (Satisfied(r)' => r \notin expired')
  BY DEF Satisfied, Live
<1> QED
  BY <1>1, <1>2, <1>3, <1>4, <1>5, <1>6, <1>7 DEF GateOf

LEMMA GatesClose ==
  ASSUME OneDeployment, TypeOK, PastInv, [Next]_vars, UNCHANGED <<request, approvals>>
  PROVE  \E rs \in SUBSET Requests : Gate!Close(rs)
<1> DEFINE closed == {r \in Requests : GateOf(r)' # GateOf(r)}
<1>1. \A r \in closed : /\ GateOf(r) \in {"shut", "open"}
                         /\ GateOf(r)' = IF GateOf(r) = "open" THEN "void" ELSE "lapsed"
  BY GateMoves
<1>2. \A r \in Requests : GateOf(r)' = IF r \notin closed THEN GateOf(r)
                                       ELSE IF GateOf(r) = "open" THEN "void" ELSE "lapsed"
  BY <1>1
<1>3. \A r \in Requests : SignersOf(r)' = SignersOf(r)
  BY DEF SignersOf, Approvers
<1>4. closed \in SUBSET Requests
  OBVIOUS
<1> HIDE DEF closed
<1> QED
  BY <1>1, <1>2, <1>3, <1>4 DEF Gate!Close

\* The abstract gate's variables.
gateNow == [r \in Requests |-> GateOf(r)]

signersNow == [r \in Requests |-> SignersOf(r)]

\* The other requests, when one is written.
LEMMA GateSame ==
  ASSUME NEW r \in Requests, request'[r] = request[r], approvals'[r] = approvals[r],
         UNCHANGED <<expired, stage, lapsed, boot>>
  PROVE  GateOf(r)' = GateOf(r) /\ SignersOf(r)' = SignersOf(r)
<1>1. \A d : Current(r, d)' = Current(r, d)
  BY DEF Current, Permits, Snapshot
<1>2. Standing(r)' = Standing(r)
  BY <1>1 DEF Standing
<1>3. Satisfied(r)' = Satisfied(r)
  BY <1>2 DEF Satisfied, Live, Needed
<1> QED
  BY <1>3 DEF GateOf, Denied, Withdrawn, SignersOf

\* A new request is behind a shut gate, as it was before it was asked for.
LEMMA EnsureRequestShows ==
  ASSUME TypeOK, NEW r \in Requests, EnsureRequest(r)
  PROVE  UNCHANGED <<gateNow, signersNow>>
<1>1. UNCHANGED <<expired, approvals, stage, lapsed, boot>>
  BY DEF EnsureRequest
<1>2. request[r].status = "none" /\ request'[r].status = "pending"
  BY DEF EnsureRequest, TypeOK
<1>3. GateOf(r)' = GateOf(r) /\ SignersOf(r)' = SignersOf(r)
  BY <1>1, <1>2 DEF GateOf, Denied, Withdrawn, Satisfied, Live, SignersOf
<1>4. ASSUME NEW q \in Requests \ {r}
      PROVE  GateOf(q)' = GateOf(q) /\ SignersOf(q)' = SignersOf(q)
  <2>1. request'[q] = request[q]
    BY DEF EnsureRequest, TypeOK
  <2> QED
    BY <1>1, <2>1, GateSame
<1> QED
  BY <1>3, <1>4 DEF gateNow, signersNow

\* A decision saved is a signature or the refusal.
LEMMA SaveApprovalSigns ==
  ASSUME TypeOK, LedgerInv, NoSelfApproval, NEW c \in Callers, SaveApproval(c)
  PROVE  \/ \E r \in Requests : Gate!Move(r)
         \/ UNCHANGED <<gateNow, signersNow>>
<1>0. SUFFICES ASSUME NEW r \in Requests, r = call[c].req,
                      NEW a \in Subjects, a = call[c].actor,
                      NEW choice \in Choices, choice = call[c].choice,
                      NEW snap, snap = call[c].snap
               PROVE  \/ \E q \in Requests : Gate!Move(q)
                      \/ UNCHANGED <<gateNow, signersNow>>
  BY DEF SaveApproval, TypeOK, WellFormed
<1> DEFINE d == [approver |-> a, choice |-> choice, snap |-> snap]
<1>2. request[r].status = "pending"
  BY <1>0 DEF SaveApproval, LedgerInv, CallFresh
<1>3. a # Requester[r] /\ a \notin Approvers(approvals[r])
  BY <1>0 DEF SaveApproval, HasDecided, NoSelfApproval
<1>4. /\ approvals'[r] = approvals[r] \cup {d}
      /\ \A q \in Requests \ {r} : approvals'[q] = approvals[q]
  BY <1>0 DEF SaveApproval, TypeOK
<1>5. UNCHANGED <<request, expired, stage, lapsed, boot>>
  BY DEF SaveApproval
<1>6. \A q \in Requests \ {r} : GateOf(q)' = GateOf(q) /\ SignersOf(q)' = SignersOf(q)
  BY <1>4, <1>5, GateSame
<1>7. GateOf(r) = IF Denied(r) THEN "refused" ELSE IF r \in expired THEN "lapsed" ELSE "shut"
  BY <1>2 DEF GateOf, Withdrawn, Satisfied, Live
<1>8. GateOf(r)' = IF Denied(r)' THEN "refused" ELSE IF r \in expired THEN "lapsed" ELSE "shut"
  BY <1>2, <1>5 DEF GateOf, Withdrawn, Satisfied, Live
<1>9. Denied(r)' = (Denied(r) \/ d.choice = "deny")
  BY <1>4 DEF Denied
<1>10. CASE choice = "approve"
  <2>1. GateOf(r)' = GateOf(r)
    <3>1. d.choice # "deny"
      BY <1>10
    <3>2. Denied(r)' = Denied(r)
      BY <1>9, <3>1 DEF Denied
    <3> QED
      BY <1>7, <1>8, <3>2
  <2>2. SignersOf(r)' = SignersOf(r) \cup {a}
    <3>1. d.choice = "approve" /\ d.approver = a
      BY <1>10
    <3>2. {e \in approvals'[r] : e.choice = "approve"}
            = {e \in approvals[r] : e.choice = "approve"} \cup {d}
      BY <1>4, <3>1
    <3> QED
      BY <3>1, <3>2 DEF SignersOf, Approvers
  <2>3. a \notin SignersOf(r)
    BY <1>3 DEF SignersOf, Approvers
  <2>4. gateNow' = gateNow /\ signersNow' = [signersNow EXCEPT ![r] = @ \cup {a}]
    BY <1>6, <2>1, <2>2 DEF gateNow, signersNow
  <2>5. Gate!Sign(r, a)
    BY <1>3, <1>7, <2>3, <2>4 DEF Gate!Sign, gateNow, signersNow
  <2> QED
    BY <2>5 DEF Gate!Move
<1>11. CASE choice = "deny"
  <2>1. GateOf(r)' = "refused"
    BY <1>8, <1>9, <1>11
  <2>2. SignersOf(r)' = SignersOf(r)
    BY <1>4, <1>11 DEF SignersOf, Approvers
  <2>3. signersNow' = signersNow /\ gateNow' = [gateNow EXCEPT ![r] = "refused"]
    BY <1>6, <2>1, <2>2 DEF gateNow, signersNow
  <2>4. CASE Denied(r)
    <3>1. GateOf(r)' = GateOf(r)
      BY <1>7, <2>1, <2>4
    <3> QED
      BY <1>6, <2>3, <3>1 DEF gateNow
  <2>5. CASE ~Denied(r)
    <3>1. Gate!Refuse(r)
      BY <1>7, <2>3, <2>5 DEF Gate!Refuse, gateNow, signersNow
    <3> QED
      BY <3>1 DEF Gate!Move
  <2> QED
    BY <2>4, <2>5
<1> QED
  BY <1>10, <1>11 DEF Choices

\* A status published without a denial opens the gate, unless the approval has
\* lapsed meanwhile.
LEMMA PublishShows ==
  ASSUME TypeOK, LedgerInv, RiskInv, NEW c \in Callers, Publish(c)
  PROVE  \/ \E r \in Requests : Gate!Move(r)
         \/ UNCHANGED <<gateNow, signersNow>>
<1>0. SUFFICES ASSUME NEW r \in Requests, r = call[c].req
               PROVE  \/ \E q \in Requests : Gate!Move(q)
                      \/ UNCHANGED <<gateNow, signersNow>>
  BY DEF Publish, TypeOK, WellFormed
<1>1. request[r].status = "pending" /\ call[c].verdict = Tally(r)
  BY <1>0 DEF Publish, LedgerInv, CallFresh
<1>2. /\ request'[r].status = Tally(r)
      /\ request'[r].risk = request[r].risk
      /\ \A q \in Requests \ {r} : request'[q] = request[q]
  BY <1>0, <1>1 DEF Publish, TypeOK
<1>3. UNCHANGED <<expired, approvals, stage, lapsed, boot>>
  BY DEF Publish
<1>4. \A q \in Requests \ {r} : GateOf(q)' = GateOf(q) /\ SignersOf(q)' = SignersOf(q)
  BY <1>2, <1>3, GateSame
<1>5. SignersOf(r)' = SignersOf(r)
  BY <1>3 DEF SignersOf
<1>6. signersNow' = signersNow
  BY <1>4, <1>5 DEF signersNow
<1>7. GateOf(r) = IF Denied(r) THEN "refused" ELSE IF r \in expired THEN "lapsed" ELSE "shut"
  BY <1>1 DEF GateOf, Withdrawn, Satisfied, Live
<1>8. CASE GateOf(r)' = GateOf(r)
  BY <1>4, <1>6, <1>8 DEF gateNow
<1>9. CASE GateOf(r)' # GateOf(r)
  <2>1. Denied(r)' = Denied(r)
    BY <1>3 DEF Denied
  <2>2. Tally(r) = "approved" /\ GateOf(r) \in {"shut", "lapsed"} /\ ~Denied(r)
    BY <1>2, <1>3, <1>7, <1>9, <2>1 DEF GateOf, Withdrawn, Satisfied, Live, Tally, Denied
  <2>3. GateOf(r)' = IF Satisfied(r)' THEN "open" ELSE "void"
    <3>1. ~Denied(r)' /\ request'[r].status = "approved"
      BY <1>2, <2>1, <2>2
    <3>2. Satisfied(r)' => r \notin expired'
      BY DEF Satisfied, Live
    <3> QED
      BY <3>1, <3>2 DEF GateOf, Withdrawn
  <2>4. gateNow' = [gateNow EXCEPT ![r] = GateOf(r)']
    BY <1>4 DEF gateNow
  <2>5. Gate!Enough(r)
    <3>1. {d \in approvals[r] : d.choice = "approve"} = approvals[r]
      BY <2>2 DEF Denied, TypeOK, Decisions, Choices
    <3>2. SignersOf(r) = Approvers(approvals[r])
      BY <3>1 DEF SignersOf
    <3>3. Cardinality(SignersOf(r)) >= Needed(r)
      BY <2>2, <3>2 DEF Tally
    <3>4. Needed(r) = RequiredCount(Deployed.risk[r], r \in Explicit)
      BY <1>1 DEF Needed, RiskInv, RiskKept
    <3> QED
      BY <3>3, <3>4 DEF Gate!Enough, Gate!Cardinality, Cardinality
  <2>6. CASE ~Satisfied(r)'
    <3>1. Gate!OpenTooLate(r)
      BY <1>6, <2>2, <2>3, <2>4, <2>5, <2>6 DEF Gate!OpenTooLate, gateNow, signersNow
    <3> QED
      BY <3>1 DEF Gate!Move
  <2>7. CASE Satisfied(r)'
    <3>1. r \notin expired
      BY <1>3, <2>7 DEF Satisfied, Live
    <3>2. GateOf(r) = "shut"
      BY <1>7, <2>2, <3>1
    <3>3. Gate!Open(r)
      BY <1>6, <2>3, <2>4, <2>5, <2>7, <3>2 DEF Gate!Open, gateNow, signersNow
    <3> QED
      BY <3>3 DEF Gate!Move
  <2> QED
    BY <2>6, <2>7
<1> QED
  BY <1>8, <1>9

LEMMA GateInit == Init => Gate!Init
  BY DEF Init, Gate!Init, GateOf, Denied, Withdrawn, Satisfied, Live, NoRequest, SignersOf, Approvers

LEMMA GateNext ==
  ASSUME \A c, d \in Callers : c = d, OneDeployment,
         TypeOK, LedgerInv, NoSelfApproval, PastInv, RiskInv, [Next]_vars
  PROVE  [Gate!Next]_<<gateNow, signersNow>>
<1>1. ASSUME UNCHANGED <<request, approvals>> PROVE Gate!Next
  BY <1>1, GatesClose DEF Gate!Next
<1>2. ASSUME NEW r \in Requests, EnsureRequest(r) PROVE UNCHANGED <<gateNow, signersNow>>
  BY <1>2, EnsureRequestShows
<1>3. ASSUME NEW c \in Callers, SaveApproval(c) \/ Publish(c)
      PROVE  Gate!Next \/ UNCHANGED <<gateNow, signersNow>>
  BY <1>3, SaveApprovalSigns, PublishShows DEF Gate!Next
<1> QED
  BY <1>1, <1>2, <1>3 DEF Next, Decide, RequestExpires, DecideBegin, Authenticate,
     Vet, Reject, ReadTally, AddGrant, RevokeGrant, GrantLapses, Restart, Check,
     CheckBegin, CheckDecisions, CheckApprover, CheckDone, CheckReturn, vars

\* In one deployment and with one caller of decide at a time, tiered approval with
\* all its digests, snapshots, crashes and restarts does what the abstract gate
\* does: it opens once, on enough signatures of people other than the requester and
\* no refusal, and once closed stays closed.
THEOREM GateIsImplemented ==
  ASSUME \A c, d \in Callers : c = d, OneDeployment
  PROVE  Spec => ImplementsGate
<1>1. Init => RiskInv
  BY RiskInit
<1>2. TypeOK /\ RiskInv /\ [Next]_vars => RiskInv'
  BY RiskNext DEF OneDeployment
<1>3. Init => Gate!Init
  BY GateInit
<1>4. TypeOK /\ LedgerInv /\ NoSelfApproval /\ PastInv /\ RiskInv /\ [Next]_vars =>
        [Gate!Next]_<<gateNow, signersNow>>
  BY GateNext
<1>5. Init => NoSelfApproval
  BY DEF Init, NoSelfApproval, NoCall
<1>6. TypeOK /\ NoSelfApproval /\ [Next]_vars => NoSelfApproval'
  BY NoSelfNext
<1> QED
  BY <1>1, <1>2, <1>3, <1>4, <1>5, <1>6, AllHold, PTL DEF Spec, ImplementsGate, Gate!Spec, gateNow, signersNow

\* What the digest promises and a set's iteration order breaks: if no subject has a
\* set field whose order can differ, a restart of the same policy version leaves
\* every valid approval valid, however many calls were in flight.
THEOREM RestartsKeepApprovals ==
  ASSUME Unordered = {}
  PROVE  Spec => RestartKeepsApprovals
<1>1. ASSUME boot'.policy = boot.policy,
             UNCHANGED <<request, expired, approvals, stage, lapsed>>,
             NEW r \in Requests, Satisfied(r)
      PROVE  Satisfied(r)'
  <2>1. \A d : Current(r, d)' = Current(r, d)
    BY <1>1 DEF Current, Permits, Snapshot
  <2>2. Standing(r)' = Standing(r)
    BY <1>1, <2>1 DEF Standing
  <2> QED
    BY <1>1, <2>2 DEF Satisfied, Live, Needed
<1>2. [Next]_vars =>
        (/\ boot'.policy = boot.policy
         /\ boot'.risk = boot.risk
         /\ UNCHANGED <<request, expired, approvals, stage, lapsed>>
         => \A r \in Requests : Satisfied(r) => Satisfied(r)')
  BY <1>1
<1> QED
  BY <1>2, PTL DEF Spec, RestartKeepsApprovals

\* While operators keep the risk they are registered with, a critical step is never
\* satisfied by fewer than two people's approvals, however many calls race.
THEOREM CriticalStepsNeedTwo ==
  ASSUME \A b, d \in Boots : b.risk = d.risk
  PROVE  Spec => []CriticalNeedsTwo
<1>1. ASSUME TypeOK, RiskInv, NEW r \in Requests, boot.risk[r] = "critical", Satisfied(r)
      PROVE  Cardinality({d.approver : d \in {e \in approvals[r] : e.choice = "approve"}}) >= 2
  <2> DEFINE approving == {d.approver : d \in {e \in approvals[r] : e.choice = "approve"}}
  <2>1. Deployed \in Boots /\ boot \in Boots
    BY <1>1 DEF TypeOK, Deployed
  <2>2. request[r].risk = "critical"
    BY <1>1, <2>1 DEF RiskInv, RiskKept, Satisfied, Live
  <2>3. Cardinality(Standing(r)) >= 2
    BY <1>1, <2>2 DEF Satisfied, Needed, RequiredCount
  <2>4. Standing(r) \subseteq approving /\ approving \subseteq Subjects
    BY <1>1 DEF Standing, Approvers, Current, TypeOK, Decisions
  <2>5. IsFiniteSet(approving)
    BY <2>4, ApprovalConstants, FS_Subset
  <2>6. Cardinality(Standing(r)) <= Cardinality(approving)
    BY <2>4, <2>5, FS_Subset
  <2>7. Cardinality(Standing(r)) \in Nat /\ Cardinality(approving) \in Nat
    BY <1>1, <2>5, StandingFinite, FS_CardinalityType
  <2> QED
    BY <2>3, <2>6, <2>7
<1>2. TypeOK /\ RiskInv => CriticalNeedsTwo
  BY <1>1 DEF CriticalNeedsTwo
<1> QED
  BY <1>2, InitType, NextType, RiskInit, RiskNext, PTL DEF Spec
=============================================================================
