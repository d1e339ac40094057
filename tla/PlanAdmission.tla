---------------------------- MODULE PlanAdmission ----------------------------
(***************************************************************************)
(* What stands between a plan and its execution: the validation of a Plan  *)
(* (services/contracts.py), the operator registry (services/operators.py), *)
(* PlanVerifier.verify and ensure_approval_requests (services/policy.py)   *)
(* over the identity, grant, evidence and request tables of                *)
(* services/ledger.py.                                                     *)
(*                                                                         *)
(* verify reads the requester, the planner's profile and identity, the     *)
(* evidence, and then step by step the registry and the approval request,  *)
(* while identities, grants and evidence are written and approvals are     *)
(* decided.  Each of these reads is an action.  Two tasks of one session   *)
(* (an overlapping start and resume) may verify the same plan and ask for  *)
(* its approvals at the same time; ensure_request reads and inserts in     *)
(* two transactions.                                                       *)
(*                                                                         *)
(* Abstractions.  A grant covers one operator of one party; operators and  *)
(* project are within its scope or not.  Who decides a request, and how    *)
(* its approval is withdrawn, is in Approvals: a request is shut, open,    *)
(* refused, lapsed or void here, as in ApprovalGate.  Findings are kept by *)
(* code.  One process: its registry only grows.                            *)
(***************************************************************************)
EXTENDS Naturals, Sequences, FiniteSets

CONSTANTS
  Tasks,       \* tasks that verify the plan, one after the other or at once
  Operators,   \* operator names a plan may use
  Offers,      \* specs the host tries to register
  Candidates,  \* plans: sequences of steps [id, operator, depends_on, evidence_refs]
  Evidence,    \* evidence ids
  Services,    \* service identities a planner profile may name
  MaxChanges,  \* bound: changes of the authority once the first task could begin
  None

ASSUME AdmissionConstants ==
  /\ MaxChanges \in Nat
  /\ \A o \in Offers : /\ DOMAIN o = {"name", "governed", "declared", "model"}
                       /\ o.name \in Operators /\ o.governed \in BOOLEAN
  /\ \A c \in Candidates : /\ Len(c) \in Nat /\ DOMAIN c = 1 .. Len(c)
                            /\ \A i \in DOMAIN c : c[i].operator \in Operators

VARIABLES
  plan,      \* the plan, immutable once it passed validation
  registry,  \* OperatorRegistry: name -> spec
  enrolled,  \* identities
  profile,   \* planner_profiles: the service identity of the plan's profile
  granted,   \* execution_grants in force: <<subject, operator>>
  lapsed,    \* those past their expires_at
  evidence,  \* evidence of the project
  request,   \* approval_requests by step: who inserted it, and how it stands
  task,      \* per task: its call of verify or ensure_approval_requests
  changes,   \* changes of the authority so far
  covered,   \* history: per task, who could run the whole plan, moment by moment
  opened     \* history: per task, the steps whose request was open at some moment

authority == <<registry, enrolled, profile, granted, lapsed, evidence>>
vars == <<plan, authority, request, task, changes, covered, opened>>

REQUESTER == "requester"
Subjects == {REQUESTER} \cup Services

-----------------------------------------------------------------------------
(* Plan.validate_steps. *)

Ids(c) == {c[i].id : i \in DOMAIN c}

\* Mutant of ValidSteps: a dependency need only be a step of the plan.
ValidStepsAnyOrder(c) ==
  /\ Cardinality(Ids(c)) = Len(c)
  /\ \A i \in DOMAIN c : c[i].depends_on \subseteq Ids(c)

\* "prior" holds the ids of the steps before the one at hand.
ValidSteps(c) ==
  /\ Cardinality(Ids(c)) = Len(c)
  /\ \A i \in DOMAIN c : c[i].depends_on \subseteq {c[j].id : j \in 1 .. i - 1}

Positions == DOMAIN plan
Wanted == {plan[i].operator : i \in Positions}

-----------------------------------------------------------------------------
(* Who may do what. *)

\* A declared schema needs the model that enforces it; the planner sees the model's.
Enforced(o) == o.declared = None \/ o.declared = o.model
Entry(o) == [governed |-> o.governed, schema |-> o.model]

Registered(op) == registry[op] # None
Governed(op) == Registered(op) /\ registry[op].governed

InForce == granted \ lapsed

\* Those whom a set of grants lets run every step of the plan.
Entitled(grants) == {who \in Subjects : \A op \in Wanted : <<who, op>> \in grants}

Requests == [gate : {"none", "shut", "open", "refused", "lapsed", "void"}, maker : Tasks \cup {None}]
NoRequest == [gate |-> "none", maker |-> None]

Idle == [pc |-> "idle", requester |-> {}, service |-> None, planner |-> {}, known |-> {},
         at |-> 1, findings |-> {}, verdict |-> "none", ids |-> {}]

\* Everything is granted at first, or all but one thing.
Granted0 == Subjects \X Operators

Init ==
  /\ plan \in {c \in Candidates : ValidSteps(c)}
  /\ registry \in {r \in [Operators -> {None} \cup {Entry(o) : o \in Offers}] :
       \A op \in Operators : r[op] = None \/ \E o \in Offers :
         o.name = op /\ Enforced(o) /\ r[op] = Entry(o)}
  /\ enrolled \in SUBSET Subjects
  /\ profile \in Services \cup {None}
  /\ granted \in {Granted0 \ {g} : g \in Granted0} \cup {Granted0}
  /\ lapsed = {}
  /\ evidence \in SUBSET Evidence
  /\ request = [i \in Positions |-> NoRequest]
  /\ task = [t \in Tasks |-> Idle]
  /\ changes = 0
  /\ covered = [t \in Tasks |-> {}]
  /\ opened = [t \in Tasks |-> {}]

-----------------------------------------------------------------------------
(* The histories: what each task at work could have seen by now. *)

AtWork(t) == task[t].pc # "idle"

NoteGrants == covered' = [t \in Tasks |->
  IF AtWork(t) THEN covered[t] \cup {Entitled(granted' \ lapsed')} ELSE covered[t]]

NoteGates == opened' = [t \in Tasks |->
  IF AtWork(t) THEN opened[t] \cup {i \in Positions : request'[i].gate = "open"} ELSE opened[t]]

-----------------------------------------------------------------------------
(* OperatorRegistry.register, and the ledger's identities, profile, evidence. *)

Changed == changes < MaxChanges /\ changes' = changes + 1

\* A name that is taken is refused.
Register(o) ==
  /\ ~Registered(o.name)
  /\ Enforced(o)
  /\ registry' = [registry EXCEPT ![o.name] = Entry(o)]
  /\ Changed
  /\ UNCHANGED <<plan, enrolled, profile, granted, lapsed, evidence, request, task, covered,
                 opened>>

RegisterIdentity(who) ==
  /\ who \notin enrolled
  /\ enrolled' = enrolled \cup {who}
  /\ Changed
  /\ UNCHANGED <<plan, registry, profile, granted, lapsed, evidence, request, task, covered,
                 opened>>

\* save_planner_profile: another content under the same id is refused.
SaveProfile(who) ==
  /\ profile = None
  /\ profile' = who
  /\ Changed
  /\ UNCHANGED <<plan, registry, enrolled, granted, lapsed, evidence, request, task, covered,
                 opened>>

AddEvidence(e) ==
  /\ e \notin evidence
  /\ evidence' = evidence \cup {e}
  /\ Changed
  /\ UNCHANGED <<plan, registry, enrolled, profile, granted, lapsed, request, task, covered,
                 opened>>

\* add_execution_grant, revoke_execution_grant, and the passing of expires_at.
\* What has lapsed is not issued anew: a grant is named by what it covers.
ChangeGrant(who, op) ==
  /\ Changed
  /\ \/ <<who, op>> \notin lapsed /\ granted' = granted \cup {<<who, op>>} /\ UNCHANGED lapsed
     \/ granted' = granted \ {<<who, op>>} /\ UNCHANGED lapsed
     \/ <<who, op>> \in granted /\ lapsed' = lapsed \cup {<<who, op>>} /\ UNCHANGED granted
  /\ <<granted, lapsed>>' # <<granted, lapsed>>
  /\ NoteGrants
  /\ UNCHANGED <<plan, registry, enrolled, profile, evidence, request, task, opened>>

\* The moves of ApprovalGate: a request is decided, its approval is withdrawn, or its
\* time runs out (a decision that was on its way then may still arrive).
NextGates(gate) ==
  IF gate = "shut" THEN {"open", "refused", "lapsed", "void"}
  ELSE IF gate = "lapsed" THEN {"refused", "void"}
  ELSE IF gate = "open" THEN {"void"} ELSE {}

Decide(i) ==
  /\ \E next \in NextGates(request[i].gate) : request' = [request EXCEPT ![i].gate = next]
  /\ NoteGates
  /\ UNCHANGED <<plan, authority, task, changes, covered>>

-----------------------------------------------------------------------------
(* PlanVerifier.verify. *)

Move(t, k) == task' = [task EXCEPT ![t] = k]
Verifying == <<plan, authority, request, changes>>

\* The finding that ends verify at once: an error of its own.
Invalid(t) == Move(t, [Idle EXCEPT !.pc = "done", !.verdict = "denied",
                                   !.findings = {"identity_invalid"}])

\* snapshot(plan.requester_id)
Begin(t) ==
  /\ ~AtWork(t)
  /\ IF REQUESTER \in enrolled
     THEN Move(t, [Idle EXCEPT !.pc = "profile",
                     !.requester = {op \in Operators : <<REQUESTER, op>> \in granted}])
     ELSE Invalid(t)
  /\ covered' = [covered EXCEPT ![t] = {Entitled(InForce)}]
  /\ opened' = [opened EXCEPT ![t] = {i \in Positions : request[i].gate = "open"}]
  /\ UNCHANGED Verifying

ReadProfile(t) ==
  /\ task[t].pc = "profile"
  /\ IF profile = None THEN Invalid(t)
     ELSE Move(t, [task[t] EXCEPT !.pc = "planner", !.service = profile])
  /\ UNCHANGED <<Verifying, covered, opened>>

\* snapshot(profile.service_identity_id)
ReadPlanner(t) ==
  /\ task[t].pc = "planner"
  /\ IF task[t].service \in enrolled
     THEN Move(t, [task[t] EXCEPT !.pc = "evidence",
                     !.planner = {op \in Operators : <<task[t].service, op>> \in granted}])
     ELSE Invalid(t)
  /\ UNCHANGED <<Verifying, covered, opened>>

ReadEvidence(t) ==
  /\ task[t].pc = "evidence"
  /\ Move(t, [task[t] EXCEPT !.pc = "steps", !.known = evidence])
  /\ UNCHANGED <<Verifying, covered, opened>>

\* ExecutionGrant.permits: the grant is the snapshot's, the clock is not.
Permits(snapshot, who, op) == op \in snapshot /\ <<who, op>> \notin lapsed

\* Mutant of StepFindings: the loop goes on without a finding.
StepFindingsUnknownSkipped(t, i) ==
  LET k == task[t]  op == plan[i].operator IN
  IF ~Registered(op) THEN {}
  ELSE {code \in {"requester_denied", "planner_denied", "unknown_evidence",
                  "approval_denied", "approval_required"} :
    CASE code = "requester_denied" -> ~Permits(k.requester, REQUESTER, op)
      [] code = "planner_denied"   -> ~Permits(k.planner, k.service, op)
      [] code = "unknown_evidence" -> ~(plan[i].evidence_refs \subseteq k.known)
      [] code = "approval_denied"  -> Governed(op) /\ request[i].gate = "refused"
      [] OTHER -> Governed(op) /\ request[i].gate \notin {"refused", "open"}}

\* Mutant of StepFindings: grants are looked up afresh for each step.
StepFindingsFreshGrants(t, i) ==
  LET k == task[t]  op == plan[i].operator IN
  IF ~Registered(op) THEN {"unknown_operator"}
  ELSE {code \in {"requester_denied", "planner_denied", "unknown_evidence",
                  "approval_denied", "approval_required"} :
    CASE code = "requester_denied" -> <<REQUESTER, op>> \notin InForce
      [] code = "planner_denied"   -> <<k.service, op>> \notin InForce
      [] code = "unknown_evidence" -> ~(plan[i].evidence_refs \subseteq k.known)
      [] code = "approval_denied"  -> Governed(op) /\ request[i].gate = "refused"
      [] OTHER -> Governed(op) /\ request[i].gate \notin {"refused", "open"}}

\* The findings about one step.
StepFindings(t, i) ==
  LET k == task[t]  op == plan[i].operator IN
  IF ~Registered(op) THEN {"unknown_operator"}
  ELSE {code \in {"requester_denied", "planner_denied", "unknown_evidence",
                  "approval_denied", "approval_required"} :
    CASE code = "requester_denied" -> ~Permits(k.requester, REQUESTER, op)
      [] code = "planner_denied"   -> ~Permits(k.planner, k.service, op)
      [] code = "unknown_evidence" -> ~(plan[i].evidence_refs \subseteq k.known)
      [] code = "approval_denied"  -> Governed(op) /\ request[i].gate = "refused"
      [] OTHER -> Governed(op) /\ request[i].gate \notin {"refused", "open"}}

JudgeStep(t) ==
  /\ task[t].pc = "steps"
  /\ task[t].at \in Positions
  /\ Move(t, [task[t] EXCEPT !.findings = @ \cup StepFindings(t, task[t].at), !.at = @ + 1])
  /\ UNCHANGED <<Verifying, covered, opened>>

\* "allowed" needs no finding; "requires_approval" none that is an error.
Verdict(findings) ==
  IF findings = {} THEN "allowed"
  ELSE IF findings = {"approval_required"} THEN "requires_approval" ELSE "denied"

Conclude(t) ==
  /\ task[t].pc = "steps"
  /\ task[t].at \notin Positions
  /\ LET v == Verdict(task[t].findings) IN
     Move(t, [task[t] EXCEPT !.verdict = v, !.at = 1,
                             !.pc = IF v = "requires_approval" THEN "ask" ELSE "done"])
  /\ UNCHANGED <<Verifying, covered, opened>>

-----------------------------------------------------------------------------
(* ensure_approval_requests: for each governed step ApprovalService          *)
(* .ensure_request reads, and save_approval_request inserts.                 *)

Asking == <<plan, authority, changes, covered>>

\* registry.get raises for a name it does not have; a step that needs no approval is
\* passed over, a request that exists returned.
AskRead(t) ==
  LET i == task[t].at IN
  /\ task[t].pc = "ask"
  /\ i \in Positions
  /\ Move(t,
       IF ~Registered(plan[i].operator) THEN [task[t] EXCEPT !.pc = "raised"]
       ELSE IF ~Governed(plan[i].operator) THEN [task[t] EXCEPT !.at = @ + 1]
       ELSE IF request[i].gate = "none" THEN [task[t] EXCEPT !.pc = "insert"]
       ELSE [task[t] EXCEPT !.at = @ + 1, !.ids = @ \cup {<<i, request[i].maker>>}])
  /\ UNCHANGED <<Asking, request, opened>>

\* Mutant of AskInsert: the later request replaces the earlier one.
AskInsertReplace(t) ==
  LET i == task[t].at IN
  /\ task[t].pc = "insert"
  /\ request' = [request EXCEPT ![i] = [gate |-> "shut", maker |-> t]]
  /\ Move(t, [task[t] EXCEPT !.pc = "ask", !.at = @ + 1, !.ids = @ \cup {<<i, t>>}])
  /\ UNCHANGED <<Asking, opened>>

\* INSERT OR IGNORE; the caller returns the request it made up in either case.
AskInsert(t) ==
  LET i == task[t].at IN
  /\ task[t].pc = "insert"
  /\ request' = IF request[i].gate = "none"
                THEN [request EXCEPT ![i] = [gate |-> "shut", maker |-> t]] ELSE request
  /\ Move(t, [task[t] EXCEPT !.pc = "ask", !.at = @ + 1, !.ids = @ \cup {<<i, t>>}])
  /\ UNCHANGED <<Asking, opened>>

\* The graph interrupts with the ids it was given.
Asked(t) ==
  /\ task[t].pc = "ask"
  /\ task[t].at \notin Positions
  /\ Move(t, [task[t] EXCEPT !.pc = "waiting"])
  /\ UNCHANGED <<Asking, request, opened>>

\* A resume after the interrupt, or another verification of the plan.
Again(t) ==
  /\ task[t].pc \in {"waiting", "done"}
  /\ Move(t, Idle)
  /\ covered' = [covered EXCEPT ![t] = {}]
  /\ opened' = [opened EXCEPT ![t] = {}]
  /\ UNCHANGED Verifying

-----------------------------------------------------------------------------
Verify(t) ==
  \/ Begin(t)
  \/ ReadProfile(t)
  \/ ReadPlanner(t)
  \/ ReadEvidence(t)
  \/ JudgeStep(t)
  \/ Conclude(t)

Ask(t) == AskRead(t) \/ AskInsert(t) \/ Asked(t)

Next ==
  \/ \E t \in Tasks : Verify(t) \/ Ask(t) \/ Again(t)
  \/ \E o \in Offers : Register(o)
  \/ \E who \in Subjects : RegisterIdentity(who)
  \/ \E who \in Services : SaveProfile(who)
  \/ \E e \in Evidence : AddEvidence(e)
  \/ \E who \in Subjects, op \in Operators : ChangeGrant(who, op)
  \/ \E i \in Positions : Decide(i)

Spec == Init /\ [][Next]_vars

-----------------------------------------------------------------------------
(* Properties. *)

Codes == {"identity_invalid", "unknown_operator", "requester_denied", "planner_denied",
          "unknown_evidence", "approval_denied", "approval_required"}

Calls ==
  [pc : {"idle", "profile", "planner", "evidence", "steps", "ask", "insert", "raised",
         "waiting", "done"},
   requester : SUBSET Operators, service : Services \cup {None},
   planner : SUBSET Operators, known : SUBSET Evidence, at : 1 .. Len(plan) + 1,
   findings : SUBSET Codes, verdict : {"none", "allowed", "requires_approval", "denied"},
   ids : SUBSET (Positions \X (Tasks \cup {None}))]

\* Every variable has its type.
TypeOK ==
  /\ plan \in Candidates
  /\ registry \in [Operators -> {None} \cup
       [governed : BOOLEAN, schema : {None} \cup {o.model : o \in Offers}]]
  /\ enrolled \subseteq Subjects
  /\ profile \in Services \cup {None}
  /\ granted \subseteq Subjects \X Operators
  /\ lapsed \subseteq Subjects \X Operators
  /\ evidence \subseteq Evidence
  /\ request \in [Positions -> Requests]
  /\ task \in [Tasks -> Calls]
  /\ changes \in 0 .. MaxChanges
  /\ covered \in [Tasks -> SUBSET SUBSET Subjects]
  /\ opened \in [Tasks -> SUBSET Positions]

\* A plan that passed validation can be executed in the order in which it is
\* written: when a step's turn comes, each result it looks up without a check is that
\* of a step that has had its turn, and of no other, since no two steps share their
\* result, their row and their request (contracts.py:325-336, execution.py:216).
Executable ==
  /\ \A i \in Positions : \A d \in plan[i].depends_on :
       \E j \in Positions : j < i /\ plan[j].id = d
  /\ \A i, j \in Positions : plan[i].id = plan[j].id => i = j

\* The requester, and the planner whom the profile still names, each held all that an
\* allowed plan wants at one moment of the call: neither's authority is pieced
\* together from grants held at different times, although each grant is looked at when
\* its step's turn comes.  What the verdict says of operators and evidence is still
\* so, and each governed step's request was open during the call (policy.py:93-203).
EverCovered(t) == UNION covered[t]

AllowedWasJustified ==
  \A t \in Tasks : task[t].verdict = "allowed" =>
    /\ {REQUESTER, profile} \subseteq EverCovered(t)
    /\ \A i \in Positions :
         /\ Registered(plan[i].operator)
         /\ plan[i].evidence_refs \subseteq evidence
         /\ Governed(plan[i].operator) => i \in opened[t]

\* They need not have held it at the same moment: the requester's grants are read
\* first, and may be revoked before the planner's are issued (policy.py:96,100).
AllowedAtOneMoment ==
  \A t \in Tasks : task[t].verdict = "allowed" =>
    \E moment \in covered[t] : {REQUESTER, profile} \subseteq moment

\* A plan that needs approval never makes ensure_approval_requests raise, and when
\* the session waits there is a request for each of its governed steps, whichever
\* of two tasks inserted it (policy.py:205-221, ledger.py:488).
WaitsForRequests ==
  \A t \in Tasks :
    /\ task[t].pc # "raised"
    /\ task[t].pc = "waiting" =>
         \A i \in Positions : Governed(plan[i].operator) => request[i].gate # "none"

\* A task that comes late, having found no request, does not undo what was decided
\* about the one inserted before its own.
RequestNeverReset ==
  [][\A i \in Positions : request[i].gate # "none" =>
       /\ request'[i].maker = request[i].maker
       /\ request[i].gate # "shut" => request'[i].gate # "shut"]_vars

\* Every request id a task interrupts with exists.  Not so if two tasks ask at once.
ReturnedIdsExist ==
  \A t \in Tasks : \A id \in task[t].ids : request[id[1]].maker = id[2]

\* What a session waits for can still come.  Not so: a request that went stale, or
\* whose approval was withdrawn, is returned as it is, and nobody can decide it.
WaitIsAnswerable ==
  \A t \in Tasks : task[t].pc = "waiting" =>
    \A i \in Positions : Governed(plan[i].operator) => request[i].gate \notin {"lapsed", "void"}
=============================================================================
