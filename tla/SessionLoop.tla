----------------------------- MODULE SessionLoop -----------------------------
(***************************************************************************)
(* One session of the constitutional loop: LasiGraph and LasiRuntime       *)
(* (services/orchestration/langgraph_runtime.py), the verifier's verdict   *)
(* (policy.py), the decisions table (ledger.py) and the authorization at   *)
(* the head of DeterministicExecutor.execute (execution.py).               *)
(*                                                                         *)
(* start and every resume run the graph in an asyncio task of their own,   *)
(* all of them on one session row and one LangGraph checkpoint; nothing    *)
(* keeps a resume from being called while another task is at work.         *)
(* retrieve, pressure, plan and execute belong to the event loop; verify,  *)
(* request_approval, approval and denied are plain functions, which        *)
(* LangGraph runs in a thread that outlives a cancelled task.              *)
(*                                                                         *)
(* Simplifications.  The planner is one step (see Planning), a run is its  *)
(* row (see PlanExecution), an approval request is the abstract gate that  *)
(* Approvals is shown to implement, with one governed step per plan.       *)
(* granted stands for every check of verify that yields an error other     *)
(* than a denial.  Every caller is authentic and entitled, and holds the   *)
(* lease (see CoordinatorLease) until LoseLease.                           *)
(***************************************************************************)
EXTENDS Naturals, FiniteSets, Sequences

CONSTANTS
  Plans,       \* what the planner may propose
  Governed,    \* of these, the plans with a step that needs approval
  Approvers,   \* people who may decide, other than the requester
  Requester,
  Calls,       \* bound: the calls of start (1) and resume (2, 3, ...)
  MaxCancels,  \* bound: calls of cancel
  MaxChanges,  \* bound: changes of the requester's grants
  None

Errors == {"not_granted", "approval_denied"}
Findings == Errors \cup {"approval_required"}

ASSUME SessionConstants ==
  /\ Governed \subseteq Plans
  /\ Requester \notin Approvers
  /\ Calls \in Nat \ {0}
  /\ MaxCancels \in Nat /\ MaxChanges \in Nat
  /\ None \notin Plans \cup 1 .. Calls
  /\ \A verdict \in SUBSET Findings : verdict # None

VARIABLES
  status,     \* the status column of the sessions row
  cancels,    \* calls of cancel so far
  reached,    \* the last cancel found every task at work, and nothing was resumed since
  active,     \* the session's entry in LasiRuntime._active
  task,       \* the graph tasks
  saved,      \* the latest LangGraph checkpoint
  plans,      \* the plans table
  decisions,  \* the decisions table
  latest,     \* of these, each plan's with the highest sequence number
  runs,       \* the runs table, in the order of the run rows
  requested,  \* plans with an approval request
  granted,    \* the requester's execution grant permits the plan's operators now
  snapshot,   \* stands for the digest of the requester's identity snapshot
  gate, signers

gates == <<requested, gate, signers>>
grants == <<granted, snapshot>>
decided == <<decisions, latest>>
records == <<plans, decided, runs>>
vars == <<status, cancels, reached, active, task, saved, records, gates, grants>>

Tasks == 1 .. Calls

Gate == INSTANCE ApprovalGate WITH
  Requests  <- Governed,
  Subjects  <- Approvers,
  Requester <- [p \in Governed |-> Requester],
  Required  <- [p \in Governed |-> 1]

Nodes == {"plan", "verify", "request_approval", "approval", "execute", "denied"}
\* Steps that the event loop takes without a pause once execute has begun or its
\* last operator has returned.
Authorizing == {"authorizing", "authorized", "judged"}
Stretch == Authorizing \cup {"finishing"}
InThread == {"verify", "verified", "request_approval", "requested", "denied"}
Over == {"idle", "ended"}

\* The node a task is in.
Node(pc) ==
  CASE pc \in Nodes -> pc
    [] pc = "verified" -> "verify"
    [] pc = "requested" -> "request_approval"
    [] OTHER -> "execute"

Idle == [pc |-> "idle", plan |-> None, verification |-> None, current |-> None,
         woken |-> FALSE, unsaved |-> FALSE, detached |-> FALSE, called |-> FALSE,
         entitled |-> FALSE, run |-> 0]
Ended == [Idle EXCEPT !.pc = "ended"]

\* What a checkpoint at the task's last superstep holds.
Boundary(k) == [next |-> Node(k.pc), plan |-> k.plan, verification |-> k.verification]

Init ==
  /\ status = "planning"
  /\ cancels = 0 /\ reached = FALSE
  /\ active = 1
  /\ task = [t \in Tasks |->
       IF t = 1 THEN [Idle EXCEPT !.pc = "plan", !.unsaved = TRUE, !.called = TRUE] ELSE Idle]
  /\ saved = [next |-> "none", plan |-> None, verification |-> None]
  /\ plans = {} /\ decisions = {} /\ latest = [p \in Plans |-> None] /\ runs = <<>>
  /\ requested = {}
  /\ granted = TRUE /\ snapshot = 0
  /\ Gate!Init

-----------------------------------------------------------------------------
(* The graph's tasks. *)

AtWork(t) == task[t].pc \notin Over
\* asyncio still knows the task; a thread it left behind does not count.
Scheduled(t) == AtWork(t) /\ ~(task[t].detached /\ task[t].pc \in InThread)

LoopFree(t) == \A u \in Tasks \ {t} : task[u].pc \notin Stretch

\* The task goes on to the next node.
MoveTo(t, k, pc) ==
  task' = [task EXCEPT ![t] =
    IF @.detached THEN Ended ELSE [k EXCEPT !.pc = pc, !.unsaved = TRUE]]

\* Within a node.
Step(t, pc) == task' = [task EXCEPT ![t].pc = pc]

\* The caller's finally removes whatever entry the session has.
Popped(t) == IF task[t].called THEN None ELSE active

\* The task ends, having saved what it had not; a cancelled node's output is lost.
Flushed(t) == IF task[t].unsaved THEN Boundary(task[t]) ELSE saved
Stop(t) ==
  /\ task' = [task EXCEPT ![t] = Ended]
  /\ saved' = Flushed(t)
  /\ active' = Popped(t)

\* The graph reached END.
Complete(t) ==
  /\ task' = [task EXCEPT ![t] = Ended]
  /\ IF task[t].detached THEN UNCHANGED saved
     ELSE saved' = [Boundary(task[t]) EXCEPT !.next = "end"]
  /\ active' = Popped(t)

\* A checkpoint is written while the next node is at work already.
Persist(t) ==
  /\ Scheduled(t) /\ task[t].unsaved
  /\ saved' = Boundary(task[t])
  /\ task' = [task EXCEPT ![t].unsaved = FALSE]
  /\ UNCHANGED <<status, cancels, reached, active, records, gates, grants>>

\* retrieve, pressure and plan; in this graph plan never finds a plan to keep.
Plan(t) ==
  /\ task[t].pc = "plan" /\ LoopFree(t)
  /\ \E p \in Plans :
       /\ plans' = plans \cup {p}
       /\ MoveTo(t, [task[t] EXCEPT !.plan = p], "verify")
  /\ UNCHANGED <<status, cancels, reached, active, saved, decided, runs, gates, grants>>

\* An exception leaves retrieve, pressure or plan.
Raise(t) ==
  /\ task[t].pc = "plan" /\ LoopFree(t)
  /\ Stop(t)
  /\ UNCHANGED <<status, cancels, reached, records, gates, grants>>

-----------------------------------------------------------------------------
(* Verification. *)

\* Mutant of GateFindings: a step nobody has asked about yet passes.
GateFindingsUnasked(p) ==
  IF p \notin Governed \/ p \notin requested \/ gate[p] = "open" THEN {{}}
  ELSE IF gate[p] = "refused" THEN {{"approval_denied"}, {"approval_required"}}
  ELSE {{"approval_required"}}

\* What verify may find about a plan's approval.  A denial whose status is not
\* published yet counts as an approval that is missing.
GateFindings(p) ==
  IF p \notin Governed THEN {{}}
  ELSE IF p \notin requested THEN {{"approval_required"}}
  ELSE IF gate[p] = "open" THEN {{}}
  ELSE IF gate[p] = "refused" THEN {{"approval_denied"}, {"approval_required"}}
  ELSE {{"approval_required"}}

Verdicts(p) == {f \cup (IF granted THEN {} ELSE {"not_granted"}) : f \in GateFindings(p)}

Allowed(verdict) == verdict = {}

\* What decision_id is a digest of.
Decision(p, verdict) == [plan |-> p, snapshot |-> snapshot, findings |-> verdict]

Judge(t) ==
  /\ task[t].pc \in {"verify", "authorizing"} /\ (task[t].pc = "verify" \/ LoopFree(t))
  /\ \E v \in Verdicts(task[t].plan) :
       task' = [task EXCEPT ![t].current = Decision(task[t].plan, v),
                            ![t].pc = IF @ = "verify" THEN "verified" ELSE "authorized"]
  /\ UNCHANGED <<status, cancels, reached, active, saved, records, gates, grants>>

Insert(d) ==
  /\ decisions' = decisions \cup {d}
  /\ latest' = [latest EXCEPT ![d.plan] = d]

\* Mutant of AddDecision: one decision per plan.
AddDecisionOnce(d) == IF \E e \in decisions : e.plan = d.plan THEN UNCHANGED decided ELSE Insert(d)

\* record_decision: an equal decision is not recorded again.
AddDecision(d) == IF d \in decisions THEN UNCHANGED decided ELSE Insert(d)

Route(verdict) ==
  IF Allowed(verdict) THEN "execute"
  ELSE IF verdict \cap Errors = {} THEN "request_approval" ELSE "denied"

\* The end of the verify node, and the edges that leave it.
RecordVerdict(t) ==
  LET d == task[t].current IN
  /\ task[t].pc = "verified"
  /\ AddDecision(d)
  /\ MoveTo(t, [task[t] EXCEPT !.verification = d.findings, !.current = None],
            Route(d.findings))
  /\ UNCHANGED <<status, cancels, reached, active, saved, plans, runs, gates, grants>>

\* ensure_approval_requests; the request of an earlier visit is returned as it is.
RequestApproval(t) ==
  /\ task[t].pc = "request_approval"
  /\ requested' = requested \cup ({task[t].plan} \cap Governed)
  /\ Step(t, "requested")
  /\ UNCHANGED <<status, cancels, reached, active, saved, records, gate, signers, grants>>

AwaitApproval(t) ==
  /\ task[t].pc = "requested"
  /\ status' = "awaiting_approval"
  /\ MoveTo(t, task[t], "approval")
  /\ UNCHANGED <<cancels, reached, active, saved, records, gates, grants>>

\* Mutant of Approval: a task that was resumed does not interrupt again.
ApprovalResumed(t) ==
  /\ task[t].pc = "approval" /\ LoopFree(t)
  /\ IF task[t].woken \/ t > 1
     THEN /\ MoveTo(t, task[t], "verify")
          /\ UNCHANGED <<saved, active>>
     ELSE Stop(t)
  /\ UNCHANGED <<status, cancels, reached, records, gates, grants>>

\* interrupt ends the task, unless the session was resumed right here.
Approval(t) ==
  /\ task[t].pc = "approval" /\ LoopFree(t)
  /\ IF task[t].woken
     THEN /\ MoveTo(t, [task[t] EXCEPT !.woken = FALSE], "verify")
          /\ UNCHANGED <<saved, active>>
     ELSE Stop(t)
  /\ UNCHANGED <<status, cancels, reached, records, gates, grants>>

Denied(t) ==
  /\ task[t].pc = "denied"
  /\ status' = "denied"
  /\ Complete(t)
  /\ UNCHANGED <<cancels, reached, records, gates, grants>>

-----------------------------------------------------------------------------
(* Execution. *)

Execute(t) ==
  /\ task[t].pc = "execute" /\ LoopFree(t)
  /\ status' = "running"
  /\ task' = [task EXCEPT ![t].pc = "authorizing", ![t].entitled = granted]
  /\ UNCHANGED <<cancels, reached, active, saved, records, gates, grants>>

\* The decision of the authorization is recorded whether it allows the run or not.
RecordAuthorization(t) ==
  /\ task[t].pc = "authorized"
  /\ AddDecision(task[t].current)
  /\ Step(t, "judged")
  /\ UNCHANGED <<status, cancels, reached, active, saved, plans, runs, gates, grants>>

\* Mutant of Authorized: the decision that led here is enough.
AuthorizedBefore(t) == Allowed(task[t].verification)

Authorized(t) == Allowed(task[t].verification) /\ Allowed(task[t].current.findings)

\* ExecutionDenied; the session stays as it is.
RefuseRun(t) ==
  /\ task[t].pc = "judged" /\ ~Authorized(t)
  /\ Stop(t)
  /\ UNCHANGED <<status, cancels, reached, records, gates, grants>>

StartRun(t) ==
  /\ task[t].pc = "judged" /\ Authorized(t)
  /\ runs' = Append(runs, [plan |-> task[t].plan, status |-> "running", entitled |-> task[t].entitled])
  /\ task' = [task EXCEPT ![t] = [@ EXCEPT !.pc = "running", !.run = Len(runs) + 1,
                                          !.current = None, !.entitled = FALSE]]
  /\ UNCHANGED <<status, cancels, reached, active, saved, plans, decided, gates, grants>>

\* finish_run; a cancelled operator's result ends the run as cancelled.
FinishRun(t) ==
  /\ task[t].pc = "running" /\ LoopFree(t)
  /\ \E s \in IF task[t].detached THEN {"cancelled"}
              ELSE {"succeeded", "failed", "reconciliation_required"} :
       runs' = [runs EXCEPT ![task[t].run].status = s]
  /\ Step(t, "finishing")
  /\ UNCHANGED <<status, cancels, reached, active, saved, plans, decided, gates, grants>>

\* Mutant of PublishRun: the status is always that of a success.
PublishRunSucceeded(t) ==
  /\ task[t].pc = "finishing"
  /\ status' = "succeeded"
  /\ Complete(t)
  /\ UNCHANGED <<cancels, reached, records, gates, grants>>

PublishRun(t) ==
  /\ task[t].pc = "finishing"
  /\ status' = runs[task[t].run].status
  /\ Complete(t)
  /\ UNCHANGED <<cancels, reached, records, gates, grants>>

-----------------------------------------------------------------------------
(* What is done to the tasks.  Only the event loop does it, so never within a *)
(* stretch.                                                                   *)

\* task.cancel() and what comes of it: a node in a thread runs on unless the thread
\* was not started yet; a run ends as cancelled, or is cut short with its row.
Interrupt(t) ==
  \/ Stop(t)
  \/ /\ task[t].pc \in InThread
     /\ task' = [task EXCEPT ![t].detached = TRUE, ![t].unsaved = FALSE, ![t].called = FALSE]
     /\ saved' = Flushed(t)
     /\ active' = Popped(t)
  \/ /\ task[t].pc = "running" /\ ~task[t].detached
     /\ task' = [task EXCEPT ![t].detached = TRUE, ![t].unsaved = FALSE]
     /\ saved' = Flushed(t)
     /\ UNCHANGED active

Quiet == \A t \in Tasks : task[t].pc \notin Stretch

\* Mutant of Cancel: a session that awaits its run is only marked.
CancelMark ==
  /\ cancels < MaxCancels /\ Quiet
  /\ cancels' = cancels + 1
  /\ status' = "cancelled"
  /\ reached' = (\A t \in Tasks : Scheduled(t) => t = active)
  /\ UNCHANGED <<task, saved, active, records, gates, grants>>

\* cancel: the row first, then the task that _active names, if any.
Cancel ==
  /\ cancels < MaxCancels /\ Quiet
  /\ cancels' = cancels + 1
  /\ status' = "cancelled"
  /\ reached' = (\A t \in Tasks : Scheduled(t) => t = active)
  /\ IF active = None THEN UNCHANGED <<task, saved, active>> ELSE Interrupt(active)
  /\ UNCHANGED <<records, gates, grants>>

\* resume, whatever the status is; at END, or with nothing saved, the graph does nothing.
Resume(t) ==
  /\ task[t].pc = "idle" /\ Quiet
  /\ \A u \in 1 .. t - 1 : task[u].pc # "idle"
  /\ saved.next \in Nodes
  /\ task' = [task EXCEPT ![t] =
       [Idle EXCEPT !.pc = saved.next, !.plan = saved.plan, !.verification = saved.verification,
                    !.woken = (saved.next = "approval"), !.called = TRUE]]
  /\ active' = t
  /\ reached' = FALSE
  /\ UNCHANGED <<status, cancels, saved, records, gates, grants>>

\* The heartbeat fails to renew the lease, and cancels its task.
LoseLease(t) ==
  /\ Scheduled(t) /\ task[t].called /\ Quiet
  /\ Interrupt(t)
  /\ UNCHANGED <<status, cancels, reached, records, gates, grants>>

\* Whoever awaits start or resume is cancelled itself: asyncio.wait leaves the task
\* at work, and the entry in _active is removed.
CallerGone(t) ==
  /\ Scheduled(t) /\ task[t].called /\ Quiet
  /\ task' = [task EXCEPT ![t].called = FALSE]
  /\ active' = None
  /\ UNCHANGED <<status, cancels, reached, saved, records, gates, grants>>

\* The process dies; the ledger and the checkpoint survive.
Crash ==
  /\ \E t \in Tasks : AtWork(t)
  /\ task' = [t \in Tasks |-> IF AtWork(t) THEN Ended ELSE task[t]]
  /\ active' = None
  /\ UNCHANGED <<status, cancels, reached, saved, records, gates, grants>>

-----------------------------------------------------------------------------
(* Authority. *)

\* People decide, requests expire, approvals are withdrawn.
Decide ==
  /\ \E p \in requested : Gate!Move(p)
  /\ UNCHANGED <<status, cancels, reached, active, task, saved, records, requested, grants>>

\* A grant that expires is not part of a snapshot's digest; a grant that is revoked
\* or issued is.
GrantLapses ==
  /\ granted
  /\ granted' = FALSE
  /\ UNCHANGED <<status, cancels, reached, active, task, saved, records, gates, snapshot>>

GrantChanges ==
  /\ snapshot < MaxChanges
  /\ snapshot' = snapshot + 1
  /\ granted' \in BOOLEAN
  /\ task' = [t \in Tasks |->
                [task[t] EXCEPT !.entitled = @ \/ (granted' /\ task[t].pc \in Authorizing)]]
  /\ UNCHANGED <<status, cancels, reached, active, saved, records, gates>>

Proceed(t) ==
  \/ Plan(t) \/ Raise(t) \/ Judge(t) \/ RecordVerdict(t)
  \/ RequestApproval(t) \/ AwaitApproval(t) \/ Approval(t) \/ Denied(t)
  \/ Execute(t) \/ RecordAuthorization(t) \/ RefuseRun(t) \/ StartRun(t)
  \/ FinishRun(t) \/ PublishRun(t)

Next ==
  \/ \E t \in Tasks : Proceed(t) \/ Persist(t) \/ Resume(t) \/ LoseLease(t) \/ CallerGone(t)
  \/ Cancel \/ Crash \/ Decide \/ GrantLapses \/ GrantChanges

Spec == Init /\ [][Next]_vars

\* The event loop and LangGraph's threads run on, the planner answers (Planning) and
\* a run ends (PlanExecution).
FairSpec == Spec /\ WF_vars(\E t \in Tasks : Proceed(t))

-----------------------------------------------------------------------------
(* Properties. *)

Statuses == {"planning", "awaiting_approval", "running", "succeeded", "failed",
             "denied", "cancelled", "reconciliation_required"}
Decisions == [plan : Plans, snapshot : 0 .. MaxChanges, findings : SUBSET Findings]

PlanOrNone == Plans \cup {None}
VerdictOrNone == (SUBSET Findings) \cup {None}

TaskType ==
  [pc : Nodes \cup Stretch \cup InThread \cup Over \cup {"running"},
   plan : PlanOrNone, verification : VerdictOrNone, current : Decisions \cup {None},
   woken : BOOLEAN, unsaved : BOOLEAN, detached : BOOLEAN, called : BOOLEAN,
   entitled : BOOLEAN, run : Nat]

\* What is true of a task, or of a checkpoint, that is at a node: past the plan node it
\* has a plan, and what led it there is the verdict it holds.
AtNode(node, plan, verification) ==
  /\ node = "plan" => plan = None /\ verification = None
  /\ node # "plan" => plan \in Plans
  /\ node = "execute" => verification = {}
  /\ node \in {"request_approval", "approval"} => verification = {"approval_required"}
  /\ node = "denied" => verification \in SUBSET Findings /\ verification \cap Errors # {}

TaskOK(k) ==
  /\ k \in TaskType
  /\ k.pc \notin Over => AtNode(Node(k.pc), k.plan, k.verification)
  /\ k.pc \in Over => ~k.unsaved
  /\ k.pc \in {"verified", "authorized", "judged"} =>
       k.current \in Decisions /\ k.current.plan = k.plan

CheckpointOK(c) ==
  /\ c \in [next : Nodes \cup {"none", "end"}, plan : PlanOrNone, verification : VerdictOrNone]
  /\ c.next \in Nodes => AtNode(c.next, c.plan, c.verification)

TasksOK == task \in [Tasks -> TaskType] /\ \A t \in Tasks : TaskOK(task[t])

\* Every variable has its type; a task or a checkpoint is where its verdict leads.
TypeOK ==
  /\ status \in Statuses
  /\ cancels \in 0 .. MaxCancels /\ reached \in BOOLEAN
  /\ active \in Tasks \cup {None}
  /\ TasksOK /\ CheckpointOK(saved)
  /\ plans \subseteq Plans /\ requested \subseteq Governed
  /\ decisions \subseteq Decisions
  /\ latest \in [Plans -> Decisions \cup {None}]
  /\ runs \in Seq([plan : Plans, status : Statuses, entitled : BOOLEAN])
  /\ granted \in BOOLEAN /\ snapshot \in 0 .. MaxChanges
  /\ gate \in [Governed -> Gate!GateStates] /\ signers \in [Governed -> SUBSET Approvers]

\* "Interrupt for approval or stop on denial" (01_ARCHITECTURE.md:12): a plan that
\* needs approval runs only if its gate was opened by enough people, however the
\* session was cancelled, resumed and replayed; so no refused plan ever ran.
RunWasApproved ==
  \A i \in DOMAIN runs :
    LET p == runs[i].plan IN
    p \in Governed => gate[p] \in {"open", "void"} /\ signers[p] # {}

\* "Authorization is recalculated immediately before execution" (04_EXECUTION.md:13):
\* the requester was entitled at or after the moment the execute node that started the
\* run began, although its checkpoint may be much older.
RunWasEntitled == \A i \in DOMAIN runs : runs[i].entitled

\* The append-only ledger explains what happened: a run has an allowed decision on
\* record, and what a checkpoint says was decided is on record too.
AuditTrail ==
  /\ \A i \in DOMAIN runs :
       \E d \in decisions : d.plan = runs[i].plan /\ Allowed(d.findings)
  /\ saved.verification # None =>
       \E d \in decisions : d.plan = saved.plan /\ d.findings = saved.verification
  /\ {d.plan : d \in decisions} \cup requested \subseteq plans

\* Whatever the order in which tasks, threads and cancel write it, the status of the
\* session is one that something in the ledger accounts for.
StatusExplained ==
  /\ status \in {"succeeded", "failed", "reconciliation_required"} =>
       \E i \in DOMAIN runs : runs[i].status = status
  /\ status = "cancelled" => cancels > 0 \/ \E i \in DOMAIN runs : runs[i].status = status
  /\ status = "running" => \E d \in decisions : Allowed(d.findings)
  /\ status = "denied" => \E d \in decisions : d.findings \cap Errors # {}
  /\ status = "awaiting_approval" =>
       \E d \in decisions :
         d.findings = {"approval_required"} /\ d.plan \in requested

\* Once cancel returned, having found every task at work, no run of the session
\* starts until somebody resumes it.
NoRunAfterCancel == [][reached => Len(runs') = Len(runs)]_vars

\* start and resume end: at END, at an interrupt or with an exception.
CallsEnd == []<>(\A t \in Tasks : ~AtWork(t))

\* "Equivalent allowed decisions are content-deduplicated; changed authority state
\* creates a different decision" (04_EXECUTION.md:14-15): the latest decision on record
\* is the latest that was made.
LatestIsCurrent ==
  [][\A t \in Tasks :
       RecordVerdict(t) \/ RecordAuthorization(t) =>
         latest'[task[t].plan] = task[t].current]_vars
=============================================================================
