-------------------------- MODULE SessionLoopProofs --------------------------
(***************************************************************************)
(* Theorems about SessionLoop, for any plans, any number of resumes,       *)
(* cancels and changes of authority, and any number of approvers.          *)
(***************************************************************************)
EXTENDS SessionLoop, FiniteSetTheorems, TLAPS

-----------------------------------------------------------------------------
(* What the operations on a task's record and on a checkpoint preserve. *)

LEMMA EmptyTask == TaskOK(Idle) /\ TaskOK(Ended)
  BY DEF TaskOK, TaskType, Idle, Ended, Over, PlanOrNone, VerdictOrNone

\* A task that goes on to where its verdict leads is a task again.
LEMMA MovedTask ==
  ASSUME NEW k \in TaskType, NEW pc \in Nodes, AtNode(pc, k.plan, k.verification)
  PROVE  TaskOK([k EXCEPT !.pc = pc, !.unsaved = TRUE])
<1> DEFINE m == [k EXCEPT !.pc = pc, !.unsaved = TRUE]
<1>1. m \in TaskType
  BY DEF TaskType, Nodes
<1>2. m.pc = pc /\ m.plan = k.plan /\ m.verification = k.verification
  BY DEF TaskType
<1>3. Node(pc) = pc /\ pc \notin Over /\ pc \notin {"verified", "authorized", "judged"}
  BY DEF Node, Nodes, Over
<1> QED
  BY <1>1, <1>2, <1>3 DEF TaskOK

\* A task that stays within its node is a task again.
LEMMA SteppedTask ==
  ASSUME NEW k, TaskOK(k), k.pc \notin Over,
         NEW pc \in Stretch \cup InThread \cup {"running"}, Node(pc) = Node(k.pc),
         pc \in {"verified", "authorized", "judged"} =>
           k.current \in Decisions /\ k.current.plan = k.plan
  PROVE  TaskOK([k EXCEPT !.pc = pc])
<1> DEFINE m == [k EXCEPT !.pc = pc]
<1>1. m \in TaskType
  BY DEF TaskOK, TaskType
<1>2. /\ m.pc = pc /\ m.plan = k.plan /\ m.verification = k.verification
      /\ m.current = k.current
  BY DEF TaskOK, TaskType
<1>3. pc \notin Over
  BY DEF Over, Stretch, Authorizing, InThread
<1> QED
  BY <1>1, <1>2, <1>3 DEF TaskOK

\* The flags of a task say nothing about where it is.
LEMMA FlaggedTask ==
  ASSUME NEW k, TaskOK(k), NEW m \in TaskType,
         m.pc = k.pc, m.plan = k.plan, m.verification = k.verification,
         m.current = k.current, k.pc \in Over => ~m.unsaved
  PROVE  TaskOK(m)
  BY DEF TaskOK

LEMMA NodesOfTasks ==
  ASSUME NEW k \in TaskType PROVE Node(k.pc) \in Nodes
  BY DEF Node, Nodes

LEMMA BoundaryChecked ==
  ASSUME NEW k, TaskOK(k), k.pc \notin Over
  PROVE  CheckpointOK(Boundary(k)) /\ CheckpointOK([Boundary(k) EXCEPT !.next = "end"])
<1>1. k \in TaskType /\ Node(k.pc) \in Nodes
  BY NodesOfTasks DEF TaskOK
<1>2. AtNode(Node(k.pc), k.plan, k.verification)
  BY DEF TaskOK
<1>3. k.plan \in PlanOrNone /\ k.verification \in VerdictOrNone
  BY <1>1 DEF TaskType
<1> HIDE DEF AtNode
<1>4. CheckpointOK(Boundary(k))
  BY <1>1, <1>2, <1>3 DEF CheckpointOK, Boundary
<1>5. "end" \notin Nodes
  BY DEF Nodes
<1> QED
  BY <1>3, <1>4, <1>5 DEF CheckpointOK, Boundary

-----------------------------------------------------------------------------
(* Type correctness. *)

LEMMA OneTask ==
  ASSUME TasksOK, NEW t \in Tasks, NEW m, TaskOK(m), task' = [task EXCEPT ![t] = m]
  PROVE  TasksOK'
  BY DEF TasksOK, TaskOK

LEMMA Moved ==
  ASSUME TasksOK, NEW t \in Tasks, NEW k \in TaskType, NEW pc \in Nodes,
         AtNode(pc, k.plan, k.verification), MoveTo(t, k, pc)
  PROVE  TasksOK'
<1>1. TaskOK(IF task[t].detached THEN Ended ELSE [k EXCEPT !.pc = pc, !.unsaved = TRUE])
  BY EmptyTask, MovedTask
<1> QED
  BY <1>1, OneTask DEF MoveTo

LEMMA Stepped ==
  ASSUME TasksOK, NEW t \in Tasks, AtWork(t),
         NEW pc \in Stretch \cup InThread \cup {"running"}, Node(pc) = Node(task[t].pc),
         pc \in {"verified", "authorized", "judged"} =>
           task[t].current \in Decisions /\ task[t].current.plan = task[t].plan,
         Step(t, pc)
  PROVE  TasksOK'
<1>1. TaskOK(task[t]) /\ task[t].pc \notin Over
  BY DEF TasksOK, AtWork
<1>2. TaskOK([task[t] EXCEPT !.pc = pc])
  BY <1>1, SteppedTask
<1>3. task' = [task EXCEPT ![t] = [task[t] EXCEPT !.pc = pc]]
  BY DEF Step, TasksOK
<1> QED
  BY <1>2, <1>3, OneTask

LEMMA Saved ==
  ASSUME TasksOK, CheckpointOK(saved), NEW t \in Tasks
  PROVE  CheckpointOK(Flushed(t))
<1>1. TaskOK(task[t])
  BY DEF TasksOK
<1>2. task[t].unsaved => task[t].pc \notin Over
  BY <1>1 DEF TaskOK
<1> QED
  BY <1>1, <1>2, BoundaryChecked DEF Flushed

LEMMA Stopped ==
  ASSUME TypeOK, NEW t \in Tasks, Stop(t)
  PROVE  TasksOK' /\ CheckpointOK(saved)' /\ active' \in Tasks \cup {None}
<1>1. TasksOK'
  BY EmptyTask, OneTask DEF Stop, TypeOK
<1>2. CheckpointOK(saved)'
  <2>1. CheckpointOK(Flushed(t))
    BY Saved DEF TypeOK
  <2>2. saved' = Flushed(t)
    BY DEF Stop
  <2> QED
    BY <2>1, <2>2 DEF CheckpointOK
<1>3. active' \in Tasks \cup {None}
  BY DEF Stop, Popped, TypeOK
<1> QED
  BY <1>1, <1>2, <1>3

LEMMA Completed ==
  ASSUME TypeOK, NEW t \in Tasks, AtWork(t), Complete(t)
  PROVE  TasksOK' /\ CheckpointOK(saved)' /\ active' \in Tasks \cup {None}
<1>1. TasksOK'
  BY EmptyTask, OneTask DEF Complete, TypeOK
<1>2. CheckpointOK(saved)'
  <2>1. CheckpointOK([Boundary(task[t]) EXCEPT !.next = "end"])
    BY BoundaryChecked DEF TypeOK, TasksOK, AtWork
  <2>2. saved' \in {saved, [Boundary(task[t]) EXCEPT !.next = "end"]}
    BY DEF Complete
  <2> QED
    BY <2>1, <2>2 DEF CheckpointOK, TypeOK
<1>3. active' \in Tasks \cup {None}
  BY DEF Complete, Popped, TypeOK
<1> QED
  BY <1>1, <1>2, <1>3

LEMMA Interrupted ==
  ASSUME TypeOK, NEW t \in Tasks, Interrupt(t)
  PROVE  TasksOK' /\ CheckpointOK(saved)' /\ active' \in Tasks \cup {None}
<1> DEFINE k == task[t]
<1>0. k \in TaskType /\ TaskOK(k)
  BY DEF TypeOK, TasksOK
<1>1. CASE Stop(t)
  BY <1>1, Stopped
<1>2. CASE ~Stop(t)
  <2>1. saved' = Flushed(t) /\ active' \in {active, Popped(t)}
    BY <1>2 DEF Interrupt
  <2>2. CheckpointOK(saved)'
    BY <2>1, Saved DEF TypeOK, CheckpointOK
  <2>3. active' \in Tasks \cup {None}
    BY <2>1 DEF Popped, TypeOK
  <2>4. PICK m \in {[k EXCEPT !.detached = TRUE, !.unsaved = FALSE, !.called = FALSE],
                    [k EXCEPT !.detached = TRUE, !.unsaved = FALSE]} :
             task' = [task EXCEPT ![t] = m]
    BY <1>2 DEF Interrupt, TypeOK, TasksOK
  <2>5. m \in TaskType /\ ~m.unsaved
    BY <1>0 DEF TaskType
  <2>6. /\ m.pc = k.pc /\ m.plan = k.plan /\ m.verification = k.verification
        /\ m.current = k.current
    BY <1>0 DEF TaskType
  <2>7. TaskOK(m)
    BY <1>0, <2>5, <2>6, FlaggedTask
  <2> QED
    BY <2>2, <2>3, <2>4, <2>7, OneTask DEF TypeOK
<1> QED
  BY <1>1, <1>2

LEMMA VerdictsAreFindings ==
  ASSUME NEW p, NEW v \in Verdicts(p) PROVE v \in SUBSET Findings
  BY DEF Verdicts, GateFindings, Findings, Errors

LEMMA DecisionsRecorded ==
  ASSUME TypeOK, NEW d \in Decisions, AddDecision(d)
  PROVE  decisions' \subseteq Decisions /\ latest' \in [Plans -> Decisions \cup {None}]
  BY DEF TypeOK, AddDecision, Insert, decided

LEMMA InitType == Init => TypeOK
<1> SUFFICES ASSUME Init PROVE TypeOK
  OBVIOUS
<1> USE SessionConstants DEF Init
<1>1. TasksOK
  <2> DEFINE k == [Idle EXCEPT !.pc = "plan", !.unsaved = TRUE, !.called = TRUE]
  <2>1. TaskOK(k)
    BY DEF TaskOK, TaskType, Idle, Over, Nodes, AtNode, Node, PlanOrNone, VerdictOrNone
  <2>2. TaskOK(Idle) /\ TaskType = TaskType
    BY EmptyTask
  <2> QED
    BY <2>1, <2>2 DEF TasksOK, TaskOK
<1>2. CheckpointOK(saved)
  BY DEF CheckpointOK, Nodes, PlanOrNone, VerdictOrNone
<1>3. active \in Tasks \cup {None}
  BY DEF Tasks
<1>4. gate \in [Governed -> Gate!GateStates] /\ signers \in [Governed -> SUBSET Approvers]
  BY DEF Gate!Init, Gate!GateStates
<1>5. runs \in Seq([plan : Plans, status : Statuses, entitled : BOOLEAN])
  OBVIOUS
<1>6. latest \in [Plans -> Decisions \cup {None}]
  OBVIOUS
<1>7. plans \subseteq Plans /\ requested \subseteq Governed /\ decisions \subseteq Decisions
  OBVIOUS
<1>8. status \in Statuses /\ granted \in BOOLEAN /\ reached \in BOOLEAN
  BY DEF Statuses
<1>9. cancels \in 0 .. MaxCancels /\ snapshot \in 0 .. MaxChanges
  OBVIOUS
<1> HIDE SessionConstants DEF Init
<1> QED
  BY <1>1, <1>2, <1>3, <1>4, <1>5, <1>6, <1>7, <1>8, <1>9 DEF TypeOK

\* The steps of a task up to the verdict.
LEMMA PlanningType ==
  ASSUME TypeOK, NEW t \in Tasks, Persist(t) \/ Plan(t) \/ Raise(t)
  PROVE  TypeOK'
<1> DEFINE k == task[t]
<1>0. k \in TaskType /\ TaskOK(k)
  BY DEF TypeOK, TasksOK
<1>1. CASE Persist(t)
  <2>1. CheckpointOK(saved)'
    <3>1. CheckpointOK(Boundary(k))
      BY <1>0, <1>1, BoundaryChecked DEF Persist, Scheduled, AtWork
    <3> QED
      BY <1>1, <3>1 DEF Persist, CheckpointOK
  <2>2. TasksOK'
    <3> DEFINE m == [k EXCEPT !.unsaved = FALSE]
    <3>1. m \in TaskType /\ ~m.unsaved
      BY <1>0 DEF TaskType
    <3>2. /\ m.pc = k.pc /\ m.plan = k.plan /\ m.verification = k.verification
          /\ m.current = k.current
      BY <1>0 DEF TaskType
    <3>3. TaskOK(m)
      BY <1>0, <3>1, <3>2, FlaggedTask
    <3>4. task' = [task EXCEPT ![t] = m]
      BY <1>1 DEF Persist, TypeOK, TasksOK
    <3> QED
      BY <3>3, <3>4, OneTask DEF TypeOK
  <2> QED
    BY <1>1, <2>1, <2>2 DEF Persist, TypeOK, records, decided, gates, grants
<1>2. CASE Plan(t)
  <2>1. PICK p \in Plans : /\ plans' = plans \cup {p}
                           /\ MoveTo(t, [k EXCEPT !.plan = p], "verify")
    BY <1>2 DEF Plan
  <2> DEFINE m == [k EXCEPT !.plan = p]
  <2>2. m \in TaskType /\ m.plan = p
    BY <1>0 DEF TaskType, PlanOrNone
  <2>3. AtNode("verify", m.plan, m.verification) /\ "verify" \in Nodes
    BY <2>2 DEF AtNode, Nodes
  <2>4. TasksOK'
    BY <2>1, <2>2, <2>3, Moved DEF TypeOK
  <2> QED
    BY <1>2, <2>1, <2>4 DEF Plan, TypeOK, CheckpointOK, decided, gates, grants
<1>3. CASE Raise(t)
  BY <1>3, Stopped DEF Raise, TypeOK, records, decided, gates, grants
<1> QED
  BY <1>1, <1>2, <1>3

LEMMA JudgingType ==
  ASSUME TypeOK, NEW t \in Tasks, Judge(t) PROVE TypeOK'
<1> DEFINE k == task[t]
<1>0. k \in TaskType /\ TaskOK(k) /\ k.pc \in {"verify", "authorizing"}
  BY DEF TypeOK, TasksOK, Judge
<1>1. PICK v \in Verdicts(k.plan) :
         task' = [task EXCEPT ![t].current = Decision(k.plan, v),
                              ![t].pc = IF @ = "verify" THEN "verified" ELSE "authorized"]
  BY DEF Judge
<1> DEFINE pc == IF k.pc = "verify" THEN "verified" ELSE "authorized"
           m == [k EXCEPT !.current = Decision(k.plan, v), !.pc = pc]
<1>2. k.plan \in Plans /\ AtNode(Node(k.pc), k.plan, k.verification)
  BY <1>0 DEF TaskOK, Over, Node, Nodes, AtNode
<1>3. Decision(k.plan, v) \in Decisions /\ Decision(k.plan, v).plan = k.plan
  BY <1>2, VerdictsAreFindings DEF Decision, Decisions, TypeOK
<1>4. Node(pc) = Node(k.pc) /\ pc \notin Over /\ pc \in Stretch \cup InThread
  BY <1>0 DEF Node, Nodes, Over, Stretch, Authorizing, InThread
<1>5. m \in TaskType
  BY <1>0, <1>3, <1>4 DEF TaskType
<1>6. /\ m.pc = pc /\ m.plan = k.plan /\ m.verification = k.verification
      /\ m.current = Decision(k.plan, v)
  BY <1>0 DEF TaskType
<1>7. TaskOK(m)
  BY <1>2, <1>3, <1>4, <1>5, <1>6 DEF TaskOK
<1>8. task' = [task EXCEPT ![t] = m]
  BY <1>1 DEF TypeOK, TasksOK
<1>9. TasksOK'
  BY <1>7, <1>8, OneTask DEF TypeOK
<1> QED
  BY <1>9 DEF Judge, TypeOK, CheckpointOK, records, decided, gates, grants

LEMMA VerdictType ==
  ASSUME TypeOK, NEW t \in Tasks, RecordVerdict(t) PROVE TypeOK'
<1> DEFINE k == task[t]  d == k.current
           m == [k EXCEPT !.verification = d.findings, !.current = None]
<1>0. k \in TaskType /\ TaskOK(k) /\ k.pc = "verified"
  BY DEF TypeOK, TasksOK, RecordVerdict
<1>1. k.plan \in Plans
  BY <1>0 DEF TaskOK, Over, Node, Nodes, AtNode
<1>2. d \in Decisions /\ d.findings \in SUBSET Findings
  BY <1>0 DEF TaskOK, Decisions
<1>3. m \in TaskType /\ m.plan = k.plan /\ m.verification = d.findings
  BY <1>0, <1>2 DEF TaskType, VerdictOrNone
<1>4. Route(d.findings) \in Nodes /\ AtNode(Route(d.findings), m.plan, m.verification)
  BY <1>1, <1>2, <1>3 DEF Route, Allowed, Nodes, AtNode, Findings, Errors
<1>5. TasksOK'
  BY <1>3, <1>4, Moved DEF TypeOK, RecordVerdict
<1>6. decisions' \subseteq Decisions /\ latest' \in [Plans -> Decisions \cup {None}]
  BY <1>2, DecisionsRecorded DEF RecordVerdict
<1> QED
  BY <1>5, <1>6 DEF RecordVerdict, TypeOK, CheckpointOK, gates, grants

\* The steps of a task from the request for approval to the start of a run.
LEMMA ApprovalType ==
  ASSUME TypeOK, NEW t \in Tasks,
         RequestApproval(t) \/ AwaitApproval(t) \/ Approval(t) \/ Denied(t)
  PROVE  TypeOK'
<1> DEFINE k == task[t]
<1>0. k \in TaskType /\ TaskOK(k)
  BY DEF TypeOK, TasksOK
<1>1. CASE RequestApproval(t)
  <2>1. TasksOK'
    <3>1. "requested" \in InThread /\ Node("requested") = Node(k.pc) /\ AtWork(t)
      BY <1>1 DEF RequestApproval, InThread, Node, Nodes, AtWork, Over
    <3>2. Step(t, "requested")
      BY <1>1 DEF RequestApproval
    <3> QED
      BY <3>1, <3>2, Stepped DEF TypeOK
  <2>2. requested' \subseteq Governed
    BY <1>1 DEF RequestApproval, TypeOK
  <2> QED
    BY <1>1, <2>1, <2>2 DEF RequestApproval, TypeOK, CheckpointOK, records, decided, grants
<1>2. CASE AwaitApproval(t)
  <2>1. TasksOK'
    <3>1. AtNode("request_approval", k.plan, k.verification)
      BY <1>0, <1>2 DEF AwaitApproval, TaskOK, Over, Node, Nodes
    <3>2. AtNode("approval", k.plan, k.verification) /\ "approval" \in Nodes
      BY <3>1 DEF AtNode, Nodes
    <3> QED
      BY <1>0, <1>2, <3>2, Moved DEF TypeOK, AwaitApproval
  <2>2. status' \in Statuses
    BY <1>2 DEF AwaitApproval, Statuses
  <2> QED
    BY <1>2, <2>1, <2>2
       DEF AwaitApproval, TypeOK, CheckpointOK, records, decided, gates, grants
<1>3. CASE Approval(t)
  <2>1. CASE Stop(t)
    BY <1>3, <2>1, Stopped DEF Approval, TypeOK, records, decided, gates, grants
  <2>2. CASE ~Stop(t)
    <3> DEFINE m == [k EXCEPT !.woken = FALSE]
    <3>1. MoveTo(t, m, "verify") /\ UNCHANGED <<saved, active>> /\ k.pc = "approval"
      BY <1>3, <2>2 DEF Approval
    <3>2. m \in TaskType /\ m.plan = k.plan /\ m.verification = k.verification
      BY <1>0 DEF TaskType
    <3>3. AtNode("verify", m.plan, m.verification) /\ "verify" \in Nodes
      BY <1>0, <3>1, <3>2 DEF TaskOK, AtNode, Over, Node, Nodes
    <3>4. TasksOK'
      BY <3>1, <3>2, <3>3, Moved DEF TypeOK
    <3> QED
      BY <1>3, <3>1, <3>4
         DEF Approval, TypeOK, CheckpointOK, records, decided, gates, grants
  <2> QED
    BY <2>1, <2>2
<1>4. CASE Denied(t)
  <2>1. AtWork(t) /\ Complete(t) /\ status' \in Statuses
    BY <1>4 DEF Denied, AtWork, Over, Statuses
  <2> QED
    BY <1>4, <2>1, Completed DEF Denied, TypeOK, records, decided, gates, grants
<1> QED
  BY <1>1, <1>2, <1>3, <1>4

LEMMA AuthorizingType ==
  ASSUME TypeOK, NEW t \in Tasks,
         Execute(t) \/ RecordAuthorization(t) \/ RefuseRun(t)
  PROVE  TypeOK'
<1> DEFINE k == task[t]
<1>0. k \in TaskType /\ TaskOK(k)
  BY DEF TypeOK, TasksOK
<1>1. CASE Execute(t)
  <2> DEFINE m == [k EXCEPT !.pc = "authorizing", !.entitled = granted]
  <2>1. m \in TaskType
    BY <1>0 DEF TaskType, TypeOK, Stretch, Authorizing
  <2>2. m.pc = "authorizing" /\ m.plan = k.plan /\ m.verification = k.verification
    BY <1>0 DEF TaskType
  <2>3. AtNode(Node("authorizing"), k.plan, k.verification)
    BY <1>0, <1>1 DEF Execute, TaskOK, Over, Node, Nodes
  <2>4. TaskOK(m)
    BY <2>1, <2>2, <2>3 DEF TaskOK, Over
  <2>5. task' = [task EXCEPT ![t] = m]
    BY <1>1 DEF Execute, TypeOK, TasksOK
  <2>6. TasksOK' /\ status' \in Statuses
    BY <1>1, <2>4, <2>5, OneTask DEF TypeOK, Execute, Statuses
  <2> QED
    BY <1>1, <2>6 DEF Execute, TypeOK, CheckpointOK, records, decided, gates, grants
<1>2. CASE RecordAuthorization(t)
  <2>1. TasksOK'
    <3>1. "judged" \in Stretch /\ Node("judged") = Node(k.pc) /\ AtWork(t)
      BY <1>2 DEF RecordAuthorization, Stretch, Authorizing, Node, Nodes, AtWork, Over
    <3>2. k.current \in Decisions /\ k.current.plan = k.plan /\ Step(t, "judged")
      BY <1>0, <1>2 DEF TaskOK, RecordAuthorization
    <3> QED
      BY <3>1, <3>2, Stepped DEF TypeOK
  <2>2. k.current \in Decisions /\ AddDecision(k.current)
    BY <1>0, <1>2 DEF TaskOK, RecordAuthorization
  <2>3. decisions' \subseteq Decisions /\ latest' \in [Plans -> Decisions \cup {None}]
    BY <2>2, DecisionsRecorded
  <2> QED
    BY <1>2, <2>1, <2>3 DEF RecordAuthorization, TypeOK, CheckpointOK, gates, grants
<1>3. CASE RefuseRun(t)
  BY <1>3, Stopped DEF RefuseRun, TypeOK, records, decided, gates, grants
<1> QED
  BY <1>1, <1>2, <1>3

LEMMA ElementOfSeq ==
  ASSUME NEW S, NEW q \in Seq(S), NEW i \in DOMAIN q PROVE q[i] \in S
  OBVIOUS

LEMMA RunType ==
  ASSUME TypeOK, NEW t \in Tasks,
         StartRun(t) \/ PublishRun(t) \/ FinishRun(t),
         task[t].pc \in {"running", "finishing"} => task[t].run \in DOMAIN runs
  PROVE  TypeOK'
<1> DEFINE k == task[t]
           Row == [plan : Plans, status : Statuses, entitled : BOOLEAN]
<1>0. k \in TaskType /\ TaskOK(k)
  BY DEF TypeOK, TasksOK
<1>a. runs \in Seq(Row)
  BY DEF TypeOK
<1>1. CASE StartRun(t)
  <2> DEFINE m == [k EXCEPT !.pc = "running", !.run = Len(runs) + 1,
                            !.current = None, !.entitled = FALSE]
             row == [plan |-> k.plan, status |-> "running", entitled |-> k.entitled]
  <2>0. Len(runs) + 1 \in Nat
    BY <1>a
  <2>1. m \in TaskType
    BY <1>0, <2>0 DEF TaskType
  <2>2. m.pc = "running" /\ m.plan = k.plan /\ m.verification = k.verification
    BY <1>0 DEF TaskType
  <2>3. AtNode(Node("running"), k.plan, k.verification) /\ k.plan \in Plans
    BY <1>0, <1>1 DEF StartRun, TaskOK, Over, Node, Nodes, AtNode
  <2>4. TaskOK(m)
    BY <2>1, <2>2, <2>3 DEF TaskOK, Over
  <2>5. task' = [task EXCEPT ![t] = m]
    BY <1>1 DEF StartRun, TypeOK, TasksOK
  <2>6. TasksOK'
    BY <2>4, <2>5, OneTask DEF TypeOK
  <2>7. row \in Row
    BY <1>0, <2>3 DEF TaskType, Statuses
  <2>8. runs' = Append(runs, row)
    BY <1>1 DEF StartRun
  <2>9. runs' \in Seq(Row)
    BY <1>a, <2>7, <2>8
  <2> QED
    BY <1>1, <2>6, <2>9 DEF StartRun, TypeOK, CheckpointOK, decided, gates, grants
<1>2. CASE FinishRun(t)
  <2>1. PICK s \in Statuses : runs' = [runs EXCEPT ![k.run].status = s]
    BY <1>2 DEF FinishRun, Statuses
  <2>2. k.run \in DOMAIN runs
    BY <1>2 DEF FinishRun
  <2>3. runs[k.run] \in Row
    BY <1>a, <2>2, ElementOfSeq
  <2>4. [runs[k.run] EXCEPT !.status = s] \in Row
    BY <2>1, <2>3
  <2>5. runs' = [runs EXCEPT ![k.run] = [runs[k.run] EXCEPT !.status = s]]
    BY <2>1
  <2>6. runs' \in Seq(Row)
    BY <1>a, <2>2, <2>4, <2>5
  <2>7. TasksOK'
    <3>1. "finishing" \in Stretch /\ Node("finishing") = Node(k.pc) /\ AtWork(t)
      BY <1>2 DEF FinishRun, Stretch, Node, Nodes, AtWork, Over
    <3>2. Step(t, "finishing")
      BY <1>2 DEF FinishRun
    <3> QED
      BY <3>1, <3>2, Stepped DEF TypeOK
  <2> QED
    BY <1>2, <2>6, <2>7 DEF FinishRun, TypeOK, CheckpointOK, decided, gates, grants
<1>3. CASE PublishRun(t)
  <2>1. AtWork(t) /\ Complete(t)
    BY <1>3 DEF PublishRun, AtWork, Over
  <2>2. runs[k.run] \in Row
    <3>1. k.run \in DOMAIN runs
      BY <1>3 DEF PublishRun
    <3> QED
      BY <1>a, <3>1, ElementOfSeq
  <2>3. status' \in Statuses
    BY <1>3, <2>2 DEF PublishRun
  <2> QED
    BY <1>3, <2>1, <2>3, Completed DEF PublishRun, TypeOK, records, decided, gates, grants
<1> QED
  BY <1>1, <1>2, <1>3

\* What is done to the tasks.
LEMMA CallType ==
  ASSUME TypeOK, NEW t \in Tasks, Resume(t) \/ LoseLease(t) \/ CallerGone(t)
  PROVE  TypeOK'
<1> DEFINE k == task[t]
<1>0. k \in TaskType /\ TaskOK(k)
  BY DEF TypeOK, TasksOK
<1>1. CASE Resume(t)
  <2> DEFINE m == [Idle EXCEPT !.pc = saved.next, !.plan = saved.plan,
                               !.verification = saved.verification,
                               !.woken = (saved.next = "approval"), !.called = TRUE]
  <2>1. /\ saved.next \in Nodes /\ saved.plan \in PlanOrNone
        /\ saved.verification \in VerdictOrNone
        /\ AtNode(saved.next, saved.plan, saved.verification)
    BY <1>1 DEF Resume, TypeOK, CheckpointOK
  <2>2. m \in TaskType
    BY <2>1 DEF Idle, TaskType, PlanOrNone, VerdictOrNone
  <2>3. m.pc = saved.next /\ m.plan = saved.plan /\ m.verification = saved.verification
    BY DEF Idle
  <2>4. Node(saved.next) = saved.next /\ saved.next \notin Over
        /\ saved.next \notin {"verified", "authorized", "judged"}
    BY <2>1 DEF Node, Nodes, Over
  <2>5. TaskOK(m)
    BY <2>1, <2>2, <2>3, <2>4 DEF TaskOK
  <2>6. TasksOK'
    BY <1>1, <2>5, OneTask DEF Resume, TypeOK
  <2> QED
    BY <1>1, <2>6 DEF Resume, TypeOK, CheckpointOK, records, decided, gates, grants
<1>2. CASE LoseLease(t)
  BY <1>2, Interrupted DEF LoseLease, TypeOK, records, decided, gates, grants
<1>3. CASE CallerGone(t)
  <2> DEFINE m == [k EXCEPT !.called = FALSE]
  <2>1. m \in TaskType
    BY <1>0 DEF TaskType
  <2>2. /\ m.pc = k.pc /\ m.plan = k.plan /\ m.verification = k.verification
        /\ m.current = k.current /\ m.unsaved = k.unsaved
    BY <1>0 DEF TaskType
  <2>3. TaskOK(m)
    BY <1>0, <2>1, <2>2, FlaggedTask DEF TaskOK
  <2>4. task' = [task EXCEPT ![t] = m]
    BY <1>3 DEF CallerGone, TypeOK, TasksOK
  <2>5. TasksOK'
    BY <2>3, <2>4, OneTask DEF TypeOK
  <2> QED
    BY <1>3, <2>5 DEF CallerGone, TypeOK, CheckpointOK, records, decided, gates, grants
<1> QED
  BY <1>1, <1>2, <1>3

LEMMA CancelType ==
  ASSUME TypeOK, Cancel PROVE TypeOK'
<1>1. TasksOK' /\ CheckpointOK(saved)' /\ active' \in Tasks \cup {None}
  <2>1. CASE active = None
    BY <2>1 DEF Cancel, TypeOK, TasksOK, CheckpointOK
  <2>2. CASE active # None
    BY <2>2, Interrupted DEF Cancel, TypeOK
  <2> QED
    BY <2>1, <2>2
<1>2. cancels' \in 0 .. MaxCancels
  BY SessionConstants DEF Cancel, TypeOK
<1>3. reached' \in BOOLEAN
  BY DEF Cancel
<1>4. status' \in Statuses
  BY DEF Cancel, Statuses
<1> QED
  BY <1>1, <1>2, <1>3, <1>4 DEF Cancel, TypeOK, records, decided, gates, grants

LEMMA CrashType ==
  ASSUME TypeOK, Crash PROVE TypeOK'
<1>1. TasksOK'
  BY EmptyTask DEF Crash, TypeOK, TasksOK, TaskOK
<1> QED
  BY <1>1 DEF Crash, TypeOK, CheckpointOK, records, decided, gates, grants

LEMMA AuthorityType ==
  ASSUME TypeOK, Decide \/ GrantLapses \/ GrantChanges PROVE TypeOK'
<1>1. CASE Decide
  <2>1. PICK p \in requested : Gate!Move(p)
    BY <1>1 DEF Decide
  <2>2. /\ gate' \in [Governed -> Gate!GateStates]
        /\ signers' \in [Governed -> SUBSET Approvers]
    BY <2>1 DEF TypeOK, Gate!Move, Gate!Sign, Gate!Open, Gate!OpenTooLate, Gate!Refuse, Gate!Close,
                Gate!GateStates
  <2> QED
    BY <1>1, <2>2 DEF Decide, TypeOK, TasksOK, CheckpointOK, records, decided, grants
<1>2. CASE GrantLapses
  BY <1>2 DEF GrantLapses, TypeOK, TasksOK, CheckpointOK, records, decided, gates
<1>3. CASE GrantChanges
  <2>1. ASSUME NEW t \in Tasks PROVE TaskOK(task[t]) /\ TaskOK(task'[t])
    <3> DEFINE k == task[t]
               m == [k EXCEPT !.entitled = @ \/ (granted' /\ k.pc \in Authorizing)]
    <3>1. k \in TaskType /\ TaskOK(k)
      BY DEF TypeOK, TasksOK
    <3>2. m \in TaskType
      BY <3>1 DEF TaskType
    <3>3. /\ m.pc = k.pc /\ m.plan = k.plan /\ m.verification = k.verification
          /\ m.current = k.current /\ m.unsaved = k.unsaved
      BY <3>1 DEF TaskType
    <3>4. TaskOK(m)
      BY <3>1, <3>2, <3>3, FlaggedTask DEF TaskOK
    <3> QED
      BY <1>3, <3>1, <3>4 DEF GrantChanges
  <2>2. TasksOK'
    BY <1>3, <2>1 DEF GrantChanges, TasksOK, TaskOK
  <2>3. snapshot' \in 0 .. MaxChanges
    BY <1>3, SessionConstants DEF GrantChanges, TypeOK
  <2>4. granted' \in BOOLEAN
    BY <1>3 DEF GrantChanges
  <2> QED
    BY <1>3, <2>2, <2>3, <2>4 DEF GrantChanges, TypeOK, CheckpointOK, records, decided, gates
<1> QED
  BY <1>1, <1>2, <1>3

\* A task that is running a plan, or has just run it, has a run row of its own, open
\* until the run ends.
Running(t) == task[t].pc \in {"running", "finishing"}
Ends == {"succeeded", "failed", "reconciliation_required", "cancelled"}

OwnRun ==
  /\ \A t \in Tasks :
       /\ Running(t) => task[t].run \in DOMAIN runs
       /\ task[t].pc = "running" => runs[task[t].run].status = "running"
       /\ task[t].pc = "finishing" => runs[task[t].run].status \in Ends
  /\ \A t, u \in Tasks : Running(t) /\ Running(u) /\ t # u => task[t].run # task[u].run

LEMMA NextType == TypeOK /\ OwnRun /\ [Next]_vars => TypeOK'
<1> SUFFICES ASSUME TypeOK, OwnRun, [Next]_vars PROVE TypeOK'
  OBVIOUS
<1>1. ASSUME NEW t \in Tasks, Proceed(t) PROVE TypeOK'
  <2>1. CASE Plan(t) \/ Raise(t)
    BY <2>1, PlanningType
  <2>2. CASE Judge(t)
    BY <2>2, JudgingType
  <2>3. CASE RecordVerdict(t)
    BY <2>3, VerdictType
  <2>4. CASE RequestApproval(t) \/ AwaitApproval(t) \/ Approval(t) \/ Denied(t)
    BY <2>4, ApprovalType
  <2>5. CASE Execute(t) \/ RecordAuthorization(t) \/ RefuseRun(t)
    BY <2>5, AuthorizingType
  <2>6. CASE StartRun(t) \/ PublishRun(t) \/ FinishRun(t)
    BY <2>6, RunType DEF OwnRun, Running
  <2> QED
    BY <1>1, <2>1, <2>2, <2>3, <2>4, <2>5, <2>6 DEF Proceed
<1>2. ASSUME NEW t \in Tasks, Persist(t) PROVE TypeOK'
  BY <1>2, PlanningType
<1>3. ASSUME NEW t \in Tasks, Resume(t) \/ LoseLease(t) \/ CallerGone(t) PROVE TypeOK'
  BY <1>3, CallType
<1>4. CASE Cancel
  BY <1>4, CancelType
<1>5. CASE Crash
  BY <1>5, CrashType
<1>6. CASE Decide \/ GrantLapses \/ GrantChanges
  BY <1>6, AuthorityType
<1>7. CASE UNCHANGED vars
  BY <1>7 DEF TypeOK, TasksOK, CheckpointOK, vars, records, decided, gates, grants
<1> QED
  BY <1>1, <1>2, <1>3, <1>4, <1>5, <1>6, <1>7 DEF Next

-----------------------------------------------------------------------------
(* What a step leaves alone.  Same: the task goes on where it was; it may have  *)
(* been cancelled, and what it was entitled to it still is.                     *)

Same(k, m) ==
  /\ m.pc = k.pc /\ m.plan = k.plan /\ m.verification = k.verification
  /\ m.current = k.current /\ m.run = k.run
  /\ k.entitled => m.entitled
  /\ k.detached => m.detached

\* A resume begins where the checkpoint is.
Resumed(m) ==
  /\ m.pc \in Nodes /\ m.pc = saved.next
  /\ m.plan = saved.plan /\ m.verification = saved.verification
  /\ ~m.detached /\ ~reached'

CallControl(t) == Persist(t) \/ Resume(t) \/ LoseLease(t) \/ CallerGone(t)
Control ==
  \/ \E t \in Tasks : CallControl(t)
  \/ Cancel \/ Crash \/ Decide \/ GrantLapses \/ GrantChanges \/ UNCHANGED vars

LEMMA NextCases == [Next]_vars => Control \/ \E t \in Tasks : Proceed(t)
  BY DEF Next, Control, CallControl

LEMMA SameTask == ASSUME NEW k PROVE Same(k, k)
  BY DEF Same

LEMMA InterruptedTasks ==
  ASSUME TypeOK, NEW t \in Tasks, Interrupt(t)
  PROVE  /\ \A u \in Tasks : Same(task[u], task'[u]) \/ task'[u] = Ended
         /\ saved' = saved \/ (AtWork(t) /\ saved' = Boundary(task[t]))
<1> DEFINE k == task[t]
<1>0. k \in TaskType /\ TaskOK(k)
  BY DEF TypeOK, TasksOK
<1>1. saved' = Flushed(t)
  BY DEF Interrupt, Stop
<1>2. k.unsaved => AtWork(t)
  BY <1>0 DEF TaskOK, AtWork
<1>3. PICK m \in {Ended, [k EXCEPT !.detached = TRUE, !.unsaved = FALSE, !.called = FALSE],
                  [k EXCEPT !.detached = TRUE, !.unsaved = FALSE]} :
           task' = [task EXCEPT ![t] = m]
  BY DEF Interrupt, Stop, TypeOK, TasksOK
<1>4. Same(k, m) \/ m = Ended
  BY <1>0 DEF Same, TaskType
<1>5. \A u \in Tasks : task'[u] = IF u = t THEN m ELSE task[u]
  BY <1>3 DEF TypeOK, TasksOK
<1>6. saved' = saved \/ (AtWork(t) /\ saved' = Boundary(task[t]))
  <2>1. CASE task[t].unsaved
    BY <1>1, <1>2, <2>1 DEF Flushed
  <2>2. CASE ~task[t].unsaved
    BY <1>1, <2>2 DEF Flushed
  <2> QED
    BY <2>1, <2>2
<1> HIDE DEF k
<1>7. \A u \in Tasks : Same(task[u], task'[u]) \/ task'[u] = Ended
  BY <1>4, <1>5, SameTask DEF k
<1> QED
  BY <1>6, <1>7

LEMMA ControlStep ==
  ASSUME TypeOK, Control
  PROVE  /\ \A u \in Tasks : Same(task[u], task'[u]) \/ task'[u] = Ended \/ Resumed(task'[u])
         /\ saved' = saved \/ \E t \in Tasks : AtWork(t) /\ saved' = Boundary(task[t])
         /\ UNCHANGED <<plans, decisions, runs, requested>>
<1>1. ASSUME NEW t \in Tasks, Persist(t)
      PROVE  /\ \A u \in Tasks : Same(task[u], task'[u])
             /\ AtWork(t) /\ saved' = Boundary(task[t])
  <2>1. \A u \in Tasks : task[u] \in TaskType
    BY DEF TypeOK, TasksOK
  <2>2. task' = [task EXCEPT ![t].unsaved = FALSE]
    BY <1>1 DEF Persist
  <2>3. ASSUME NEW u \in Tasks PROVE Same(task[u], task'[u])
    <3> DEFINE m == [task[t] EXCEPT !.unsaved = FALSE]
    <3>1. task'[u] = IF u = t THEN m ELSE task[u]
      BY <2>2 DEF TypeOK, TasksOK
    <3>2. Same(task[t], m)
      BY <2>1 DEF Same, TaskType
    <3> QED
      BY <3>1, <3>2, SameTask
  <2> QED
    BY <1>1, <2>3 DEF Persist, Scheduled
<1>2. ASSUME NEW t \in Tasks, Resume(t)
      PROVE  \A u \in Tasks : task'[u] = task[u] \/ Resumed(task'[u])
  <2> DEFINE m == [Idle EXCEPT !.pc = saved.next, !.plan = saved.plan,
                               !.verification = saved.verification,
                               !.woken = (saved.next = "approval"), !.called = TRUE]
  <2>1. Resumed(m)
    BY <1>2 DEF Resume, Resumed, Idle
  <2>2. task' = [task EXCEPT ![t] = m]
    BY <1>2 DEF Resume
  <2> HIDE DEF m
  <2> QED
    BY <2>1, <2>2 DEF TypeOK, TasksOK
<1>3. ASSUME NEW t \in Tasks, CallerGone(t)
      PROVE  \A u \in Tasks : Same(task[u], task'[u])
  <2>1. task[t] \in TaskType
    BY DEF TypeOK, TasksOK
  <2>2. task' = [task EXCEPT ![t].called = FALSE]
    BY <1>3 DEF CallerGone
  <2> DEFINE m == [task[t] EXCEPT !.called = FALSE]
  <2>3. \A u \in Tasks : task'[u] = IF u = t THEN m ELSE task[u]
    BY <2>2 DEF TypeOK, TasksOK
  <2>4. Same(task[t], m)
    BY <2>1 DEF Same, TaskType
  <2> QED
    BY <2>3, <2>4, SameTask
<1>4. ASSUME GrantChanges PROVE \A u \in Tasks : Same(task[u], task'[u])
  <2>1. ASSUME NEW u \in Tasks PROVE Same(task[u], task'[u])
    <3>1. task[u] \in TaskType
      BY DEF TypeOK, TasksOK
    <3>2. task'[u] = [task[u] EXCEPT !.entitled = @ \/ (granted' /\ task[u].pc \in Authorizing)]
      BY <1>4 DEF GrantChanges
    <3> QED
      BY <3>1, <3>2 DEF Same, TaskType
  <2> QED
    BY <2>1
<1>5. ASSUME Crash PROVE \A u \in Tasks : task'[u] = task[u] \/ task'[u] = Ended
  BY <1>5 DEF Crash
<1>6. CASE \E t \in Tasks : CallControl(t)
  <2>1. PICK t \in Tasks : CallControl(t)
    BY <1>6
  <2>2. CASE Persist(t)
    BY <2>2, <1>1 DEF Persist, records, decided, gates
  <2>3. CASE Resume(t)
    BY <2>3, <1>2, SameTask DEF Resume, records, decided, gates
  <2>4. CASE LoseLease(t)
    BY <2>4, InterruptedTasks DEF LoseLease, records, decided, gates
  <2>5. CASE CallerGone(t)
    BY <2>5, <1>3 DEF CallerGone, records, decided, gates
  <2> QED
    BY <2>1, <2>2, <2>3, <2>4, <2>5 DEF CallControl
<1>7. CASE Cancel
  <2>1. CASE active = None
    BY <1>7, <2>1, SameTask DEF Cancel, records, decided, gates
  <2>2. CASE active # None
    BY <1>7, <2>2, InterruptedTasks DEF Cancel, TypeOK, records, decided, gates
  <2> QED
    BY <2>1, <2>2
<1>8. CASE Crash
  BY <1>8, <1>5, SameTask DEF Crash, records, decided, gates
<1>9. CASE GrantChanges
  BY <1>9, <1>4 DEF GrantChanges, records, decided, gates
<1>10. CASE Decide \/ GrantLapses \/ UNCHANGED vars
  BY <1>10, SameTask DEF Decide, GrantLapses, vars, records, decided, gates
<1> QED
  BY <1>6, <1>7, <1>8, <1>9, <1>10 DEF Control

LEMMA OtherTasks ==
  ASSUME TypeOK, NEW t \in Tasks, Proceed(t), NEW u \in Tasks \ {t}
  PROVE  task'[u] = task[u]
  BY DEF Proceed, Plan, Raise, Judge, RecordVerdict, RequestApproval, AwaitApproval,
         Approval, Denied, Execute, RecordAuthorization, RefuseRun, StartRun, FinishRun,
         PublishRun, MoveTo, Step, Stop, Complete, TypeOK, TasksOK

LEMMA EndedFacts ==
  /\ Ended.pc = "ended" /\ Ended.verification = None /\ Ended.plan = None
  /\ "ended" \in Over /\ "ended" \notin Stretch /\ "ended" \notin InThread
  /\ "ended" \notin Authorizing /\ "ended" \notin Nodes
  BY DEF Ended, Idle, Over, Stretch, Authorizing, InThread, Nodes

\* The steps that end a node.
LEMMA Leaving ==
  ASSUME TypeOK, NEW t \in Tasks, NEW k \in TaskType, NEW pc \in Nodes, MoveTo(t, k, pc)
  PROVE  \/ task'[t] = Ended
         \/ /\ ~task[t].detached
            /\ task'[t].pc = pc /\ task'[t].plan = k.plan
            /\ task'[t].verification = k.verification
            /\ task'[t].detached = k.detached
<1>1. task'[t] = IF task[t].detached THEN Ended ELSE [k EXCEPT !.pc = pc, !.unsaved = TRUE]
  BY DEF MoveTo, TypeOK, TasksOK
<1>2. CASE task[t].detached
  BY <1>1, <1>2
<1>3. CASE ~task[t].detached
  <2>1. task'[t] = [k EXCEPT !.pc = pc, !.unsaved = TRUE]
    BY <1>1, <1>3
  <2> QED
    BY <1>3, <2>1 DEF TaskType
<1> QED
  BY <1>2, <1>3

LEMMA Ending ==
  ASSUME TypeOK, NEW t \in Tasks, Stop(t) \/ Complete(t)
  PROVE  task'[t] = Ended
  BY DEF Stop, Complete, TypeOK, TasksOK

\* What each step makes of the task that takes it.
LEMMA PlanEffect ==
  ASSUME TypeOK, NEW t \in Tasks, Plan(t)
  PROVE  \E p \in Plans :
           /\ plans' = plans \cup {p}
           /\ \/ task'[t] = Ended
              \/ /\ task'[t].pc = "verify" /\ task'[t].plan = p
                 /\ task'[t].verification = None /\ ~task[t].detached
<1> DEFINE k == task[t]
<1>0. k \in TaskType /\ TaskOK(k)
  BY DEF TypeOK, TasksOK
<1>1. PICK p \in Plans : /\ plans' = plans \cup {p}
                         /\ MoveTo(t, [k EXCEPT !.plan = p], "verify")
  BY DEF Plan
<1> DEFINE m == [k EXCEPT !.plan = p]
<1>2. m \in TaskType /\ m.plan = p /\ m.verification = k.verification
  BY <1>0 DEF TaskType, PlanOrNone
<1>3. k.verification = None
  BY <1>0 DEF Plan, TaskOK, Over, Node, Nodes, AtNode
<1>4. "verify" \in Nodes
  BY DEF Nodes
<1> HIDE DEF m
<1>5. \/ task'[t] = Ended
      \/ /\ task'[t].pc = "verify" /\ task'[t].plan = m.plan
         /\ task'[t].verification = m.verification /\ ~task[t].detached
  BY <1>1, <1>2, <1>4, Leaving DEF m
<1> QED
  BY <1>1, <1>2, <1>3, <1>5

LEMMA VerdictEffect ==
  ASSUME TypeOK, NEW t \in Tasks, RecordVerdict(t)
  PROVE  /\ task[t].plan \in Plans /\ task[t].current \in Decisions
         /\ task[t].current.plan = task[t].plan
         /\ \/ task'[t] = Ended
            \/ /\ task'[t].pc = Route(task[t].current.findings)
               /\ task'[t].plan = task[t].plan
               /\ task'[t].verification = task[t].current.findings
               /\ ~task[t].detached
<1> DEFINE k == task[t]
           m == [k EXCEPT !.verification = k.current.findings, !.current = None]
<1>0. k \in TaskType /\ TaskOK(k) /\ k.pc = "verified"
  BY DEF TypeOK, TasksOK, RecordVerdict
<1>1. k.plan \in Plans /\ k.current \in Decisions /\ k.current.plan = k.plan
  BY <1>0 DEF TaskOK, Over, Node, Nodes, AtNode
<1>2. k.current.findings \in VerdictOrNone
  BY <1>1 DEF Decisions, VerdictOrNone
<1>3. m \in TaskType /\ m.plan = k.plan /\ m.verification = k.current.findings
  BY <1>0, <1>2 DEF TaskType
<1>4. Route(k.current.findings) \in Nodes /\ MoveTo(t, m, Route(k.current.findings))
  BY DEF Route, Nodes, RecordVerdict
<1> HIDE DEF m
<1>5. \/ task'[t] = Ended
      \/ /\ task'[t].pc = Route(k.current.findings) /\ task'[t].plan = m.plan
         /\ task'[t].verification = m.verification /\ ~task[t].detached
  BY <1>3, <1>4, Leaving
<1> QED
  BY <1>1, <1>3, <1>5

LEMMA ApprovalEffect ==
  ASSUME TypeOK, NEW t \in Tasks, AwaitApproval(t) \/ Approval(t)
  PROVE  \/ task'[t] = Ended
         \/ /\ task'[t].pc \in {"approval", "verify"} /\ task'[t].plan = task[t].plan
            /\ task'[t].verification = task[t].verification /\ ~task[t].detached
<1> DEFINE k == task[t]
           m == [k EXCEPT !.woken = FALSE]
<1>0. k \in TaskType /\ "approval" \in Nodes /\ "verify" \in Nodes
  BY DEF TypeOK, TasksOK, Nodes
<1>1. m \in TaskType /\ m.plan = k.plan /\ m.verification = k.verification
  BY <1>0 DEF TaskType
<1>2. CASE AwaitApproval(t)
  <2>1. MoveTo(t, k, "approval")
    BY <1>2 DEF AwaitApproval
  <2> QED
    BY <1>0, <2>1, Leaving
<1>3. CASE Approval(t)
  <2>1. Stop(t) \/ MoveTo(t, m, "verify")
    BY <1>3 DEF Approval
  <2> HIDE DEF m
  <2> QED
    BY <1>0, <1>1, <2>1, Leaving, Ending
<1> QED
  BY <1>2, <1>3

LEMMA JudgeEffect ==
  ASSUME TypeOK, NEW t \in Tasks, Judge(t)
  PROVE  \E v \in Verdicts(task[t].plan) :
           /\ task'[t].current = Decision(task[t].plan, v)
           /\ task'[t].plan = task[t].plan /\ task'[t].verification = task[t].verification
           /\ task'[t].entitled = task[t].entitled /\ task'[t].detached = task[t].detached
           /\ \/ task[t].pc = "verify" /\ task'[t].pc = "verified"
              \/ task[t].pc = "authorizing" /\ task'[t].pc = "authorized"
<1> DEFINE k == task[t]
<1>0. k \in TaskType /\ k.pc \in {"verify", "authorizing"}
  BY DEF TypeOK, TasksOK, Judge
<1>1. PICK v \in Verdicts(k.plan) :
         task' = [task EXCEPT ![t].current = Decision(k.plan, v),
                              ![t].pc = IF @ = "verify" THEN "verified" ELSE "authorized"]
  BY DEF Judge
<1>2. task'[t] = [k EXCEPT !.current = Decision(k.plan, v),
                           !.pc = IF k.pc = "verify" THEN "verified" ELSE "authorized"]
  BY <1>0, <1>1 DEF TypeOK, TasksOK
<1>3. /\ task'[t].current = Decision(k.plan, v)
      /\ task'[t].plan = k.plan /\ task'[t].verification = k.verification
      /\ task'[t].entitled = k.entitled /\ task'[t].detached = k.detached
      /\ task'[t].pc = IF k.pc = "verify" THEN "verified" ELSE "authorized"
  BY <1>0, <1>2 DEF TaskType
<1> QED
  BY <1>0, <1>3

LEMMA StepEffect ==
  ASSUME TypeOK, NEW t \in Tasks, NEW pc, Step(t, pc)
  PROVE  /\ task'[t].pc = pc /\ task'[t].plan = task[t].plan
         /\ task'[t].verification = task[t].verification
         /\ task'[t].current = task[t].current /\ task'[t].run = task[t].run
         /\ task'[t].entitled = task[t].entitled /\ task'[t].detached = task[t].detached
<1>1. task[t] \in TaskType
  BY DEF TypeOK, TasksOK
<1>2. task'[t] = [task[t] EXCEPT !.pc = pc]
  BY DEF Step, TypeOK, TasksOK
<1> QED
  BY <1>1, <1>2 DEF TaskType

LEMMA ExecuteEffect ==
  ASSUME TypeOK, NEW t \in Tasks, Execute(t)
  PROVE  /\ task'[t].pc = "authorizing" /\ task'[t].entitled = granted
         /\ task'[t].plan = task[t].plan /\ task'[t].verification = task[t].verification
<1>1. task[t] \in TaskType
  BY DEF TypeOK, TasksOK
<1>2. task'[t] = [task[t] EXCEPT !.pc = "authorizing", !.entitled = granted]
  BY DEF Execute, TypeOK, TasksOK
<1> QED
  BY <1>1, <1>2 DEF TaskType

LEMMA StartEffect ==
  ASSUME TypeOK, NEW t \in Tasks, StartRun(t)
  PROVE  /\ task'[t].pc = "running" /\ task'[t].run = Len(runs) + 1
         /\ task'[t].plan = task[t].plan /\ task'[t].verification = task[t].verification
<1>1. task[t] \in TaskType
  BY DEF TypeOK, TasksOK
<1>2. task'[t] = [task[t] EXCEPT !.pc = "running", !.run = Len(runs) + 1,
                                 !.current = None, !.entitled = FALSE]
  BY DEF StartRun, TypeOK, TasksOK
<1> QED
  BY <1>1, <1>2 DEF TaskType

-----------------------------------------------------------------------------
(* Runs. *)

LEMMA OwnRunKept ==
  ASSUME OwnRun, runs' = runs,
         \A u \in Tasks : Running(u)' => task'[u].pc = task[u].pc /\ task'[u].run = task[u].run
  PROVE  OwnRun'
  BY DEF OwnRun, Running

LEMMA OwnRunNext == TypeOK /\ OwnRun /\ [Next]_vars => OwnRun'
<1> SUFFICES ASSUME TypeOK, OwnRun, [Next]_vars PROVE OwnRun'
  OBVIOUS
<1>1. CASE Control
  <2>1. ASSUME NEW u \in Tasks, Running(u)'
        PROVE  task'[u].pc = task[u].pc /\ task'[u].run = task[u].run
    <3>1. Same(task[u], task'[u]) \/ task'[u] = Ended \/ Resumed(task'[u])
      BY <1>1, ControlStep
    <3>2. task'[u].pc \notin Nodes /\ task'[u].pc # "ended"
      BY <2>1 DEF Running, Nodes
    <3> QED
      BY <3>1, <3>2, EndedFacts DEF Same, Resumed
  <2>2. runs' = runs
    BY <1>1, ControlStep
  <2> QED
    BY <2>1, <2>2, OwnRunKept
<1>2. ASSUME NEW t \in Tasks, Proceed(t) PROVE OwnRun'
  <2> DEFINE k == task[t]
  <2>a. \A u \in Tasks \ {t} : task'[u] = task[u]
    BY <1>2, OtherTasks
  <2>1. CASE StartRun(t)
    <3>1. /\ task'[t].pc = "running" /\ task'[t].run = Len(runs) + 1
      BY <2>1, StartEffect
    <3>2. PICK row : row.status = "running" /\ runs' = Append(runs, row)
      BY <2>1 DEF StartRun
    <3>3. runs \in Seq([plan : Plans, status : Statuses, entitled : BOOLEAN])
      BY DEF TypeOK
    <3>4. /\ DOMAIN runs' = DOMAIN runs \cup {Len(runs) + 1}
          /\ runs'[Len(runs) + 1] = row
          /\ \A i \in DOMAIN runs : runs'[i] = runs[i] /\ i # Len(runs) + 1
      BY <3>2, <3>3
    <3> QED
      BY <2>a, <3>1, <3>2, <3>4 DEF OwnRun, Running
  <2>2. CASE FinishRun(t)
    <3>1. /\ task'[t].pc = "finishing" /\ task'[t].run = k.run /\ k.pc = "running"
      BY <2>2, StepEffect DEF FinishRun
    <3>2. PICK s \in Ends : runs' = [runs EXCEPT ![k.run].status = s]
      BY <2>2 DEF FinishRun, Ends
    <3>3. runs \in Seq([plan : Plans, status : Statuses, entitled : BOOLEAN])
      BY DEF TypeOK
    <3>4. k.run \in DOMAIN runs
      BY <3>1 DEF OwnRun, Running
    <3>5. runs[k.run] \in [plan : Plans, status : Statuses, entitled : BOOLEAN]
      BY <3>3, <3>4, ElementOfSeq
    <3>6. /\ DOMAIN runs' = DOMAIN runs /\ runs'[k.run].status = s
          /\ \A i \in DOMAIN runs \ {k.run} : runs'[i] = runs[i]
      BY <3>2, <3>3, <3>4, <3>5
    <3> QED
      BY <2>a, <3>1, <3>2, <3>4, <3>6 DEF OwnRun, Running
  <2>3. CASE ~StartRun(t) /\ ~FinishRun(t)
    <3>1. runs' = runs
      BY <1>2, <2>3 DEF Proceed, Plan, Raise, Judge, RecordVerdict, RequestApproval,
           AwaitApproval, Approval, Denied, Execute, RecordAuthorization, RefuseRun,
           PublishRun, records
    <3>2. task'[t].pc \notin {"running", "finishing"}
      <4>1. CASE Plan(t)
        BY <4>1, PlanEffect, EndedFacts
      <4>2. CASE RecordVerdict(t)
        BY <4>2, VerdictEffect, EndedFacts DEF Route
      <4>3. CASE AwaitApproval(t) \/ Approval(t)
        BY <4>3, ApprovalEffect, EndedFacts
      <4>4. CASE Raise(t) \/ Denied(t) \/ RefuseRun(t) \/ PublishRun(t)
        BY <4>4, Ending, EndedFacts DEF Raise, Denied, RefuseRun, PublishRun
      <4>5. CASE Judge(t)
        BY <4>5, JudgeEffect
      <4>6. CASE RequestApproval(t) \/ RecordAuthorization(t)
        BY <4>6, StepEffect DEF RequestApproval, RecordAuthorization
      <4>7. CASE Execute(t)
        BY <4>7, ExecuteEffect
      <4> QED
        BY <1>2, <2>3, <4>1, <4>2, <4>3, <4>4, <4>5, <4>6, <4>7 DEF Proceed
    <3> QED
      BY <2>a, <3>1, <3>2, OwnRunKept DEF Running
  <2> QED
    BY <2>1, <2>2, <2>3
<1> QED
  BY <1>1, <1>2, NextCases

LEMMA OwnRunInit == Init => OwnRun
<1> SUFFICES ASSUME Init, NEW t \in Tasks PROVE ~Running(t)
  BY DEF OwnRun, Running, Init
<1> QED
  BY DEF Init, Running, Idle

\* Every variable keeps its type, and tasks and checkpoints are where their verdicts
\* lead, in every reachable state.
THEOREM TypeCorrect == Spec => []TypeOK
  BY InitType, NextType, OwnRunInit, OwnRunNext, PTL DEF Spec

-----------------------------------------------------------------------------
(* Approval.  A gate that is open, or was, has a signer; a task that has found a *)
(* plan in order, and is about to run it, has seen its gate open.                *)

Passed(p) == gate[p] \in {"open", "void"} /\ signers[p] # {}

PassedNext(p) == gate'[p] \in {"open", "void"} /\ signers'[p] # {}

GateSigned == \A p \in Governed : gate[p] = "open" => signers[p] # {}

Cleared ==
  \A t \in Tasks :
    task[t].pc \in {"authorized", "judged"} /\ Allowed(task[t].current.findings)
      /\ task[t].plan \in Governed => Passed(task[t].plan)

\* What an approval request has passed it has passed for good.
LEMMA GateNext ==
  ASSUME TypeOK, GateSigned, [Next]_vars
  PROVE  GateSigned' /\ \A p \in Governed : Passed(p) => PassedNext(p)
<1>1. CASE Decide
  <2>1. PICK r \in requested : Gate!Move(r)
    BY <1>1 DEF Decide
  <2>2. r \in Governed
    BY DEF TypeOK
  <2>3. Gate!Open(r) => signers[r] # {}
    <3>1. Cardinality({}) = 0
      BY FS_EmptySet
    <3>2. Gate!Open(r) => Cardinality(signers[r]) >= 1
      BY <2>2 DEF Gate!Open, Gate!Enough, Gate!Cardinality, Cardinality
    <3> QED
      BY <3>1, <3>2
  <2> QED
    BY <2>1, <2>2, <2>3
       DEF TypeOK, GateSigned, Passed, PassedNext, Gate!Move, Gate!Sign, Gate!Open, Gate!OpenTooLate, Gate!Refuse, Gate!Close
<1>2. CASE ~Decide
  <2>1. UNCHANGED <<gate, signers>>
    <3>1. ASSUME NEW t \in Tasks, Proceed(t) PROVE UNCHANGED <<gate, signers>>
      BY <3>1 DEF Proceed, Plan, Raise, Judge, RecordVerdict, RequestApproval,
           AwaitApproval, Approval, Denied, Execute, RecordAuthorization, RefuseRun,
           StartRun, FinishRun, PublishRun, gates
    <3>2. ASSUME NEW t \in Tasks, CallControl(t) PROVE UNCHANGED <<gate, signers>>
      BY <3>2 DEF CallControl, Persist, Resume, LoseLease, CallerGone, gates
    <3>3. Cancel \/ Crash \/ GrantLapses \/ GrantChanges \/ UNCHANGED vars
            => UNCHANGED <<gate, signers>>
      BY DEF Cancel, Crash, GrantLapses, GrantChanges, vars, gates
    <3> QED
      BY <1>2, <3>1, <3>2, <3>3, NextCases DEF Control
  <2> QED
    BY <2>1 DEF GateSigned, Passed, PassedNext
<1> QED
  BY <1>1, <1>2

LEMMA ClearedNext ==
  ASSUME TypeOK, GateSigned, Cleared, [Next]_vars PROVE Cleared'
<1> SUFFICES ASSUME NEW u \in Tasks, task'[u].pc \in {"authorized", "judged"},
                    Allowed(task'[u].current.findings), task'[u].plan \in Governed
             PROVE  PassedNext(task'[u].plan)
  BY DEF Cleared, Passed, PassedNext
<1>0. \A p \in Governed : Passed(p) => PassedNext(p)
  BY GateNext
<1>1. ASSUME task[u].pc \in {"authorized", "judged"}, task'[u].current = task[u].current,
             task'[u].plan = task[u].plan
      PROVE  PassedNext(task'[u].plan)
  BY <1>0, <1>1 DEF Cleared
<1>2. CASE Control
  <2>1. Same(task[u], task'[u]) \/ task'[u] = Ended \/ Resumed(task'[u])
    BY <1>2, ControlStep
  <2> QED
    BY <1>1, <2>1, EndedFacts DEF Same, Resumed, Nodes
<1>3. ASSUME NEW t \in Tasks, Proceed(t) PROVE PassedNext(task'[u].plan)
  <2>1. CASE u # t
    BY <1>1, <1>3, <2>1, OtherTasks
  <2>2. CASE u = t /\ Judge(t)
    <3>1. PICK v \in Verdicts(task[t].plan) :
             /\ task'[t].current = Decision(task[t].plan, v)
             /\ task'[t].plan = task[t].plan
      BY <2>2, JudgeEffect
    <3>2. v = {}
      BY <2>2, <3>1 DEF Decision, Allowed
    <3>3. gate[task[t].plan] = "open"
      BY <2>2, <3>1, <3>2 DEF Verdicts, GateFindings
    <3>4. Passed(task[t].plan)
      BY <2>2, <3>1, <3>3 DEF GateSigned, Passed
    <3> QED
      BY <1>0, <2>2, <3>1, <3>4
  <2>3. CASE u = t /\ RecordAuthorization(t)
    BY <1>1, <2>3, StepEffect DEF RecordAuthorization
  <2>4. CASE u = t /\ ~Judge(t) /\ ~RecordAuthorization(t)
    <3>1. CASE Plan(t)
      BY <2>4, <3>1, PlanEffect, EndedFacts
    <3>2. CASE RecordVerdict(t)
      BY <2>4, <3>2, VerdictEffect, EndedFacts DEF Route
    <3>3. CASE AwaitApproval(t) \/ Approval(t)
      BY <2>4, <3>3, ApprovalEffect, EndedFacts
    <3>4. CASE Raise(t) \/ Denied(t) \/ RefuseRun(t) \/ PublishRun(t)
      BY <2>4, <3>4, Ending, EndedFacts DEF Raise, Denied, RefuseRun, PublishRun
    <3>5. CASE RequestApproval(t) \/ FinishRun(t)
      BY <2>4, <3>5, StepEffect DEF RequestApproval, FinishRun
    <3>6. CASE Execute(t)
      BY <2>4, <3>6, ExecuteEffect
    <3>7. CASE StartRun(t)
      BY <2>4, <3>7, StartEffect
    <3> QED
      BY <1>3, <2>4, <3>1, <3>2, <3>3, <3>4, <3>5, <3>6, <3>7 DEF Proceed
  <2> QED
    BY <2>1, <2>2, <2>3, <2>4
<1> QED
  BY <1>2, <1>3, NextCases

\* The rows of the runs table: one is added by StartRun, and then only its status changes.
LEMMA RunsNext ==
  ASSUME TypeOK, OwnRun, [Next]_vars, NEW i \in DOMAIN runs'
  PROVE  \/ /\ i \in DOMAIN runs
            /\ runs'[i].plan = runs[i].plan /\ runs'[i].entitled = runs[i].entitled
         \/ \E t \in Tasks :
              /\ StartRun(t)
              /\ runs'[i] = [plan |-> task[t].plan, status |-> "running",
                             entitled |-> task[t].entitled]
<1>0. runs \in Seq([plan : Plans, status : Statuses, entitled : BOOLEAN])
  BY DEF TypeOK
<1>1. CASE Control
  BY <1>1, ControlStep
<1>2. ASSUME NEW t \in Tasks, StartRun(t)
      PROVE  \/ i \in DOMAIN runs /\ runs'[i] = runs[i]
             \/ runs'[i] = [plan |-> task[t].plan, status |-> "running",
                            entitled |-> task[t].entitled]
  BY <1>0, <1>2 DEF StartRun
<1>3. ASSUME NEW t \in Tasks, FinishRun(t)
      PROVE  /\ i \in DOMAIN runs
             /\ runs'[i].plan = runs[i].plan /\ runs'[i].entitled = runs[i].entitled
  <2>1. task[t].run \in DOMAIN runs
    BY <1>3 DEF FinishRun, OwnRun, Running
  <2>2. PICK s : runs' = [runs EXCEPT ![task[t].run].status = s]
    BY <1>3 DEF FinishRun
  <2>3. runs[task[t].run] \in [plan : Plans, status : Statuses, entitled : BOOLEAN]
    BY <1>0, <2>1, ElementOfSeq
  <2> QED
    BY <1>0, <2>1, <2>2, <2>3
<1>4. ASSUME NEW t \in Tasks, Proceed(t), ~StartRun(t), ~FinishRun(t) PROVE runs' = runs
  BY <1>4 DEF Proceed, Plan, Raise, Judge, RecordVerdict, RequestApproval,
       AwaitApproval, Approval, Denied, Execute, RecordAuthorization, RefuseRun,
       PublishRun, records
<1> QED
  BY <1>1, <1>2, <1>3, <1>4, NextCases

LEMMA ApprovedNext ==
  ASSUME TypeOK, OwnRun, GateSigned, Cleared, RunWasApproved, [Next]_vars
  PROVE  RunWasApproved'
<1> SUFFICES ASSUME NEW i \in DOMAIN runs', runs'[i].plan \in Governed
             PROVE  PassedNext(runs'[i].plan)
  BY DEF RunWasApproved, PassedNext
<1>1. CASE i \in DOMAIN runs /\ runs'[i].plan = runs[i].plan
  BY <1>1, GateNext DEF RunWasApproved, Passed
<1>2. ASSUME NEW t \in Tasks, StartRun(t),
             runs'[i] = [plan |-> task[t].plan, status |-> "running",
                         entitled |-> task[t].entitled]
      PROVE  PassedNext(runs'[i].plan)
  BY <1>2, GateNext DEF StartRun, Authorized, Cleared
<1> QED
  BY <1>1, <1>2, RunsNext

ApprovalInv == TypeOK /\ OwnRun /\ GateSigned /\ Cleared /\ RunWasApproved

\* A plan that needs approval runs only once its gate was opened by people other than
\* the requester: the loop stops for approval or on a denial, whatever is cancelled,
\* resumed, replayed and lost on the way.
THEOREM RunsWereApproved == Spec => []RunWasApproved
<1>1. Init => ApprovalInv
  BY InitType, OwnRunInit
     DEF ApprovalInv, Init, GateSigned, Cleared, RunWasApproved, Gate!Init, Idle
<1>2. ApprovalInv /\ [Next]_vars => ApprovalInv'
  BY NextType, OwnRunNext, GateNext, ClearedNext, ApprovedNext DEF ApprovalInv
<1> QED
  BY <1>1, <1>2, PTL DEF Spec, ApprovalInv

-----------------------------------------------------------------------------
(* Entitlement. *)

EntitledSoFar ==
  \A t \in Tasks :
    /\ task[t].pc \in Authorizing /\ granted => task[t].entitled
    /\ task[t].pc \in {"authorized", "judged"} /\ Allowed(task[t].current.findings) =>
         task[t].entitled

LEMMA EntitledNext ==
  ASSUME TypeOK, EntitledSoFar, [Next]_vars PROVE EntitledSoFar'
<1> SUFFICES ASSUME NEW u \in Tasks, task'[u].pc \in Authorizing,
                    \/ granted'
                    \/ /\ task'[u].pc \in {"authorized", "judged"}
                       /\ Allowed(task'[u].current.findings)
             PROVE  task'[u].entitled
  BY DEF EntitledSoFar, Authorizing
<1>1. CASE Control
  <2>1. Same(task[u], task'[u])
    BY <1>1, ControlStep, EndedFacts DEF Resumed, Authorizing, Nodes
  <2>2. CASE granted' /\ ~granted
    <3>1. GrantChanges
      <4>1. ASSUME NEW t \in Tasks, CallControl(t) PROVE granted' = granted
        BY <4>1 DEF CallControl, Persist, Resume, LoseLease, CallerGone, grants
      <4>2. Cancel \/ Crash \/ Decide \/ GrantLapses \/ UNCHANGED vars => ~granted'
        BY <2>2 DEF Cancel, Crash, Decide, GrantLapses, vars, grants
      <4> QED
        BY <1>1, <2>2, <4>1, <4>2 DEF Control
    <3>2. task'[u] = [task[u] EXCEPT !.entitled = @ \/ (granted' /\ task[u].pc \in Authorizing)]
      BY <3>1 DEF GrantChanges
    <3>3. task[u] \in TaskType
      BY DEF TypeOK, TasksOK
    <3>4. task'[u].entitled = (task[u].entitled \/ (granted' /\ task[u].pc \in Authorizing))
      BY <3>2, <3>3 DEF TaskType
    <3>5. task[u].pc \in Authorizing
      BY <2>1 DEF Same
    <3> QED
      BY <2>2, <3>4, <3>5
  <2>3. CASE ~(granted' /\ ~granted)
    BY <2>1, <2>3 DEF Same, EntitledSoFar
  <2> QED
    BY <2>2, <2>3
<1>2. ASSUME NEW t \in Tasks, Proceed(t) PROVE task'[u].entitled
  <2>0. granted' = granted
    BY <1>2 DEF Proceed, Plan, Raise, Judge, RecordVerdict, RequestApproval,
         AwaitApproval, Approval, Denied, Execute, RecordAuthorization, RefuseRun,
         StartRun, FinishRun, PublishRun, grants
  <2>1. CASE u # t
    <3>1. task'[u] = task[u]
      BY <1>2, <2>1, OtherTasks
    <3> QED
      BY <2>0, <3>1 DEF EntitledSoFar
  <2>2. CASE u = t /\ Judge(t)
    <3>1. PICK v \in Verdicts(task[t].plan) :
             /\ task'[t].current = Decision(task[t].plan, v)
             /\ task'[t].entitled = task[t].entitled
             /\ \/ task[t].pc = "verify" /\ task'[t].pc = "verified"
                \/ task[t].pc = "authorizing" /\ task'[t].pc = "authorized"
      BY <2>2, JudgeEffect
    <3>2. task[t].pc \in Authorizing
      BY <2>2, <3>1 DEF Authorizing
    <3>3. CASE granted
      BY <2>2, <3>1, <3>2, <3>3 DEF EntitledSoFar
    <3>4. CASE ~granted
      <4>1. "not_granted" \in v
        BY <3>4 DEF Verdicts
      <4>2. task'[t].current.findings = v
        BY <3>1 DEF Decision
      <4> QED
        BY <2>0, <2>2, <3>4, <4>1, <4>2 DEF Allowed
    <3> QED
      BY <3>3, <3>4
  <2>3. CASE u = t /\ RecordAuthorization(t)
    <3>1. /\ task'[t].current = task[t].current /\ task'[t].entitled = task[t].entitled
          /\ task[t].pc = "authorized" /\ "authorized" \in Authorizing
      BY <2>3, StepEffect DEF RecordAuthorization, Authorizing
    <3> QED
      BY <2>0, <2>3, <3>1 DEF EntitledSoFar
  <2>4. CASE u = t /\ Execute(t)
    BY <2>0, <2>4, ExecuteEffect
  <2>5. CASE u = t /\ ~Judge(t) /\ ~RecordAuthorization(t) /\ ~Execute(t)
    <3>1. CASE Plan(t)
      BY <2>5, <3>1, PlanEffect, EndedFacts DEF Authorizing
    <3>2. CASE RecordVerdict(t)
      BY <2>5, <3>2, VerdictEffect, EndedFacts DEF Route, Authorizing
    <3>3. CASE AwaitApproval(t) \/ Approval(t)
      BY <2>5, <3>3, ApprovalEffect, EndedFacts DEF Authorizing
    <3>4. CASE Raise(t) \/ Denied(t) \/ RefuseRun(t) \/ PublishRun(t)
      BY <2>5, <3>4, Ending, EndedFacts DEF Raise, Denied, RefuseRun, PublishRun
    <3>5. CASE RequestApproval(t) \/ FinishRun(t)
      BY <2>5, <3>5, StepEffect DEF RequestApproval, FinishRun, Authorizing
    <3>6. CASE StartRun(t)
      BY <2>5, <3>6, StartEffect DEF Authorizing
    <3> QED
      BY <1>2, <2>5, <3>1, <3>2, <3>3, <3>4, <3>5, <3>6 DEF Proceed
  <2> QED
    BY <2>1, <2>2, <2>3, <2>4, <2>5
<1> QED
  BY <1>1, <1>2, NextCases

LEMMA RunEntitledNext ==
  ASSUME TypeOK, OwnRun, EntitledSoFar, RunWasEntitled, [Next]_vars
  PROVE  RunWasEntitled'
<1> SUFFICES ASSUME NEW i \in DOMAIN runs' PROVE runs'[i].entitled
  BY DEF RunWasEntitled
<1>1. CASE i \in DOMAIN runs /\ runs'[i].entitled = runs[i].entitled
  BY <1>1 DEF RunWasEntitled
<1>2. ASSUME NEW t \in Tasks, StartRun(t),
             runs'[i] = [plan |-> task[t].plan, status |-> "running",
                         entitled |-> task[t].entitled]
      PROVE  runs'[i].entitled
  <2>1. task[t].entitled
    BY <1>2 DEF StartRun, Authorized, EntitledSoFar
  <2> QED
    BY <1>2, <2>1
<1> QED
  BY <1>1, <1>2, RunsNext

EntitlementInv == TypeOK /\ OwnRun /\ EntitledSoFar /\ RunWasEntitled

\* No run starts on the strength of an old checkpoint alone: its requester was entitled
\* at or after the moment the execute node that started it began.
THEOREM RunsWereEntitled == Spec => []RunWasEntitled
<1>1. Init => EntitlementInv
  BY InitType, OwnRunInit
     DEF EntitlementInv, Init, EntitledSoFar, RunWasEntitled, Idle, Authorizing
<1>2. EntitlementInv /\ [Next]_vars => EntitlementInv'
  BY NextType, OwnRunNext, EntitledNext, RunEntitledNext DEF EntitlementInv
<1> QED
  BY <1>1, <1>2, PTL DEF Spec, EntitlementInv

-----------------------------------------------------------------------------
(* The audit trail.  Nothing leaves the ledger; what a task or a checkpoint says *)
(* was decided is on record, and a plan reaches an approval request only by a    *)
(* decision that it needs one.                                                   *)

\* In tables ps, ds and rs of plans, decisions and approval requests.
VerdictOnRecord(p, v, ps, ds) ==
  /\ p \in Plans => p \in ps
  /\ v # None => \E d \in ds : d.plan = p /\ d.findings = v

TaskAccounted(k, ps, ds, rs) ==
  /\ VerdictOnRecord(k.plan, k.verification, ps, ds)
  /\ k.pc = "judged" => k.current \in ds
  /\ k.pc = "requested" => k.plan \in rs
  /\ k.pc \in {"verified", "authorized", "judged"} =>
       ("approval_required" \in k.current.findings => k.plan \in Governed)

DecisionsAccounted ==
  \A d \in decisions :
    d.plan \in plans /\ ("approval_required" \in d.findings => d.plan \in Governed)

Accounted ==
  /\ \A t \in Tasks : TaskAccounted(task[t], plans, decisions, requested)
  /\ VerdictOnRecord(saved.plan, saved.verification, plans, decisions)
  /\ DecisionsAccounted
  /\ requested \subseteq plans

LEMMA LedgerGrows ==
  ASSUME TypeOK, [Next]_vars
  PROVE  decisions \subseteq decisions' /\ plans \subseteq plans' /\ requested \subseteq requested'
<1>1. CASE Control
  BY <1>1, ControlStep
<1>2. ASSUME NEW t \in Tasks, Proceed(t)
      PROVE  /\ decisions \subseteq decisions' /\ plans \subseteq plans'
             /\ requested \subseteq requested'
  BY <1>2 DEF Proceed, Plan, Raise, Judge, RecordVerdict, RequestApproval, AwaitApproval,
       Approval, Denied, Execute, RecordAuthorization, RefuseRun, StartRun, FinishRun,
       PublishRun, AddDecision, Insert, records, decided, gates
<1> QED
  BY <1>1, <1>2, NextCases

LEMMA AccountedStays ==
  ASSUME NEW k, NEW ps, NEW ds, NEW rs, NEW ps1, NEW ds1, NEW rs1,
         ps \subseteq ps1, ds \subseteq ds1, rs \subseteq rs1
  PROVE  /\ \A p, v : VerdictOnRecord(p, v, ps, ds) => VerdictOnRecord(p, v, ps1, ds1)
         /\ TaskAccounted(k, ps, ds, rs) => TaskAccounted(k, ps1, ds1, rs1)
  BY DEF VerdictOnRecord, TaskAccounted

LEMMA NothingToAccount ==
  ASSUME NEW ps, NEW ds, NEW rs
  PROVE  TaskAccounted(Ended, ps, ds, rs) /\ TaskAccounted(Idle, ps, ds, rs)
  BY SessionConstants DEF TaskAccounted, VerdictOnRecord, Ended, Idle

\* A step of a task saves what the task holds, or nothing.
LEMMA SavedEffect ==
  ASSUME TypeOK, NEW t \in Tasks, Proceed(t)
  PROVE  \/ saved'.plan = saved.plan /\ saved'.verification = saved.verification
         \/ saved'.plan = task[t].plan /\ saved'.verification = task[t].verification
<1>1. Flushed(t) \in {saved, Boundary(task[t])}
  BY DEF Flushed
<1>2. CASE saved' = saved \/ saved' = Flushed(t)
  BY <1>1, <1>2 DEF Boundary
<1>3. CASE Complete(t)
  <2>1. saved' \in {saved, [Boundary(task[t]) EXCEPT !.next = "end"]}
    BY <1>3 DEF Complete
  <2> QED
    BY <2>1 DEF Boundary
<1>4. saved' = saved \/ saved' = Flushed(t) \/ Complete(t)
  BY DEF Proceed, Plan, Raise, Judge, RecordVerdict, RequestApproval, AwaitApproval,
       Approval, Denied, Execute, RecordAuthorization, RefuseRun, StartRun, FinishRun,
       PublishRun, Stop
<1> QED
  BY <1>2, <1>3, <1>4

\* What verify finds missing is an approval only for a plan that needs one.
LEMMA GovernedFindings ==
  ASSUME NEW p, NEW v \in Verdicts(p), "approval_required" \in v PROVE p \in Governed
  BY DEF Verdicts, GateFindings

LEMMA VerdictAccounted ==
  ASSUME TypeOK, Accounted, NEW t \in Tasks, RecordVerdict(t) \/ RecordAuthorization(t)
  PROVE  /\ decisions' = decisions \cup {task[t].current} /\ plans' = plans
         /\ requested' = requested /\ DecisionsAccounted'
<1>1. TaskOK(task[t]) /\ task[t].pc \in {"verified", "authorized"}
  BY DEF TypeOK, TasksOK, RecordVerdict, RecordAuthorization
<1>2. task[t].plan \in Plans /\ task[t].current.plan = task[t].plan
  BY <1>1 DEF TaskOK, Over, Node, Nodes, AtNode
<1>3. /\ decisions' = decisions \cup {task[t].current} /\ plans' = plans
      /\ requested' = requested
  BY DEF RecordVerdict, RecordAuthorization, AddDecision, Insert, decided, gates
<1>4. TaskAccounted(task[t], plans, decisions, requested) /\ DecisionsAccounted
  BY DEF Accounted
<1> QED
  BY <1>1, <1>2, <1>3, <1>4 DEF TaskAccounted, VerdictOnRecord, DecisionsAccounted

LEMMA DecisionsNext ==
  ASSUME TypeOK, Accounted, [Next]_vars PROVE DecisionsAccounted'
<1>1. CASE decisions' = decisions
  BY <1>1, LedgerGrows DEF Accounted, DecisionsAccounted
<1>2. ASSUME NEW t \in Tasks, RecordVerdict(t) \/ RecordAuthorization(t)
      PROVE  DecisionsAccounted'
  BY <1>2, VerdictAccounted
<1>3. CASE Control
  BY <1>1, <1>3, ControlStep
<1>4. ASSUME NEW t \in Tasks, Proceed(t), ~RecordVerdict(t), ~RecordAuthorization(t)
      PROVE  decisions' = decisions
  BY <1>4 DEF Proceed, Plan, Raise, Judge, RequestApproval, AwaitApproval, Approval, Denied,
       Execute, RefuseRun, StartRun, FinishRun, PublishRun, records, decided
<1> QED
  BY <1>1, <1>2, <1>3, <1>4, NextCases

LEMMA CheckpointNext ==
  ASSUME TypeOK, Accounted, [Next]_vars
  PROVE  VerdictOnRecord(saved'.plan, saved'.verification, plans', decisions')
<1>1. \E k \in {saved} \cup {task[t] : t \in Tasks} :
        saved'.plan = k.plan /\ saved'.verification = k.verification
  <2>1. CASE Control
    BY <2>1, ControlStep DEF Boundary
  <2>2. ASSUME NEW t \in Tasks, Proceed(t)
        PROVE  \E k \in {saved, task[t]} :
                 saved'.plan = k.plan /\ saved'.verification = k.verification
    BY <2>2, SavedEffect
  <2> QED
    BY <2>1, <2>2, NextCases
<1>2. PICK k \in {saved} \cup {task[t] : t \in Tasks} :
        saved'.plan = k.plan /\ saved'.verification = k.verification
  BY <1>1
<1>3. VerdictOnRecord(k.plan, k.verification, plans, decisions)
  BY DEF Accounted, TaskAccounted
<1>4. VerdictOnRecord(k.plan, k.verification, plans', decisions')
  BY <1>3, LedgerGrows, AccountedStays
<1> QED
  BY <1>2, <1>4

LEMMA TaskNext ==
  ASSUME TypeOK, Accounted, [Next]_vars, NEW u \in Tasks
  PROVE  TaskAccounted(task'[u], plans', decisions', requested')
<1>0. TaskAccounted(task[u], plans, decisions, requested)
  BY DEF Accounted
<1>1. TaskAccounted(task[u], plans', decisions', requested')
  BY <1>0, LedgerGrows, AccountedStays
<1>2. CASE Control
  <2>1. CASE Same(task[u], task'[u])
    BY <1>1, <2>1 DEF Same, TaskAccounted
  <2>2. CASE task'[u] = Ended
    BY <2>2, NothingToAccount
  <2>3. CASE Resumed(task'[u])
    <3>1. VerdictOnRecord(saved.plan, saved.verification, plans', decisions')
      BY LedgerGrows, AccountedStays DEF Accounted
    <3>2. task'[u].pc \notin {"verified", "authorized", "judged", "requested"}
      BY <2>3 DEF Resumed, Nodes
    <3> QED
      BY <2>3, <3>1, <3>2 DEF Resumed, TaskAccounted
  <2> QED
    BY <1>2, <2>1, <2>2, <2>3, ControlStep
<1>3. ASSUME NEW t \in Tasks, Proceed(t), t # u
      PROVE  TaskAccounted(task'[u], plans', decisions', requested')
  BY <1>1, <1>3, OtherTasks
<1>4. CASE Proceed(u)
  <2> DEFINE m == task'[u]
  <2>0. VerdictOnRecord(task[u].plan, task[u].verification, plans', decisions')
    BY <1>1 DEF TaskAccounted
  <2>1. ASSUME m.plan = task[u].plan, m.verification = task[u].verification,
               m.pc \notin {"verified", "authorized", "judged", "requested"}
        PROVE  TaskAccounted(m, plans', decisions', requested')
    BY <2>0, <2>1 DEF TaskAccounted
  <2>2. CASE m = Ended
    BY <2>2, NothingToAccount
  <2>3. CASE Plan(u) /\ m # Ended
    <3>1. PICK p \in Plans : /\ plans' = plans \cup {p} /\ m.pc = "verify" /\ m.plan = p
                             /\ m.verification = None
      BY <2>3, PlanEffect
    <3> QED
      BY <3>1 DEF TaskAccounted, VerdictOnRecord
  <2>4. CASE RecordVerdict(u) /\ m # Ended
    <3>1. /\ task[u].current.plan = task[u].plan
          /\ m.plan = task[u].plan /\ m.verification = task[u].current.findings
          /\ m.pc = Route(task[u].current.findings)
      BY <2>4, VerdictEffect
    <3>2. task[u].current \in decisions'
      BY <2>4, VerdictAccounted
    <3>3. m.pc \notin {"verified", "authorized", "judged", "requested"}
      BY <3>1 DEF Route
    <3>4. m.plan \in Plans => m.plan \in plans'
      BY <2>0, <3>1 DEF VerdictOnRecord
    <3> QED
      BY <3>1, <3>2, <3>3, <3>4 DEF TaskAccounted, VerdictOnRecord
  <2>5. CASE (AwaitApproval(u) \/ Approval(u)) /\ m # Ended
    BY <2>1, <2>5, ApprovalEffect
  <2>6. CASE Raise(u) \/ Denied(u) \/ RefuseRun(u) \/ PublishRun(u)
    BY <2>2, <2>6, Ending DEF Raise, Denied, RefuseRun, PublishRun
  <2>7. CASE Judge(u)
    <3>1. PICK v \in Verdicts(task[u].plan) :
             /\ m.current = Decision(task[u].plan, v) /\ m.plan = task[u].plan
             /\ m.verification = task[u].verification /\ m.pc \in {"verified", "authorized"}
      BY <2>7, JudgeEffect
    <3>2. m.current.findings = v
      BY <3>1 DEF Decision
    <3>3. "approval_required" \in v => m.plan \in Governed
      BY <3>1, GovernedFindings
    <3> QED
      BY <2>0, <3>1, <3>2, <3>3 DEF TaskAccounted
  <2>8. CASE RequestApproval(u)
    <3>1. m.pc = "requested" /\ m.plan = task[u].plan /\ m.verification = task[u].verification
      BY <2>8, StepEffect DEF RequestApproval
    <3>2. TaskOK(task[u]) /\ task[u].pc = "request_approval"
      BY <2>8 DEF TypeOK, TasksOK, RequestApproval
    <3>3. task[u].verification = {"approval_required"}
      BY <3>2 DEF TaskOK, Over, Node, Nodes, AtNode
    <3>4. None # {"approval_required"}
      BY SessionConstants DEF Findings, Errors
    <3>5. task[u].plan \in Governed
      BY <1>0, <3>4, <3>3 DEF TaskAccounted, VerdictOnRecord, Accounted, DecisionsAccounted
    <3>6. task[u].plan \in requested'
      BY <2>8, <3>5 DEF RequestApproval
    <3> QED
      BY <2>0, <3>1, <3>6 DEF TaskAccounted
  <2>9. CASE Execute(u)
    BY <2>1, <2>9, ExecuteEffect
  <2>10. CASE RecordAuthorization(u)
    <3>1. /\ m.pc = "judged" /\ m.plan = task[u].plan
          /\ m.verification = task[u].verification /\ m.current = task[u].current
          /\ task[u].pc = "authorized"
      BY <2>10, StepEffect DEF RecordAuthorization
    <3>2. task[u].current \in decisions'
      BY <2>10, VerdictAccounted
    <3> QED
      BY <1>1, <3>1, <3>2 DEF TaskAccounted
  <2>11. CASE StartRun(u)
    BY <2>1, <2>11, StartEffect
  <2>12. CASE FinishRun(u)
    BY <2>1, <2>12, StepEffect DEF FinishRun
  <2> QED
    BY <1>4, <2>2, <2>3, <2>4, <2>5, <2>6, <2>7, <2>8, <2>9, <2>10, <2>11, <2>12 DEF Proceed
<1> QED
  BY <1>2, <1>3, <1>4, NextCases

LEMMA AccountedNext ==
  ASSUME TypeOK, Accounted, [Next]_vars PROVE Accounted'
<1>1. \A t \in Tasks : TaskAccounted(task'[t], plans', decisions', requested')
  BY TaskNext
<1>2. VerdictOnRecord(saved'.plan, saved'.verification, plans', decisions')
  BY CheckpointNext
<1>3. requested' \subseteq plans'
  <2>1. ASSUME NEW t \in Tasks, RequestApproval(t) PROVE requested' \subseteq plans'
    <3>1. TaskAccounted(task[t], plans, decisions, requested) /\ Governed \subseteq Plans
      BY SessionConstants DEF Accounted
    <3>2. task[t].plan \in Governed => task[t].plan \in plans
      BY <3>1 DEF TaskAccounted, VerdictOnRecord
    <3> QED
      BY <2>1, <3>2, LedgerGrows DEF RequestApproval, Accounted
  <2>2. ASSUME NEW t \in Tasks, Proceed(t), ~RequestApproval(t) PROVE requested' = requested
    BY <2>2 DEF Proceed, Plan, Raise, Judge, RecordVerdict, AwaitApproval, Approval, Denied,
         Execute, RecordAuthorization, RefuseRun, StartRun, FinishRun, PublishRun, gates
  <2>3. CASE Control
    BY <2>3, ControlStep DEF Accounted
  <2>4. CASE requested' = requested
    BY <2>4, LedgerGrows DEF Accounted
  <2> QED
    BY <2>1, <2>2, <2>3, <2>4, NextCases
<1> QED
  BY <1>1, <1>2, <1>3, DecisionsNext DEF Accounted

RunsRecorded ==
  \A i \in DOMAIN runs : \E d \in decisions : d.plan = runs[i].plan /\ Allowed(d.findings)

LEMMA RecordedNext ==
  ASSUME TypeOK, OwnRun, Accounted, RunsRecorded, [Next]_vars PROVE RunsRecorded'
<1> SUFFICES ASSUME NEW i \in DOMAIN runs'
             PROVE  \E d \in decisions' : d.plan = runs'[i].plan /\ Allowed(d.findings)
  BY DEF RunsRecorded
<1>1. CASE i \in DOMAIN runs /\ runs'[i].plan = runs[i].plan
  BY <1>1, LedgerGrows DEF RunsRecorded
<1>2. ASSUME NEW t \in Tasks, StartRun(t), runs'[i].plan = task[t].plan
      PROVE  \E d \in decisions' : d.plan = runs'[i].plan /\ Allowed(d.findings)
  <2>1. task[t].pc = "judged" /\ Allowed(task[t].current.findings)
    BY <1>2 DEF StartRun, Authorized
  <2>2. task[t].current \in decisions
    BY <2>1 DEF Accounted, TaskAccounted
  <2>3. task[t].current.plan = task[t].plan
    BY <2>1 DEF TypeOK, TasksOK, TaskOK
  <2> QED
    BY <1>2, <2>1, <2>2, <2>3, LedgerGrows
<1>3. ASSUME NEW t \in Tasks, NEW r,
             r = [plan |-> task[t].plan, status |-> "running", entitled |-> task[t].entitled]
      PROVE  r.plan = task[t].plan
  BY <1>3
<1> QED
  BY <1>1, <1>2, <1>3, RunsNext

AuditInv == TypeOK /\ OwnRun /\ Accounted /\ RunsRecorded

LEMMA AuditInitially == Init => AuditInv
<1> SUFFICES ASSUME Init PROVE AuditInv
  OBVIOUS
<1>1. TypeOK /\ OwnRun
  BY InitType, OwnRunInit
<1>2. \A t \in Tasks : TaskAccounted(task[t], plans, decisions, requested)
  BY SessionConstants DEF Init, Idle, TaskAccounted, VerdictOnRecord
<1>3. /\ VerdictOnRecord(saved.plan, saved.verification, plans, decisions)
      /\ DecisionsAccounted /\ requested \subseteq plans /\ RunsRecorded
  BY SessionConstants DEF Init, VerdictOnRecord, DecisionsAccounted, RunsRecorded
<1> QED
  BY <1>1, <1>2, <1>3 DEF AuditInv, Accounted

LEMMA AuditNext == AuditInv /\ [Next]_vars => AuditInv'
  BY NextType, OwnRunNext, AccountedNext, RecordedNext DEF AuditInv

LEMMA AuditInvImplies == AuditInv => AuditTrail
<1> SUFFICES ASSUME AuditInv PROVE AuditTrail
  OBVIOUS
<1> QED
  BY DEF AuditInv, AuditTrail, RunsRecorded, Accounted, VerdictOnRecord, DecisionsAccounted

\* Every run has an allowed decision about its plan on record, and what a checkpoint
\* says was decided is on record too.
THEOREM RunsAreAudited == Spec => []AuditTrail
  BY AuditInitially, AuditNext, AuditInvImplies, PTL DEF Spec

-----------------------------------------------------------------------------
(* The status of the session. *)

\* A run row stays, and an end that is on record stays as it is.
LEMMA EndsStay ==
  ASSUME TypeOK, OwnRun, [Next]_vars, NEW i \in DOMAIN runs, runs[i].status # "running"
  PROVE  i \in DOMAIN runs' /\ runs'[i].status = runs[i].status
<1>0. runs \in Seq([plan : Plans, status : Statuses, entitled : BOOLEAN])
  BY DEF TypeOK
<1>1. CASE runs' = runs
  BY <1>1
<1>2. ASSUME NEW t \in Tasks, StartRun(t)
      PROVE  i \in DOMAIN runs' /\ runs'[i] = runs[i]
  BY <1>0, <1>2 DEF StartRun
<1>3. ASSUME NEW t \in Tasks, FinishRun(t)
      PROVE  i \in DOMAIN runs' /\ runs'[i] = runs[i]
  <2>1. task[t].run # i
    BY <1>3 DEF FinishRun, OwnRun
  <2>2. PICK s : runs' = [runs EXCEPT ![task[t].run].status = s]
    BY <1>3 DEF FinishRun
  <2> QED
    BY <1>0, <2>1, <2>2
<1>4. ASSUME NEW t \in Tasks, Proceed(t), ~StartRun(t), ~FinishRun(t) PROVE runs' = runs
  BY <1>4 DEF Proceed, Plan, Raise, Judge, RecordVerdict, RequestApproval,
       AwaitApproval, Approval, Denied, Execute, RecordAuthorization, RefuseRun,
       PublishRun, records
<1>5. CASE Control
  BY <1>1, <1>5, ControlStep
<1> QED
  BY <1>1, <1>2, <1>3, <1>4, <1>5, NextCases

\* StatusExplained, of a status st and the ledger's tables.
Explained(st, rs, ds, qs, n) ==
  /\ st \in {"succeeded", "failed", "reconciliation_required"} =>
       \E i \in DOMAIN rs : rs[i].status = st
  /\ st = "cancelled" => n > 0 \/ \E i \in DOMAIN rs : rs[i].status = st
  /\ st = "running" => \E d \in ds : Allowed(d.findings)
  /\ st = "denied" => \E d \in ds : d.findings \cap Errors # {}
  /\ st = "awaiting_approval" =>
       \E d \in ds : d.findings = {"approval_required"} /\ d.plan \in qs

LEMMA StatusNext ==
  ASSUME AuditInv, StatusExplained, [Next]_vars PROVE StatusExplained'
<1> DEFINE Now(st) == Explained(st, runs', decisions', requested', cancels')
<1>0. TypeOK /\ OwnRun /\ Accounted
  BY DEF AuditInv
<1> SUFFICES Now(status')
  BY DEF StatusExplained, Explained
<1>1. CASE status' = status
  <2>1. cancels' \in {cancels, cancels + 1} /\ cancels \in Nat
    <3>1. ASSUME NEW t \in Tasks, Proceed(t) PROVE cancels' = cancels
      BY <3>1 DEF Proceed, Plan, Raise, Judge, RecordVerdict, RequestApproval, AwaitApproval,
           Approval, Denied, Execute, RecordAuthorization, RefuseRun, StartRun, FinishRun,
           PublishRun
    <3>2. ASSUME NEW t \in Tasks, CallControl(t) PROVE cancels' = cancels
      BY <3>2 DEF CallControl, Persist, Resume, LoseLease, CallerGone
    <3>3. Cancel \/ Crash \/ Decide \/ GrantLapses \/ GrantChanges \/ UNCHANGED vars
            => cancels' \in {cancels, cancels + 1}
      BY DEF Cancel, Crash, Decide, GrantLapses, GrantChanges, vars
    <3>4. cancels \in Nat
      BY <1>0, SessionConstants DEF TypeOK
    <3> QED
      BY <3>1, <3>2, <3>3, <3>4, NextCases DEF Control
  <2>2. \A i \in DOMAIN runs : runs[i].status # "running" =>
           i \in DOMAIN runs' /\ runs'[i].status = runs[i].status
    BY <1>0, EndsStay
  <2>3. decisions \subseteq decisions' /\ requested \subseteq requested'
    BY <1>0, LedgerGrows
  <2>4. Explained(status, runs, decisions, requested, cancels)
    BY DEF StatusExplained, Explained
  <2>5. cancels > 0 => cancels' > 0
    BY <2>1
  <2> HIDE DEF Now
  <2>6. Explained(status, runs', decisions', requested', cancels')
    BY <2>2, <2>3, <2>4, <2>5 DEF Explained
  <2> QED
    BY <1>1, <2>6 DEF Now
<1>2. ASSUME NEW t \in Tasks, AwaitApproval(t) PROVE Now(status')
  <2>1. /\ task[t].pc = "requested" /\ status' = "awaiting_approval"
        /\ TaskOK(task[t]) /\ TaskAccounted(task[t], plans, decisions, requested)
    BY <1>0, <1>2 DEF AwaitApproval, TypeOK, TasksOK, Accounted
  <2>2. task[t].verification = {"approval_required"} /\ task[t].plan \in requested
    BY <2>1 DEF TaskOK, Over, Node, Nodes, AtNode, TaskAccounted
  <2>3. None # {"approval_required"}
    BY SessionConstants DEF Findings, Errors
  <2>4. \E d \in decisions : d.plan = task[t].plan /\ d.findings = {"approval_required"}
    BY <2>1, <2>2, <2>3 DEF TaskAccounted, VerdictOnRecord
  <2> QED
    BY <1>0, <2>1, <2>2, <2>4, LedgerGrows DEF Explained
<1>3. ASSUME NEW t \in Tasks, Denied(t) \/ Execute(t) PROVE Now(status')
  <2>1. /\ \/ task[t].pc = "denied" /\ status' = "denied"
           \/ task[t].pc = "execute" /\ status' = "running"
        /\ TaskOK(task[t]) /\ TaskAccounted(task[t], plans, decisions, requested)
    BY <1>0, <1>3 DEF Denied, Execute, TypeOK, TasksOK, Accounted
  <2>2. /\ task[t].pc = "denied" =>
             task[t].verification \in SUBSET Findings /\ task[t].verification \cap Errors # {}
        /\ task[t].pc = "execute" => task[t].verification = {}
    BY <2>1 DEF TaskOK, Over, Node, Nodes, AtNode
  <2>3. task[t].verification # None
    BY <2>1, <2>2, SessionConstants
  <2>4. PICK d \in decisions : d.findings = task[t].verification
    BY <2>1, <2>3 DEF TaskAccounted, VerdictOnRecord
  <2> QED
    BY <1>0, <2>1, <2>2, <2>4, LedgerGrows DEF Explained, Allowed
<1>4. ASSUME NEW t \in Tasks, PublishRun(t) PROVE Now(status')
  <2>1. /\ task[t].run \in DOMAIN runs /\ runs[task[t].run].status \in Ends
        /\ status' = runs[task[t].run].status /\ runs' = runs
    BY <1>0, <1>4 DEF PublishRun, OwnRun, Running, records
  <2> QED
    BY <2>1 DEF Explained, Ends
<1>5. CASE Cancel
  <2>1. status' = "cancelled" /\ cancels' > 0
    BY <1>0, <1>5, SessionConstants DEF Cancel, TypeOK
  <2> QED
    BY <2>1 DEF Explained
<1>6. ASSUME NEW t \in Tasks, Proceed(t), ~AwaitApproval(t), ~Denied(t), ~Execute(t), ~PublishRun(t)
      PROVE  status' = status
  BY <1>6 DEF Proceed, Plan, Raise, Judge, RecordVerdict, RequestApproval, Approval,
       RecordAuthorization, RefuseRun, StartRun, FinishRun
<1>7. CASE Control /\ ~Cancel
  <2>1. ASSUME NEW t \in Tasks, CallControl(t) PROVE status' = status
    BY <2>1 DEF CallControl, Persist, Resume, LoseLease, CallerGone
  <2>2. Crash \/ Decide \/ GrantLapses \/ GrantChanges \/ UNCHANGED vars => status' = status
    BY DEF Crash, Decide, GrantLapses, GrantChanges, vars
  <2> QED
    BY <1>1, <1>7, <2>1, <2>2 DEF Control
<1> HIDE DEF Now
<1> QED
  BY <1>1, <1>2, <1>3, <1>4, <1>5, <1>6, <1>7, NextCases

\* The status of the session is one that something in the ledger accounts for, in
\* whatever order tasks, threads and cancel write it.
THEOREM StatusIsExplained == Spec => []StatusExplained
<1>1. Init => AuditInv /\ StatusExplained
  BY AuditInitially DEF Init, StatusExplained
<1>2. AuditInv /\ StatusExplained /\ [Next]_vars => (AuditInv /\ StatusExplained)'
  BY AuditNext, StatusNext
<1> QED
  BY <1>1, <1>2, PTL DEF Spec

-----------------------------------------------------------------------------
(* Cancellation. *)

\* A task that will not start a run: it is over, or it has been cancelled and what is
\* left of it is a thread or a run that has begun.
Spent(k) == k.pc \in Over \/ (k.detached /\ k.pc \in InThread \cup {"running", "finishing"})

AllSpent == reached => \A t \in Tasks : Spent(task[t])

LEMMA CancelSpends ==
  ASSUME TypeOK, Cancel, reached', NEW u \in Tasks PROVE Spent(task'[u])
<1> DEFINE k == task[u]
<1>0. k \in TaskType
  BY DEF TypeOK, TasksOK
<1>1. Scheduled(u) => u = active
  BY DEF Cancel
<1>2. CASE u # active
  <2>1. task'[u] = task[u]
    BY <1>2 DEF Cancel, Interrupt, Stop, TypeOK, TasksOK
  <2> QED
    BY <1>1, <1>2, <2>1 DEF Scheduled, AtWork, Spent
<1>3. CASE u = active
  <2>1. active # None
    BY <1>3, SessionConstants DEF Tasks
  <2>2. Interrupt(u)
    BY <1>3, <2>1 DEF Cancel
  <2>3. CASE Stop(u)
    BY <2>3, Ending, EndedFacts DEF Spent
  <2>4. CASE ~Stop(u)
    <3>1. k.pc \in InThread \cup {"running"}
      BY <2>2, <2>4 DEF Interrupt
    <3>2. PICK m \in {[k EXCEPT !.detached = TRUE, !.unsaved = FALSE, !.called = FALSE],
                      [k EXCEPT !.detached = TRUE, !.unsaved = FALSE]} : task'[u] = m
      BY <2>2, <2>4 DEF Interrupt, TypeOK, TasksOK
    <3>3. m.detached /\ m.pc = k.pc
      BY <1>0, <3>2 DEF TaskType
    <3> QED
      BY <3>1, <3>2, <3>3 DEF Spent
  <2> QED
    BY <2>3, <2>4
<1> QED
  BY <1>2, <1>3

\* A task that is spent takes no step that starts a run, and stays spent.
LEMMA SpentStays ==
  ASSUME TypeOK, NEW t \in Tasks, Proceed(t), Spent(task[t])
  PROVE  Spent(task'[t]) /\ ~StartRun(t)
<1>0. /\ task[t].pc \notin {"plan", "approval", "execute", "authorizing", "authorized", "judged"}
      /\ task[t].pc \in InThread \cup {"running", "finishing"} => task[t].detached
  BY DEF Spent, Over, InThread
<1>1. CASE task'[t] = Ended
  BY <1>0, <1>1, EndedFacts DEF Spent, StartRun
<1>2. CASE RecordVerdict(t) \/ AwaitApproval(t)
  <2>1. task[t].detached
    BY <1>0, <1>2 DEF RecordVerdict, AwaitApproval, InThread
  <2>2. task'[t] = Ended
    BY <1>2, <2>1, VerdictEffect, ApprovalEffect
  <2> QED
    BY <1>1, <2>2
<1>3. CASE Judge(t)
  <2>1. task'[t].detached = task[t].detached /\ task[t].pc = "verify" /\ task'[t].pc = "verified"
    BY <1>0, <1>3, JudgeEffect
  <2> QED
    BY <1>0, <2>1 DEF Spent, InThread, StartRun
<1>4. CASE RequestApproval(t) \/ FinishRun(t)
  <2>1. /\ task'[t].detached = task[t].detached
        /\ \/ task[t].pc = "request_approval" /\ task'[t].pc = "requested"
           \/ task[t].pc = "running" /\ task'[t].pc = "finishing"
    BY <1>4, StepEffect DEF RequestApproval, FinishRun
  <2> QED
    BY <1>0, <2>1 DEF Spent, InThread, StartRun
<1>5. CASE Denied(t) \/ PublishRun(t)
  BY <1>1, <1>5, Ending DEF Denied, PublishRun
<1>6. CASE \/ Plan(t) \/ Raise(t) \/ Approval(t) \/ Execute(t) \/ RecordAuthorization(t)
           \/ RefuseRun(t) \/ StartRun(t)
  BY <1>0, <1>6 DEF Plan, Raise, Approval, Execute, RecordAuthorization, RefuseRun, StartRun
<1> QED
  BY <1>2, <1>3, <1>4, <1>5, <1>6 DEF Proceed

LEMMA SpentNext ==
  ASSUME TypeOK, AllSpent, [Next]_vars PROVE AllSpent'
<1> SUFFICES ASSUME reached', NEW u \in Tasks PROVE Spent(task'[u])
  BY DEF AllSpent, Spent
<1>1. CASE Cancel
  BY <1>1, CancelSpends
<1>2. CASE Control /\ ~Cancel
  <2>1. reached
    <3>1. ASSUME NEW t \in Tasks, CallControl(t) PROVE reached' => reached
      BY <3>1 DEF CallControl, Persist, Resume, LoseLease, CallerGone
    <3>2. Crash \/ Decide \/ GrantLapses \/ GrantChanges \/ UNCHANGED vars => reached' = reached
      BY DEF Crash, Decide, GrantLapses, GrantChanges, vars
    <3> QED
      BY <1>2, <3>1, <3>2 DEF Control
  <2>2. Spent(task[u])
    BY <2>1 DEF AllSpent
  <2>3. Same(task[u], task'[u]) \/ task'[u] = Ended
    BY <1>2, ControlStep DEF Resumed
  <2> QED
    BY <2>2, <2>3, EndedFacts DEF Same, Spent
<1>3. ASSUME NEW t \in Tasks, Proceed(t) PROVE Spent(task'[u])
  <2>1. reached' = reached
    BY <1>3 DEF Proceed, Plan, Raise, Judge, RecordVerdict, RequestApproval, AwaitApproval,
         Approval, Denied, Execute, RecordAuthorization, RefuseRun, StartRun, FinishRun,
         PublishRun
  <2>2. Spent(task[u])
    BY <2>1 DEF AllSpent
  <2> QED
    BY <1>3, <2>2, SpentStays, OtherTasks
<1> QED
  BY <1>1, <1>2, <1>3, NextCases

\* Once cancel returned, having found every task at work, no run of the session starts
\* until somebody resumes it.
THEOREM CancelIsFinal == Spec => NoRunAfterCancel
<1> DEFINE CancelInv == TypeOK /\ OwnRun /\ AllSpent
<1>1. Init => CancelInv
  BY InitType, OwnRunInit DEF Init, AllSpent
<1>2. CancelInv /\ [Next]_vars => CancelInv'
  BY NextType, OwnRunNext, SpentNext
<1>3. CancelInv /\ [Next]_vars => [reached => Len(runs') = Len(runs)]_vars
  <2> SUFFICES ASSUME CancelInv, [Next]_vars, reached PROVE Len(runs') = Len(runs)
    OBVIOUS
  <2>1. CASE Control
    BY <2>1, ControlStep
  <2>2. ASSUME NEW t \in Tasks, Proceed(t) PROVE Len(runs') = Len(runs)
    <3>1. ~StartRun(t)
      BY <2>2, SpentStays DEF AllSpent
    <3>2. CASE FinishRun(t)
      <4>1. PICK s : runs' = [runs EXCEPT ![task[t].run].status = s]
        BY <3>2 DEF FinishRun
      <4>2. runs \in Seq([plan : Plans, status : Statuses, entitled : BOOLEAN])
        BY DEF TypeOK
      <4> QED
        BY <4>1, <4>2
    <3>3. CASE ~FinishRun(t)
      <4>1. runs' = runs
        BY <2>2, <3>1, <3>3
           DEF Proceed, Plan, Raise, Judge, RecordVerdict, RequestApproval, AwaitApproval,
               Approval, Denied, Execute, RecordAuthorization, RefuseRun, PublishRun, records
      <4> QED
        BY <4>1
    <3> QED
      BY <3>2, <3>3
  <2> QED
    BY <2>1, <2>2, NextCases
<1> QED
  BY <1>1, <1>2, <1>3, PTL DEF Spec, NoRunAfterCancel
=============================================================================
