--------------------------- MODULE PlanningProofs ---------------------------
(***************************************************************************)
(* Theorems about Planning, for any budgets, any plans the model may       *)
(* propose and any number of replays.                                      *)
(***************************************************************************)
EXTENDS Planning, TLAPS

-----------------------------------------------------------------------------
(* The inductive invariant.  Sleeping before a retry, propose still has an   *)
(* attempt left; every repair stands for at most MaxTransient calls; a file  *)
(* precedes its row; a plan_id in the ledger has one content.                *)

AttemptLeft == pc = "sleeping" => transient < MaxTransient

CallsCounted == calls <= MaxTransient * repairs + transient

FileFirst == rows <= files /\ (pc = "filed" => rows < files)

OneContent == \A p, q \in plans : q.id = p.id => q.digest = p.digest

Inv == TypeOK /\ AttemptLeft /\ CallsCounted /\ FileFirst /\ OneContent

LEMMA InitInv == Init => Inv
<1> SUFFICES ASSUME Init PROVE Inv
  OBVIOUS
<1>1. TypeOK
  BY PlanningConstants DEF Init, TypeOK, Plans, Over, Asking
<1>2. AttemptLeft /\ FileFirst /\ OneContent
  BY DEF Init, AttemptLeft, FileFirst, OneContent
<1>3. CallsCounted
  BY PlanningConstants DEF Init, CallsCounted
<1> QED
  BY <1>1, <1>2, <1>3 DEF Inv

LEMMA NextType == TypeOK /\ AttemptLeft /\ [Next]_vars => TypeOK'
<1> SUFFICES ASSUME TypeOK, AttemptLeft, [Next]_vars PROVE TypeOK'
  OBVIOUS
<1> USE PlanningConstants DEF TypeOK, Plans, Over, Asking
<1>1. ASSUME NEW kind \in {"plan", "transient", "permanent", "invalid_output"}, Answered(kind)
      PROVE  TypeOK'
  BY <1>1 DEF Answered
<1>2. CASE Escape \/ Crash
  BY <1>2 DEF Escape, Crash
<1>3. CASE WriteFile \/ RecordInvocation
  BY <1>3 DEF WriteFile, RecordInvocation
<1>4. CASE Accept
  <2>1. proposal \in Plans
    BY <1>4 DEF Accept
  <2> QED
    BY <1>4, <2>1 DEF Accept
<1>5. CASE Backoff \/ GiveUp
  BY <1>5 DEF Backoff, GiveUp
<1>6. CASE Retry
  BY <1>6 DEF Retry, AttemptLeft
<1>7. CASE Repair
  BY <1>7 DEF Repair, MayRepair
<1>8. CASE RecordPlan
  BY <1>8 DEF RecordPlan
<1>9. CASE Checkpoint
  BY <1>9 DEF Checkpoint
<1>10. CASE Replay
  BY <1>10 DEF Replay
<1>11. CASE UNCHANGED vars
  BY <1>11 DEF vars
<1> QED
  BY <1>1, <1>2, <1>3, <1>4, <1>5, <1>6, <1>7, <1>8, <1>9, <1>10, <1>11 DEF Next, Proceed

\* One repair more pays for MaxTransient calls more.
LEMMA OneRepairMore ==
  ASSUME NEW t \in Nat, NEW m \in Nat
  PROVE  m * (t + 1) = m * t + m
  OBVIOUS

LEMMA MoreRepairsMoreCalls ==
  ASSUME NEW t \in Nat, NEW u \in Nat, NEW m \in Nat, t <= u
  PROVE  m * t <= m * u
<1>1. PICK d \in Nat : u = t + d
  <2> WITNESS u - t \in Nat
  <2> QED
    OBVIOUS
<1>2. m * u = m * t + m * d
  BY <1>1
<1>3. m * d \in Nat /\ m * t \in Nat
  BY <1>1
<1> QED
  BY <1>2, <1>3

LEMMA NextCounts == TypeOK /\ CallsCounted /\ [Next]_vars => CallsCounted'
<1> SUFFICES ASSUME TypeOK, CallsCounted, [Next]_vars PROVE CallsCounted'
  OBVIOUS
<1>1. /\ transient \in 1 .. MaxTransient /\ repairs \in Nat /\ calls \in Nat
      /\ MaxTransient \in Nat /\ MaxTransient * repairs \in Nat
  BY PlanningConstants DEF TypeOK
<1>2. CASE UNCHANGED <<transient, repairs, calls>>
  BY <1>2 DEF CallsCounted
<1>3. CASE Retry
  BY <1>1, <1>3 DEF Retry, CallsCounted
<1>4. CASE Repair
  <2>1. calls + 1 <= MaxTransient * repairs + MaxTransient + 1
    BY <1>1 DEF CallsCounted
  <2>2. MaxTransient * (repairs + 1) = MaxTransient * repairs + MaxTransient
    BY <1>1, OneRepairMore
  <2> QED
    BY <1>4, <2>1, <2>2 DEF Repair, CallsCounted
<1>5. CASE Replay
  BY <1>1, <1>5 DEF Replay, CallsCounted
<1> QED
  BY <1>2, <1>3, <1>4, <1>5
     DEF Next, Proceed, vars, Answered, Escape, WriteFile, RecordInvocation, Accept, Backoff,
         GiveUp, RecordPlan, Checkpoint, Crash

LEMMA NextRest ==
  TypeOK /\ AttemptLeft /\ FileFirst /\ [Next]_vars => AttemptLeft' /\ FileFirst'
<1> SUFFICES ASSUME TypeOK, AttemptLeft, FileFirst, [Next]_vars
             PROVE  AttemptLeft' /\ FileFirst'
  OBVIOUS
<1>1. files \in Nat /\ rows \in Nat
  BY DEF TypeOK
<1> QED
  BY <1>1
     DEF AttemptLeft, FileFirst, Next, Proceed, vars, Answered, Escape, WriteFile,
         RecordInvocation, Accept, Backoff, Retry, Repair, GiveUp, RecordPlan, Checkpoint, Crash,
         Replay, MayRetry

\* A step adds no second content under an id, and removes no plan.
LEMMA PlansGrow ==
  ASSUME TypeOK, OneContent, [Next]_vars
  PROVE  /\ \A p \in plans, q \in plans' : q.id = p.id => q.digest = p.digest
         /\ OneContent'
<1>1. CASE plans' = plans
  BY <1>1 DEF OneContent
<1>2. CASE RecordPlan /\ ~Clash(proposal) /\ plans' = plans \cup {proposal}
  BY <1>2 DEF OneContent, Clash
<1> QED
  BY <1>1, <1>2
     DEF Next, Proceed, vars, Answered, Escape, WriteFile, RecordInvocation, Accept, Backoff,
         Retry, Repair, GiveUp, RecordPlan, Checkpoint, Crash, Replay

LEMMA Invariant == Spec => []Inv
<1>1. Inv /\ [Next]_vars => Inv'
  BY NextType, NextCounts, NextRest, PlansGrow DEF Inv
<1> QED
  BY InitInv, <1>1, PTL DEF Spec

-----------------------------------------------------------------------------
\* Every variable keeps its type, and neither budget of propose is ever exceeded.
THEOREM TypeCorrect == Spec => []TypeOK
<1>1. Inv => TypeOK
  BY DEF Inv
<1> QED
  BY <1>1, Invariant, PTL

\* For any budgets, propose asks the model at most MaxTransient * (MaxRepairs + 1)
\* times.
THEOREM CallsAreBounded == Spec => []CallsBounded
<1>1. Inv => CallsBounded
  <2> SUFFICES ASSUME Inv PROVE CallsBounded
    OBVIOUS
  <2>1. /\ transient \in 1 .. MaxTransient /\ repairs \in Nat /\ repairs <= MaxRepairs
        /\ MaxTransient \in Nat /\ MaxRepairs \in Nat /\ calls \in Nat
        /\ calls <= MaxTransient * repairs + transient
    BY PlanningConstants DEF Inv, TypeOK, CallsCounted
  <2>2. MaxTransient * repairs <= MaxTransient * MaxRepairs
    BY <2>1, MoreRepairsMoreCalls
  <2>3. MaxTransient * (MaxRepairs + 1) = MaxTransient * MaxRepairs + MaxTransient
    BY <2>1, OneRepairMore
  <2>4. MaxTransient * repairs \in Nat /\ MaxTransient * MaxRepairs \in Nat
    BY <2>1
  <2> QED
    BY <2>1, <2>2, <2>3, <2>4 DEF CallsBounded
<1> QED
  BY <1>1, Invariant, PTL

\* No invocation row exists without its private file, wherever a crash falls.
THEOREM FilesPrecedeRows == Spec => []RowHasFile
<1>1. Inv => RowHasFile
  BY DEF Inv, FileFirst, RowHasFile
<1> QED
  BY <1>1, Invariant, PTL

\* Whatever the model proposes and however often the node is replayed, a plan_id in
\* the ledger never comes to stand for another content.
THEOREM PlanIdsAreImmutable == Spec => PlanIdIsContent
<1>1. Inv /\ [Next]_vars => [\A p \in plans : \A q \in plans' : q.id = p.id => q.digest = p.digest]_vars
  BY PlansGrow DEF Inv
<1> QED
  BY <1>1, Invariant, PTL DEF Spec, PlanIdIsContent
=============================================================================
