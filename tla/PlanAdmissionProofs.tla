-------------------------- MODULE PlanAdmissionProofs --------------------------
(***************************************************************************)
(* What PlanAdmission promises for any plan, authority and number of tasks *)
(* and of changes.  An action either moves the world on under the tasks,   *)
(* and what it changes only grows or is noted, or it moves one task.       *)
(***************************************************************************)
EXTENDS PlanAdmission, FiniteSetTheorems, TLAPS

\* The history counts moments; what a party held at some moment is in their union.
USE DEF EverCovered

Op(i) == plan[i].operator
OpenNow == {i \in Positions : request[i].gate = "open"}

\* What holds now of someone's authority is in the histories of those at work.
Watching(t) == AtWork(t) => Entitled(InForce) \subseteq EverCovered(t) /\ OpenNow \subseteq opened[t]

\* The planner's service is the profile's, which is never written again.
ServiceKnown(t) ==
  task[t].pc \in {"planner", "evidence", "steps"} =>
    task[t].service = profile /\ profile # None

\* No step is judged before the last snapshot.
NotBegun(t) == task[t].pc \in {"profile", "planner", "evidence"} => task[t].at = 1

\* If a party never held all that the plan wants at one moment, a step says so, or has
\* said so: what a snapshot lacks it lacks for good, and what lapsed stays lapsed.
Judged(t, k, who, snapshot, denied) ==
  \/ who \in EverCovered(t)
  \/ k.findings \cap {denied, "unknown_operator"} # {}
  \/ \E i \in Positions : i >= k.at /\ ~Permits(snapshot, who, Op(i))

RequesterJudged(t) ==
  task[t].pc \in {"profile", "planner", "evidence", "steps"} =>
    Judged(t, task[t], REQUESTER, task[t].requester, "requester_denied")

PlannerJudged(t) ==
  task[t].pc \in {"evidence", "steps"} =>
    Judged(t, task[t], task[t].service, task[t].planner, "planner_denied")

\* What the steps judged so far had to have, or which finding says that they had not.
StepsJudged(t) ==
  task[t].pc = "steps" =>
    /\ task[t].known \subseteq evidence
    /\ \A i \in Positions : i < task[t].at =>
         /\ Registered(Op(i)) \/ "unknown_operator" \in task[t].findings
         /\ \/ plan[i].evidence_refs \subseteq evidence
            \/ task[t].findings \cap {"unknown_operator", "unknown_evidence"} # {}
         /\ \/ Governed(Op(i)) => i \in opened[t]
            \/ task[t].findings \cap
                 {"unknown_operator", "approval_denied", "approval_required"} # {}

\* AllowedWasJustified, of one task.
Allowed(t) ==
  task[t].verdict = "allowed" =>
    /\ AtWork(t) /\ profile # None
    /\ {REQUESTER, profile} \subseteq EverCovered(t)
    /\ \A i \in Positions :
         /\ Registered(Op(i))
         /\ plan[i].evidence_refs \subseteq evidence
         /\ Governed(Op(i)) => i \in opened[t]

\* Approvals are asked for only if all operators are known, and in order.
AskedSoFar(t) ==
  /\ task[t].pc # "raised"
  /\ task[t].pc \in {"ask", "insert", "waiting"} => \A i \in Positions : Registered(Op(i))
  /\ task[t].pc = "insert" => task[t].at \in Positions
  /\ task[t].pc \in {"ask", "insert"} =>
       \A i \in Positions : i < task[t].at /\ Governed(Op(i)) => request[i].gate # "none"
  /\ task[t].pc = "waiting" =>
       \A i \in Positions : Governed(Op(i)) => request[i].gate # "none"

Sound(t) ==
  /\ Watching(t)
  /\ ServiceKnown(t)
  /\ NotBegun(t)
  /\ RequesterJudged(t)
  /\ PlannerJudged(t)
  /\ StepsJudged(t)
  /\ Allowed(t)
  /\ AskedSoFar(t)

Inv == TypeOK /\ ValidSteps(plan) /\ \A t \in Tasks : Sound(t)

-----------------------------------------------------------------------------
(* The world and the tasks. *)

\* The world moves on under the tasks.
Grows ==
  /\ UNCHANGED <<plan, task>>
  /\ lapsed \subseteq lapsed' /\ evidence \subseteq evidence'
  /\ \A op \in Operators : Registered(op) => registry'[op] = registry[op]
  /\ profile # None => profile' = profile
  /\ \A i \in Positions : request[i].gate # "none" => request'[i].gate # "none"
  /\ \A t \in Tasks :
       /\ EverCovered(t) \subseteq EverCovered(t)' /\ opened[t] \subseteq opened'[t]
       /\ AtWork(t) => Entitled(InForce)' \ Entitled(InForce) \subseteq EverCovered(t)'
       /\ AtWork(t) => OpenNow' \ OpenNow \subseteq opened'[t]

\* One task moves, to k, while nobody's authority changes.
Moves(t, k) ==
  /\ UNCHANGED <<plan, authority, changes>>
  /\ k \in Calls
  /\ task' = [task EXCEPT ![t] = k]
  /\ \A s \in Tasks : s # t => EverCovered(s)' = EverCovered(s) /\ opened'[s] = opened[s]
  /\ OpenNow' = OpenNow
  /\ \A i \in Positions : request[i].gate # "none" => request'[i].gate # "none"

LEMMA PlanShape ==
  ASSUME TypeOK
  PROVE  /\ Len(plan) \in Nat /\ Positions = 1 .. Len(plan)
         /\ \A i \in Positions : Op(i) \in Operators
  BY AdmissionConstants DEF TypeOK, Positions, Op

LEMMA GrowthKeepsSound ==
  ASSUME TypeOK, Grows, NEW t \in Tasks, Sound(t)
  PROVE  Sound(t)'
<1> USE PlanShape DEF Grows
<1>0. task'[t] = task[t] /\ Positions' = Positions /\ \A i \in Positions : Op(i)' = Op(i)
  BY DEF Positions, Op
<1>1. \A i \in Positions : /\ Registered(Op(i)) => Registered(Op(i))'
                           /\ Registered(Op(i)) => (Governed(Op(i))' <=> Governed(Op(i)))
                           /\ Governed(Op(i)) => Registered(Op(i))
  BY <1>0 DEF Registered, Governed
<1>2. \A snapshot, who, op : ~Permits(snapshot, who, op) => ~Permits(snapshot, who, op)'
  BY DEF Permits
<1>3. Watching(t)'
  BY <1>0 DEF Sound, Watching, AtWork
<1>4. ServiceKnown(t)' /\ NotBegun(t)'
  BY <1>0 DEF Sound, ServiceKnown, NotBegun
<1>5. RequesterJudged(t)' /\ PlannerJudged(t)'
  BY <1>0, <1>2 DEF Sound, RequesterJudged, PlannerJudged, Judged, REQUESTER
<1>6. StepsJudged(t)'
  BY <1>0, <1>1 DEF Sound, StepsJudged
<1>7. Allowed(t)'
  BY <1>0, <1>1 DEF Sound, Allowed, AtWork
<1>8. AskedSoFar(t)'
  BY <1>0, <1>1 DEF Sound, AskedSoFar
<1> QED
  BY <1>3, <1>4, <1>5, <1>6, <1>7, <1>8 DEF Sound

LEMMA OthersStaySound ==
  ASSUME TypeOK, NEW t \in Tasks, NEW k, Moves(t, k), NEW s \in Tasks, s # t, Sound(s)
  PROVE  Sound(s)'
<1> USE PlanShape DEF Moves, authority
<1>0. task'[s] = task[s] /\ Positions' = Positions /\ \A i \in Positions : Op(i)' = Op(i)
  BY DEF Positions, Op, TypeOK
<1>1. /\ \A op : (Registered(op)' <=> Registered(op)) /\ (Governed(op)' <=> Governed(op))
      /\ \A snapshot, who, op : Permits(snapshot, who, op)' <=> Permits(snapshot, who, op)
      /\ Entitled(InForce)' = Entitled(InForce)
  BY DEF Registered, Governed, Permits, Entitled, InForce, Wanted, Positions
<1>2. Watching(s)' /\ ServiceKnown(s)' /\ NotBegun(s)'
  BY <1>0, <1>1 DEF Sound, Watching, AtWork, ServiceKnown, NotBegun
<1>3. RequesterJudged(s)' /\ PlannerJudged(s)'
  BY <1>0, <1>1 DEF Sound, RequesterJudged, PlannerJudged, Judged
<1>4. StepsJudged(s)' /\ Allowed(s)' /\ AskedSoFar(s)'
  BY <1>0, <1>1 DEF Sound, StepsJudged, Allowed, AskedSoFar, AtWork
<1> QED
  BY <1>2, <1>3, <1>4 DEF Sound

\* What the findings about a step say.
LEMMA FindingsSay ==
  ASSUME TypeOK, NEW t \in Tasks, NEW i \in Positions
  PROVE  LET k == task[t]  found == StepFindings(t, i) IN
         /\ found \subseteq Codes
         /\ Registered(Op(i)) \/ "unknown_operator" \in found
         /\ ~Permits(k.requester, REQUESTER, Op(i)) =>
              found \cap {"requester_denied", "unknown_operator"} # {}
         /\ ~Permits(k.planner, k.service, Op(i)) =>
              found \cap {"planner_denied", "unknown_operator"} # {}
         /\ \/ plan[i].evidence_refs \subseteq k.known
            \/ found \cap {"unknown_operator", "unknown_evidence"} # {}
         /\ \/ Governed(Op(i)) => i \in OpenNow
            \/ found \cap {"unknown_operator", "approval_denied", "approval_required"} # {}
<1> DEFINE found == StepFindings(t, i)
<1>1. CASE ~Registered(Op(i))
  <2>1. found = {"unknown_operator"}
    BY <1>1 DEF StepFindings, Op
  <2> QED
    BY <1>1, <2>1 DEF Codes
<1>2. CASE Registered(Op(i))
  <2>1. found \subseteq {"requester_denied", "planner_denied", "unknown_evidence",
                         "approval_denied", "approval_required"}
    BY <1>2 DEF StepFindings, Op
  <2>2. ~Permits(task[t].requester, REQUESTER, Op(i)) => "requester_denied" \in found
    BY <1>2 DEF StepFindings, Op
  <2>3. ~Permits(task[t].planner, task[t].service, Op(i)) => "planner_denied" \in found
    BY <1>2 DEF StepFindings, Op
  <2>4. ~(plan[i].evidence_refs \subseteq task[t].known) => "unknown_evidence" \in found
    BY <1>2 DEF StepFindings, Op
  <2>5. Governed(Op(i)) /\ request[i].gate = "refused" => "approval_denied" \in found
    BY <1>2 DEF StepFindings, Op
  <2>6. Governed(Op(i)) /\ request[i].gate \notin {"refused", "open"} =>
          "approval_required" \in found
    BY <1>2 DEF StepFindings, Op
  <2> QED
    BY <1>2, <2>1, <2>2, <2>3, <2>4, <2>5, <2>6 DEF Codes, OpenNow
<1> QED
  BY <1>1, <1>2
-----------------------------------------------------------------------------
LEMMA WorldGrows ==
  ASSUME TypeOK,
         \/ \E o \in Offers : Register(o)
         \/ \E who \in Subjects : RegisterIdentity(who)
         \/ \E who \in Services : SaveProfile(who)
         \/ \E e \in Evidence : AddEvidence(e)
         \/ \E who \in Subjects, op \in Operators : ChangeGrant(who, op)
         \/ \E i \in Positions : Decide(i)
  PROVE  Grows /\ TypeOK'
<1> USE AdmissionConstants
<1>1. ASSUME NEW o \in Offers, Register(o) PROVE Grows /\ TypeOK'
  <2>1. TypeOK'
    BY <1>1 DEF Register, Changed, TypeOK, Requests, Entry, Calls, Positions
  <2>2. Grows
    BY <1>1 DEF Register, Grows, OpenNow, TypeOK, Registered, Entitled, InForce, Wanted,
       Positions
  <2> QED
    BY <2>1, <2>2
<1>2. ASSUME NEW who \in Subjects, RegisterIdentity(who) PROVE Grows /\ TypeOK'
  <2>1. TypeOK'
    BY <1>2 DEF RegisterIdentity, Changed, TypeOK, Requests, Entry, Calls, Positions
  <2>2. Grows
    BY <1>2 DEF RegisterIdentity, Grows, OpenNow, TypeOK, Registered, Entitled, InForce,
       Wanted, Positions
  <2> QED
    BY <2>1, <2>2
<1>3. ASSUME NEW who \in Services, SaveProfile(who) PROVE Grows /\ TypeOK'
  <2>1. TypeOK'
    BY <1>3 DEF SaveProfile, Changed, TypeOK, Requests, Entry, Calls, Positions
  <2>2. Grows
    BY <1>3 DEF SaveProfile, Grows, OpenNow, TypeOK, Registered, Entitled, InForce, Wanted,
       Positions
  <2> QED
    BY <2>1, <2>2
<1>4. ASSUME NEW e \in Evidence, AddEvidence(e) PROVE Grows /\ TypeOK'
  <2>1. TypeOK'
    BY <1>4 DEF AddEvidence, Changed, TypeOK, Requests, Entry, Calls, Positions
  <2>2. Grows
    BY <1>4 DEF AddEvidence, Grows, OpenNow, TypeOK, Registered, Entitled, InForce, Wanted,
       Positions
  <2> QED
    BY <2>1, <2>2
<1>5. ASSUME NEW who \in Subjects, NEW op \in Operators, ChangeGrant(who, op) PROVE Grows /\ TypeOK'
  <2>1. TypeOK'
    <3>1. covered' \in [Tasks -> SUBSET SUBSET Subjects]
      BY <1>5 DEF ChangeGrant, NoteGrants, TypeOK, Entitled
    <3>2. granted' \subseteq Subjects \X Operators /\ lapsed' \subseteq Subjects \X Operators
      BY <1>5 DEF ChangeGrant, TypeOK
    <3>3. changes' \in 0 .. MaxChanges
      BY <1>5 DEF ChangeGrant, Changed, TypeOK
    <3> QED
      BY <1>5, <3>1, <3>2, <3>3 DEF ChangeGrant, TypeOK, Calls, Positions
  <2>2. Grows
    <3> DEFINE now == Entitled(granted' \ lapsed')
    <3>0. Entitled(InForce)' = now
      BY <1>5 DEF ChangeGrant, Entitled, InForce, Wanted, Positions
    <3> HIDE DEF now
    <3>a. ASSUME NEW t \in Tasks
          PROVE  covered'[t] = IF AtWork(t) THEN covered[t] \cup {now} ELSE covered[t]
      BY <1>5 DEF ChangeGrant, NoteGrants, now
    <3>1. \A t \in Tasks : EverCovered(t) \subseteq EverCovered(t)'
      BY <3>a
    <3>2. \A t \in Tasks : AtWork(t) => Entitled(InForce)' \subseteq EverCovered(t)'
      BY <3>0, <3>a
    <3> HIDE DEF EverCovered
    <3> QED
      BY <1>5, <3>1, <3>2 DEF ChangeGrant, Grows, OpenNow, TypeOK, Registered, Positions
  <2> QED
    BY <2>1, <2>2
<1>6. ASSUME NEW i \in Positions, Decide(i) PROVE Grows /\ TypeOK'
  <2>1. PICK g \in {"open", "refused", "lapsed", "void"} : request' = [request EXCEPT ![i].gate = g]
    BY <1>6 DEF Decide, NextGates
  <2>2. /\ request' \in [Positions -> Requests]
        /\ \A j \in Positions : request[j].gate # "none" => request'[j].gate # "none"
    <3>1. request'[i] = [request[i] EXCEPT !.gate = g] /\ request'[i] \in Requests
      BY <2>1 DEF TypeOK, Requests
    <3>2. \A j \in Positions : j # i => request'[j] = request[j]
      BY <2>1 DEF TypeOK
    <3> QED
      BY <2>1, <3>1, <3>2 DEF TypeOK, Requests
  <2>3. opened' = [t \in Tasks |-> IF AtWork(t) THEN opened[t] \cup OpenNow' ELSE opened[t]]
    BY <1>6 DEF Decide, NoteGates, OpenNow, Positions
  <2>4. OpenNow' \subseteq Positions
    BY <1>6 DEF OpenNow, Positions, Decide
  <2>5. TypeOK'
    BY <1>6, <2>2, <2>3, <2>4 DEF Decide, authority, TypeOK, Calls, Positions
  <2>6. Grows
    BY <1>6, <2>2, <2>3 DEF Decide, authority, Grows, TypeOK, Entitled, InForce, Wanted,
       Positions
  <2> QED
    BY <2>5, <2>6
<1> QED
  BY <1>1, <1>2, <1>3, <1>4, <1>5, <1>6

-----------------------------------------------------------------------------
(* The steps of a task. *)

LEMMA MovesKeepsTypes ==
  ASSUME TypeOK, NEW t \in Tasks, NEW k, Moves(t, k),
         request' \in [Positions -> Requests],
         covered' \in [Tasks -> SUBSET SUBSET Subjects], opened' \in [Tasks -> SUBSET Positions]
  PROVE  TypeOK'
  BY DEF Moves, TypeOK, authority, Calls, Positions

\* The world as a task's step sees it.
Same ==
  /\ UNCHANGED <<plan, authority>>
  /\ Positions' = Positions
  /\ \A i \in Positions : Op(i)' = Op(i)
  /\ \A op : (Registered(op)' <=> Registered(op)) /\ (Governed(op)' <=> Governed(op))
  /\ \A snapshot, who, op : Permits(snapshot, who, op)' <=> Permits(snapshot, who, op)
  /\ Entitled(InForce)' = Entitled(InForce)

LEMMA NothingElse == ASSUME NEW t, NEW k, Moves(t, k) PROVE Same
  BY DEF Moves, authority, Same, Positions, Op, Registered, Governed, Permits, Entitled,
     InForce, Wanted

LEMMA BeginSound ==
  ASSUME Inv, NEW t \in Tasks, Begin(t)
  PROVE  /\ \E k : Moves(t, k)
         /\ TypeOK' /\ Sound(t)'
<1> USE PlanShape DEF Inv
<1>1. PICK k \in {[Idle EXCEPT !.pc = "profile",
                     !.requester = {op \in Operators : <<REQUESTER, op>> \in granted}],
                  [Idle EXCEPT !.pc = "done", !.verdict = "denied",
                               !.findings = {"identity_invalid"}]} :
             task' = [task EXCEPT ![t] = k]
  BY DEF Begin, Invalid, Move
<1>2. k \in Calls
  <2>1. 1 \in 1 .. Len(plan) + 1 /\ {"identity_invalid"} \subseteq Codes
    BY DEF Codes
  <2>2. Idle \in Calls
    BY <2>1 DEF Idle, Calls
  <2>3. [Idle EXCEPT !.pc = "profile",
           !.requester = {op \in Operators : <<REQUESTER, op>> \in granted}] \in Calls
    BY <2>1 DEF Idle, Calls
  <2>4. [Idle EXCEPT !.pc = "done", !.verdict = "denied",
           !.findings = {"identity_invalid"}] \in Calls
    BY <2>1 DEF Idle, Calls
  <2> QED
    BY <1>1, <2>3, <2>4
<1>3. Moves(t, k)
  BY <1>1, <1>2 DEF Begin, Verifying, Moves, TypeOK, OpenNow, Positions
<1>4. Same
  BY <1>3, NothingElse
<1>5. EverCovered(t)' = Entitled(InForce) /\ opened'[t] = OpenNow /\ task'[t] = k
  BY <1>1 DEF Begin, TypeOK, OpenNow, EverCovered
<1>6. TypeOK'
  <2>1. Entitled(InForce) \subseteq Subjects /\ OpenNow \subseteq Positions
    BY DEF Entitled, OpenNow
  <2> QED
    BY <1>3, <2>1, MovesKeepsTypes DEF Begin, TypeOK, Verifying, OpenNow
<1>7. Watching(t)'
  BY <1>3, <1>4, <1>5 DEF Watching, Same, Moves
<1>8. k.pc = "profile" => RequesterJudged(t)'
  <2> SUFFICES ASSUME k.pc = "profile", REQUESTER \notin Entitled(InForce)
               PROVE  \E i \in Positions : ~Permits(k.requester, REQUESTER, Op(i)) /\ i >= k.at
    BY <1>4, <1>5 DEF RequesterJudged, Judged, Same, REQUESTER
  <2>1. PICK i \in Positions : <<REQUESTER, Op(i)>> \notin InForce
    BY DEF Entitled, Wanted, Subjects, Op
  <2>2. k.at = 1 /\ k.requester = {op \in Operators : <<REQUESTER, op>> \in granted}
    BY <1>1 DEF Idle
  <2> QED
    BY <2>1, <2>2 DEF Permits, InForce
<1>9. /\ k.pc \in {"profile", "done"} /\ k.at = 1
      /\ k.verdict # "allowed"
  BY <1>1 DEF Idle
<1> QED
  BY <1>3, <1>4, <1>5, <1>6, <1>7, <1>8, <1>9
  DEF Sound, ServiceKnown, NotBegun, RequesterJudged, PlannerJudged, StepsJudged, Allowed,
      AskedSoFar, Same

\* The steps after Begin: request may change, the histories do not.
StepsOn(t, k) == Moves(t, k) /\ UNCHANGED <<covered, opened>> /\ AtWork(t) /\ k.pc # "idle"

LEMMA StepsOnMoves ==
  ASSUME NEW t \in Tasks, NEW k, StepsOn(t, k)
  PROVE  \E c : Moves(t, c)
<1>1. Moves(t, k)
  BY DEF StepsOn
<1> QED
  BY <1>1

LEMMA StepsOnFacts ==
  ASSUME TypeOK, NEW t \in Tasks, NEW k, StepsOn(t, k), Sound(t),
         request' \in [Positions -> Requests]
  PROVE  /\ TypeOK' /\ Same /\ Watching(t)' /\ task'[t] = k
<1>1. TypeOK'
  BY MovesKeepsTypes DEF StepsOn, TypeOK, Moves
<1>2. Same
  BY NothingElse DEF StepsOn
<1>3. task'[t] = k
  BY DEF StepsOn, Moves, TypeOK
<1> QED
  BY <1>1, <1>2, <1>3 DEF StepsOn, Moves, Same, Sound, Watching

LEMMA VerifySound ==
  ASSUME Inv, NEW t \in Tasks,
         ReadProfile(t) \/ ReadPlanner(t) \/ ReadEvidence(t) \/ JudgeStep(t) \/ Conclude(t)
  PROVE  /\ \E k : Moves(t, k)
         /\ TypeOK' /\ Sound(t)'
<1> USE PlanShape DEF Inv
<1> DEFINE bad == [Idle EXCEPT !.pc = "done", !.verdict = "denied",
                               !.findings = {"identity_invalid"}]
<1>0. bad \in Calls /\ bad.pc = "done" /\ bad.verdict = "denied"
  <2>1. 1 \in 1 .. Len(plan) + 1 /\ {"identity_invalid"} \subseteq Codes
    BY DEF Codes
  <2> QED
    BY <2>1 DEF Idle, Calls
<1>a. task[t] \in Calls
  BY DEF TypeOK
<1> HIDE DEF bad
<1>1. CASE ReadProfile(t)
  <2> DEFINE k == IF profile = None THEN bad
                  ELSE [task[t] EXCEPT !.pc = "planner", !.service = profile]
  <2>1. task' = [task EXCEPT ![t] = k] /\ task[t].pc = "profile"
    BY <1>1 DEF ReadProfile, Invalid, Move, bad
  <2>2. k \in Calls
    BY <1>0, <1>a DEF Calls, TypeOK
  <2>3. StepsOn(t, k)
    BY <1>0, <1>a, <1>1, <2>1, <2>2
    DEF ReadProfile, Verifying, StepsOn, Moves, OpenNow, Positions, AtWork, Calls
  <2>4. TypeOK' /\ Same /\ Watching(t)' /\ task'[t] = k
    BY <1>1, <2>3, StepsOnFacts DEF ReadProfile, Verifying, TypeOK
  <2>5. CASE profile = None
    <3> HIDE DEF EverCovered
    <3> QED
      BY <1>0, <2>3, <2>4, <2>5 DEF Sound, ServiceKnown, NotBegun, RequesterJudged, PlannerJudged,
         StepsJudged, Allowed, AskedSoFar, StepsOn
  <2>6. CASE profile # None
    <3>1. /\ k.pc = "planner" /\ k.service = profile /\ k.requester = task[t].requester
          /\ k.at = task[t].at /\ k.findings = task[t].findings /\ k.verdict = task[t].verdict
      BY <1>a, <2>6 DEF Calls
    <3>2. RequesterJudged(t)'
      BY <2>1, <2>3, <2>4, <3>1 DEF Sound, RequesterJudged, Judged, Same, StepsOn, REQUESTER
    <3>3. Allowed(t)'
      BY <2>1, <2>3, <2>4, <3>1 DEF Sound, Allowed, Same, StepsOn, AtWork, authority
    <3>m. \E c : Moves(t, c)
      BY <2>3, StepsOnMoves
    <3> HIDE DEF EverCovered
    <3> QED
      BY <3>m, <2>1, <2>3, <2>4, <2>6, <3>1, <3>2, <3>3 DEF Sound, ServiceKnown, NotBegun,
         PlannerJudged,
         StepsJudged, AskedSoFar, Same, authority, StepsOn
  <2> QED
    BY <2>3, <2>4, <2>5, <2>6 DEF StepsOn
<1>2. CASE ReadPlanner(t)
  <2> DEFINE held == {op \in Operators : <<task[t].service, op>> \in granted}
             k == IF task[t].service \in enrolled
                  THEN [task[t] EXCEPT !.pc = "evidence", !.planner = held] ELSE bad
  <2>1. task' = [task EXCEPT ![t] = k] /\ task[t].pc = "planner"
    BY <1>2 DEF ReadPlanner, Invalid, Move, bad
  <2>2. k \in Calls
    BY <1>0, <1>a DEF Calls
  <2>3. StepsOn(t, k)
    BY <1>0, <1>a, <1>2, <2>1, <2>2
    DEF ReadPlanner, Verifying, StepsOn, Moves, OpenNow, Positions, AtWork, Calls
  <2>4. TypeOK' /\ Same /\ Watching(t)' /\ task'[t] = k
    BY <1>2, <2>3, StepsOnFacts DEF ReadPlanner, Verifying, TypeOK
  <2>5. CASE task[t].service \notin enrolled
    <3> HIDE DEF EverCovered
    <3> QED
      BY <1>0, <2>3, <2>4, <2>5 DEF Sound, ServiceKnown, NotBegun, RequesterJudged, PlannerJudged,
         StepsJudged, Allowed, AskedSoFar, StepsOn
  <2>6. CASE task[t].service \in enrolled
    <3>1. /\ k.pc = "evidence" /\ k.service = task[t].service /\ k.requester = task[t].requester
          /\ k.at = task[t].at /\ k.findings = task[t].findings /\ k.verdict = task[t].verdict
          /\ k.planner = held
      BY <1>a, <2>6 DEF Calls
    <3>2. RequesterJudged(t)'
      BY <2>1, <2>3, <2>4, <3>1 DEF Sound, RequesterJudged, Judged, Same, StepsOn, REQUESTER
    <3>3. Allowed(t)'
      BY <2>1, <2>3, <2>4, <3>1 DEF Sound, Allowed, Same, StepsOn, AtWork, authority
    <3>4. PlannerJudged(t)'
      <4>1. task[t].service \in Subjects /\ task[t].at = 1 /\ Entitled(InForce) \subseteq EverCovered(t)
        BY <1>a, <2>1 DEF Sound, ServiceKnown, NotBegun, Watching, AtWork, TypeOK, Subjects
      <4>2. task[t].service \in Entitled(InForce)
              \/ \E i \in Positions : ~Permits(held, task[t].service, Op(i))
        BY <4>1 DEF Entitled, Wanted, Permits, InForce, Op
      <4> HIDE DEF k, held
      <4>3. Judged(t, k, task[t].service, held, "planner_denied")
        <5>1. \A i \in Positions : i >= k.at
          BY <3>1, <4>1
        <5> QED
          BY <4>1, <4>2, <5>1 DEF Judged
      <4> QED
        BY <2>3, <2>4, <3>1, <4>3 DEF PlannerJudged, Judged, Same, StepsOn
    <3>m. \E c : Moves(t, c)
      BY <2>3, StepsOnMoves
    <3> HIDE DEF EverCovered
    <3> QED
      BY <3>m, <2>1, <2>3, <2>4, <2>6, <3>1, <3>2, <3>3, <3>4 DEF Sound, ServiceKnown, NotBegun,
         StepsJudged, AskedSoFar, Same, authority, StepsOn
  <2> QED
    BY <2>3, <2>4, <2>5, <2>6 DEF StepsOn
<1>3. CASE ReadEvidence(t)
  <2> DEFINE k == [task[t] EXCEPT !.pc = "steps", !.known = evidence]
  <2>1. task' = [task EXCEPT ![t] = k] /\ task[t].pc = "evidence"
    BY <1>3 DEF ReadEvidence, Move
  <2>2. k \in Calls
    BY <1>a DEF Calls, TypeOK
  <2>3. StepsOn(t, k)
    BY <1>a, <1>3, <2>1, <2>2
    DEF ReadEvidence, Verifying, StepsOn, Moves, OpenNow, Positions, AtWork, Calls
  <2>4. TypeOK' /\ Same /\ Watching(t)' /\ task'[t] = k
    BY <1>3, <2>3, StepsOnFacts DEF ReadEvidence, Verifying, TypeOK
  <2>5. /\ k.pc = "steps" /\ k.service = task[t].service /\ k.requester = task[t].requester
        /\ k.at = task[t].at /\ k.findings = task[t].findings /\ k.verdict = task[t].verdict
        /\ k.planner = task[t].planner /\ k.known = evidence
    BY <1>a DEF Calls
  <2>6. RequesterJudged(t)' /\ PlannerJudged(t)'
    <3>1. EverCovered(t)' = EverCovered(t)
      BY <1>3 DEF ReadEvidence
    <3> HIDE DEF EverCovered
    <3>2. RequesterJudged(t)'
      BY <2>1, <2>3, <2>4, <2>5, <3>1 DEF Sound, RequesterJudged, Judged, Same, StepsOn, REQUESTER
    <3>3. PlannerJudged(t)'
      BY <2>1, <2>3, <2>4, <2>5, <3>1 DEF Sound, PlannerJudged, Judged, Same, StepsOn
    <3> QED
      BY <3>2, <3>3
  <2>7. Allowed(t)'
    BY <2>1, <2>3, <2>4, <2>5 DEF Sound, Allowed, Same, StepsOn, AtWork, authority
  <2>8. StepsJudged(t)'
    BY <2>1, <2>4, <2>5 DEF Sound, NotBegun, StepsJudged, Same, authority
  <2>m. \E c : Moves(t, c)
    BY <2>3, StepsOnMoves
  <2> HIDE DEF EverCovered
  <2> QED
    BY <2>m, <2>1, <2>3, <2>4, <2>5, <2>6, <2>7, <2>8
    DEF Sound, ServiceKnown, NotBegun, AskedSoFar, Same, authority, StepsOn
<1>4. CASE JudgeStep(t)
  <2> DEFINE i == task[t].at  found == StepFindings(t, i)
             k == [task[t] EXCEPT !.findings = @ \cup found, !.at = @ + 1]
  <2>1. task' = [task EXCEPT ![t] = k] /\ task[t].pc = "steps" /\ i \in Positions
    BY <1>4 DEF JudgeStep, Move
  <2>0. /\ found \subseteq Codes
        /\ Registered(Op(i)) \/ "unknown_operator" \in found
        /\ ~Permits(task[t].requester, REQUESTER, Op(i)) =>
             found \cap {"requester_denied", "unknown_operator"} # {}
        /\ ~Permits(task[t].planner, task[t].service, Op(i)) =>
             found \cap {"planner_denied", "unknown_operator"} # {}
        /\ \/ plan[i].evidence_refs \subseteq task[t].known
           \/ found \cap {"unknown_operator", "unknown_evidence"} # {}
        /\ \/ Governed(Op(i)) => i \in OpenNow
           \/ found \cap {"unknown_operator", "approval_denied", "approval_required"} # {}
    BY <2>1, FindingsSay
  <2> HIDE DEF found
  <2>2. k \in Calls
    <3>1. task[t].findings \cup found \subseteq Codes
      BY <1>a, <2>0 DEF Calls
    <3>2. i + 1 \in 1 .. Len(plan) + 1
      BY <2>1
    <3> QED
      BY <1>a, <3>1, <3>2 DEF Calls
  <2>5. /\ k.pc = "steps" /\ k.service = task[t].service /\ k.requester = task[t].requester
        /\ k.at = i + 1 /\ k.findings = task[t].findings \cup found
        /\ k.verdict = task[t].verdict
        /\ k.planner = task[t].planner /\ k.known = task[t].known
    BY <1>a, <2>1 DEF Calls
  <2>3. StepsOn(t, k)
    BY <1>a, <1>4, <2>1, <2>2, <2>5
    DEF JudgeStep, Verifying, StepsOn, Moves, OpenNow, Positions, AtWork
  <2>4. TypeOK' /\ Same /\ Watching(t)' /\ task'[t] = k
    BY <1>4, <2>3, StepsOnFacts DEF JudgeStep, Verifying, TypeOK
  <2> HIDE DEF k
  <2>6. RequesterJudged(t)'
    <3>1. Judged(t, task[t], REQUESTER, task[t].requester, "requester_denied")
      BY <2>1 DEF Sound, RequesterJudged
    <3>2. Judged(t, k, REQUESTER, task[t].requester, "requester_denied")
      BY <2>0, <2>1, <2>5, <3>1 DEF Judged
    <3> QED
      BY <2>3, <2>4, <2>5, <3>2 DEF RequesterJudged, Judged, Same, StepsOn, REQUESTER
  <2>7. PlannerJudged(t)'
    <3>1. Judged(t, task[t], task[t].service, task[t].planner, "planner_denied")
      BY <2>1 DEF Sound, PlannerJudged
    <3>2. Judged(t, k, task[t].service, task[t].planner, "planner_denied")
      BY <2>0, <2>1, <2>5, <3>1 DEF Judged
    <3> QED
      BY <2>3, <2>4, <2>5, <3>2 DEF PlannerJudged, Judged, Same, StepsOn
  <2>8. Allowed(t)'
    BY <2>1, <2>3, <2>4, <2>5 DEF Sound, Allowed, Same, StepsOn, AtWork, authority
  <2>9. StepsJudged(t)'
    <3> SUFFICES ASSUME NEW j \in Positions, j <= i
                 PROVE  /\ Registered(Op(j)) \/ "unknown_operator" \in k.findings
                        /\ \/ plan[j].evidence_refs \subseteq evidence
                           \/ k.findings \cap {"unknown_operator", "unknown_evidence"} # {}
                        /\ \/ Governed(Op(j)) => j \in opened[t]
                           \/ k.findings \cap
                                {"unknown_operator", "approval_denied", "approval_required"} # {}
      BY <2>1, <2>3, <2>4, <2>5 DEF StepsJudged, Same, StepsOn, authority, Sound
    <3>1. CASE j < i
      BY <2>1, <2>5, <3>1 DEF Sound, StepsJudged
    <3>2. CASE j = i
      <4>1. OpenNow \subseteq opened[t] /\ task[t].known \subseteq evidence
        BY <2>1 DEF Sound, Watching, AtWork, StepsJudged
      <4> QED
        BY <2>0, <2>5, <3>2, <4>1
    <3> QED
      BY <2>1, <3>1, <3>2
  <2>m. \E c : Moves(t, c)
    BY <2>3, StepsOnMoves
  <2> HIDE DEF EverCovered
  <2> QED
    BY <2>m, <2>1, <2>3, <2>4, <2>5, <2>6, <2>7, <2>8, <2>9
    DEF Sound, ServiceKnown, NotBegun, AskedSoFar, Same, authority, StepsOn
<1>5. CASE Conclude(t)
  <2> DEFINE v == Verdict(task[t].findings)
             k == [task[t] EXCEPT !.verdict = v, !.at = 1,
                                  !.pc = IF v = "requires_approval" THEN "ask" ELSE "done"]
  <2>1. task' = [task EXCEPT ![t] = k] /\ task[t].pc = "steps" /\ task[t].at \notin Positions
    BY <1>5 DEF Conclude, Move
  <2>2. k \in Calls
    <3>1. v \in {"allowed", "requires_approval", "denied"}
      BY DEF Verdict
    <3>2. 1 \in 1 .. Len(plan) + 1
      OBVIOUS
    <3> QED
      BY <1>a, <3>1, <3>2 DEF Calls
  <2>5. k.verdict = v /\ k.at = 1 /\ k.pc = IF v = "requires_approval" THEN "ask" ELSE "done"
    BY <1>a DEF Calls
  <2>3. StepsOn(t, k)
    BY <1>a, <1>5, <2>1, <2>2, <2>5
    DEF Conclude, Verifying, StepsOn, Moves, OpenNow, Positions, AtWork
  <2>4. TypeOK' /\ Same /\ Watching(t)' /\ task'[t] = k
    BY <1>5, <2>3, StepsOnFacts DEF Conclude, Verifying, TypeOK
  <2> HIDE DEF k
  <2>6. \A i \in Positions : i < task[t].at
    BY <1>a, <2>1 DEF Calls
  <2>7. v \in {"allowed", "requires_approval"} =>
          \A i \in Positions : Registered(Op(i))
    BY <2>1, <2>6 DEF Sound, StepsJudged, Verdict
  <2>8. Allowed(t)'
    <3> SUFFICES ASSUME v = "allowed"
                 PROVE  /\ profile # None
                        /\ {REQUESTER, profile} \subseteq EverCovered(t)
                        /\ \A i \in Positions :
                             /\ Registered(Op(i))
                             /\ plan[i].evidence_refs \subseteq evidence
                             /\ Governed(Op(i)) => i \in opened[t]
      BY <2>3, <2>4, <2>5 DEF Allowed, Same, StepsOn, AtWork, authority, REQUESTER
    <3>1. task[t].findings = {}
      BY DEF Verdict
    <3>2. REQUESTER \in EverCovered(t)
      BY <1>a, <2>1, <2>6, <3>1 DEF Sound, RequesterJudged, Judged, Calls
    <3>3. profile \in EverCovered(t) /\ profile # None
      <4> HIDE DEF EverCovered
      <4> QED
        BY <1>a, <2>1, <2>6, <3>1 DEF Sound, PlannerJudged, Judged, Calls, ServiceKnown
    <3> QED
      BY <2>1, <2>6, <3>1, <3>2, <3>3 DEF Sound, StepsJudged
  <2>9. AskedSoFar(t)'
    BY <2>3, <2>4, <2>5, <2>7 DEF AskedSoFar, Same
  <2>m. \E c : Moves(t, c)
    BY <2>3, StepsOnMoves
  <2> HIDE DEF EverCovered
  <2> QED
    BY <2>m, <2>3, <2>4, <2>5, <2>8, <2>9
    DEF Sound, ServiceKnown, NotBegun, RequesterJudged, PlannerJudged, StepsJudged, StepsOn
<1> QED
  BY <1>1, <1>2, <1>3, <1>4, <1>5

LEMMA AskSound ==
  ASSUME Inv, NEW t \in Tasks, Ask(t)
  PROVE  /\ \E k : Moves(t, k)
         /\ TypeOK' /\ Sound(t)' /\ (\A i \in Positions : request[i].gate # "none" =>
                                       request'[i] = request[i])
<1> USE PlanShape DEF Inv
<1>a. task[t] \in Calls
  BY DEF TypeOK
<1> DEFINE i == task[t].at
           mine == [task[t] EXCEPT !.pc = "ask", !.at = @ + 1, !.ids = @ \cup {<<i, t>>}]
           passed == [task[t] EXCEPT !.at = @ + 1]
           there == [task[t] EXCEPT !.at = @ + 1, !.ids = @ \cup {<<i, request[i].maker>>}]
<1>b. /\ request' \in [Positions -> Requests]
      /\ \A j \in Positions : request[j].gate # "none" => request'[j] = request[j]
      /\ OpenNow' = OpenNow /\ AtWork(t)
      /\ UNCHANGED <<plan, authority, changes, covered, opened>>
  <2>1. CASE AskInsert(t)
    <3>1. i \in Positions
      BY <2>1 DEF AskInsert, Sound, AskedSoFar
    <3>2. [gate |-> "shut", maker |-> t] \in Requests
      BY DEF Requests
    <3> HIDE DEF i
    <3>3. request' = request \/ (request[i].gate = "none" /\
                                 request' = [request EXCEPT ![i] = [gate |-> "shut", maker |-> t]])
      BY <2>1 DEF AskInsert, i
    <3>4. request' \in [Positions -> Requests]
      BY <3>1, <3>2, <3>3 DEF TypeOK
    <3>5. \A j \in Positions : request'[j] = request[j] \/
             (request[j].gate = "none" /\ request'[j].gate = "shut")
      BY <3>1, <3>3 DEF TypeOK
    <3> QED
      BY <2>1, <3>4, <3>5 DEF AskInsert, Asking, AtWork, OpenNow, Positions
  <2>2. CASE AskRead(t) \/ Asked(t)
    BY <2>2 DEF AskRead, Asked, Asking, TypeOK, OpenNow, Positions, AtWork
  <2> QED
    BY <2>1, <2>2 DEF Ask
<1>1. CASE AskRead(t)
  <2>1. i \in Positions /\ task[t].pc = "ask" /\ Registered(Op(i))
    BY <1>1 DEF AskRead, Sound, AskedSoFar
  <2>2. PICK k : /\ task' = [task EXCEPT ![t] = k]
                 /\ \/ k = passed /\ ~Governed(Op(i))
                    \/ k = [task[t] EXCEPT !.pc = "insert"]
                    \/ k = there /\ request[i].gate # "none"
    BY <1>1, <2>1 DEF AskRead, Move, Op
  <2>3. /\ k \in Calls
        /\ k.verdict = task[t].verdict
        /\ \/ k.pc = "ask" /\ k.at = i + 1 /\ (Governed(Op(i)) => request[i].gate # "none")
           \/ k.pc = "insert" /\ k.at = i
    <3>1. i + 1 \in 1 .. Len(plan) + 1
      BY <2>1
    <3>2. <<i, request[i].maker>> \in Positions \X (Tasks \cup {None})
      BY <2>1 DEF TypeOK, Requests
    <3>3. CASE k = passed /\ ~Governed(Op(i))
      BY <1>a, <2>1, <3>1, <3>3 DEF Calls
    <3>4. CASE k = [task[t] EXCEPT !.pc = "insert"]
      BY <1>a, <3>4 DEF Calls
    <3>5. CASE k = there /\ request[i].gate # "none"
      <4>1. task[t].ids \cup {<<i, request[i].maker>>} \subseteq Positions \X (Tasks \cup {None})
        BY <1>a, <3>2 DEF Calls
      <4> QED
        BY <1>a, <2>1, <3>1, <3>5, <4>1 DEF Calls
    <3> QED
      BY <2>2, <3>3, <3>4, <3>5
  <2> HIDE DEF i
  <2>4. StepsOn(t, k)
    BY <1>b, <2>2, <2>3 DEF StepsOn, Moves
  <2>5. TypeOK' /\ Same /\ Watching(t)' /\ task'[t] = k
    BY <1>b, <2>4, StepsOnFacts
  <2>6. AskedSoFar(t)'
    BY <1>a, <1>b, <2>1, <2>3, <2>5 DEF Sound, AskedSoFar, Same, i, Calls
  <2>7. Allowed(t)'
    BY <2>1, <2>3, <2>4, <2>5 DEF Sound, Allowed, Same, StepsOn, AtWork, authority
  <2> QED
    BY <1>b, <2>3, <2>4, <2>5, <2>6, <2>7
    DEF Sound, ServiceKnown, NotBegun, RequesterJudged, PlannerJudged, StepsJudged, StepsOn
<1>2. CASE AskInsert(t)
  <2>1. i \in Positions /\ task[t].pc = "insert" /\ request'[i].gate # "none"
    BY <1>2 DEF AskInsert, Sound, AskedSoFar, TypeOK
  <2>2. task' = [task EXCEPT ![t] = mine]
    BY <1>2 DEF AskInsert, Move
  <2>3. mine \in Calls /\ mine.verdict = task[t].verdict /\ mine.pc = "ask" /\ mine.at = i + 1
    <3>1. i + 1 \in 1 .. Len(plan) + 1
      BY <2>1
    <3>2. task[t].ids \cup {<<i, t>>} \subseteq Positions \X (Tasks \cup {None})
      BY <1>a, <2>1 DEF Calls
    <3> QED
      BY <1>a, <3>1, <3>2 DEF Calls
  <2> HIDE DEF i, mine
  <2>4. StepsOn(t, mine)
    BY <1>b, <2>2, <2>3 DEF StepsOn, Moves
  <2>5. TypeOK' /\ Same /\ Watching(t)' /\ task'[t] = mine
    BY <1>b, <2>4, StepsOnFacts
  <2>6. AskedSoFar(t)'
    BY <1>a, <1>b, <2>1, <2>3, <2>5 DEF Sound, AskedSoFar, Same, i, Calls
  <2>7. Allowed(t)'
    BY <2>1, <2>3, <2>4, <2>5 DEF Sound, Allowed, Same, StepsOn, AtWork, authority
  <2>m. \E c : Moves(t, c)
    BY <2>4, StepsOnMoves
  <2> HIDE DEF EverCovered
  <2> QED
    BY <2>m, <1>b, <2>3, <2>4, <2>5, <2>6, <2>7
    DEF Sound, ServiceKnown, NotBegun, RequesterJudged, PlannerJudged, StepsJudged, StepsOn
<1>3. CASE Asked(t)
  <2> DEFINE k == [task[t] EXCEPT !.pc = "waiting"]
  <2>1. task' = [task EXCEPT ![t] = k] /\ task[t].pc = "ask" /\ i \notin Positions
    BY <1>3 DEF Asked, Move
  <2>2. k \in Calls /\ k.verdict = task[t].verdict /\ k.pc = "waiting"
    BY <1>a DEF Calls
  <2>3. \A j \in Positions : j < i
    BY <1>a, <2>1 DEF Calls
  <2> HIDE DEF i, k
  <2>4. StepsOn(t, k)
    BY <1>b, <2>1, <2>2 DEF StepsOn, Moves
  <2>5. TypeOK' /\ Same /\ Watching(t)' /\ task'[t] = k
    BY <1>b, <2>4, StepsOnFacts
  <2>6. AskedSoFar(t)'
    BY <1>a, <1>b, <2>1, <2>2, <2>3, <2>5 DEF Sound, AskedSoFar, Same, i
  <2>7. Allowed(t)'
    BY <2>1, <2>2, <2>4, <2>5 DEF Sound, Allowed, Same, StepsOn, AtWork, authority
  <2>m. \E c : Moves(t, c)
    BY <2>4, StepsOnMoves
  <2> HIDE DEF EverCovered
  <2> QED
    BY <2>m, <1>b, <2>2, <2>4, <2>5, <2>6, <2>7
    DEF Sound, ServiceKnown, NotBegun, RequesterJudged, PlannerJudged, StepsJudged, StepsOn
<1> QED
  BY <1>1, <1>2, <1>3 DEF Ask

LEMMA AgainSound ==
  ASSUME Inv, NEW t \in Tasks, Again(t)
  PROVE  /\ \E k : Moves(t, k)
         /\ TypeOK' /\ Sound(t)'
<1> USE PlanShape DEF Inv
<1>1. task' = [task EXCEPT ![t] = Idle] /\ task'[t] = Idle
  BY DEF Again, Move, TypeOK
<1>2. Idle \in Calls /\ Idle.pc = "idle" /\ Idle.verdict = "none"
  <2>1. 1 \in 1 .. Len(plan) + 1
    OBVIOUS
  <2> QED
    BY <2>1 DEF Idle, Calls
<1>3. Moves(t, Idle)
  BY <1>1, <1>2 DEF Again, Verifying, Moves, TypeOK, OpenNow, Positions
<1>4. TypeOK'
  BY <1>3, MovesKeepsTypes DEF Again, TypeOK, Verifying
<1> QED
  BY <1>1, <1>2, <1>3, <1>4
  DEF Sound, Watching, AtWork, ServiceKnown, NotBegun, RequesterJudged, PlannerJudged, StepsJudged,
      Allowed, AskedSoFar

-----------------------------------------------------------------------------
LEMMA InvInit == Init => Inv
<1> SUFFICES ASSUME Init PROVE Inv
  OBVIOUS
<1>1. plan \in Candidates /\ ValidSteps(plan) /\ 1 \in 1 .. Len(plan) + 1
  BY AdmissionConstants DEF Init
<1>2. Idle \in Calls /\ Idle.pc = "idle" /\ Idle.verdict = "none"
  BY <1>1 DEF Idle, Calls
<1>3. TypeOK
  <2>1. registry \in [Operators -> {None} \cup
          [governed : BOOLEAN, schema : {None} \cup {o.model : o \in Offers}]]
    <3>1. \A o \in Offers : Entry(o) \in
            [governed : BOOLEAN, schema : {None} \cup {p.model : p \in Offers}]
      BY AdmissionConstants DEF Entry
    <3> QED
      BY <3>1 DEF Init
  <2>2. granted \subseteq Subjects \X Operators
    BY DEF Init, Granted0
  <2>3. NoRequest \in Requests
    BY DEF NoRequest, Requests
  <2> QED
    BY <1>1, <1>2, <2>1, <2>2, <2>3, AdmissionConstants DEF Init, TypeOK
<1>4. \A t \in Tasks : Sound(t)
  <2> SUFFICES ASSUME NEW t \in Tasks PROVE Sound(t)
    OBVIOUS
  <2>1. task[t].pc = "idle" /\ task[t].verdict = "none"
    BY <1>2 DEF Init
  <2> QED
    BY <2>1 DEF Sound, Watching, AtWork, ServiceKnown, NotBegun, RequesterJudged, PlannerJudged,
        StepsJudged, Allowed, AskedSoFar
<1> QED
  BY <1>1, <1>3, <1>4 DEF Inv

LEMMA InvNext == Inv /\ [Next]_vars => Inv'
<1> SUFFICES ASSUME Inv, [Next]_vars PROVE Inv'
  OBVIOUS
<1>1. CASE \/ \E o \in Offers : Register(o)
           \/ \E who \in Subjects : RegisterIdentity(who)
           \/ \E who \in Services : SaveProfile(who)
           \/ \E e \in Evidence : AddEvidence(e)
           \/ \E who \in Subjects, op \in Operators : ChangeGrant(who, op)
           \/ \E i \in Positions : Decide(i)
  <2>1. Grows /\ TypeOK'
    BY <1>1, WorldGrows DEF Inv
  <2>2. ValidSteps(plan)'
    BY <2>1 DEF Inv, Grows, ValidSteps, Ids
  <2> QED
    BY <2>1, <2>2, GrowthKeepsSound DEF Inv
<1>2. ASSUME NEW t \in Tasks, Verify(t) \/ Ask(t) \/ Again(t)
      PROVE  Inv'
  <2>1. PICK k : Moves(t, k)
    BY <1>2, BeginSound, VerifySound, AskSound, AgainSound DEF Verify
  <2>2. TypeOK' /\ Sound(t)'
    BY <1>2, BeginSound, VerifySound, AskSound, AgainSound DEF Verify
  <2>3. \A s \in Tasks : s # t => Sound(s)'
    BY <2>1, OthersStaySound DEF Inv
  <2>4. ValidSteps(plan)'
    BY <2>1 DEF Inv, Moves, ValidSteps, Ids
  <2> QED
    BY <2>2, <2>3, <2>4 DEF Inv
<1>3. CASE UNCHANGED vars
  <2>1. Grows /\ TypeOK'
    BY <1>3 DEF vars, authority, Inv, Grows, TypeOK, OpenNow, Entitled, InForce, Wanted,
       Positions,
        Calls
  <2>2. ValidSteps(plan)'
    BY <2>1 DEF Inv, Grows, ValidSteps, Ids
  <2> QED
    BY <2>1, <2>2, GrowthKeepsSound DEF Inv
<1> QED
  BY <1>1, <1>2, <1>3 DEF Next

LEMMA Invariant == Spec => []Inv
  BY InvInit, InvNext, PTL DEF Spec

\* Every variable keeps its type.
THEOREM TypeCorrect == Spec => []TypeOK
<1>1. Inv => TypeOK
  BY DEF Inv
<1> QED
  BY <1>1, Invariant, PTL

\* A plan that passed validation can be executed as it is written: each step finds the
\* results it looks up, and finds those of the steps it means.
THEOREM PlansAreExecutable == Spec => []Executable
<1>1. Inv => Executable
  <2> SUFFICES ASSUME Inv PROVE Executable
    OBVIOUS
  <2> USE PlanShape DEF Inv
  <2>1. ASSUME NEW i \in Positions, NEW d \in plan[i].depends_on
        PROVE  \E j \in Positions : j < i /\ plan[j].id = d
    <3>1. PICK j \in 1 .. i - 1 : d = plan[j].id
      BY DEF ValidSteps, Positions
    <3> QED
      BY <3>1
  <2>2. ASSUME NEW i \in Positions, NEW j \in Positions, plan[i].id = plan[j].id PROVE i = j
    <3> DEFINE name == [k \in Positions |-> plan[k].id]
    <3>1. name \in Surjection(Positions, Ids(plan))
      BY DEF Surjection, Ids, Positions
    <3>2. IsFiniteSet(Positions) /\ Cardinality(Positions) = Len(plan)
      <4>1. IsFiniteSet(1 .. Len(plan))
              /\ Cardinality(1 .. Len(plan)) = IF 1 > Len(plan) THEN 0 ELSE Len(plan) - 1 + 1
        BY FS_Interval
      <4> QED
        BY <4>1
    <3>3. Cardinality(Positions) = Cardinality(Ids(plan))
      BY <3>2 DEF ValidSteps
    <3>4. name \in Injection(Positions, Ids(plan))
      BY <3>1, <3>2, <3>3, FS_SurjSameCardinalityImpliesInj
    <3> QED
      BY <2>2, <3>4 DEF Injection, IsInjective
  <2> QED
    BY <2>1, <2>2 DEF Executable
<1> QED
  BY <1>1, Invariant, PTL

\* No verdict "allowed" is pieced together from what one party held at different times;
\* the two parties may have held theirs at different moments of the call.
THEOREM AllowedIsJustified == Spec => []AllowedWasJustified
<1>1. Inv => AllowedWasJustified
  BY DEF Inv, Sound, Allowed, AllowedWasJustified, Op
<1> QED
  BY <1>1, Invariant, PTL

\* A session that waits for approvals has a request for each.
THEOREM WaitsHaveRequests == Spec => []WaitsForRequests
<1>1. Inv => WaitsForRequests
  BY DEF Inv, Sound, AskedSoFar, WaitsForRequests, Op
<1> QED
  BY <1>1, Invariant, PTL

\* A request is inserted once, and what was decided stays decided.
THEOREM RequestsStay == Spec => RequestNeverReset
<1> DEFINE Stays == \A i \in Positions : request[i].gate # "none" =>
             /\ request'[i].maker = request[i].maker
             /\ request[i].gate # "shut" => request'[i].gate # "shut"
<1>1. ASSUME Inv, [Next]_vars PROVE Stays
  <2>1. ASSUME NEW i \in Positions, Decide(i) PROVE Stays
    <3>1. PICK g \in {"open", "refused", "lapsed", "void"} : request' = [request EXCEPT ![i].gate = g]
      BY <2>1 DEF Decide, NextGates
    <3> QED
      BY <3>1 DEF Inv, TypeOK, Requests
  <2>2. CASE \E t \in Tasks : Ask(t)
    BY <1>1, <2>2, AskSound
  <2>3. CASE UNCHANGED request
    BY <2>3
  <2>4. ASSUME NEW t \in Tasks, Verify(t) \/ Again(t) PROVE UNCHANGED request
    BY <2>4 DEF Verify, Begin, ReadProfile, ReadPlanner, ReadEvidence, JudgeStep, Conclude,
       Again,
        Verifying
  <2> QED
    BY <1>1, <2>1, <2>2, <2>3, <2>4
    DEF Next, Register, RegisterIdentity, SaveProfile, AddEvidence, ChangeGrant, vars
<1> QED
  BY <1>1, Invariant, PTL DEF Spec, RequestNeverReset
================================================================================
