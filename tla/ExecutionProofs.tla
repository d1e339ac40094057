--------------------------- MODULE ExecutionProofs ---------------------------
(***************************************************************************)
(* Theorems about PlanExecution, for any plan and any number of runs that  *)
(* may be cancelled or crash anywhere, and about CoordinatorLease, which   *)
(* is to keep the runs of two runtimes apart: for any number of runtimes,  *)
(* any TTL and any heartbeat period.                                       *)
(***************************************************************************)
EXTENDS PlanExecution, CoordinatorLease, TLAPS

\* Where a step is in hand: a row says it is running, and its end is not recorded yet.
AtWork == {"launch", "waiting", "timing_out", "cancelling", "collected"}

\* Where no step is in hand.
Between == {"unborn", "refused", "loop", "finish", "returned", "over"}

\* Outcomes that stop a run.
Stopping == {"cancelled", "reconciliation_required"}

\* The step in hand has its row; it has no worker before it is spawned, and none
\* that may be alive when its result is in hand.  Only an operator says "running".
StepInHand(r) ==
  /\ pc[r] \in AtWork => at[r] \in Steps /\ stepRow[r][at[r]] = "running"
  /\ pc[r] = "launch" => worker[r][at[r]] = "none"
  /\ pc[r] = "collected" =>
       /\ result[r] \in StepStatus /\ worker[r][at[r]] \notin Alive
       /\ result[r] = "running" => file[r][at[r]] = "running"

\* What is behind no longer runs; its row says so, unless its operator said otherwise.
Past(r, s) == worker[r][s] \notin Alive /\ (stepRow[r][s] = "running" => file[r][s] = "running")

\* Of what is still to come there is nothing yet.
InOrder(r) ==
  \A s \in Steps :
    /\ s >= at[r] => outcome[r][s] = "none"
    /\ s > at[r] \/ (s = at[r] /\ pc[r] \in Between) =>
         stepRow[r][s] = "none" /\ worker[r][s] = "none"
    /\ s < at[r] => Past(r, s)

Covered(r) ==
  \A s \in Steps :
    /\ worker[r][s] # "none" => stepRow[r][s] # "none"
    /\ worker[r][s] \in Alive => stepRow[r][s] = "running"

\* A step that stops the run is the last one the run dealt with.
Stops(r) ==
  \A s \in Steps :
    /\ stepRow[r][s] \in Stopping =>
         /\ at[r] = s + 1
         /\ pc[r] \in {"finish", "returned", "over", "crashed"}
         /\ \A t \in Steps : t > s => worker[r][t] = "none" /\ stepRow[r][t] = "none"
         /\ outcome[r][s] = stepRow[r][s]
    /\ outcome[r][s] \in Stopping => stepRow[r][s] = outcome[r][s]

\* The run row: running until the run is finished, and then what the steps say.
Opened(r) ==
  /\ pc[r] \in (Under \ {"returned"}) \cup {"aborted"} => runRow[r] = "running"
  /\ pc[r] = "finish" => \E s \in Steps : s < at[r] /\ outcome[r][s] \in Stopping

Explained(r) ==
  /\ \A s \in Steps : stepRow[r][s] \in Stopping => runRow[r] \in {"running", stepRow[r][s]}
  /\ runRow[r] \in Settled => \A s \in Steps : Past(r, s)
  /\ runRow[r] \in Stopping => \E s \in Steps : stepRow[r][s] = runRow[r]

RunInv(r) == StepInHand(r) /\ InOrder(r) /\ Covered(r) /\ Stops(r) /\ Opened(r) /\ Explained(r)

\* A success has been recorded for step s, in some run.
OnRecord(s) == \E q \in Runs : stepRow[q][s] = "succeeded"

\* A success that a run goes by is on record, and so are its dependencies' ...
SuccessOnRecord ==
  /\ \A s \in Steps : results[s] = "succeeded" => OnRecord(s)
  /\ \A r \in Runs, s \in Steps : outcome[r][s] = "succeeded" => OnRecord(s)
  /\ \A r \in Runs, s \in Steps : stepRow[r][s] # "none" => \A d \in dependsOn[s] : OnRecord(d)

\* ... and it has had its effect.
SuccessActed ==
  \A r \in Runs, s \in Steps :
    /\ worker[r][s] = "acted" => s \in effects
    /\ file[r][s] = "succeeded" => s \in effects
    /\ stepRow[r][s] = "succeeded" => s \in effects
    /\ pc[r] = "collected" /\ result[r] = "succeeded" /\ at[r] = s => s \in effects

IInv ==
  /\ TypeOK
  /\ \A r \in Runs : RunInv(r)
  /\ SuccessOnRecord
  /\ SuccessActed
  /\ SucceededIsComplete

\* One run at a time: no success is on record for an idempotent step in hand.
OneAtATime == \A r, q \in Runs : pc[r] \in Under /\ pc[q] \in Under => r = q

NotDoneYet ==
  \A r \in Runs : pc[r] \in AtWork /\ at[r] \in Idempotent => results[at[r]] # "succeeded"

KeepInv == OneAtATime /\ NotDoneYet
-----------------------------------------------------------------------------
(* Types. *)

\* A step of one run's coroutine.
Mine(r) == Proceed(r) \/ Interrupt(r) \/ Refuse(r)

LEMMA InitType == Init => TypeOK
<1> SUFFICES ASSUME Init PROVE TypeOK
  OBVIOUS
<1> USE ExecutionConstants DEF Init, TypeOK, Steps
<1>1. 1 \in 1 .. N + 1
  OBVIOUS
<1> QED
  BY <1>1

LEMMA MineType ==
  ASSUME TypeOK, NEW r \in Runs, Mine(r),
         pc[r] \in AtWork => at[r] \in Steps,
         pc[r] = "collected" => result[r] \in StepStatus
  PROVE  TypeOK'
<1> USE DEF TypeOK
<1>0. N \in Nat /\ \A k \in 1 .. N : k + 1 \in 1 .. N + 1
  BY ExecutionConstants
<1>1. ASSUME NEW status \in StepStatus, at[r] \in Steps, Advance(r, status)
      PROVE  /\ outcome' \in [Runs -> [Steps -> {"none"} \cup StepStatus]]
             /\ at' \in [Runs -> 1 .. N + 1]
  BY <1>0, <1>1 DEF Advance, Steps
<1>2. ASSUME NEW status \in StepStatus, Conclude(r, status)
      PROVE  /\ pc' \in [Runs -> {"unborn"} \cup Under \cup Ended]
             /\ result' \in [Runs -> {"none"} \cup StepStatus]
  BY <1>2 DEF Conclude, Under
<1>3. CASE Refuse(r) \/ Start(r)
  BY <1>3 DEF Refuse, Start, Under, Ended
<1>4. CASE Block(r) \/ Reuse(r)
  <2>1. PICK status \in StepStatus : Advance(r, status)
    BY <1>4 DEF Block, Reuse, StepStatus, Settled
  <2>2. at[r] \in Steps
    BY <1>4 DEF Block, Reuse, Ready
  <2> QED
    BY <1>1, <1>4, <2>1, <2>2 DEF Block, Reuse
<1>5. CASE RecordRunning(r)
  BY <1>5 DEF RecordRunning, Ready, Under, StepStatus
<1>6. CASE InvalidInput(r)
  BY <1>2, <1>6 DEF InvalidInput, StepStatus, Settled
<1>7. CASE Spawn(r)
  BY <1>7 DEF Spawn, Under, Alive, AtWork
<1>8. CASE CancelSpawn(r)
  <2>1. at[r] \in Steps /\ UNCHANGED <<at, outcome, result, file, runRow, stepRow, results, dependsOn>>
    BY <1>8 DEF CancelSpawn, AtWork
  <2>2. pc' \in [Runs -> {"unborn"} \cup Under \cup Ended]
    BY <1>8 DEF CancelSpawn, Ended
  <2>3. /\ worker' = worker \/ worker' = [worker EXCEPT ![r][at[r]] = "killed"]
        /\ effects' = effects \/ effects' = effects \cup {at[r]}
    BY <1>8 DEF CancelSpawn
  <2>4. effects' \subseteq Steps
    BY <2>1, <2>3
  <2>5. worker' \in [Runs -> [Steps -> {"none", "exited", "killed"} \cup Alive]]
    <3>1. ASSUME worker' = [worker EXCEPT ![r][at[r]] = "killed"]
          PROVE  worker' \in [Runs -> [Steps -> {"none", "exited", "killed"} \cup Alive]]
      BY <2>1, <3>1
    <3> QED
      BY <2>3, <3>1
  <2> QED
    BY <2>1, <2>2, <2>4, <2>5
<1>9. CASE Collect(r)
  <2>1. PICK status \in Collected(at[r], file[r][at[r]]) : Conclude(r, status)
    BY <1>9 DEF Collect
  <2>2. at[r] \in Steps
    BY <1>9 DEF Collect, AtWork
  <2>3. file[r][at[r]] \in {"none"} \cup StepStatus
    BY <2>2
  <2>4. status \in StepStatus
    BY <2>1, <2>3 DEF Collected, StepStatus, Settled
  <2> QED
    BY <1>2, <1>9, <2>1, <2>4 DEF Collect
<1>10. CASE Timeout(r) \/ CancelTerminate(r)
  BY <1>10 DEF Timeout, CancelTerminate, Under, Ended
<1>11. CASE Cancel(r)
  <2>1. CASE Conclude(r, "cancelled")
    BY <1>2, <1>11, <2>1 DEF Cancel, StepStatus, Settled
  <2>2. CASE pc' = [pc EXCEPT ![r] = "cancelling"] /\ UNCHANGED result
    BY <1>11, <2>2 DEF Cancel, Under
  <2> QED
    BY <1>11, <2>1, <2>2 DEF Cancel
<1>12. CASE Terminated(r)
  <2>1. PICK status \in StepStatus : Conclude(r, status)
    BY <1>12 DEF Terminated, StepStatus, Settled
  <2>2. worker' \in [Runs -> [Steps -> {"none", "exited", "killed"} \cup Alive]]
    BY <1>12 DEF Terminated, AtWork, Alive
  <2> QED
    BY <1>2, <1>12, <2>1, <2>2 DEF Terminated
<1>13. CASE Record(r)
  <2>1. at[r] \in Steps /\ result[r] \in StepStatus
    BY <1>13 DEF Record, AtWork
  <2>2. /\ outcome' \in [Runs -> [Steps -> {"none"} \cup StepStatus]]
        /\ at' \in [Runs -> 1 .. N + 1]
    BY <1>1, <1>13, <2>1 DEF Record
  <2>3. /\ stepRow' \in [Runs -> [Steps -> {"none"} \cup StepStatus]]
        /\ results' \in [Steps -> {"none"} \cup StepStatus]
        /\ result' \in [Runs -> {"none"} \cup StepStatus]
        /\ pc' \in [Runs -> {"unborn"} \cup Under \cup Ended]
    BY <1>13, <2>1 DEF Record, Under
  <2> QED
    BY <1>13, <2>2, <2>3 DEF Record
<1>14. CASE Finish(r)
  <2>1. RunStatus(r) \in Settled
    BY DEF RunStatus, Settled
  <2> QED
    BY <1>14, <2>1 DEF Finish, Under
<1>15. CASE Checkpoint(r)
  BY <1>15 DEF Checkpoint, Ended
<1> QED
  BY <1>3, <1>4, <1>5, <1>6, <1>7, <1>8, <1>9, <1>10, <1>11, <1>12, <1>13, <1>14, <1>15
     DEF Mine, Proceed, Interrupt

LEMMA WorkType ==
  ASSUME TypeOK, NEW r \in Runs, NEW s \in Steps, Work(r, s)
  PROVE  TypeOK'
<1> USE DEF TypeOK
<1>1. CASE Act(r, s)
  BY <1>1 DEF Act, Alive
<1>2. ASSUME NEW leaves \in {"none", "failed"} \cup Answers, WorkerExit(r, s, leaves) PROVE TypeOK'
  BY <1>2, ExecutionConstants DEF WorkerExit, StepStatus, Settled
<1> QED
  BY <1>1, <1>2 DEF Work

LEMMA RestType == TypeOK /\ (Crash \/ UNCHANGED vars) => TypeOK'
  BY DEF TypeOK, Crash, vars, Ended

-----------------------------------------------------------------------------
(* What a step of one run's coroutine leaves alone: the other runs, and what *)
(* workers have done.                                                        *)

SameRun(q) ==
  /\ pc'[q] = pc[q] /\ at'[q] = at[q] /\ outcome'[q] = outcome[q] /\ result'[q] = result[q]
  /\ worker'[q] = worker[q] /\ file'[q] = file[q] /\ runRow'[q] = runRow[q]
  /\ stepRow'[q] = stepRow[q]

LEMMA OthersStay ==
  ASSUME TypeOK, NEW r \in Runs, Mine(r), NEW q \in Runs, q # r
  PROVE  SameRun(q)
<1> USE DEF SameRun, TypeOK
<1>1. CASE Refuse(r) \/ Start(r) \/ RecordRunning(r) \/ Finish(r) \/ Checkpoint(r)
  BY <1>1 DEF Refuse, Start, RecordRunning, Finish, Checkpoint
<1>2. CASE Block(r) \/ Reuse(r) \/ Record(r)
  BY <1>2 DEF Block, Reuse, Record, Advance
<1>3. CASE InvalidInput(r) \/ Spawn(r) \/ CancelSpawn(r) \/ Collect(r)
  BY <1>3 DEF InvalidInput, Spawn, CancelSpawn, Collect, Conclude
<1>4. CASE Timeout(r) \/ Cancel(r) \/ Terminated(r) \/ CancelTerminate(r)
  BY <1>4 DEF Timeout, Cancel, Terminated, CancelTerminate, Conclude
<1> QED
  BY <1>1, <1>2, <1>3, <1>4 DEF Mine, Proceed, Interrupt

LEMMA SameRunKeeps ==
  ASSUME NEW q \in Runs, SameRun(q), RunInv(q)
  PROVE  RunInv(q)'
<1> USE DEF SameRun, RunInv
<1>1. StepInHand(q)' /\ InOrder(q)' /\ Covered(q)'
  BY DEF StepInHand, InOrder, Past, Covered
<1>2. Stops(q)' /\ Opened(q)' /\ Explained(q)'
  BY DEF Stops, Opened, Explained, Past
<1> QED
  BY <1>1, <1>2

-----------------------------------------------------------------------------
(* Each step of a run's coroutine keeps the run's own invariant. *)

LEMMA OpenKeeps ==
  ASSUME TypeOK, NEW r \in Runs, RunInv(r), Refuse(r) \/ Start(r)
  PROVE  RunInv(r)'
<1> USE DEF RunInv
<1>1. /\ pc[r] = "unborn"
      /\ \/ pc'[r] = "refused" /\ runRow'[r] = runRow[r]
         \/ pc'[r] = "loop" /\ runRow'[r] = "running"
      /\ UNCHANGED <<at, outcome, result, worker, file, stepRow>>
  <2>1. CASE Refuse(r)
    BY <2>1 DEF Refuse, TypeOK
  <2>2. CASE Start(r)
    BY <2>2 DEF Start, TypeOK
  <2> QED
    BY <2>1, <2>2
<1>2. StepInHand(r)' /\ InOrder(r)' /\ Covered(r)'
  BY <1>1 DEF StepInHand, InOrder, Past, Covered, AtWork, Between
<1>3. Stops(r)' /\ Opened(r)' /\ Explained(r)'
  BY <1>1 DEF Stops, Opened, Explained, Past, Under, Stopping, Settled
<1> QED
  BY <1>2, <1>3

\* Advance writes down an outcome and goes on to the next step.
LEMMA AdvanceFacts ==
  ASSUME TypeOK, NEW r \in Runs, NEW status, Advance(r, status), at[r] \in Steps
  PROVE  /\ at'[r] = at[r] + 1
         /\ \A s \in Steps : outcome'[r][s] = IF s = at[r] THEN status ELSE outcome[r][s]
BY DEF TypeOK, Advance

LEMMA SkipKeeps ==
  ASSUME TypeOK, NEW r \in Runs, RunInv(r), Block(r) \/ Reuse(r)
  PROVE  RunInv(r)'
<1> USE DEF RunInv
<1>1. PICK status \in {"blocked", "succeeded"} : Advance(r, status)
  BY DEF Block, Reuse
<1>2. /\ pc[r] = "loop" /\ at[r] \in Steps
      /\ UNCHANGED <<pc, result, worker, file, runRow, stepRow>>
  BY DEF Block, Reuse, Ready
<1>3. /\ at'[r] = at[r] + 1
      /\ \A s \in Steps : outcome'[r][s] = IF s = at[r] THEN status ELSE outcome[r][s]
  BY <1>1, <1>2, AdvanceFacts
<1>4. at[r] \in Nat /\ \A s \in Steps : s \in Nat
  BY <1>2 DEF Steps
<1>5. StepInHand(r)' /\ Covered(r)'
  BY <1>2 DEF StepInHand, Covered, AtWork
<1>6. InOrder(r)'
  BY <1>2, <1>3, <1>4 DEF InOrder, Past, Between, Alive
<1>7. Stops(r)'
  BY <1>2, <1>3 DEF Stops, Stopping
<1>8. Opened(r)' /\ Explained(r)'
  BY <1>2 DEF Opened, Explained, Past, Under
<1> QED
  BY <1>5, <1>6, <1>7, <1>8

LEMMA RecordRunningKeeps ==
  ASSUME TypeOK, NEW r \in Runs, RunInv(r), RecordRunning(r)
  PROVE  RunInv(r)'
<1> USE DEF RunInv
<1>1. /\ pc[r] = "loop" /\ at[r] \in Steps /\ pc'[r] = "launch"
      /\ UNCHANGED <<at, outcome, result, worker, file, runRow>>
      /\ \A s \in Steps : stepRow'[r][s] = IF s = at[r] THEN "running" ELSE stepRow[r][s]
  BY DEF RecordRunning, Ready, TypeOK
<1>2. \A s \in Steps : s \in Nat
  BY DEF Steps
<1>3. stepRow[r][at[r]] = "none" /\ worker[r][at[r]] = "none" /\ outcome[r][at[r]] = "none"
  BY <1>1, <1>2 DEF InOrder, Past, Between
<1>4. runRow[r] = "running"
  BY <1>1 DEF Opened, Under
<1>5. StepInHand(r)' /\ Covered(r)'
  BY <1>1, <1>3 DEF StepInHand, Covered, AtWork, Alive
<1>6. InOrder(r)'
  BY <1>1, <1>2 DEF InOrder, Past, Between
<1>7. Stops(r)'
  BY <1>1, <1>2, <1>3 DEF Stops, Stopping, InOrder, Past
<1>8. Opened(r)' /\ Explained(r)'
  BY <1>1, <1>4 DEF Opened, Explained, Past, Under, Settled, Stopping
<1> QED
  BY <1>5, <1>6, <1>7, <1>8

LEMMA SpawnKeeps ==
  ASSUME TypeOK, NEW r \in Runs, RunInv(r), Spawn(r) \/ CancelSpawn(r)
  PROVE  RunInv(r)'
<1> USE DEF RunInv
<1>1. /\ pc[r] = "launch" /\ pc'[r] \in {"waiting", "aborted"}
      /\ UNCHANGED <<at, outcome, result, file, runRow, stepRow>>
  BY DEF Spawn, CancelSpawn, TypeOK
<1>2. at[r] \in Steps /\ stepRow[r][at[r]] = "running"
  BY <1>1 DEF StepInHand, AtWork
<1>3. \A s \in Steps : s \in Nat /\ (s # at[r] => worker'[r][s] = worker[r][s])
  <2>1. PICK w \in {"running", "killed"} :
          worker' = worker \/ worker' = [worker EXCEPT ![r][at[r]] = w]
    BY DEF Spawn, CancelSpawn
  <2>2. CASE worker' = [worker EXCEPT ![r][at[r]] = w]
    BY <2>2 DEF TypeOK, Steps
  <2> QED
    BY <2>1, <2>2 DEF Steps
<1>4. StepInHand(r)' /\ InOrder(r)'
  BY <1>1, <1>2, <1>3 DEF StepInHand, InOrder, Past, AtWork, Between
<1>5. Covered(r)'
  BY <1>1, <1>2, <1>3 DEF Covered
<1>6. Stops(r)'
  BY <1>1, <1>2, <1>3 DEF Stops, Stopping
<1>7. Opened(r)' /\ Explained(r)'
  BY <1>1 DEF Opened, Explained, Past, Under, Settled, Stopping
<1> QED
  BY <1>4, <1>5, <1>6, <1>7

\* The worker is awaited, terminated, or given up on.
LEMMA AwaitKeeps ==
  ASSUME TypeOK, NEW r \in Runs, RunInv(r), Timeout(r) \/ CancelTerminate(r)
  PROVE  RunInv(r)'
<1> USE DEF RunInv
<1>1. /\ pc[r] \in {"waiting", "timing_out", "cancelling"} /\ pc'[r] \in {"timing_out", "aborted"}
      /\ UNCHANGED <<at, outcome, result, worker, file, runRow, stepRow>>
  BY DEF Timeout, CancelTerminate, TypeOK
<1>2. StepInHand(r)' /\ InOrder(r)' /\ Covered(r)'
  BY <1>1 DEF StepInHand, InOrder, Past, Covered, AtWork, Between
<1>3. Stops(r)' /\ Opened(r)' /\ Explained(r)'
  BY <1>1 DEF Stops, Opened, Explained, Past, Under
<1> QED
  BY <1>2, <1>3

\* A result is in hand; whatever process there was has ended.
LEMMA ConcludeKeeps ==
  ASSUME TypeOK, NEW r \in Runs, RunInv(r),
         InvalidInput(r) \/ Collect(r) \/ Cancel(r) \/ Terminated(r)
  PROVE  RunInv(r)'
<1> USE DEF RunInv
<1>1. /\ pc[r] \in {"launch", "waiting", "timing_out", "cancelling"}
      /\ UNCHANGED <<at, outcome, file, runRow, stepRow>>
  BY DEF InvalidInput, Collect, Cancel, Terminated
<1>2. at[r] \in Steps /\ stepRow[r][at[r]] = "running"
  BY <1>1 DEF StepInHand, AtWork
<1>3. \/ pc'[r] = "cancelling"
      \/ /\ pc'[r] = "collected" /\ result'[r] \in StepStatus /\ worker'[r][at[r]] \notin Alive
         /\ result'[r] = "running" => file[r][at[r]] = "running"
  <2>1. CASE InvalidInput(r)
    BY <1>2, <2>1 DEF InvalidInput, Conclude, StepInHand, StepStatus, Settled, Alive, TypeOK
  <2>2. CASE Collect(r)
    <3>1. PICK status \in Collected(at[r], file[r][at[r]]) : Conclude(r, status)
      BY <2>2 DEF Collect
    <3>2. file[r][at[r]] \in {"none"} \cup StepStatus
      BY <1>2 DEF TypeOK
    <3>3. status \in StepStatus /\ (status = "running" => file[r][at[r]] = "running")
      BY <3>1, <3>2 DEF Collected, StepStatus, Settled
    <3> QED
      BY <1>2, <2>2, <3>1, <3>3 DEF Collect, Conclude, Alive, TypeOK
  <2>3. CASE Cancel(r)
    BY <1>2, <2>3 DEF Cancel, Conclude, StepStatus, Settled, Alive, TypeOK
  <2>4. CASE Terminated(r)
    BY <1>2, <2>4 DEF Terminated, Conclude, StepStatus, Settled, Alive, TypeOK
  <2> QED
    BY <2>1, <2>2, <2>3, <2>4
<1>4. \A s \in Steps : \/ worker'[r][s] = worker[r][s]
                       \/ s = at[r] /\ worker'[r][s] = "killed"
  BY <1>2 DEF InvalidInput, Collect, Cancel, Terminated, TypeOK
<1>5. \A s \in Steps : s \in Nat
  BY DEF Steps
<1>6. StepInHand(r)' /\ InOrder(r)'
  BY <1>1, <1>2, <1>3, <1>4, <1>5 DEF StepInHand, InOrder, Past, AtWork, Between
<1>7. Covered(r)'
  BY <1>1, <1>2, <1>4 DEF Covered, Alive
<1>8. Stops(r)'
  BY <1>1, <1>2, <1>3, <1>4 DEF Stops, Stopping
<1>9. Opened(r)' /\ Explained(r)'
  BY <1>1, <1>3 DEF Opened, Explained, Past, Under, Settled, Stopping
<1> QED
  BY <1>6, <1>7, <1>8, <1>9

LEMMA RecordKeeps ==
  ASSUME TypeOK, NEW r \in Runs, RunInv(r), Record(r)
  PROVE  RunInv(r)'
<1> USE DEF RunInv
<1>1. /\ pc[r] = "collected" /\ at[r] \in Steps /\ result[r] \in StepStatus
      /\ stepRow[r][at[r]] = "running" /\ worker[r][at[r]] \notin Alive
      /\ result[r] = "running" => file[r][at[r]] = "running"
  BY DEF Record, StepInHand, AtWork
<1>2. /\ at'[r] = at[r] + 1
      /\ \A s \in Steps : outcome'[r][s] = IF s = at[r] THEN result[r] ELSE outcome[r][s]
  BY <1>1, AdvanceFacts DEF Record
<1>3. /\ UNCHANGED <<worker, file, runRow>>
      /\ pc'[r] = IF result[r] \in Stopping THEN "finish" ELSE "loop"
      /\ \A s \in Steps : stepRow'[r][s] = IF s = at[r] THEN result[r] ELSE stepRow[r][s]
  BY <1>1 DEF Record, Stopping, TypeOK
<1>4. at[r] \in Nat /\ \A s \in Steps : s \in Nat
  BY <1>1 DEF Steps
<1>5. result[r] # "none"
  BY <1>1 DEF StepStatus, Settled
<1>6. runRow[r] = "running"
  BY <1>1 DEF Opened, Under
<1>7. StepInHand(r)' /\ Covered(r)'
  BY <1>1, <1>3, <1>5 DEF StepInHand, Covered, AtWork
<1>8. InOrder(r)'
  BY <1>1, <1>2, <1>3, <1>4, <1>5 DEF InOrder, Past
<1>9. Stops(r)'
  <2>1. \A s \in Steps : stepRow[r][s] \notin Stopping
    BY <1>1 DEF Stops
  <2>2. \A s \in Steps : s # at[r] => outcome'[r][s] \notin Stopping /\ stepRow'[r][s] \notin Stopping
    BY <1>2, <1>3, <2>1 DEF Stops
  <2>3. outcome'[r][at[r]] = result[r] /\ stepRow'[r][at[r]] = result[r]
    BY <1>1, <1>2, <1>3
  <2>4. \A t \in Steps : t > at[r] => worker'[r][t] = "none" /\ stepRow'[r][t] = "none"
    BY <1>1, <1>3, <1>4 DEF InOrder, Past
  <2>5. ASSUME NEW s \in Steps, stepRow'[r][s] \in Stopping
        PROVE  /\ at'[r] = s + 1 /\ pc'[r] = "finish" /\ outcome'[r][s] = stepRow'[r][s]
               /\ \A t \in Steps : t > s => worker'[r][t] = "none" /\ stepRow'[r][t] = "none"
    BY <1>2, <1>3, <2>2, <2>3, <2>4, <2>5
  <2> QED
    BY <2>2, <2>3, <2>5 DEF Stops
<1>10. Opened(r)'
  BY <1>1, <1>2, <1>3, <1>4, <1>6 DEF Opened
<1>11. Explained(r)'
  BY <1>3, <1>6 DEF Explained, Past, Settled, Stopping
<1> QED
  BY <1>7, <1>8, <1>9, <1>10, <1>11

LEMMA FinishKeeps ==
  ASSUME TypeOK, NEW r \in Runs, RunInv(r), Finish(r)
  PROVE  RunInv(r)'
<1> USE DEF RunInv
<1>1. /\ pc[r] \in {"finish", "loop"} /\ pc'[r] = "returned" /\ runRow'[r] = RunStatus(r)
      /\ UNCHANGED <<at, outcome, result, worker, file, stepRow>>
  BY DEF Finish, TypeOK
<1>2. StepInHand(r)' /\ InOrder(r)' /\ Covered(r)'
  BY <1>1 DEF StepInHand, InOrder, Past, Covered, AtWork, Between
<1>3. Stops(r)' /\ Opened(r)'
  BY <1>1 DEF Stops, Opened, Under
<1>4. Explained(r)'
  <2>1. ASSUME NEW s \in Steps PROVE Past(r, s)
    <3>1. s \in Nat /\ at[r] \in Nat
      BY ExecutionConstants DEF TypeOK, Steps
    <3> QED
      BY <1>1, <3>1 DEF InOrder, Past, Between, Alive
  <2>2. ASSUME NEW s \in Steps, stepRow[r][s] \in Stopping PROVE RunStatus(r) = stepRow[r][s]
    <3>1. at[r] = s + 1 /\ outcome[r][s] = stepRow[r][s]
      BY <2>2 DEF Stops
    <3>2. stepRow[r][s] \in Outcomes(r)
      BY <3>1 DEF Outcomes, Steps
    <3>3. ASSUME NEW t \in Steps, outcome[r][t] \in Stopping PROVE t = s
      <4>1. at[r] = t + 1
        BY <3>3 DEF Stops
      <4> QED
        BY <3>1, <4>1 DEF Steps
    <3>4. \A o \in Outcomes(r) : o \in Stopping => o = stepRow[r][s]
      BY <3>1, <3>3 DEF Outcomes
    <3> QED
      BY <2>2, <3>2, <3>4 DEF RunStatus, Stopping
  <2>3. ASSUME RunStatus(r) \in Stopping PROVE \E s \in Steps : stepRow[r][s] = RunStatus(r)
    <3>1. RunStatus(r) \in Outcomes(r)
      BY <2>3 DEF RunStatus, Stopping
    <3>2. PICK s \in Steps : outcome[r][s] = RunStatus(r)
      BY <3>1 DEF Outcomes
    <3> QED
      BY <2>3, <3>2 DEF Stops
  <2> QED
    BY <1>1, <2>1, <2>2, <2>3 DEF Explained, Past
<1> QED
  BY <1>2, <1>3, <1>4

LEMMA CheckpointKeeps ==
  ASSUME TypeOK, NEW r \in Runs, RunInv(r), Checkpoint(r)
  PROVE  RunInv(r)'
<1> USE DEF RunInv
<1>1. /\ pc[r] = "returned" /\ pc'[r] = "over"
      /\ UNCHANGED <<at, outcome, result, worker, file, runRow, stepRow>>
  BY DEF Checkpoint, TypeOK
<1>2. StepInHand(r)' /\ InOrder(r)' /\ Covered(r)'
  BY <1>1 DEF StepInHand, InOrder, Past, Covered, AtWork, Between
<1>3. Stops(r)' /\ Opened(r)' /\ Explained(r)'
  BY <1>1 DEF Stops, Opened, Explained, Past, Under
<1> QED
  BY <1>2, <1>3

LEMMA MineKeeps ==
  ASSUME TypeOK, NEW r \in Runs, RunInv(r), Mine(r)
  PROVE  RunInv(r)'
BY OpenKeeps, SkipKeeps, RecordRunningKeeps, SpawnKeeps, AwaitKeeps, ConcludeKeeps,
   RecordKeeps, FinishKeeps, CheckpointKeeps
   DEF Mine, Proceed, Interrupt

\* A worker's step: it goes on or ends, and touches no row.
LEMMA WorkKeeps ==
  ASSUME TypeOK, NEW r \in Runs, NEW s \in Steps, Work(r, s), NEW q \in Runs, RunInv(q)
  PROVE  RunInv(q)'
<1> USE DEF RunInv
<1>1. UNCHANGED <<pc, at, outcome, result, runRow, stepRow>>
  BY DEF Work, Act, WorkerExit
<1>2. \A t \in Steps : \/ worker'[q][t] = worker[q][t] /\ file'[q][t] = file[q][t]
                       \/ worker[q][t] \in Alive /\ worker'[q][t] \in {"acted", "exited"}
  <2>1. CASE Act(r, s)
    BY <2>1 DEF Act, TypeOK, Alive
  <2>2. ASSUME NEW leaves \in {"none", "failed"} \cup Answers, WorkerExit(r, s, leaves)
        PROVE  \A t \in Steps : \/ worker'[q][t] = worker[q][t] /\ file'[q][t] = file[q][t]
                                \/ worker[q][t] \in Alive /\ worker'[q][t] = "exited"
    BY <2>2 DEF WorkerExit, TypeOK
  <2> QED
    BY <2>1, <2>2 DEF Work
<1>3. StepInHand(q)' /\ InOrder(q)' /\ Covered(q)'
  BY <1>1, <1>2 DEF StepInHand, InOrder, Past, Covered, Alive, AtWork
<1>4. Stops(q)' /\ Opened(q)' /\ Explained(q)'
  BY <1>1, <1>2 DEF Stops, Opened, Explained, Past, Alive
<1> QED
  BY <1>3, <1>4

LEMMA CrashKeeps ==
  ASSUME TypeOK, Crash, NEW q \in Runs, RunInv(q)
  PROVE  RunInv(q)'
<1> USE DEF RunInv
<1>1. /\ pc'[q] = IF pc[q] \in Under THEN "crashed" ELSE pc[q]
      /\ UNCHANGED <<at, outcome, result, worker, file, runRow, stepRow>>
  BY DEF Crash
<1>2. StepInHand(q)' /\ InOrder(q)' /\ Covered(q)'
  BY <1>1 DEF StepInHand, InOrder, Past, Covered, AtWork, Between, Under
<1>3. Stops(q)' /\ Opened(q)' /\ Explained(q)'
  BY <1>1 DEF Stops, Opened, Explained, Past, Under
<1> QED
  BY <1>2, <1>3

-----------------------------------------------------------------------------
(* What runs leave for one another: rows of successes, and effects.          *)

RunsInv == TypeOK /\ \A q \in Runs : RunInv(q)

\* A step of a run moves no row but that of the step it is at: it is opened, or
\* the result in hand is put in.
LEMMA RowMoves ==
  ASSUME RunsInv, NEW r \in Runs, Mine(r)
  PROVE  \/ UNCHANGED stepRow
         \/ /\ RecordRunning(r) /\ at[r] \in Steps /\ stepRow[r][at[r]] = "none"
            /\ stepRow' = [stepRow EXCEPT ![r][at[r]] = "running"]
         \/ /\ Record(r) /\ at[r] \in Steps /\ stepRow[r][at[r]] = "running"
            /\ stepRow' = [stepRow EXCEPT ![r][at[r]] = result[r]]
<1>1. RunInv(r)
  BY DEF RunsInv
<1>2. CASE RecordRunning(r)
  <2>1. at[r] \in Steps /\ pc[r] = "loop" /\ at[r] \in Nat
    BY <1>2 DEF RecordRunning, Ready, Steps
  <2> QED
    BY <1>1, <1>2, <2>1 DEF RecordRunning, RunInv, InOrder, Past, Between
<1>3. CASE Record(r)
  BY <1>1, <1>3 DEF Record, RunInv, StepInHand, AtWork
<1>4. CASE Refuse(r) \/ Start(r) \/ Block(r) \/ Reuse(r) \/ Finish(r) \/ Checkpoint(r)
  BY <1>4 DEF Refuse, Start, Block, Reuse, Finish, Checkpoint
<1>5. CASE \/ InvalidInput(r) \/ Spawn(r) \/ CancelSpawn(r) \/ Collect(r)
           \/ Timeout(r) \/ Cancel(r) \/ Terminated(r) \/ CancelTerminate(r)
  BY <1>5 DEF InvalidInput, Spawn, CancelSpawn, Collect, Timeout, Cancel, Terminated, CancelTerminate
<1> QED
  BY <1>2, <1>3, <1>4, <1>5 DEF Mine, Proceed, Interrupt

\* A recorded success stays on record.
LEMMA SuccessStays ==
  ASSUME RunsInv, [Next]_vars, NEW q \in Runs, NEW s \in Steps, stepRow[q][s] = "succeeded"
  PROVE  stepRow'[q][s] = "succeeded"
<1>1. ASSUME NEW r \in Runs, Mine(r) PROVE stepRow'[q][s] = "succeeded"
  <2>1. CASE UNCHANGED stepRow
    BY <2>1
  <2>2. ASSUME NEW row, at[r] \in Steps, stepRow[r][at[r]] \in {"none", "running"},
               stepRow' = [stepRow EXCEPT ![r][at[r]] = row]
        PROVE  stepRow'[q][s] = "succeeded"
    BY <2>2 DEF RunsInv, TypeOK
  <2> QED
    BY <1>1, <2>1, <2>2, RowMoves
<1>2. CASE UNCHANGED stepRow
  BY <1>2
<1> QED
  BY <1>1, <1>2 DEF Next, Mine, Work, Act, WorkerExit, Crash, vars

LEMMA OnRecordStays ==
  ASSUME RunsInv, [Next]_vars, NEW s \in Steps, OnRecord(s)
  PROVE  OnRecord(s)'
BY SuccessStays DEF OnRecord

LEMMA EffectsStay == [Next]_vars => effects \subseteq effects'
<1> SUFFICES ASSUME [Next]_vars PROVE effects \subseteq effects'
  OBVIOUS
<1>1. ASSUME NEW r \in Runs, Mine(r) PROVE effects \subseteq effects'
  <2>1. CASE Refuse(r) \/ Start(r) \/ Block(r) \/ Reuse(r) \/ Finish(r) \/ Checkpoint(r)
    BY <2>1 DEF Refuse, Start, Block, Reuse, Finish, Checkpoint
  <2>2. CASE RecordRunning(r) \/ InvalidInput(r) \/ Spawn(r) \/ CancelSpawn(r) \/ Collect(r)
    BY <2>2 DEF RecordRunning, InvalidInput, Spawn, CancelSpawn, Collect
  <2>3. CASE Timeout(r) \/ Cancel(r) \/ Terminated(r) \/ CancelTerminate(r) \/ Record(r)
    BY <2>3 DEF Timeout, Cancel, Terminated, CancelTerminate, Record
  <2> QED
    BY <1>1, <2>1, <2>2, <2>3 DEF Mine, Proceed, Interrupt
<1>2. ASSUME NEW r \in Runs, NEW s \in Steps, Work(r, s) PROVE effects \subseteq effects'
  BY <1>2 DEF Work, Act, WorkerExit
<1> QED
  BY <1>1, <1>2 DEF Next, Mine, Crash, vars

-----------------------------------------------------------------------------
(* A success that a run goes by is on record.                                *)

\* Only Record writes a result.
LEMMA ResultsMove ==
  ASSUME NEW r \in Runs, Mine(r)
  PROVE  UNCHANGED dependsOn /\ (UNCHANGED results \/ Record(r))
<1>1. CASE Refuse(r) \/ Start(r) \/ Block(r) \/ Reuse(r) \/ Finish(r) \/ Checkpoint(r)
  BY <1>1 DEF Refuse, Start, Block, Reuse, Finish, Checkpoint
<1>2. CASE RecordRunning(r) \/ InvalidInput(r) \/ Spawn(r) \/ CancelSpawn(r) \/ Collect(r)
  BY <1>2 DEF RecordRunning, InvalidInput, Spawn, CancelSpawn, Collect
<1>3. CASE Timeout(r) \/ Cancel(r) \/ Terminated(r) \/ CancelTerminate(r) \/ Record(r)
  BY <1>3 DEF Timeout, Cancel, Terminated, CancelTerminate, Record
<1> QED
  BY <1>1, <1>2, <1>3 DEF Mine, Proceed, Interrupt

\* Only Block, Reuse and Record settle the outcome of a step.
LEMMA OutcomeMoves ==
  ASSUME NEW r \in Runs, Mine(r)
  PROVE  UNCHANGED outcome \/ Block(r) \/ Reuse(r) \/ Record(r)
<1>1. CASE Refuse(r) \/ Start(r) \/ Finish(r) \/ Checkpoint(r)
  BY <1>1 DEF Refuse, Start, Finish, Checkpoint
<1>2. CASE RecordRunning(r) \/ InvalidInput(r) \/ Spawn(r) \/ CancelSpawn(r) \/ Collect(r)
  BY <1>2 DEF RecordRunning, InvalidInput, Spawn, CancelSpawn, Collect
<1>3. CASE Timeout(r) \/ Cancel(r) \/ Terminated(r) \/ CancelTerminate(r)
  BY <1>3 DEF Timeout, Cancel, Terminated, CancelTerminate
<1> QED
  BY <1>1, <1>2, <1>3 DEF Mine, Proceed, Interrupt

\* The dependencies of a step are steps.
LEMMA DependenciesAreSteps ==
  ASSUME TypeOK, NEW s \in Steps
  PROVE  dependsOn[s] \subseteq Steps
BY ExecutionConstants DEF TypeOK

LEMMA OnRecordKeeps ==
  ASSUME RunsInv, SuccessOnRecord, NEW r \in Runs, Mine(r)
  PROVE  SuccessOnRecord'
<1> USE DEF RunsInv
<1>0. [Next]_vars
  BY DEF Next, Mine
<1>1. ASSUME Record(r), result[r] = "succeeded", NEW s \in Steps, s = at[r] PROVE OnRecord(s)'
  <2>1. stepRow' = [stepRow EXCEPT ![r][s] = result[r]]
    BY <1>1 DEF Record
  <2>2. stepRow'[r][s] = "succeeded"
    BY <1>1, <2>1 DEF TypeOK
  <2> QED
    BY <2>1, <2>2 DEF OnRecord
<1>2. ASSUME NEW s \in Steps, results'[s] = "succeeded" PROVE OnRecord(s)'
  <2>1. CASE results[s] = "succeeded"
    BY <1>0, <2>1, OnRecordStays DEF SuccessOnRecord
  <2>2. CASE results[s] # "succeeded"
    <3>1. Record(r) /\ results' = [results EXCEPT ![at[r]] = result[r]]
      BY <1>2, <2>2, ResultsMove DEF Record
    <3>2. s = at[r] /\ result[r] = "succeeded"
      BY <1>2, <2>2, <3>1 DEF TypeOK
    <3> QED
      BY <1>1, <3>1, <3>2
  <2> QED
    BY <2>1, <2>2
<1>3. ASSUME NEW q \in Runs, NEW s \in Steps, outcome'[q][s] = "succeeded" PROVE OnRecord(s)'
  <2>1. CASE outcome[q][s] = "succeeded"
    BY <1>0, <2>1, OnRecordStays DEF SuccessOnRecord
  <2>2. CASE outcome[q][s] # "succeeded"
    <3>1. q = r
      BY <1>3, <2>2, OthersStay DEF SameRun
    <3>2. PICK status \in {"blocked", "succeeded", result[r]} :
            /\ Advance(r, status)
            /\ status = "blocked" \/ (status = "succeeded" /\ Reuse(r)) \/ (status = result[r] /\ Record(r))
      BY <1>3, <2>2, OutcomeMoves DEF Block, Reuse, Record
    <3>3. s = at[r] /\ status = "succeeded"
      BY <1>3, <2>2, <3>1, <3>2 DEF Advance, TypeOK
    <3>4. CASE Reuse(r)
      <4>1. OnRecord(s)
        BY <3>3, <3>4 DEF Reuse, Reusable, SuccessOnRecord
      <4> QED
        BY <1>0, <4>1, OnRecordStays
    <3> QED
      BY <1>1, <3>2, <3>3, <3>4
  <2> QED
    BY <2>1, <2>2
<1>4. ASSUME NEW q \in Runs, NEW s \in Steps, stepRow'[q][s] # "none",
             NEW d \in dependsOn[s]
      PROVE  OnRecord(d)'
  <2>1. d \in Steps
    BY DependenciesAreSteps
  <2>2. OnRecord(d)
    <3>1. CASE stepRow[q][s] # "none"
      BY <3>1 DEF SuccessOnRecord
    <3>2. CASE stepRow[q][s] = "none"
      <4>1. q = r
        BY <1>4, <3>2, OthersStay DEF SameRun
      <4>2. stepRow'[r][s] # stepRow[r][s] /\ stepRow[r][s] = "none"
        BY <1>4, <3>2, <4>1
      <4>3. CASE UNCHANGED stepRow
        BY <4>2, <4>3
      <4>4. ASSUME NEW row, at[r] \in Steps, stepRow' = [stepRow EXCEPT ![r][at[r]] = row]
            PROVE  s = at[r]
        BY <4>2, <4>4 DEF TypeOK
      <4>5. s = at[r] /\ RecordRunning(r)
        BY <4>2, <4>3, <4>4, RowMoves
      <4>6. outcome[r][d] = "succeeded"
        BY <1>4, <4>5 DEF RecordRunning, DependenciesMet
      <4> QED
        BY <2>1, <4>6 DEF SuccessOnRecord
    <3> QED
      BY <3>1, <3>2
  <2> QED
    BY <1>0, <2>1, <2>2, OnRecordStays
<1> QED
  BY <1>2, <1>3, <1>4, ResultsMove DEF SuccessOnRecord

-----------------------------------------------------------------------------
(* A success has had its effect.                                             *)

\* A result file is written by the worker alone, and none of the coordinator's
\* steps makes a worker act.
LEMMA FilesStay ==
  ASSUME TypeOK, NEW r \in Runs, Mine(r), pc[r] \in AtWork => at[r] \in Steps
  PROVE  /\ UNCHANGED file
         /\ \A q \in Runs, s \in Steps : worker'[q][s] = "acted" => worker[q][s] = "acted"
<1>1. CASE Refuse(r) \/ Start(r) \/ Block(r) \/ Reuse(r) \/ Finish(r) \/ Checkpoint(r)
  BY <1>1 DEF Refuse, Start, Block, Reuse, Finish, Checkpoint
<1>2. CASE RecordRunning(r) \/ InvalidInput(r) \/ Collect(r)
  BY <1>2 DEF RecordRunning, InvalidInput, Collect
<1>3. CASE Timeout(r) \/ Cancel(r) \/ CancelTerminate(r) \/ Record(r)
  BY <1>3 DEF Timeout, Cancel, CancelTerminate, Record
<1>4. CASE Spawn(r) \/ CancelSpawn(r) \/ Terminated(r)
  <2>1. at[r] \in Steps /\ UNCHANGED file
    BY <1>4 DEF Spawn, CancelSpawn, Terminated, AtWork
  <2>2. PICK w : /\ worker' = worker \/ worker' = [worker EXCEPT ![r][at[r]] = w]
                 /\ w = "acted" => w = worker[r][at[r]]
    BY <1>4 DEF Spawn, CancelSpawn, Terminated, Alive
  <2>3. CASE worker' = [worker EXCEPT ![r][at[r]] = w]
    BY <2>1, <2>2, <2>3 DEF TypeOK
  <2> QED
    BY <2>1, <2>2, <2>3
<1> QED
  BY <1>1, <1>2, <1>3, <1>4 DEF Mine, Proceed, Interrupt

\* What becomes the result in hand, and where it came from.
LEMMA ResultInHand ==
  ASSUME RunsInv, NEW r \in Runs, Mine(r), pc'[r] = "collected", result'[r] = "succeeded"
  PROVE  at[r] \in Steps /\ UNCHANGED at /\ file[r][at[r]] = "succeeded"
<1> USE DEF RunsInv
<1>1. CASE \/ Refuse(r) \/ Start(r) \/ RecordRunning(r) \/ Spawn(r) \/ CancelSpawn(r)
           \/ Timeout(r) \/ CancelTerminate(r) \/ Record(r) \/ Finish(r) \/ Checkpoint(r)
  BY <1>1 DEF Refuse, Start, RecordRunning, Spawn, CancelSpawn, Timeout, CancelTerminate,
              Record, Finish, Checkpoint, TypeOK
<1>2. CASE Block(r) \/ Reuse(r)
  BY <1>2 DEF Block, Reuse, Ready
<1>3. CASE InvalidInput(r) \/ Cancel(r) \/ Terminated(r)
  BY <1>3 DEF InvalidInput, Cancel, Terminated, Conclude, TypeOK
<1>4. CASE Collect(r)
  <2>1. at[r] \in Steps /\ UNCHANGED at
    BY <1>4 DEF Collect, RunInv, StepInHand, AtWork
  <2>2. PICK status \in Collected(at[r], file[r][at[r]]) : Conclude(r, status)
    BY <1>4 DEF Collect
  <2>3. status = "succeeded" /\ file[r][at[r]] \in {"none"} \cup StepStatus
    BY <2>1, <2>2 DEF Conclude, TypeOK
  <2> QED
    BY <2>1, <2>2, <2>3 DEF Collected
<1> QED
  BY <1>1, <1>2, <1>3, <1>4 DEF Mine, Proceed, Interrupt

LEMMA MineActed ==
  ASSUME RunsInv, SuccessActed, NEW r \in Runs, Mine(r)
  PROVE  SuccessActed'
<1> USE DEF RunsInv
<1>1. effects \subseteq effects'
  BY EffectsStay DEF Next, Mine
<1>2. pc[r] \in AtWork => at[r] \in Steps
  BY DEF RunInv, StepInHand
<1> SUFFICES ASSUME NEW q \in Runs, NEW s \in Steps
             PROVE  /\ worker'[q][s] = "acted" => s \in effects'
                    /\ file'[q][s] = "succeeded" => s \in effects'
                    /\ stepRow'[q][s] = "succeeded" => s \in effects'
                    /\ pc'[q] = "collected" /\ result'[q] = "succeeded" /\ at'[q] = s => s \in effects'
  BY DEF SuccessActed
<1>3. worker'[q][s] = "acted" \/ file'[q][s] = "succeeded" => s \in effects'
  BY <1>1, <1>2, FilesStay DEF SuccessActed
<1>4. ASSUME stepRow'[q][s] = "succeeded" PROVE s \in effects'
  <2>1. CASE stepRow[q][s] = "succeeded"
    BY <1>1, <2>1 DEF SuccessActed
  <2>2. CASE stepRow[q][s] # "succeeded"
    <3>1. q = r
      BY <1>4, <2>2, OthersStay DEF SameRun
    <3>a. stepRow \in [Runs -> [Steps -> {"none"} \cup StepStatus]]
      BY DEF TypeOK
    <3>2. Record(r) /\ s = at[r] /\ result[r] = "succeeded"
      BY <1>4, <2>2, <3>1, <3>a, RowMoves
    <3>3. pc[r] = "collected" /\ at[r] \in Steps /\ effects' = effects
      BY <1>1, <3>2 DEF Record, RunInv, StepInHand, AtWork
    <3> QED
      BY <3>2, <3>3 DEF SuccessActed
  <2> QED
    BY <2>1, <2>2
<1>5. ASSUME pc'[q] = "collected", result'[q] = "succeeded", at'[q] = s PROVE s \in effects'
  <2>1. CASE q = r
    <3>1. file[r][s] = "succeeded"
      BY <1>5, <2>1, ResultInHand
    <3> QED
      BY <1>1, <3>1 DEF SuccessActed
  <2>2. CASE q # r
    BY <1>1, <1>5, <2>2, OthersStay DEF SameRun, SuccessActed
  <2> QED
    BY <2>1, <2>2
<1> QED
  BY <1>3, <1>4, <1>5

LEMMA WorkActed ==
  ASSUME TypeOK, SuccessActed, NEW r \in Runs, NEW s \in Steps, Work(r, s)
  PROVE  SuccessActed'
<1>1. UNCHANGED <<pc, at, result, stepRow>>
  BY DEF Work, Act, WorkerExit
<1>2. CASE Act(r, s)
  <2>1. /\ worker' = [worker EXCEPT ![r][s] = "acted"] /\ effects' = effects \cup {s}
        /\ UNCHANGED file
    BY <1>2 DEF Act
  <2>2. \A q \in Runs, t \in Steps : worker'[q][t] = "acted" => worker[q][t] = "acted" \/ t = s
    BY <2>1 DEF TypeOK
  <2> QED
    BY <1>1, <2>1, <2>2 DEF SuccessActed
<1>3. ASSUME NEW leaves \in {"none", "failed"} \cup Answers, WorkerExit(r, s, leaves)
      PROVE  SuccessActed'
  <2>1. /\ worker' = [worker EXCEPT ![r][s] = "exited"] /\ file' = [file EXCEPT ![r][s] = leaves]
        /\ UNCHANGED effects
        /\ leaves = "succeeded" => worker[r][s] = "acted"
    BY <1>3 DEF WorkerExit
  <2>2. \A q \in Runs, t \in Steps :
          /\ worker'[q][t] = "acted" => worker[q][t] = "acted"
          /\ file'[q][t] = "succeeded" => file[q][t] = "succeeded" \/ (t = s /\ worker[r][s] = "acted")
    BY <2>1 DEF TypeOK
  <2> QED
    BY <1>1, <2>1, <2>2 DEF SuccessActed
<1> QED
  BY <1>2, <1>3 DEF Work

-----------------------------------------------------------------------------
(* A run that says succeeded has done everything.                            *)

\* Nothing but its end makes the run row say succeeded.
LEMMA RunRowMoves ==
  ASSUME TypeOK, NEW r \in Runs, Mine(r), runRow'[r] = "succeeded"
  PROVE  runRow[r] = "succeeded" \/ (Finish(r) /\ RunStatus(r) = "succeeded")
<1>1. CASE Refuse(r) \/ Block(r) \/ Reuse(r) \/ Checkpoint(r) \/ Record(r)
  BY <1>1 DEF Refuse, Block, Reuse, Checkpoint, Record
<1>2. CASE RecordRunning(r) \/ InvalidInput(r) \/ Spawn(r) \/ CancelSpawn(r) \/ Collect(r)
  BY <1>2 DEF RecordRunning, InvalidInput, Spawn, CancelSpawn, Collect
<1>3. CASE Timeout(r) \/ Cancel(r) \/ Terminated(r) \/ CancelTerminate(r)
  BY <1>3 DEF Timeout, Cancel, Terminated, CancelTerminate
<1>4. CASE Start(r) \/ Finish(r)
  BY <1>4 DEF Start, Finish, TypeOK
<1> QED
  BY <1>1, <1>2, <1>3, <1>4 DEF Mine, Proceed, Interrupt

LEMMA CompleteKeeps ==
  ASSUME RunsInv, SuccessOnRecord, SuccessActed, SucceededIsComplete, NEW r \in Runs, Mine(r)
  PROVE  SucceededIsComplete'
<1> USE DEF RunsInv
<1>0. [Next]_vars /\ effects \subseteq effects'
  BY EffectsStay DEF Next, Mine
<1> SUFFICES ASSUME NEW q \in Runs, runRow'[q] = "succeeded", NEW s \in Steps
             PROVE  s \in effects' /\ OnRecord(s)'
  BY DEF SucceededIsComplete, OnRecord
<1>1. s \in effects /\ OnRecord(s)
  <2>1. CASE runRow[q] = "succeeded"
    BY <2>1 DEF SucceededIsComplete, OnRecord
  <2>2. CASE runRow[q] # "succeeded"
    <3>1. q = r
      BY <2>2, OthersStay DEF SameRun
    <3>2. Finish(r) /\ RunStatus(r) = "succeeded"
      BY <2>2, <3>1, RunRowMoves
    <3>3. \A t \in Steps : t < at[r] => outcome[r][t] = "succeeded"
      BY <3>2 DEF RunStatus, Outcomes
    <3>4. pc[r] # "finish"
      BY <3>3 DEF RunInv, Opened, Stopping
    <3>5. at[r] = N + 1 /\ s < at[r]
      BY <3>2, <3>4, ExecutionConstants DEF Finish, Steps
    <3>6. OnRecord(s)
      BY <3>3, <3>5 DEF SuccessOnRecord
    <3> QED
      BY <3>6 DEF OnRecord, SuccessActed
  <2> QED
    BY <2>1, <2>2
<1> QED
  BY <1>0, <1>1, OnRecordStays

-----------------------------------------------------------------------------
(* The invariant.                                                            *)

LEMMA InitIInv == Init => IInv
<1> SUFFICES ASSUME Init PROVE IInv
  OBVIOUS
<1>1. TypeOK
  BY InitType
<1>2. ASSUME NEW r \in Runs PROVE RunInv(r)
  <2> USE DEF Init
  <2>1. StepInHand(r) /\ InOrder(r) /\ Covered(r)
    BY DEF StepInHand, InOrder, Past, Covered, AtWork, Alive, Steps
  <2>2. Stops(r) /\ Opened(r) /\ Explained(r)
    BY DEF Stops, Opened, Explained, Past, Stopping, Under, Settled
  <2> QED
    BY <2>1, <2>2 DEF RunInv
<1>3. SuccessOnRecord /\ SuccessActed /\ SucceededIsComplete
  BY DEF Init, SuccessOnRecord, SuccessActed, SucceededIsComplete
<1> QED
  BY <1>1, <1>2, <1>3 DEF IInv

LEMMA NextIInv == IInv /\ [Next]_vars => IInv'
<1> SUFFICES ASSUME IInv, [Next]_vars PROVE IInv'
  OBVIOUS
<1> USE DEF IInv
<1>0. RunsInv
  BY DEF RunsInv
<1>1. ASSUME NEW r \in Runs, Mine(r) PROVE IInv'
  <2>1. TypeOK'
    BY <1>1, MineType DEF RunInv, StepInHand
  <2>2. ASSUME NEW q \in Runs PROVE RunInv(q)'
    BY <1>1, MineKeeps, OthersStay, SameRunKeeps
  <2> QED
    BY <1>0, <1>1, <2>1, <2>2, OnRecordKeeps, MineActed, CompleteKeeps
<1>2. ASSUME NEW r \in Runs, NEW s \in Steps, Work(r, s) PROVE IInv'
  <2>1. effects \subseteq effects' /\ UNCHANGED <<outcome, runRow, stepRow, results, dependsOn>>
    BY <1>2 DEF Work, Act, WorkerExit
  <2>2. SuccessOnRecord' /\ SucceededIsComplete'
    BY <2>1 DEF SuccessOnRecord, SucceededIsComplete, OnRecord
  <2> QED
    BY <1>2, <2>2, WorkType, WorkKeeps, WorkActed
<1>3. CASE Crash
  <2>1. /\ UNCHANGED <<at, outcome, result, worker, file, effects, runRow, stepRow, results, dependsOn>>
        /\ \A q \in Runs : pc'[q] = "collected" => pc[q] = "collected"
    BY <1>3 DEF Crash
  <2>2. SuccessOnRecord' /\ SuccessActed' /\ SucceededIsComplete'
    BY <2>1 DEF SuccessOnRecord, SuccessActed, SucceededIsComplete, OnRecord
  <2> QED
    BY <1>3, <2>2, RestType, CrashKeeps
<1>4. CASE UNCHANGED vars
  <2>1. TypeOK'
    BY <1>4, RestType
  <2>2. ASSUME NEW q \in Runs PROVE RunInv(q)'
    BY <1>4, SameRunKeeps DEF SameRun, vars
  <2>3. SuccessOnRecord' /\ SuccessActed' /\ SucceededIsComplete'
    BY <1>4 DEF SuccessOnRecord, SuccessActed, SucceededIsComplete, OnRecord, vars
  <2> QED
    BY <2>1, <2>2, <2>3
<1> QED
  BY <1>1, <1>2, <1>3, <1>4 DEF Next, Mine

LEMMA Invariant == Spec => []IInv
  BY InitIInv, NextIInv, PTL DEF Spec

-----------------------------------------------------------------------------
\* Every variable keeps its type: no run goes past the end of its plan.
THEOREM TypeCorrect == Spec => []TypeOK
<1>1. IInv => TypeOK
  BY DEF IInv
<1> QED
  BY <1>1, Invariant, PTL

\* Wherever a run is cut short, a process that may be alive has a RUNNING row.
THEOREM RowsCoverWorkers == Spec => []RowCoversWorker
<1>1. IInv => RowCoversWorker
  BY DEF IInv, RunInv, Covered, RowCoversWorker
<1> QED
  BY <1>1, Invariant, PTL

\* However many runs there are and however they overlap, a step starts only when
\* a success of everything it depends on has been recorded.
THEOREM StepsStartOnSuccess == Spec => []StartsOnRecordedSuccess
<1>1. IInv => StartsOnRecordedSuccess
  BY DEF IInv, SuccessOnRecord, OnRecord, StartsOnRecordedSuccess
<1> QED
  BY <1>1, Invariant, PTL

\* The row a finished run leaves is the one its steps justify.
THEOREM RunRowsAreExplained == Spec => []RunRowExplained
<1>1. IInv => RunRowExplained
  <2> SUFFICES ASSUME IInv, NEW r \in Runs
               PROVE  /\ \A s \in Steps : stepRow[r][s] \in Stopping =>
                           /\ runRow[r] \in {"running", stepRow[r][s]}
                           /\ \A t \in Steps : t > s => worker[r][t] = "none" /\ stepRow[r][t] = "none"
                      /\ runRow[r] \in Settled => \A s \in Steps : Past(r, s)
                      /\ runRow[r] \in Stopping => \E s \in Steps : stepRow[r][s] = runRow[r]
    BY DEF RunRowExplained, Stopping, IInv, Past
  <2> QED
    BY DEF IInv, RunInv, Stops, Explained, Past
<1> QED
  BY <1>1, Invariant, PTL

-----------------------------------------------------------------------------
(* Every step is one the promise allows, however runs overlap.               *)

\* A run that has been started has its row; before that there is nothing of it.
Begun(r) ==
  IF pc[r] \in {"unborn", "refused"} THEN at[r] = 1 /\ runRow[r] = "none"
  ELSE runRow[r] # "none"

\* The run row is written twice, when the run is opened and when it is closed.
LEMMA RunRowWrites ==
  ASSUME TypeOK, NEW r \in Runs, Mine(r)
  PROVE  \/ Start(r) \/ Finish(r)
         \/ UNCHANGED runRow /\ pc[r] = "unborn" /\ pc'[r] = "refused" /\ UNCHANGED at
         \/ UNCHANGED runRow /\ {pc[r], pc'[r]} \cap {"unborn", "refused"} = {}
<1> USE DEF TypeOK
<1>1. CASE Refuse(r)
  BY <1>1 DEF Refuse
<1>2. CASE Block(r) \/ Reuse(r) \/ RecordRunning(r)
  BY <1>2 DEF Block, Reuse, RecordRunning, Ready
<1>3. CASE InvalidInput(r) \/ Spawn(r) \/ CancelSpawn(r) \/ Collect(r)
  BY <1>3 DEF InvalidInput, Spawn, CancelSpawn, Collect, Conclude
<1>4. CASE Timeout(r) \/ Cancel(r) \/ Terminated(r) \/ CancelTerminate(r)
  BY <1>4 DEF Timeout, Cancel, Terminated, CancelTerminate, Conclude
<1>5. CASE Record(r) \/ Checkpoint(r)
  BY <1>5 DEF Record, Checkpoint
<1> QED
  BY <1>1, <1>2, <1>3, <1>4, <1>5 DEF Mine, Proceed, Interrupt

LEMMA BegunInit == Init => \A q \in Runs : Begun(q)
  BY DEF Init, Begun

LEMMA BegunNext ==
  ASSUME RunsInv, [Next]_vars, NEW q \in Runs, Begun(q)
  PROVE  Begun(q)'
<1> USE DEF RunsInv, Begun
<1>1. ASSUME NEW r \in Runs, Mine(r) PROVE Begun(q)'
  <2>1. CASE q # r
    BY <1>1, <2>1, OthersStay DEF SameRun
  <2>2. CASE q = r /\ Start(r)
    BY <2>2 DEF Start, TypeOK
  <2>3. CASE q = r /\ Finish(r)
    <3>1. pc'[r] = "returned" /\ runRow'[r] = RunStatus(r)
      BY <2>3 DEF Finish, TypeOK
    <3> QED
      BY <2>3, <3>1 DEF RunStatus
  <2>4. CASE q = r /\ ~Start(r) /\ ~Finish(r)
    BY <1>1, <2>4, RunRowWrites
  <2> QED
    BY <2>1, <2>2, <2>3, <2>4
<1>2. ASSUME NEW r \in Runs, NEW s \in Steps, Work(r, s) PROVE Begun(q)'
  BY <1>2 DEF Work, Act, WorkerExit
<1>3. CASE Crash \/ UNCHANGED vars
  BY <1>3 DEF Crash, vars, Under
<1> QED
  BY <1>1, <1>2, <1>3 DEF Next, Mine

\* A step that has a row is in turn: its run has been opened, and a success of each
\* step it depends on is on record.
LEMMA RowsAreInTurn ==
  ASSUME IInv, \A q \in Runs : Begun(q), NEW r \in Runs, NEW s \in Steps, stepRow[r][s] # "none"
  PROVE  Promise!InTurn(s)
<1> USE DEF IInv
<1>1. runRow[r] # "none"
  <2>1. CASE pc[r] \in {"unborn", "refused"}
    <3>1. at[r] = 1 /\ (s > 1 \/ s = 1)
      BY <2>1 DEF Begun, Steps
    <3> QED
      BY <2>1, <3>1 DEF RunInv, InOrder, Past, Between
  <2> QED
    BY <2>1 DEF Begun
<1>2. dependsOn[s] \subseteq {t \in Steps : OnRecord(t)}
  BY DependenciesAreSteps DEF SuccessOnRecord
<1> QED
  BY <1>1, <1>2 DEF Promise!InTurn, OnRecord

\* Which steps have a success on record.
Recorded == {s \in Steps : \E q \in Runs : stepRow[q][s] = "succeeded"}

\* Only Record adds to them, the step it is at and no other.
LEMMA RecordedMoves ==
  ASSUME RunsInv, NEW r \in Runs, Mine(r)
  PROVE  \/ UNCHANGED Recorded
         \/ /\ Record(r) /\ at[r] \in Steps /\ stepRow[r][at[r]] = "running"
            /\ result[r] = "succeeded" /\ Recorded' = Recorded \cup {at[r]}
<1> USE DEF RunsInv
<1>1. CASE UNCHANGED stepRow
  BY <1>1 DEF Recorded
<1>2. ASSUME NEW row, NEW k \in Steps, stepRow[r][k] \in {"none", "running"},
             stepRow' = [stepRow EXCEPT ![r][k] = row]
      PROVE  Recorded' = IF row = "succeeded" THEN Recorded \cup {k} ELSE Recorded
  <2>1. \A q \in Runs, s \in Steps :
          stepRow'[q][s] = IF q = r /\ s = k THEN row ELSE stepRow[q][s]
    BY <1>2 DEF TypeOK
  <2>2. CASE row = "succeeded"
    BY <2>1, <2>2 DEF Recorded
  <2>3. CASE row # "succeeded"
    BY <1>2, <2>1, <2>3 DEF Recorded
  <2> QED
    BY <2>2, <2>3
<1>3. CASE at[r] \in Steps /\ RecordRunning(r)
  <2>1. CASE stepRow[r][at[r]] = "none" /\ stepRow' = [stepRow EXCEPT ![r][at[r]] = "running"]
    BY <1>2, <1>3, <2>1
  <2> QED
    BY <1>1, <1>3, <2>1, RowMoves DEF RecordRunning, Record, Ready
<1>4. CASE at[r] \in Steps /\ Record(r)
  <2>1. CASE stepRow[r][at[r]] = "running" /\ stepRow' = [stepRow EXCEPT ![r][at[r]] = result[r]]
    BY <1>2, <1>4, <2>1
  <2> QED
    BY <1>1, <1>4, <2>1, RowMoves DEF RecordRunning, Record, Ready
<1> QED
  BY <1>1, <1>3, <1>4, RowMoves

\* Only a step cancelled while it is spawned acts in the coordinator's own step.
LEMMA EffectsMove ==
  ASSUME RunsInv, NEW r \in Runs, Mine(r)
  PROVE  \/ UNCHANGED effects
         \/ /\ CancelSpawn(r) /\ at[r] \in Steps /\ stepRow[r][at[r]] = "running"
            /\ effects' = effects \cup {at[r]}
<1>1. CASE Refuse(r) \/ Start(r) \/ Block(r) \/ Reuse(r) \/ Finish(r) \/ Checkpoint(r)
  BY <1>1 DEF Refuse, Start, Block, Reuse, Finish, Checkpoint
<1>2. CASE RecordRunning(r) \/ InvalidInput(r) \/ Spawn(r) \/ Collect(r) \/ Record(r)
  BY <1>2 DEF RecordRunning, InvalidInput, Spawn, Collect, Record
<1>3. CASE Timeout(r) \/ Cancel(r) \/ Terminated(r) \/ CancelTerminate(r)
  BY <1>3 DEF Timeout, Cancel, Terminated, CancelTerminate
<1>4. CASE CancelSpawn(r)
  <2>1. at[r] \in Steps /\ stepRow[r][at[r]] = "running"
    BY <1>4 DEF CancelSpawn, RunsInv, RunInv, StepInHand, AtWork
  <2>2. UNCHANGED effects \/ effects' = effects \cup {at[r]}
    BY <1>4 DEF CancelSpawn
  <2> QED
    BY <1>4, <2>1, <2>2
<1> QED
  BY <1>1, <1>2, <1>3, <1>4 DEF Mine, Proceed, Interrupt

LEMMA PromiseInit == Init => Promise!Init
<1> SUFFICES ASSUME Init PROVE Promise!Init
  OBVIOUS
<1>1. {s \in Steps : \E q \in Runs : stepRow[q][s] = "succeeded"} = {}
  BY DEF Init
<1> QED
  BY <1>1 DEF Init, Promise!Init

LEMMA MinePromised ==
  ASSUME IInv, IInv', \A q \in Runs : Begun(q), NEW r \in Runs, Mine(r)
  PROVE  Promise!Next \/ UNCHANGED <<dependsOn, runRow, effects, Recorded>>
<1> USE DEF IInv
<1>0. RunsInv /\ UNCHANGED dependsOn
  BY ResultsMove DEF RunsInv
<1>1. CASE Start(r)
  <2>1. runRow[r] = "none"
    BY <1>1 DEF Start, Begun
  <2>2. UNCHANGED <<dependsOn, effects, stepRow>> /\ runRow' = [runRow EXCEPT ![r] = "running"]
    BY <1>1 DEF Start
  <2>3. Promise!Open(r)
    BY <2>1, <2>2 DEF Promise!Open
  <2> QED
    BY <2>3 DEF Promise!Next
<1>2. CASE Finish(r)
  <2>1. UNCHANGED <<dependsOn, effects, stepRow>> /\ runRow' = [runRow EXCEPT ![r] = RunStatus(r)]
    BY <1>2 DEF Finish
  <2>2. runRow[r] = "running"
    BY <1>2 DEF Finish, RunInv, Opened, Under
  <2>3. ASSUME RunStatus(r) = "succeeded"
        PROVE  {s \in Steps : \E q \in Runs : stepRow[q][s] = "succeeded"} = Steps
    <3>1. runRow'[r] = "succeeded"
      BY <2>1, <2>3 DEF TypeOK
    <3> QED
      BY <2>1, <3>1 DEF SucceededIsComplete
  <2>4. RunStatus(r) \in Promise!Ends
    BY DEF RunStatus, Promise!Ends
  <2>5. Promise!Close(r)
    BY <2>1, <2>2, <2>3, <2>4 DEF Promise!Close
  <2> QED
    BY <2>5 DEF Promise!Next
<1>3. ASSUME NEW s \in Steps, s = at[r], Record(r), stepRow[r][s] = "running",
             result[r] = "succeeded", Recorded' = Recorded \cup {s}
      PROVE  Promise!Next
  <2>1. Promise!InTurn(s)
    BY <1>3, RowsAreInTurn
  <2>2. s \in effects
    BY <1>3 DEF Record, SuccessActed
  <2>3. UNCHANGED <<dependsOn, effects, runRow>>
    BY <1>3 DEF Record
  <2>4. Promise!Claim(s)
    BY <1>3, <2>1, <2>2, <2>3 DEF Promise!Claim, Recorded
  <2> QED
    BY <2>4 DEF Promise!Next
<1>4. ASSUME NEW s \in Steps, s = at[r], CancelSpawn(r), stepRow[r][s] = "running",
             effects' = effects \cup {s}
      PROVE  Promise!Next
  <2>1. Promise!InTurn(s)
    BY <1>4, RowsAreInTurn
  <2>2. UNCHANGED <<dependsOn, stepRow, runRow>>
    BY <1>4 DEF CancelSpawn
  <2>3. Promise!Act(s)
    BY <1>4, <2>1, <2>2 DEF Promise!Act
  <2> QED
    BY <2>3 DEF Promise!Next
<1>5. CASE UNCHANGED <<runRow, effects, Recorded>>
  BY <1>0, <1>5
<1> QED
  <2>1. UNCHANGED Recorded \/ Promise!Next
    BY <1>0, <1>3, RecordedMoves
  <2>2. UNCHANGED effects \/ Promise!Next
    BY <1>0, <1>4, EffectsMove
  <2>3. UNCHANGED runRow \/ Promise!Next
    BY <1>0, <1>1, <1>2, RunRowWrites DEF RunsInv
  <2> QED
    BY <1>5, <2>1, <2>2, <2>3

LEMMA WorkPromised ==
  ASSUME IInv, \A q \in Runs : Begun(q), NEW r \in Runs, NEW s \in Steps, Work(r, s)
  PROVE  Promise!Next \/ UNCHANGED <<dependsOn, runRow, effects, Recorded>>
<1>1. CASE Act(r, s)
  <2>1. Promise!InTurn(s)
    BY <1>1, RowsAreInTurn DEF Act, IInv, RunInv, Covered
  <2>2. UNCHANGED <<dependsOn, stepRow, runRow>> /\ effects' = effects \cup {s}
    BY <1>1 DEF Act
  <2>3. Promise!Act(s)
    BY <2>1, <2>2 DEF Promise!Act
  <2> QED
    BY <2>3 DEF Promise!Next
<1>2. ASSUME NEW leaves \in {"none", "failed"} \cup Answers, WorkerExit(r, s, leaves)
      PROVE  UNCHANGED <<dependsOn, runRow, effects, Recorded>>
  BY <1>2 DEF WorkerExit, Recorded
<1> QED
  BY <1>1, <1>2 DEF Work

LEMMA NextPromised ==
  IInv /\ IInv' /\ (\A q \in Runs : Begun(q)) /\ [Next]_vars =>
    [Promise!Next]_<<dependsOn, runRow, effects,
                     {s \in Steps : \E r \in Runs : stepRow[r][s] = "succeeded"}>>
<1> SUFFICES ASSUME IInv, IInv', \A q \in Runs : Begun(q), [Next]_vars
             PROVE  Promise!Next \/ UNCHANGED <<dependsOn, runRow, effects, Recorded>>
  BY DEF Recorded
<1>1. CASE Crash \/ UNCHANGED vars
  BY <1>1 DEF Crash, vars, Recorded
<1> QED
  BY <1>1, MinePromised, WorkPromised DEF Next, Mine

\* What is executed keeps the promise, for any plan and however runs overlap, are
\* cancelled or crash: operators act in the plan's order and in runs on record, a
\* success is recorded of what has acted, and a run row is closed once, and truly.
THEOREM PromiseIsKept == Spec => KeepsPromise
<1>1. IInv /\ [Next]_vars /\ (\A q \in Runs : Begun(q)) => (\A q \in Runs : Begun(q))'
  BY BegunNext DEF IInv, RunsInv
<1>2. Spec => [](\A q \in Runs : Begun(q))
  BY <1>1, BegunInit, Invariant, PTL DEF Spec
<1> QED
  BY <1>2, PromiseInit, NextPromised, Invariant, PTL DEF Spec, KeepsPromise, Promise!Spec

-----------------------------------------------------------------------------
(* Runs that follow one another.                                             *)

\* A step in hand was picked up now, with no success on record, or was in hand before.
LEMMA InHandMoves ==
  ASSUME RunsInv, NEW r \in Runs, Mine(r)
  PROVE  /\ pc'[r] \in Under => pc[r] \in Under \/ Start(r)
         /\ pc'[r] \in AtWork =>
              /\ UNCHANGED <<at, results>>
              /\ pc[r] \in AtWork \/ ~Reusable(at[r])
<1> USE DEF RunsInv
<1>1. CASE Refuse(r) \/ Start(r) \/ Finish(r) \/ Checkpoint(r)
  BY <1>1 DEF Refuse, Start, Finish, Checkpoint, AtWork, Under, TypeOK
<1>2. CASE Block(r) \/ Reuse(r)
  BY <1>2 DEF Block, Reuse, Ready, AtWork, Under
<1>3. CASE RecordRunning(r)
  BY <1>3 DEF RecordRunning, Ready, Under
<1>4. CASE InvalidInput(r) \/ Spawn(r) \/ CancelSpawn(r) \/ Collect(r)
  BY <1>4 DEF InvalidInput, Spawn, CancelSpawn, Collect, AtWork, Under
<1>5. CASE Timeout(r) \/ Cancel(r) \/ Terminated(r) \/ CancelTerminate(r)
  BY <1>5 DEF Timeout, Cancel, Terminated, CancelTerminate, AtWork, Under
<1>6. CASE Record(r)
  BY <1>6 DEF Record, AtWork, Under, TypeOK
<1> QED
  BY <1>1, <1>2, <1>3, <1>4, <1>5, <1>6 DEF Mine, Proceed, Interrupt

LEMMA KeepKeeps ==
  ASSUME ~Overlapping, RunsInv, KeepInv, [Next]_vars
  PROVE  KeepInv'
<1> USE DEF KeepInv
<1>1. ASSUME NEW r \in Runs, Mine(r) PROVE KeepInv'
  <2>1. \A q \in Runs : q # r => SameRun(q)
    BY <1>1, OthersStay DEF RunsInv
  <2>2. OneAtATime'
    <3>1. Start(r) => \A q \in Runs : pc[q] \notin Under
      BY DEF Start
    <3> QED
      BY <1>1, <2>1, <3>1, InHandMoves DEF OneAtATime, SameRun
  <2>3. NotDoneYet'
    <3> SUFFICES ASSUME NEW q \in Runs, pc'[q] \in AtWork, at'[q] \in Idempotent
                 PROVE  results'[at'[q]] # "succeeded"
      BY DEF NotDoneYet
    <3>1. CASE q = r
      BY <1>1, <3>1, InHandMoves DEF NotDoneYet, Reusable
    <3>2. CASE q # r
      <4>1. pc[q] \in AtWork /\ at'[q] = at[q]
        BY <2>1, <3>2 DEF SameRun
      <4>2. pc[r] \notin Under
        BY <3>2, <4>1 DEF OneAtATime, AtWork, Under
      <4>3. UNCHANGED results
        BY <1>1, <4>2, ResultsMove DEF Record, Under
      <4> QED
        BY <4>1, <4>3 DEF NotDoneYet
    <3> QED
      BY <3>1, <3>2
  <2> QED
    BY <2>2, <2>3
<1>2. ASSUME NEW r \in Runs, NEW s \in Steps, Work(r, s) PROVE KeepInv'
  BY <1>2 DEF Work, Act, WorkerExit, OneAtATime, NotDoneYet
<1>3. CASE Crash \/ UNCHANGED vars
  BY <1>3 DEF Crash, vars, OneAtATime, NotDoneYet, AtWork, Under
<1> QED
  BY <1>1, <1>2, <1>3 DEF Next, Mine

LEMMA StepKeepsSuccess ==
  ASSUME RunsInv, KeepInv, [Next]_vars, NEW s \in Idempotent, results[s] = "succeeded"
  PROVE  /\ results'[s] = "succeeded"
         /\ \A q \in Runs : worker'[q][s] = "running" => worker[q][s] = "running"
<1>0. s \in Steps
  BY ExecutionConstants
<1>1. ASSUME NEW r \in Runs, Mine(r)
      PROVE  /\ results'[s] = "succeeded"
             /\ \A q \in Runs : worker'[q][s] = "running" => worker[q][s] = "running"
  <2>1. pc[r] \in AtWork => at[r] # s /\ at[r] \in Steps
    BY DEF KeepInv, NotDoneYet, RunsInv, RunInv, StepInHand
  <2>2. results'[s] = "succeeded"
    <3>1. CASE Record(r)
      BY <1>0, <2>1, <3>1 DEF Record, AtWork, RunsInv, TypeOK
    <3> QED
      BY <1>1, <3>1, ResultsMove
  <2>3. ASSUME NEW q \in Runs, worker'[q][s] = "running" PROVE worker[q][s] = "running"
    <3>1. CASE \/ Refuse(r) \/ Start(r) \/ Block(r) \/ Reuse(r) \/ RecordRunning(r)
               \/ InvalidInput(r) \/ Collect(r) \/ Timeout(r) \/ Cancel(r)
               \/ CancelTerminate(r) \/ Record(r) \/ Finish(r) \/ Checkpoint(r)
      BY <2>3, <3>1 DEF Refuse, Start, Block, Reuse, RecordRunning, InvalidInput, Collect,
                   Timeout, Cancel, CancelTerminate, Record, Finish, Checkpoint
    <3>2. CASE Spawn(r) \/ CancelSpawn(r) \/ Terminated(r)
      <4>1. at[r] # s /\ at[r] \in Steps
        BY <2>1, <3>2 DEF Spawn, CancelSpawn, Terminated, AtWork
      <4>2. PICK w : worker' = worker \/ worker' = [worker EXCEPT ![r][at[r]] = w]
        BY <3>2 DEF Spawn, CancelSpawn, Terminated
      <4>3. worker'[q][s] = worker[q][s]
        <5>1. CASE worker' = [worker EXCEPT ![r][at[r]] = w]
          BY <1>0, <4>1, <5>1 DEF RunsInv, TypeOK
        <5> QED
          BY <4>2, <5>1
      <4> QED
        BY <2>3, <4>3
    <3> QED
      BY <1>1, <3>1, <3>2 DEF Mine, Proceed, Interrupt
  <2> QED
    BY <2>2, <2>3
<1>2. ASSUME NEW r \in Runs, NEW t \in Steps, Work(r, t)
      PROVE  /\ results'[s] = "succeeded"
             /\ \A q \in Runs : worker'[q][s] = "running" => worker[q][s] = "running"
  <2>1. UNCHANGED results
    BY <1>2 DEF Work, Act, WorkerExit
  <2>2. PICK w \in {"acted", "exited"} : worker' = [worker EXCEPT ![r][t] = w]
    BY <1>2 DEF Work, Act, WorkerExit
  <2> QED
    BY <1>0, <2>1, <2>2 DEF RunsInv, TypeOK
<1>3. CASE Crash \/ UNCHANGED vars
  BY <1>3 DEF Crash, vars
<1> QED
  BY <1>1, <1>2, <1>3 DEF Next, Mine

\* While runs follow one another, however many there are: a success recorded for an
\* idempotent step is never replaced, and the step is never started again.
THEOREM SuccessesAreKept ==
  ASSUME ~Overlapping
  PROVE  Spec => SuccessIsKept
<1>1. Init => KeepInv
  BY DEF Init, KeepInv, OneAtATime, NotDoneYet, Under, AtWork
<1>2. IInv /\ KeepInv /\ [Next]_vars => KeepInv'
  BY KeepKeeps DEF IInv, RunsInv
<1>3. Spec => []KeepInv
  BY <1>1, <1>2, Invariant, PTL DEF Spec
<1>4. IInv /\ KeepInv /\ [Next]_vars =>
        [\A s \in Idempotent : results[s] = "succeeded" =>
           /\ results'[s] = "succeeded"
           /\ \A r \in Runs : worker'[r][s] = "running" => worker[r][s] = "running"]_vars
  BY StepKeepsSuccess DEF IInv, RunsInv
<1> QED
  BY <1>3, <1>4, Invariant, PTL DEF Spec, SuccessIsKept

-----------------------------------------------------------------------------
(* CoordinatorLease: what keeps a second run from starting beside the first. *)

LEMMA LeaseInitType == LeaseInit => LeaseTypeOK
<1>1. Longest \in Nat
  BY LeaseConstants DEF Longest
<1> QED
  BY <1>1, LeaseConstants DEF LeaseInit, LeaseTypeOK

LEMMA LeaseNextType == LeaseTypeOK /\ [LeaseNext]_leaseVars => LeaseTypeOK'
<1> SUFFICES ASSUME LeaseTypeOK, [LeaseNext]_leaseVars PROVE LeaseTypeOK'
  OBVIOUS
<1> USE LeaseConstants DEF LeaseTypeOK
<1>0. Longest \in Nat /\ Longest >= TTL /\ Longest >= Period + MaxStall
  BY DEF Longest
<1>1. CASE Tick
  <2>1. left' \in 0 .. TTL
    BY <1>1 DEF Tick
  <2>2. ASSUME NEW o \in Owners
        PROVE  (IF Working(o) /\ since[o] < Longest THEN since[o] + 1 ELSE since[o]) \in 0 .. Longest
    <3>1. since[o] \in 0 .. Longest
      OBVIOUS
    <3> HIDE DEF LeaseTypeOK
    <3> QED
      BY <1>0, <3>1
  <2>3. since' \in [Owners -> 0 .. Longest]
    BY <1>1, <2>2 DEF Tick
  <2> QED
    BY <1>1, <2>1, <2>3 DEF Tick, Longest
<1>2. ASSUME NEW o \in Owners, Construct(o) \/ Begin(o) \/ Beat(o) PROVE LeaseTypeOK'
  <2>1. TTL \in 0 .. TTL /\ 0 \in 0 .. Longest
    BY <1>0
  <2>2. holder' = o /\ left' = TTL /\ trespass' = trespass /\ adrift' = adrift
    BY <1>2 DEF Construct, Begin, Beat, Take
  <2>3. phase' \in [Owners -> {"down", "idle", "busy", "stopping"}]
    BY <1>2 DEF Construct, Begin, Beat
  <2>4. since' \in [Owners -> 0 .. Longest]
    BY <1>2, <2>1 DEF Construct, Begin, Beat
  <2> QED
    BY <2>1, <2>2, <2>3, <2>4 DEF Longest
<1>3. ASSUME NEW o \in Owners, Lose(o) \/ End(o) \/ Abandon(o) \/ AdriftEnds(o) \/ CrashRuntime(o)
      PROVE  LeaseTypeOK'
  BY <1>3 DEF Lose, End, Abandon, AdriftEnds, CrashRuntime, Longest
<1>4. ASSUME NEW o \in Owners, SessionWrite(o) \/ CleanupWrite(o) \/ DirectWrite(o)
      PROVE  LeaseTypeOK'
  BY <1>4 DEF SessionWrite, CleanupWrite, DirectWrite, Note, Longest
<1>5. CASE UNCHANGED leaseVars
  BY <1>5 DEF leaseVars, Longest
<1> QED
  BY <1>1, <1>2, <1>3, <1>4, <1>5 DEF LeaseNext, Runtime

\* Every variable keeps its type, in every reachable state.
THEOREM LeaseTypeCorrect == LeaseSpec => []LeaseTypeOK
  BY LeaseInitType, LeaseNextType, PTL DEF LeaseSpec

-----------------------------------------------------------------------------
(* The clock of the lease and the clocks of the runtimes agree: while one    *)
(* that works holds the lease, the time since its last renewal and the time  *)
(* left add up to at least TTL; one that works and does not hold it has gone *)
(* TTL without a renewal.                                                    *)

ClocksAgree ==
  \A o \in Owners : Working(o) =>
    \/ holder = o /\ left + since[o] >= TTL
    \/ since[o] >= TTL

LEMMA ClocksInit == LeaseInit => ClocksAgree
  BY DEF LeaseInit, ClocksAgree, Working

LEMMA ClocksNext == LeaseTypeOK /\ ClocksAgree /\ [LeaseNext]_leaseVars => ClocksAgree'
<1> SUFFICES ASSUME LeaseTypeOK, ClocksAgree, [LeaseNext]_leaseVars, NEW o \in Owners, Working(o)'
             PROVE  \/ holder' = o /\ left' + since'[o] >= TTL
                    \/ since'[o] >= TTL
  BY DEF ClocksAgree
<1> USE LeaseConstants DEF LeaseTypeOK
<1>0. left \in Nat /\ since[o] \in Nat /\ TTL \in Nat /\ Longest \in Nat /\ Longest >= TTL
  BY DEF Longest
<1>1. CASE Tick
  <2>1. Working(o) /\ holder' = holder
    BY <1>1 DEF Tick, Working
  <2>a. since'[o] = IF since[o] < Longest THEN since[o] + 1 ELSE since[o]
    BY <1>1, <2>1 DEF Tick
  <2>2. left' = IF left = 0 THEN 0 ELSE left - 1
    BY <1>1 DEF Tick
  <2>3. (holder = o /\ left + since[o] >= TTL) \/ since[o] >= TTL
    BY <2>1 DEF ClocksAgree
  <2> QED
    BY <1>0, <2>1, <2>a, <2>2, <2>3
<1>2. ASSUME NEW p \in Owners, Construct(p) \/ Begin(p) \/ Beat(p)
      PROVE  \/ holder' = o /\ left' + since'[o] >= TTL
             \/ since'[o] >= TTL
  <2>1. CASE p = o
    BY <1>0, <1>2, <2>1 DEF Construct, Begin, Beat, Take
  <2>2. CASE p # o
    <3>1. Working(o) /\ since'[o] = since[o]
      BY <1>2, <2>2 DEF Construct, Begin, Beat, Working
    <3>2. holder = o => left = 0
      BY <1>2, <2>2 DEF Construct, Begin, Beat, Take, Available
    <3>3. since[o] >= TTL
      BY <1>0, <3>1, <3>2 DEF ClocksAgree
    <3> QED
      BY <3>1, <3>3
  <2> QED
    BY <2>1, <2>2
<1>3. ASSUME NEW p \in Owners, Lose(p) \/ End(p) \/ Abandon(p) \/ AdriftEnds(p) \/ CrashRuntime(p)
      PROVE  Working(o) /\ UNCHANGED <<holder, left, since>>
  BY <1>3 DEF Lose, End, Abandon, AdriftEnds, CrashRuntime, Working
<1>4. ASSUME NEW p \in Owners, SessionWrite(p) \/ CleanupWrite(p) \/ DirectWrite(p)
      PROVE  Working(o) /\ UNCHANGED <<holder, left, since>>
  BY <1>4 DEF SessionWrite, CleanupWrite, DirectWrite, Working
<1>5. CASE UNCHANGED leaseVars
  BY <1>5 DEF leaseVars, ClocksAgree, Working
<1> QED
  BY <1>1, <1>2, <1>3, <1>4, <1>5 DEF LeaseNext, Runtime, ClocksAgree

\* No attended session's heartbeat is later than MaxStall.
InTime == \A o \in Owners : phase[o] = "busy" => since[o] =< Period + MaxStall

LEMMA InTimeNext == LeaseTypeOK /\ InTime /\ [LeaseNext]_leaseVars => InTime'
<1> SUFFICES ASSUME LeaseTypeOK, InTime, [LeaseNext]_leaseVars, NEW o \in Owners, phase'[o] = "busy"
             PROVE  since'[o] =< Period + MaxStall
  BY DEF InTime
<1> USE LeaseConstants DEF LeaseTypeOK
<1>0. since[o] \in Nat /\ Period + MaxStall \in Nat
  BY DEF Longest
<1>1. CASE Tick
  <2>1. phase[o] = "busy" /\ since[o] < Period + MaxStall
    BY <1>1 DEF Tick
  <2>2. since'[o] = since[o] \/ since'[o] = since[o] + 1
    BY <1>1 DEF Tick
  <2> QED
    BY <1>0, <2>1, <2>2
<1>2. ASSUME NEW p \in Owners, Begin(p) \/ Beat(p) PROVE since'[o] =< Period + MaxStall
  <2>1. since'[o] = 0 \/ (phase[o] = "busy" /\ since'[o] = since[o])
    BY <1>2 DEF Begin, Beat
  <2> QED
    BY <1>0, <2>1 DEF InTime
<1>3. ASSUME NEW p \in Owners,
             \/ Construct(p) \/ Lose(p) \/ End(p) \/ Abandon(p) \/ AdriftEnds(p) \/ CrashRuntime(p)
             \/ SessionWrite(p) \/ CleanupWrite(p) \/ DirectWrite(p)
      PROVE  phase[o] = "busy" /\ since' = since
  BY <1>3 DEF Construct, Lose, End, Abandon, AdriftEnds, CrashRuntime, SessionWrite,
     CleanupWrite, DirectWrite
<1>4. CASE UNCHANGED leaseVars
  BY <1>4 DEF leaseVars, InTime
<1> QED
  BY <1>1, <1>2, <1>3, <1>4 DEF LeaseNext, Runtime, InTime

LEMMA ClocksHold == LeaseSpec => [](LeaseTypeOK /\ ClocksAgree /\ InTime)
<1>1. LeaseInit => LeaseTypeOK /\ ClocksAgree /\ InTime
  BY LeaseInitType, ClocksInit DEF LeaseInit, InTime
<1>2. LeaseTypeOK /\ ClocksAgree /\ InTime /\ [LeaseNext]_leaseVars =>
        (LeaseTypeOK /\ ClocksAgree /\ InTime)'
  BY LeaseNextType, ClocksNext, InTimeNext
<1> QED
  BY <1>1, <1>2, PTL DEF LeaseSpec

\* However late or missing heartbeats are, a session runs on without the lease only in
\* a runtime that itself has gone TTL without renewing it.
THEOREM OverlapIsLate == LeaseSpec => []OnlyTheLateOverlap
<1>1. LeaseTypeOK /\ ClocksAgree => OnlyTheLateOverlap
  BY DEF ClocksAgree, OnlyTheLateOverlap, OtherHolds
<1> QED
  BY <1>1, ClocksHold, PTL

\* If no heartbeat is late by as much as TTL leaves it, a runtime in a session whose
\* caller waits for it holds the lease, unexpired ...
THEOREM BusyRuntimesHold ==
  ASSUME Period + MaxStall < TTL
  PROVE  LeaseSpec => []BusyHolds
<1>1. LeaseTypeOK /\ ClocksAgree /\ InTime => BusyHolds
  <2> SUFFICES ASSUME LeaseTypeOK, ClocksAgree, InTime, NEW o \in Owners, phase[o] = "busy"
               PROVE  holder = o /\ left > 0
    BY DEF BusyHolds
  <2>1. since[o] < TTL /\ since[o] \in Nat /\ left \in Nat
    BY LeaseConstants DEF LeaseTypeOK, InTime
  <2> QED
    BY <2>1, LeaseConstants DEF ClocksAgree, Working
<1> QED
  BY <1>1, ClocksHold, PTL

\* ... and two such sessions are never under way in two runtimes.  Of sessions that
\* their callers abandoned this is false: ExclusiveWork.
THEOREM SessionsExclude ==
  ASSUME Period + MaxStall < TTL
  PROVE  LeaseSpec => []Exclusive
<1>1. BusyHolds => Exclusive
  BY DEF BusyHolds, Exclusive
<1> QED
  BY <1>1, BusyRuntimesHold, PTL
=============================================================================
