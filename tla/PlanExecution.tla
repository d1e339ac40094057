--------------------------- MODULE PlanExecution ---------------------------
(***************************************************************************)
(* DeterministicExecutor.execute and SubprocessOperatorRunner.run          *)
(* (services/execution.py) over the run, step and result tables of         *)
(* services/ledger.py, with the operator's worker process                  *)
(* (services/operator_worker.py) running beside them.                      *)
(*                                                                         *)
(* A run is one call of execute for the same verified plan.  There are     *)
(* several because LangGraph replays the node, with a new run_id, until    *)
(* its checkpoint says that it returned, and because nothing stops a       *)
(* session from being resumed twice at a time.                             *)
(* The coordinator suspends only while it spawns or awaits the worker, so  *)
(* a cancellation can reach it there and nowhere else; a crash can fall    *)
(* between any two transactions.  Workers are started in a session of      *)
(* their own: a crash of the coordinator does not stop them.               *)
(*                                                                         *)
(* Abstractions.  All runs use one plan, so a step stands for its          *)
(* idempotency key.  A step's arguments are left out: its input model may  *)
(* take or reject them.  A result file is reduced to the status it holds,  *)
(* which is the operator's own choice; it says succeeded only if the       *)
(* operator has acted.                                                     *)
(***************************************************************************)
EXTENDS Naturals, FiniteSets

CONSTANTS
  N,            \* number of steps of the plan
  Shapes,       \* [1..N -> SUBSET 1..N], to earlier steps: plans' dependencies
  Typed,        \* steps whose operator has an input model, which may reject arguments
  Idempotent,   \* steps whose operator declares itself idempotent
  Answers,      \* statuses that operators return; any StepStatus is let through
  Runs,         \* calls of execute
  Overlapping   \* may a run start while another is under way?

Steps == 1 .. N

\* How a run ends; and what may be said of a step.
Settled == {"succeeded", "failed", "cancelled", "reconciliation_required"}
StepStatus == {"pending", "running", "blocked"} \cup Settled

ASSUME ExecutionConstants ==
  /\ N \in Nat
  /\ Shapes \subseteq [Steps -> SUBSET Steps]
  /\ \A shape \in Shapes : \A s \in Steps : \A d \in shape[s] : d < s
  /\ Typed \subseteq Steps
  /\ Idempotent \subseteq Steps
  /\ Answers \subseteq StepStatus
  /\ Overlapping \in BOOLEAN

VARIABLES
  pc,        \* per run: where its coroutine is
  at,        \* per run: the step it is at
  outcome,   \* per run and step: the dict "completed"
  result,    \* per run: the status of the OperatorResult in hand
  worker,    \* per run and step: the worker process
  file,      \* per run and step: result.json in the step's workspace
  effects,   \* steps whose operator has acted on the world, in any run
  runRow,    \* runs: status
  stepRow,   \* step_runs: status
  results,   \* operator_results: status, per idempotency key
  dependsOn  \* the plan's: it never changes

vars == <<pc, at, outcome, result, worker, file, effects, runRow, stepRow, results, dependsOn>>

\* A coroutine that is gone: it returned, was refused, raised or died with the process.
Ended == {"over", "refused", "aborted", "crashed"}
Under == {"loop", "launch", "waiting", "timing_out", "cancelling", "collected", "finish", "returned"}

\* A process that exists.  "acted": its operator has had its effect.
Alive == {"running", "acted"}

Init ==
  /\ pc = [r \in Runs |-> "unborn"]
  /\ at = [r \in Runs |-> 1]
  /\ outcome = [r \in Runs |-> [s \in Steps |-> "none"]]
  /\ result = [r \in Runs |-> "none"]
  /\ worker = [r \in Runs |-> [s \in Steps |-> "none"]]
  /\ file = [r \in Runs |-> [s \in Steps |-> "none"]]
  /\ effects = {}
  /\ runRow = [r \in Runs |-> "none"]
  /\ stepRow = [r \in Runs |-> [s \in Steps |-> "none"]]
  /\ results = [s \in Steps |-> "none"]
  /\ dependsOn \in Shapes

-----------------------------------------------------------------------------
(* execute: the verifier is asked once, before the run is opened. *)

Refuse(r) ==
  /\ pc[r] = "unborn"
  /\ pc' = [pc EXCEPT ![r] = "refused"]
  /\ UNCHANGED <<at, outcome, result, worker, file, effects, runRow, stepRow, results, dependsOn>>

\* Mutant of Start: a run may begin while another is under way.
StartAnyTime(r) ==
  /\ pc[r] = "unborn"
  /\ pc' = [pc EXCEPT ![r] = "loop"]
  /\ runRow' = [runRow EXCEPT ![r] = "running"]
  /\ UNCHANGED <<at, outcome, result, worker, file, effects, stepRow, results, dependsOn>>

\* The node runs, or is replayed: no earlier run of it has been checkpointed, unless
\* by a task that overlaps with this one.
Start(r) ==
  /\ pc[r] = "unborn"
  /\ Overlapping \/ \A q \in Runs : pc[q] \notin Under \cup {"over"}
  /\ pc' = [pc EXCEPT ![r] = "loop"]
  /\ runRow' = [runRow EXCEPT ![r] = "running"]
  /\ UNCHANGED <<at, outcome, result, worker, file, effects, stepRow, results, dependsOn>>

(* execute: one turn of the loop over the steps. *)

Ready(r) == pc[r] = "loop" /\ at[r] \in Steps

\* Mutant of DependenciesMet: a dependency only has to have been dealt with.
DependenciesRan(r) == \A d \in dependsOn[at[r]] : outcome[r][d] # "none"

DependenciesMet(r) == \A d \in dependsOn[at[r]] : outcome[r][d] = "succeeded"

\* Mutants of Reusable: any recorded result will do; none ever does.
ReusableAny(s) == s \in Idempotent /\ results[s] # "none"

ReusableNever(s) == s \in Idempotent /\ FALSE

Reusable(s) == s \in Idempotent /\ results[s] = "succeeded"

Advance(r, status) ==
  /\ outcome' = [outcome EXCEPT ![r][at[r]] = status]
  /\ at' = [at EXCEPT ![r] = @ + 1]

\* A dependency did not succeed.  Nothing is recorded in step_runs.
Block(r) ==
  /\ Ready(r)
  /\ ~DependenciesMet(r)
  /\ Advance(r, "blocked")
  /\ UNCHANGED <<pc, result, worker, file, effects, runRow, stepRow, results, dependsOn>>

\* An idempotent step that has succeeded before, in any run.
Reuse(r) ==
  /\ Ready(r)
  /\ DependenciesMet(r)
  /\ Reusable(at[r])
  /\ Advance(r, "succeeded")
  /\ UNCHANGED <<pc, result, worker, file, effects, runRow, stepRow, results, dependsOn>>

\* record_step RUNNING, committed before anything is started.
RecordRunning(r) ==
  /\ Ready(r)
  /\ DependenciesMet(r)
  /\ ~Reusable(at[r])
  /\ stepRow' = [stepRow EXCEPT ![r][at[r]] = "running"]
  /\ pc' = [pc EXCEPT ![r] = "launch"]
  /\ UNCHANGED <<at, outcome, result, worker, file, effects, runRow, results, dependsOn>>

-----------------------------------------------------------------------------
(* SubprocessOperatorRunner.run *)

\* The result in hand; it is not in the ledger yet.
Conclude(r, status) ==
  /\ pc' = [pc EXCEPT ![r] = "collected"]
  /\ result' = [result EXCEPT ![r] = status]

InvalidInput(r) ==
  /\ pc[r] = "launch"
  /\ at[r] \in Typed
  /\ Conclude(r, "failed")
  /\ UNCHANGED <<at, outcome, worker, file, effects, runRow, stepRow, results, dependsOn>>

Spawn(r) ==
  /\ pc[r] = "launch"
  /\ worker' = [worker EXCEPT ![r][at[r]] = "running"]
  /\ pc' = [pc EXCEPT ![r] = "waiting"]
  /\ UNCHANGED <<at, outcome, result, file, effects, runRow, stepRow, results, dependsOn>>

\* Cancelled inside create_subprocess_exec, outside the try: CancelledError leaves
\* execute; asyncio kills the process if there is one.
CancelSpawn(r) ==
  /\ pc[r] = "launch"
  /\ pc' = [pc EXCEPT ![r] = "aborted"]
  /\ \/ UNCHANGED <<worker, effects>>
     \/ worker' = [worker EXCEPT ![r][at[r]] = "killed"] /\ UNCHANGED effects
     \/ /\ worker' = [worker EXCEPT ![r][at[r]] = "killed"]
        /\ effects' = effects \cup {at[r]}
  /\ UNCHANGED <<at, outcome, result, file, runRow, stepRow, results, dependsOn>>

\* What a process that ended by itself left behind: nothing, or a result that is passed
\* on as it is or refused (too large, cut short, wrong outputs or artifacts).
Collected(s, left) ==
  IF left # "none" THEN {left, "failed"}
  ELSE IF s \in Idempotent THEN {"failed"} ELSE {"reconciliation_required"}

Collect(r) ==
  /\ pc[r] = "waiting"
  /\ worker[r][at[r]] = "exited"
  /\ \E status \in Collected(at[r], file[r][at[r]]) : Conclude(r, status)
  /\ UNCHANGED <<at, outcome, worker, file, effects, runRow, stepRow, results, dependsOn>>

\* Mutant of Timeout: the wait has no bound.
TimeoutNever(r) == pc[r] = "waiting" /\ FALSE /\ UNCHANGED vars

\* wait_for gives up: SIGTERM to the process group.
Timeout(r) ==
  /\ pc[r] = "waiting"
  /\ worker[r][at[r]] \in Alive
  /\ pc' = [pc EXCEPT ![r] = "timing_out"]
  /\ UNCHANGED <<at, outcome, result, worker, file, effects, runRow, stepRow, results, dependsOn>>

\* task.cancel() while the worker runs: SIGTERM to the process group.  A process
\* that has exited is left as it is: what it left behind is not read.
Cancel(r) ==
  /\ pc[r] = "waiting"
  /\ IF worker[r][at[r]] = "exited" THEN Conclude(r, "cancelled")
     ELSE pc' = [pc EXCEPT ![r] = "cancelling"] /\ UNCHANGED result
  /\ UNCHANGED <<at, outcome, worker, file, effects, runRow, stepRow, results, dependsOn>>

\* Mutant of Terminated: after SIGTERM and five seconds, no SIGKILL.
TerminatedPolitely(r) ==
  /\ pc[r] \in {"timing_out", "cancelling"}
  /\ Conclude(r, IF pc[r] = "timing_out" THEN "failed" ELSE "cancelled")
  /\ UNCHANGED <<at, outcome, worker, file, effects, runRow, stepRow, results, dependsOn>>

\* _terminate is over: the process has gone, or five seconds have passed and
\* SIGKILL has ended it.
Terminated(r) ==
  /\ pc[r] \in {"timing_out", "cancelling"}
  /\ worker' = [worker EXCEPT ![r][at[r]] = IF @ \in Alive THEN "killed" ELSE @]
  /\ Conclude(r, IF pc[r] = "timing_out" THEN "failed" ELSE "cancelled")
  /\ UNCHANGED <<at, outcome, file, effects, runRow, stepRow, results, dependsOn>>

\* task.cancel() during _terminate: CancelledError leaves execute at once.
CancelTerminate(r) ==
  /\ pc[r] \in {"timing_out", "cancelling"}
  /\ pc' = [pc EXCEPT ![r] = "aborted"]
  /\ UNCHANGED <<at, outcome, result, worker, file, effects, runRow, stepRow, results, dependsOn>>

-----------------------------------------------------------------------------
(* execute: what comes back is recorded, and the run is closed. *)

\* Mutant of Record: the loop goes on after a step that must stop the run.
RecordAndGoOn(r) ==
  /\ pc[r] = "collected"
  /\ stepRow' = [stepRow EXCEPT ![r][at[r]] = result[r]]
  /\ results' = [results EXCEPT ![at[r]] = result[r]]
  /\ Advance(r, result[r])
  /\ result' = [result EXCEPT ![r] = "none"]
  /\ pc' = [pc EXCEPT ![r] = "loop"]
  /\ UNCHANGED <<worker, file, effects, runRow, dependsOn>>

Record(r) ==
  /\ pc[r] = "collected"
  /\ stepRow' = [stepRow EXCEPT ![r][at[r]] = result[r]]
  /\ results' = [results EXCEPT ![at[r]] = result[r]]
  /\ Advance(r, result[r])
  /\ result' = [result EXCEPT ![r] = "none"]
  /\ pc' = [pc EXCEPT ![r] =
       IF result[r] \in {"cancelled", "reconciliation_required"} THEN "finish" ELSE "loop"]
  /\ UNCHANGED <<worker, file, effects, runRow, dependsOn>>

Outcomes(r) == {outcome[r][s] : s \in {t \in Steps : t < at[r]}}

\* Mutant of RunStatus: the run takes the outcome of its last step.
RunStatusOfLast(r) == outcome[r][at[r] - 1]

\* Mutant of RunStatus: what did not fail has succeeded.
RunStatusUnlessFailed(r) ==
  IF "reconciliation_required" \in Outcomes(r) THEN "reconciliation_required"
  ELSE IF "cancelled" \in Outcomes(r) THEN "cancelled"
  ELSE IF "failed" \in Outcomes(r) THEN "failed" ELSE "succeeded"

RunStatus(r) ==
  IF "reconciliation_required" \in Outcomes(r) THEN "reconciliation_required"
  ELSE IF "cancelled" \in Outcomes(r) THEN "cancelled"
  ELSE IF Outcomes(r) \subseteq {"succeeded"} THEN "succeeded"
  ELSE "failed"

Finish(r) ==
  /\ pc[r] = "finish" \/ (pc[r] = "loop" /\ at[r] = N + 1)
  /\ runRow' = [runRow EXCEPT ![r] = RunStatus(r)]
  /\ pc' = [pc EXCEPT ![r] = "returned"]
  /\ UNCHANGED <<at, outcome, result, worker, file, effects, stepRow, results, dependsOn>>

\* LangGraph saves that the node returned; from here on it is not replayed.
Checkpoint(r) ==
  /\ pc[r] = "returned"
  /\ pc' = [pc EXCEPT ![r] = "over"]
  /\ UNCHANGED <<at, outcome, result, worker, file, effects, runRow, stepRow, results, dependsOn>>

-----------------------------------------------------------------------------
(* operator_worker.main, in a process of its own. *)

Act(r, s) ==
  /\ worker[r][s] = "running"
  /\ worker' = [worker EXCEPT ![r][s] = "acted"]
  /\ effects' = effects \cup {s}
  /\ UNCHANGED <<pc, at, outcome, result, file, runRow, stepRow, results, dependsOn>>

\* It returns whatever status it likes, raises, is cut short by a resource limit while
\* writing, or dies with nothing written (a limit, a signal, its own os._exit).
WorkerExit(r, s, left) ==
  /\ worker[r][s] \in Alive
  /\ left = "succeeded" => worker[r][s] = "acted"
  /\ worker' = [worker EXCEPT ![r][s] = "exited"]
  /\ file' = [file EXCEPT ![r][s] = left]
  /\ UNCHANGED <<pc, at, outcome, result, effects, runRow, stepRow, results, dependsOn>>

\* The coordinator's process dies; its workers do not.
Crash ==
  /\ \E r \in Runs : pc[r] \in Under
  /\ pc' = [r \in Runs |-> IF pc[r] \in Under THEN "crashed" ELSE pc[r]]
  /\ UNCHANGED <<at, outcome, result, worker, file, effects, runRow, stepRow, results, dependsOn>>

-----------------------------------------------------------------------------
Proceed(r) ==
  \/ Start(r)
  \/ Block(r) \/ Reuse(r) \/ RecordRunning(r)
  \/ InvalidInput(r) \/ Spawn(r)
  \/ Collect(r) \/ Timeout(r) \/ Terminated(r)
  \/ Record(r) \/ Finish(r) \/ Checkpoint(r)

Interrupt(r) == Cancel(r) \/ CancelSpawn(r) \/ CancelTerminate(r)

Work(r, s) ==
  \/ Act(r, s)
  \/ \E left \in {"none", "failed"} \cup Answers : WorkerExit(r, s, left)

Next ==
  \/ \E r \in Runs : Proceed(r) \/ Refuse(r) \/ Interrupt(r)
  \/ \E r \in Runs, s \in Steps : Work(r, s)
  \/ Crash

Spec == Init /\ [][Next]_vars

\* The event loop keeps running a run's coroutine: wait_for does time out, and
\* _terminate ends with SIGKILL.  Nothing is assumed of the workers.
FairSpec == Spec /\ \A r \in Runs : WF_vars(Proceed(r))

-----------------------------------------------------------------------------
(* Properties. *)

\* Every variable has its type.
TypeOK ==
  /\ pc \in [Runs -> {"unborn"} \cup Under \cup Ended]
  /\ at \in [Runs -> 1 .. N + 1]
  /\ outcome \in [Runs -> [Steps -> {"none"} \cup StepStatus]]
  /\ result \in [Runs -> {"none"} \cup StepStatus]
  /\ worker \in [Runs -> [Steps -> {"none", "exited", "killed"} \cup Alive]]
  /\ file \in [Runs -> [Steps -> {"none"} \cup StepStatus]]
  /\ effects \subseteq Steps
  /\ runRow \in [Runs -> {"none", "running"} \cup Settled]
  /\ stepRow \in [Runs -> [Steps -> {"none"} \cup StepStatus]]
  /\ results \in [Steps -> {"none"} \cup StepStatus]
  /\ dependsOn \in Shapes

\* A worker is never started without a committed row saying so, and never survives
\* the row that records its end: whatever is cut short, by a cancellation or by a
\* crash, the ledger still shows a RUNNING step for every process that may be alive.
RowCoversWorker ==
  \A r \in Runs, s \in Steps :
    /\ worker[r][s] # "none" => stepRow[r][s] # "none"
    /\ worker[r][s] \in Alive => stepRow[r][s] = "running"

\* No step starts unless every step it depends on has a success on record.
StartsOnRecordedSuccess ==
  \A r \in Runs, s \in Steps :
    stepRow[r][s] # "none" => \A d \in dependsOn[s] :
      stepRow[r][d] = "succeeded" \/ \E q \in Runs : q # r /\ stepRow[q][d] = "succeeded"

\* A run recorded as succeeded did everything: each step acted at least once, here
\* or in the run whose result was reused, and has a success on record.
SucceededIsComplete ==
  \A r \in Runs : runRow[r] = "succeeded" =>
    \A s \in Steps : s \in effects /\ \E q \in Runs : stepRow[q][s] = "succeeded"

\* The row a finished run leaves is the one its steps justify: succeeded means
\* complete, needing reconciliation outranks cancelled, and either of these means no
\* later step was started; no worker outlives the run, and a step that the run leaves
\* RUNNING is one whose operator returned that status (execution.py:154-163).
RunRowExplained ==
  /\ SucceededIsComplete
  /\ \A r \in Runs :
       /\ \A s \in Steps : stepRow[r][s] \in {"cancelled", "reconciliation_required"} =>
            /\ runRow[r] \in {"running", stepRow[r][s]}
            /\ \A t \in Steps : t > s => worker[r][t] = "none" /\ stepRow[r][t] = "none"
       /\ runRow[r] \in Settled => \A s \in Steps :
            worker[r][s] \notin Alive /\ (stepRow[r][s] = "running" => file[r][s] = "running")
       /\ runRow[r] \in {"cancelled", "reconciliation_required"} =>
            \E s \in Steps : stepRow[r][s] = runRow[r]

\* While runs follow one another, the ledger never forgets that an idempotent step
\* succeeded, the result a later run will reuse is not replaced, and such a step is
\* not started again.
SuccessIsKept ==
  [][\A s \in Idempotent : results[s] = "succeeded" =>
       /\ results'[s] = "succeeded"
       /\ \A r \in Runs : worker'[r][s] = "running" => worker[r][s] = "running"]_vars

Promise == INSTANCE PlanPromise WITH
  run   <- runRow,
  acted <- effects,
  done  <- {s \in Steps : \E r \in Runs : stepRow[r][s] = "succeeded"}

\* Every step of the coordinator and of its workers, overlapping runs, cancellations
\* and crashes included, is one the promise allows: no operator acts before the
\* success of what it depends on is on record, none is said to have succeeded that
\* has not acted, and a run row is written twice, succeeded if nothing is missing.
KeepsPromise == Promise!Spec

\* No run is under way for ever: it finishes, is aborted, or dies with the process,
\* although operators may hang, ignore SIGTERM and leave nothing behind.
RunsEnd == \A r \in Runs : []<>(pc[r] \notin Under)

\* "A non-idempotent process that exits without a durable result is never retried
\* automatically; its run enters reconciliation_required" (04_EXECUTION.md): as far
\* as the run is concerned (one that was cancelled on request says so instead) ...
AmbiguousExitReconciles ==
  \A r \in Runs, s \in Steps \ Idempotent :
    worker[r][s] \in {"exited", "killed"} /\ file[r][s] = "none" /\ runRow[r] \in Settled =>
      runRow[r] \in {"reconciliation_required", "cancelled"}

\* ... and as far as the retry is concerned.
NeverRetried ==
  [][\A s \in Steps \ Idempotent : \A r, q \in Runs :
       worker[r][s] = "exited" /\ file[r][s] = "none" /\ worker'[q][s] = "running" =>
         worker[q][s] = "running"]_vars

\* "Cancellation and timeout terminate the process group" (04_EXECUTION.md): once
\* the coroutine of a run has ended in a living process, no worker of it is left.
CancelledMeansStopped ==
  \A r \in Runs, s \in Steps : pc[r] \in {"over", "aborted"} => worker[r][s] \notin Alive
=============================================================================
