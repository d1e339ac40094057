# LASI in TLA+

LASI turns a goal into a plan written by a language model, verifies the plan against identities,
grants, approvals and policy, runs its operators as subprocesses, and keeps everything in one
SQLite ledger (`services/`). These modules model the parts of it where the order of events
matters: the tiered approvals, the admission of a plan, the session loop, the execution of a
plan and the promotion of its artifacts, the coordinator lease, the projection outbox, the
planner's call loop and the start of the store. TLC checks them on small instances; TLAPS proves
the theorems listed below for all values of the constants.

## 1. The system

### Components, their state, and who calls whom

| Component (source) | State | Operations | Correct when |
| --- | --- | --- | --- |
| Tiered approvals (`identity.py` `ApprovalService`, tables `approval_requests`, `approvals`, `approval_grants`, `used_nonces`) | request row with a status, recorded decisions bound to a snapshot digest, grants | `ensure_request`, `decide`, `satisfied`, add/revoke a grant | only enough *other* people open the gate, a denial is final, withdrawn authority stays withdrawn |
| Session graph and facade (`orchestration/langgraph_runtime.py`) | sessions row, LangGraph checkpoint, `_active` | `start`, `resume`, `cancel`, `decide_approval`, eight nodes | only approved, entitled plans run; the row can be explained; a reached cancel stops the session; calls end |
| Policy verifier and decisions (`policy.py`, table `decisions`) | content-addressed decisions | `verify`, `ensure_approval_requests`, `record_decision`, `latest_decision` | every run has its decision on record; the authority of each party to an allowed verdict was complete at one moment |
| Plan execution (`execution.py`, `operator_worker.py`, tables `runs`, `step_runs`, `operator_results`) | run, step and result rows; worker processes and their result files | `execute`, `run`, `_terminate`, the worker's `main` | the ledger covers every process and effect, successes are reused and durable, runs end |
| Coordinator lease (`ledger.py` `acquire_lease`, heartbeat in `langgraph_runtime.py`) | one row: owner, expiry | acquire/renew, heartbeat, loss | sessions that are waited for overlap only if a heartbeat was late; whoever overlaps has itself not renewed |
| Projection outbox and memory (`ledger.py` outbox, `memory.py`) | outbox rows, the projection | `_emit`, `outbox_batch`, `mark_*`, `drain_once`, `context` | every event gets one fate, in the end, for good; a context claims no more than it holds |
| Planner (`planning.py`, tables `plans`, `model_invocations`, private files) | two budgets, records of calls | `propose`, `record_plan` | budgets hold, rows have files, a plan id is one content |
| Operator registry and plan validation (`operators.py`, `contracts.py`) | name -> spec, filled by the host | `register`, `get`, `Plan.validate_steps` | a registered operator never changes; a valid plan can be executed in its order |
| Authority store (`ledger.py`: start-up, identities, grants, evidence, profiles) | the SQLite file and its log | `__init__`, `_backup`, `_migrate`, `close`, the tables' writes | who opens a new store has the whole schema; what has no version is refused and kept, what has one keeps its contents |
| Artifact store (`artifacts.py`, called by `execution.py`) | files named by their digest | `promote` | nothing torn under a digest; a success has all of its artifacts |
| Exploration policy, built-in operators, contracts | | | see section 7 |

How they interact. A runtime holds the lease, `start` and `resume` run the graph in an asyncio
task. `plan` calls the planner and records the plan; `verify` calls the verifier, which reads
grants, evidence and approval requests; a plan that lacks an approval makes requests and
interrupts; a person's `decide_approval` writes the approval tables; `resume` wakes the session,
which verifies again; `execute` verifies once more and runs the steps, one worker process each.
Every ledger mutation appends its event to the outbox in the same transaction; a projection
worker drains the outbox; `retrieve` reads ledger and projection.

### What is hard

* *Interleaving.* `decide`, `satisfied` and `drain_once` are sequences of separate reads and
  transactions without a lock; synchronous graph nodes run in threads that outlive a cancelled
  task; two resumes of one session may run at once.
* *Unlocked resources.* Several processes may start on one database or promote into one store;
  plan verification reads a dozen things one after the other while they change.
* *Crashes.* Workers survive the coordinator; schema creation and file copies stop half way;
  LangGraph replays the node its last checkpoint names, and checkpoints are written in the
  background.
* *Time.* A lease with late heartbeats, worker timeouts that race the worker's exit, retry
  budgets and delays.
* *Stale state.* Authority read when somebody approved and used when the plan runs, rows read
  with a batch and written back after an await, verdicts kept in a checkpoint.

`PROJECT.json` lists every such place under `hazards`, with its line and the properties about
it, or a note saying why there is none.

## 2. The modules

| Module | Models | Composes |
| --- | --- | --- |
| `ApprovalGate` | abstract: what an approval promises | |
| `Approvals` | `ApprovalService` and the approval tables, step by step | |
| `ApprovalsRefinement` | the mapping from `Approvals` to `ApprovalGate` | both |
| `SessionLoop` | graph, facade, verdicts, decisions, one session | an `ApprovalGate` per plan |
| `PlanPromise` | abstract: what executing a plan promises | |
| `PlanExecution` | executor, subprocess runner, worker, replay | implements `PlanPromise` |
| `CoordinatorLease` | the lease and its users, in discrete time | |
| `ProjectionOutbox` | outbox, projection worker, `MemoryService.context` | |
| `Planning` | `propose`, `record_plan`, replay of the plan node | |
| `PlanAdmission` | plan validation, operator registry, `verify` and `ensure_approval_requests` read by read, over the authority tables | the moves of `ApprovalGate`, as data |
| `StoreStartup` | the start of `AuthorityStore` on a path, several at once | |
| `ArtifactStore` | `promote` for the paths of a result, several at once | |
| `MC*` | instances for TLC | |
| `*Proofs` | theorems and their proofs | `ExecutionProofs`: `PlanExecution` and `CoordinatorLease`, which keeps runs of two runtimes apart; the others: the module they are named after |

State and actions correspond to the code as follows; `map` in `PROJECT.json` gives the lines of
every definition. An operator whose comment begins "Mutant of" is not part of a specification:
it is the named definition with a plausible bug, kept to show that the properties notice it.

**Approvals.** The variables are the columns of the tables plus `boot` (policy version,
string-hash seed and risks fixed when a process starts), one record per `decide` call in
progress, and one for the verifier's thread inside `satisfied`. Each read that another actor
could come between, and each transaction, is an action: `DecideBegin` (reads the request),
`Authenticate` (claims the nonce and takes the snapshot), `Vet` (the checks) or `Reject`,
`SaveApproval` (the insert, which looks at nothing again but the uniqueness of the approver: the
request or the grant may have lapsed meanwhile), `ReadTally`, `Publish`; `CheckBegin`,
`CheckDecisions`, `CheckApprover` per approver, `CheckDone`. A digest is its content. A snapshot
includes execution grants and revoked grants, since the code digests them, and, for subjects
with a set of two or more members, the order in which the process iterates it. `Restart` cuts
calls short at any point. Simplified: the nonce claim and the snapshot are one step, the
snapshot's two queries are one, `Vet` reads the clock once where the code reads it twice over
data it already holds, and `ensure_request` is one action. `ApprovalGate` has a state for each
end: a gate may be `refused`, `lapsed` (its time ran out before it was opened; a signature or a
refusal on its way may still arrive) or `void` (it was opened, and what it was opened on has
gone).

**SessionLoop.** One session. Each call of `start` and `resume` has a task record: the node and
the place in it (`pc`), the channel values (`plan`, `verification`), the verdict in hand,
whether its last superstep is in the checkpoint yet (`unsaved`), whether LangGraph still waits
for it (`detached`: a thread left behind, or an execute node that is finishing its cancelled
run, whose output is lost), and whether its caller still holds the entry in `_active`. `Persist`
writes the checkpoint at some later time or never, `Stop` writes what is pending when a task
ends by itself or is cancelled, `Crash` does not. From setting RUNNING to the run row, and from
the run's end to the session row, the event loop does not pause: `LoopFree` and `Quiet` keep
other work of the loop out, but not threads, grants or time. `Interrupt` is `task.cancel()`;
`CallerGone` is the cancellation of whoever awaits `start` or `resume`, which leaves the task at
work. The verdict takes the approval from an `ApprovalGate` instance, whose moves are those that
`Approvals` implements; a refusal may be published or not when it is read. `granted` stands for
every check that yields an error other than a denial.

**PlanExecution.** One plan, several runs of it. A run's coroutine (`pc`, `at`, `outcome`,
`result`), the worker and result file per run and step, the three tables, and a set of steps
that have acted on the world. The coroutine is interruptible only where it awaits: at the spawn,
waiting for the worker, and waiting for SIGTERM to work. A worker may hang, act and not report,
or ignore SIGTERM. It may return any status in `Answers`, which is any there is: the runner
passes the operator's own status on. `Crash` kills the coordinator and leaves workers; the next
run is LangGraph's replay of the node. The plan's dependencies never change and are chosen
initially from `Shapes`. `Promise` maps this to `PlanPromise`: run rows are the runs, `effects`
what has acted, and a step is done once some run's row of it says succeeded.

**CoordinatorLease.** `left` is `expires_at - now` for the instant the caller passes, `since` is
how long ago a session's runtime last renewed. `Abandon` is the caller of `start` or `resume`
being cancelled: the heartbeat goes with it, the session's task stays (`adrift`), and the
runtime may begin another. `Tick` cannot let a heartbeat that exists be later than `MaxStall`;
waiting for the database's lock counts as lateness. A write is noted in `trespass` if another
runtime held a live lease.

**ProjectionOutbox.** The outbox columns as functions of the sequence number, the batch each
worker read with the attempts as they were then, the answer `project` gave, and the context
being made. `project` may carry the event out and raise. Emitting evidence or a run summary is
one transaction with its event, so an event stands for its record.

**Planning.** One turn of `propose` is the call, the private file, the ledger row and the
judgement, with a crash possible between any two; then `record_plan` and LangGraph's checkpoint.
The model answers anything, including a plan id it has used for another plan.

**PlanAdmission.** The plan, chosen among valid and invalid candidates through `ValidSteps`, the
registry, identities, profile, grants and evidence, one request per step, and two tasks (an
overlapping start and resume) that run `verify` and then ask for approvals. Each query is an
action: `Begin` (the requester's snapshot), `ReadProfile`, `ReadPlanner` (the planner's
snapshot), `ReadEvidence`, `JudgeStep` per step (registry, grants against the clock, evidence,
request), `Conclude`; `AskRead` and `AskInsert` are the two transactions of `ensure_request`,
which `Approvals` takes as one. A grant that lapses stays in a snapshot but no longer permits.
`covered` and `opened` are histories: moment by moment, who could have run the whole plan, and
which requests were open at some moment of the call. A request's moves are those of
`ApprovalGate`. Both tasks are of one process, whose registry only grows; a session resumed in a
process with a smaller registry may raise in `registry.get` (`langgraph_runtime.py:107-108`).

**StoreStartup.** The database is its `user_version` and its set of tables, `content` as
connections read it and `main` as the bare file holds it; the difference is the write-ahead log,
and `journal` is the mode in the file's header. What the path held at first (`given`) is nothing
or any member of `Supplied`; in the run these are all databases, of any version and with any
tables, ours, half of ours, or another program's. `Connect` turns WAL mode on, as `_configure`
does before `_migrate` looks at the version. A start is `Start`, `ReadVersion`, `UserTables`,
`Backup`, `Connect`, `CheckVersion`, one `CreateTable` per table and `SetVersion`:
`executescript` ends the transaction it is called in, so each is a commit of its own. `Close`
checkpoints when the last connection goes; `Checkpoint` may happen at any commit; `Crash` leaves
the log. `:memory:` stores have no second user and are left out, as are directory and file
modes.

**ArtifactStore.** A file's content is its digest. `Hash` and `EndCopy` are the two reads of the
source, with `Look`, `BeginCopy`, `Replace` and `Stat` for the steps in between and after;
`Record` is what the runner returns and the ledger keeps. A process that outlived its worker may
`Rewrite` a file of its workspace; `CopyFails` is a full disk.

## 3. The runs

All bounds are constants of the configurations. "States" are distinct states.

| Run | Instance | Shows |
| --- | --- | --- |
| `Approvals_critical` (612 k) | a critical step, three people, two approvers with a spare grant, two signed actions, one caller | `VerdictHeldWhenRead`, and that the protocol implements `ApprovalGate` |
| `Approvals_duties` (1.2 M) | a requester with an approval grant, an operator that asks for approval, two policy versions | `StatusMatchesLedger`, `SeparationOfDuties`, `DenialBlocks`, `DenialIsTerminal` |
| `SessionLoop_loop` (609 k) | `start` and one `resume`, overlapping or not, one cancel, one change of grants, one approver | `RunWasApproved`, `RunWasEntitled`, `AuditTrail`, `StatusExplained`, `NoRunAfterCancel`, `CallsEnd` |
| `PlanExecution_replay` (1.9 M) | two runs of both shapes of two steps, one idempotent; operators that succeed, fail or return `running` | `RowCoversWorker`, `StartsOnRecordedSuccess`, `RunRowExplained`, `SuccessIsKept`, `RunsEnd`, and that all of it implements `PlanPromise` |
| `CoordinatorLease_late` (62 k) | two runtimes, TTL : period = 3 : 1 as in the code, lateness up to a TTL, abandoned sessions | `OnlyTheLateOverlap`, `Takeover`, `OvertakenStops` |
| `ProjectionOutbox_single` (526 k) | one worker, three events, batches of two, two attempts, one abort | `DeadLetteredInTime`, `FateIsEarned`, `ContextIsHonest`, `SettledIsFinal`, `EventuallySettled` |
| `Planning_budgets` (23 k) | three attempts and two repairs (the code's defaults), two replays, two ids, two contents | `CallsBounded`, `RowHasFile`, `PlanIdIsContent`, `ProposalEnds` |
| `StoreStartup_shared` (596 k) | three processes, four starts, any database, a script of two tables, one crash or failed statement | `OpenIsComplete`, `LoneBackupIsComplete`, `LeftAlone`, `SchemaGetsDone` |
| `PlanAdmission_pair` (1.6 M) | two tasks, two steps (one of which needs approval), two changes of authority, approvals that come and go freely | `Executable`, `AllowedWasJustified`, `WaitsForRequests`, `RequestNeverReset` |
| `ArtifactStore_shared` (973 k) | two runs of two paths each, three contents, one survivor that writes once | `StoreHoldsWhatItNames`, `SuccessHasItsArtifacts` |
| `Approvals_race`, `Approvals_reseeded` | | two disagreements between code and documentation, section 6 |

Why these bounds are enough to be interesting. Two approvals are the most any step needs, and
one spare grant is enough to revoke and restore authority. One caller of `decide` with crashes
reaches every cut-short call; two callers are the subject of `Approvals_race`. Two tasks are
what it takes for a lagging or shared checkpoint, a lost `_active` entry, and an approval that
is given between them. Two runs are a crash and its replay; two steps a dependency and its
dependent. Three events and batches of two are rows that fail in front of one that does not fit
into the batch. `running` stands for every status that neither stops a run nor is a success.
Three starts are a creator, one that dies in its way and one that looks; a script of two tables
has a first statement, a last one and a middle. Two changes of authority are one to withdraw and
one to give between the reads of a verdict. Two promoters with two paths have equal and
different contents at any pair of positions. Each property was also run against a mutant of the
code (`mutants`), and fails there.

`CHECK_DEADLOCK FALSE` is set where the modelled system really comes to an end: all approvals
decided, all calls of the session over, all runs over, all replays, starts and promotions used
up.

The type invariants are theorems and take no part in the runs.

## 4. What the properties say

*Approvals.* A published status is the one the recorded decisions justify, although it is
written two transactions after them (`StatusMatchesLedger`). A recorded denial blocks even if
the call died before publishing it (`DenialBlocks`) and a published one is final
(`DenialIsTerminal`). Whenever `satisfied` holds, enough people other than the requester have
approved, each while holding a covering grant that is the very grant they hold *now*: authority
revoked and issued anew, or acquired after the approval, does not count (`SeparationOfDuties`).
What was withdrawn does not come back while the process runs (`WithdrawnStaysWithdrawn`, a
theorem; in the run it is part of the refinement). The piecewise read of `satisfied` answers yes
only about something true at one instant (`VerdictHeldWhenRead`). All of it together refines the
gate (`ImplementsGate`).

*Session.* A governed plan ran only if its gate was opened, however stale the checkpoint it was
resumed from (`RunWasApproved`); its requester was entitled at or after the start of the execute
node (`RunWasEntitled`). A run, a checkpoint's verdict and a request are all preceded by their
records (`AuditTrail`). The session status is one the ledger accounts for, whoever wrote it last
(`StatusExplained`). After a cancel that found every task, nothing runs until someone resumes
(`NoRunAfterCancel`). Every call of `start` and `resume` ends (`CallsEnd`).

*Execution.* A process that may be alive has a RUNNING row (`RowCoversWorker`); a step starts on
recorded successes (`StartsOnRecordedSuccess`); the run row is justified by its step rows, and a
succeeded run did everything (`RunRowExplained`); a recorded success of an idempotent step is
neither replaced nor repeated as long as runs do not overlap (`SuccessIsKept`); every run ends
(`RunsEnd`). An operator may return `running`, and its step's row then says so in a run that is
over; no other step row is left RUNNING, and no process is left behind, in such a run
(`RunRowExplained`). The row of a worker that was killed by its timeout says FAILED, although it
may have acted: `RowCoversWorker` is about processes that may be alive. Seen from the ledger and
the world, without processes, cancellations or crashes (`PlanPromise`), operators act in the
order of the dependencies and only in a run on record, a success is recorded of what has acted,
and a run row is written twice, the second time truly (`KeepsPromise`).

*Lease.* Who works without the lease, attended by a caller or not, has itself not renewed for a
TTL (`OnlyTheLateOverlap`); an abandoned lease is taken over (`Takeover`); an overtaken session
whose caller waits for it stops (`OvertakenStops`). One that its caller abandoned has no
heartbeat and does not: section 6.

*Outbox and memory.* Marked means delivered, dead means failed as often as allowed, and the
other way round for one worker (`FateIsEarned`, `DeadLetteredInTime`); one fate, for good, and
in the end (`SettledIsFinal`, `EventuallySettled`). A context that calls itself current misses
nothing up to its sequence, and its records are no older than that (`ContextIsHonest`).

*Planner.* The two budgets multiply to `MaxTransient * (MaxRepairs + 1)` calls (`CallsBounded`);
a row never lacks its file (`RowHasFile`); a plan id keeps its content (`PlanIdIsContent`);
`propose` ends (`ProposalEnds`).

*Admission.* A valid plan can be executed in the order in which it is written: each dependency
is the id of an earlier step, and no two steps share an id (`Executable`). `verify` takes two
snapshots and reads clock, registry, evidence and requests at other times, yet the requester of
a verdict it allows held everything the plan needs at one moment of the call, and so did the
planner (`AllowedWasJustified`); with grants looked up step by step, as one might refactor it,
that fails. The two moments may differ, section 6. Asking for approvals never meets an operator
it does not know, and a session that waits has a request for each governed step
(`WaitsForRequests`); the slower of two inserts does not undo a decision (`RequestNeverReset`).

*Start-up.* A store opened where there was nothing is complete, although another process was or
died in the middle of creating it; one that had tables and no version is never opened, and one
that had a version is opened as it came, unchecked (`OpenIsComplete`). A database with tables,
without a version, and with no living creator is never written to, not even in its header; the
tables and the version of one that has a version stay what they are (`LeftAlone`); a backup made
without company holds what was refused, a log included (`LoneBackupIsComplete`); whoever creates
the first table finishes, since everybody else fails at their first (`SchemaGetsDone`).

*Artifacts.* Names in the store are whole files, and right unless the source changed between the
two reads (`StoreHoldsWhatItNames`); a recorded success lacks none of its artifacts
(`SuccessHasItsArtifacts`).

### Fairness

| Module | Assumed | Because |
| --- | --- | --- |
| `SessionLoop` | weak fairness of the tasks' own steps together | the event loop and the thread pool run on, `propose` is bounded (`ProposalEnds`) and runs end (`RunsEnd`); that `retrieve`, which has no timeout (`memory.py:110`), ends is the projection's duty; nothing is assumed of people, cancels, resumes or checkpoints |
| `PlanExecution` | weak fairness of each run's coroutine, timeout included | `asyncio.wait_for` fires, SIGKILL ends a process; nothing of the workers |
| `CoordinatorLease` | time passes, the heartbeats of sessions that have their callers fire, runtimes in `Kept` are constructed again and again | the heartbeat is a timer of the waiting caller (`langgraph_runtime.py:287-292`); a supervisor restarts a deployment. Sessions need not end, and abandoned ones have no heartbeat |
| `ProjectionOutbox` | each drain goes on, delays pass | this is the caller's duty: nothing in the repository but its tests calls `drain_once` |
| `Planning` | `propose` goes on | the gateway has a timeout |
| `StoreStartup` | each start goes on | `__init__` is straight-line code, and SQLite's waits end at `busy_timeout` (a wait that ends in an error is `StatementFails`) |

`PlanAdmission` and `ArtifactStore` promise nothing in the end and assume nothing.

## 5. What is proved

Each proof module extends its component (`ExecutionProofs` extends two, whose names therefore
differ: `Spec` and `LeaseSpec`); assumptions are the named `ASSUME`s of the component
(`SessionConstants`, `ApprovalConstants`, `ExecutionConstants`, `LeaseConstants`,
`OutboxConstants`, `PlanningConstants`, `StartupConstants`, `AdmissionConstants`,
`ArtifactConstants`), which TLC evaluates on each run, and what a theorem states itself.

* `SessionLoopProofs`, any plans, approvers, number of resumes, cancels and changes of
  authority: every safety property of the run. The frame lemmas come first: `ControlStep` says
  that cancel, resume, a lost lease, a crash and a change of authority leave a task where it
  was, end it, or start it from the checkpoint; the `...Effect` lemmas say what each step makes
  of the task that takes it. `TypeCorrect` needs `OwnRun`: a running task has a run row of its
  own, open until the run ends. On top of that each property has its own strengthening.
  `RunsWereApproved`: an open gate has a signer (`GateSigned`), and a task whose authorization
  found nothing has seen its gate open (`Cleared`), which is stable although the gate may be
  voided. `RunsWereEntitled`: between the start of the execute node and its run a task is
  entitled as long as the grant stands (`EntitledSoFar`). `RunsAreAudited`: what each task and
  the checkpoint hold is on record (`Accounted`), so a replay from an old checkpoint cannot
  refer to what the ledger lacks. `StatusIsExplained` follows from the same invariant and from
  the fact that a run's end never changes. `CancelIsFinal`: after such a cancel every task is
  over, or detached in a thread or in a run that has begun (`AllSpent`); no such task starts a
  run.
* `ApprovalsProofs`. `TypeCorrect` and `DutiesSeparated` for any number of concurrent callers:
  the inductive part is that no recorded decision is the requester's and that each carries the
  snapshot it was made under; a snapshot that still matches has the same grants
  (`StandingIsBacked`), so that who stands now is backed by the grant they decided under.
  `LedgerDecides`, `DenialAlwaysBlocks`, `DeniedForGood` for one caller at a time: the published
  status is not inductive, because nothing is known of the verdict a call is about to publish;
  `LedgerInv` adds that what a call read first is still in the row. `WithdrawnForGood`:
  `PastInv` says that grants only move forward through their stages, so that a snapshot that
  stopped matching never matches again. `VerdictIsOfOneInstant`: `CheckInv` relates the
  approvers counted so far to those who stood when the request was read.
* The refinement, also in `ApprovalsProofs`: `GateIsImplemented` (`ImplementsGate`) for one
  caller and one deployment (`OneDeployment`: the starts of the process agree on the policy
  version, on the registered risks and, if a subject has a set field of two members, on its
  order). As long as the rows and decisions of the requests are not written, gates can only
  close (`GateMoves` and `GatesClose`: for grants, time, restarts and the verifier); of the
  steps that write them, `SaveApproval` is a signature or the refusal, in vain if the gate has
  lapsed since the checks, `Publish` opens the gate or comes too late (`OpenTooLate`), and a new
  request changes nothing to be seen. `RiskInv` says that the number of signatures a request
  needs is the gate's `Required`. Both assumptions are needed: the two runs of section 6 show
  what happens without them. Two theorems say what of them is needed for what:
  `RestartsKeepApprovals` (if no set can be reordered, restarts keep approvals) and
  `CriticalStepsNeedTwo` (while risks stay, no critical step passes on one approval), each for
  any number of callers.
* `ExecutionProofs`, any plan, any number of runs, cancelled or crashing anywhere: every safety
  property of the run. `TypeCorrect`, `RowsCoverWorkers`, `StepsStartOnSuccess` and
  `RunRowsAreExplained` hold for overlapping runs as well. The invariant `IInv` has a part of
  each run's own (`RunInv`): the step in hand has its row (`StepInHand`), of what is still to
  come there is nothing (`InOrder`), a step that stops a run is the last (`Stops`), rows say
  what the coroutine knows (`Covered`, `Opened`, `Explained`), and a step that the run has
  passed (`Past`) has no worker left and is RUNNING only if its result file says so. A step of
  one run leaves those of the others alone (`SameRunKeeps`). And it has a part about all of
  them: what a run goes by is on record in some run (`SuccessOnRecord`), and such a success has
  acted (`SuccessActed`). `SuccessesAreKept` is about runs that follow one another
  (`~Overlapping`, which the lease is to ensure): at most one is under way (`OneAtATime`), and
  the step in hand is not an idempotent one that has succeeded (`NotDoneYet`). With overlapping
  runs it is false, section 6. `PromiseIsKept` is the refinement of `PlanPromise`
  (`KeepsPromise`), for overlapping runs too. `Begun` (a run has its row from its start on, and
  nothing before it) makes every start an `Open`; `RowsAreInTurn` justifies an act, of a worker
  or of one killed while it is spawned, and a claim; `RunRowWrites`, `RecordedMoves` and
  `EffectsMove` say which step moves which part of the promise, so that the rest stutters.
* The lease, also in `ExecutionProofs`. `ClocksAgree`: while a runtime at work, for a caller or
  adrift, holds the lease, time since its renewal plus time left is at least TTL; otherwise it
  has gone TTL without renewing. It gives `OverlapIsLate` for any lateness. `InTime` says that
  the heartbeat of a session that has its caller is at most `MaxStall` late; with it, if no
  heartbeat is late by TTL - Period, `BusyRuntimesHold` (`BusyHolds`) and `SessionsExclude`
  (`Exclusive`) follow for such sessions. Of abandoned ones they are false.
* `ProjectionOutboxProofs`, any number of workers: attempts on a row, and those a worker has
  read, are at most the failures on record. Hence `TypeCorrect`, `MarkedAfterDelivery`,
  `DeadLettersAreEarned` and the two together, `FatesAreEarned`; the run checks one worker, the
  theorems are about any number. So is `ContextsAreHonest`: what a context was told at
  its first read (`AskedKnows`) stays true, since deliveries and sequence numbers only grow
  (`LedgerGrows`, `SequenceExists`). `DeadLettersAreInTime` and `FatesAreFinal` are about one
  worker (`OneWorker`), whose counts are then exact (`CountsAreExact`) and whose batch holds no
  row that has been settled (`BatchIsOpen`); with two, a stale count is written back, section 6.
* `PlanningProofs`, any budgets: `calls <= MaxTransient * repairs + transient` is inductive.
  Hence `TypeCorrect`, `CallsAreBounded`, `FilesPrecedeRows`, `PlanIdsAreImmutable`.

* `StoreStartupProofs`, any number of processes, starts and faults and any length of the script:
  every safety property of the run. The invariant says that the first table is the lock nobody
  wrote: whoever creates it is the only creator from then on (`OneCreator`), what is there is
  what it created (`CreatorsTables`) and was made in the order of the script (`MadeInOrder`), in
  WAL mode (`WrittenInWal`: so that another opener does not change the header under it), and a
  database that came with tables or a version stays as it came (`CameAndStays`). For the backup,
  who shared the path with nobody has seen what is there and left it in the main file
  (`AloneIsAlone`).
* `PlanAdmissionProofs`, any plans, tasks, operators and changes: every property of the run.
  Steps are of two kinds. The world moves on under the tasks (`Grows`): expiries, evidence and
  registrations only accumulate, and the histories are kept (`Watching`). Or one task moves
  (`Moves`). The heart is `Judged`: if a party never held all that the plan wants at one moment
  of the call, then a step still to be judged lacks a grant, or a finding says so; it is
  inductive because what a snapshot lacks it lacks for good. `PlansAreExecutable` needs a fact
  about finite sets: `validate_steps` compares the number of ids with that of steps, and a map
  onto a set of the same size is injective (`FS_SurjSameCardinalityImpliesInj`).
* `ArtifactStoreProofs`, any runs, paths and contents: both properties of the run, from what is
  known of the source while it is read (`SourceKnown`), of a finished copy (`CopyKnown`) and of
  the receipts so far (`ReceiptsStored`, `LeftAsItWas`).

Every safety and action property of a passing run is thus a theorem, under the assumptions
named. Only model-checked, because out of the prover's reach altogether: liveness under fairness
(`CallsEnd`, `RunsEnd`, `Takeover`, `OvertakenStops`, `EventuallySettled`, `ProposalEnds`,
`SchemaGetsDone`) and ENABLED; induction over data, which no module here needs.

## 6. Disagreements with the documentation

With a run of its own:

* `Approvals_race`: two `decide` calls at once publish approved over a denial ("A denial is
  terminal for that plan revision", `_architecture/06_GOVERNANCE.md:18-19`).
* `Approvals_reseeded`: the digest of a set depends on the process's hash seed, so a restart
  withdraws approvals (`tests/test_authority.py:99`, digests are order independent).

Stated as definitions, without a run. Each is an invariant unless noted, and TLC refutes it
within a minute under the constants given (the others as in the module's configurations; where
`N = 1` also `Typed = {}`):

* `CriticalNeedsTwo` (`Approvals`; `Boots <- RiskBoots`, `Grants <- OneGrantEach`): an operator
  raised to critical after its request was created runs on one approval.
* `AmbiguousExitReconciles` (`PlanExecution`; `N = 1`, `Shapes <- OneStep`, `Idempotent = {}`,
  one run): a non-idempotent step killed by its timeout leaves its run failed.
* `CancelledMeansStopped` (same, `Idempotent = {1}`): a second cancellation within the five
  seconds after SIGTERM leaves the worker alive.
* `SuccessIsKept` as a property with `Overlapping = TRUE`, two runs: the failure of one run
  replaces the success of the other.
* `Exclusive` (`CoordinatorLease`; `MaxStall = 4`) and `NoTrespass` (`MaxStall = 0`): a late
  heartbeat overlaps; `decide_approval` and `cancel` write without the lease.
* `ExclusiveWork` (`CoordinatorLease`; `TTL = 3`, `Period = 1`, `MaxStall = 0`): when the caller
  of `start` or `resume` is cancelled, `_with_heartbeat` ends the heartbeat and leaves the
  session's task running; after the TTL another runtime takes the lease and works beside it,
  though no heartbeat is ever late (`langgraph_runtime.py:295-313`; "A renewable
  single-coordinator lease prevents two local runtimes from advancing authority state at once",
  `01_ARCHITECTURE.md:33-35`).
* `DeadLetteredInTime` (`ProjectionOutbox`; two workers): a stale count is written back.
* `EveryCallRecorded` (`Planning`; `MaxReplays = 0`): a response without choices leaves
  `propose` unrecorded.
* `LatestIsCurrent` (`SessionLoop`, as a property): an approval lapses after it allowed a plan;
  the new verdict equals the one from before the approval and is not recorded, so
  `latest_decision` still allows the plan ("changed authority state creates a different
  decision", `04_EXECUTION.md:14-15`).
* `NeverRetried` (`PlanExecution`, as a property; `N = 1`, `Shapes <- OneStep`, `Idempotent =
  {}`): a replayed execute node starts a non-idempotent step again ("never retried
  automatically", `04_EXECUTION.md:23-24`).
* `ReplayIsIdempotent` (`Planning`): a replayed plan node records a second plan ("plans ... are
  idempotently recorded", `01_ARCHITECTURE.md:39-40`).
* `BackupHoldsEvidence` (`StoreStartup`): the copy is of the main file alone, so with another
  process connected it may lack the tables that made the start refuse ("creates a private
  evidence backup", `08_MIGRATION.md:10-11`).
* `RestartGetsOn` (same, as a property): after a crash between two statements of the script no
  start succeeds again; the store has to be removed by hand.
* `ReturnedIdsExist` (`PlanAdmission`): of two tasks that ask at once, the slower interrupts
  with the id of a request that was not inserted.
* `WaitIsAnswerable` (same): a request that expired or whose approval was withdrawn is returned
  as it is, and the session waits for a decision nobody can make.
* `AllowedAtOneMoment` (same): the requester's grants are read first; they may be revoked before
  the planner's are issued and read, and the plan is allowed although the two never held their
  authority at the same time (`policy.py:96`, `100`).
* `OpenHasSchema` (`StoreStartup`): a database that carries our version, or a negative one, is
  opened whatever its tables are.
* `NewerNotWritten` (same, as a property): the header of a newer database is switched to WAL
  mode before the database is refused (`ledger.py:65`, `97`, `103-104`).
* `ReceiptLeadsToContent` (`ArtifactStore`): a survivor of one run writes between the two reads,
  and what is then stored under the digest is taken for the artifact of every other run that
  produced that digest ("content-addressed artifact store", `04_EXECUTION.md:19-20`).

## 7. What is not modelled, and why

* Ed25519 signatures, payload digests, permission checks of the facade: a rejected call changes
  nothing but, at most, a used nonce.
* Exploration policy: a pure function from a memory context to suggestions for the prompt.
* Built-in operators: `ArtifactStore` starts from what the two that write artifacts leave, and
  `PlanExecution` lets an operator do anything. The sandbox limits are operating-system calls.
* File and directory modes, path resolution (a path is fit or unfit), `:memory:` stores.
* Reads that serve displays: sessions and run summaries by project, specs of the registry.
* LangGraph, SQLite, LiteLLM and Graphiti are external: modelled from how the code uses them (a
  checkpoint after a node returned, written in the background; atomic transactions; a model that
  answers anything; a projection that may act and fail).
* In `SessionLoop` a restart does not change digests (see `Restart` in `Approvals`), and one
  gate stands for all governed steps of a plan.

## 8. Plan

1. Done: `ApprovalGate`, `Approvals` and the refinement; `PlanPromise`, which `PlanExecution`
   implements; `CoordinatorLease`, `ProjectionOutbox`, `Planning`, `SessionLoop`,
   `StoreStartup`, `PlanAdmission`, `PlanExecution` and `ArtifactStore`, all with proofs of
   their safety properties.
2. Extend the model: a composition of `SessionLoop` with `PlanExecution` (a run's row as the
   abstract run, `PlanPromise` in between).
3. Prove: what of the approval properties several callers leave (which orders of two `decide`
   calls are harmless); that composition.
