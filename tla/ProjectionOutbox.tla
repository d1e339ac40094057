-------------------------- MODULE ProjectionOutbox --------------------------
(***************************************************************************)
(* The transactional outbox of services/ledger.py, the ProjectionWorker    *)
(* that drains it into the semantic projection, and MemoryService.context, *)
(* which reads both (services/memory.py).                                  *)
(*                                                                         *)
(* A worker reads a batch of rows, attempts included, and only then works  *)
(* through it with an await per row: what it writes back was computed from *)
(* what the rows said when the batch was read.                             *)
(*                                                                         *)
(* The projection is outside the program.  It keeps an event under its     *)
(* event_id, so it is the set of events that it has; a call that raises    *)
(* may have been carried out all the same.  Every event here is one that   *)
(* a context reports: it belongs to an evidence or a run summary of the    *)
(* project, written in the event's own transaction.                        *)
(***************************************************************************)
EXTENDS Naturals, FiniteSets, FiniteSetsExt

CONSTANTS
  Workers,      \* concurrent calls of drain_once
  Limit,        \* drain_once(limit)
  MaxAttempts,  \* failures after which a row is dead-lettered (10)
  MaxEvents,    \* bound: events emitted
  MaxAborts     \* bound: drain_once calls cut short by a cancellation or a crash

ASSUME OutboxConstants ==
  /\ Limit \in Nat \ {0}
  /\ MaxAttempts \in Nat \ {0}
  /\ MaxEvents \in Nat
  /\ MaxAborts \in Nat

Events == 1 .. MaxEvents

VARIABLES
  last,       \* MAX(sequence): events 1 .. last exist
  attempts,   \* projection_outbox, per sequence
  due,        \*   next_attempt_at has come
  projected,  \*   projected_at IS NOT NULL
  dead,       \*   dead_lettered_at IS NOT NULL
  delivered,  \* events the projection has
  batch,      \* per worker: rows still to be dealt with, with the attempts read
  answer,     \* per worker: what project said of the first of them
  failed,     \* not in the code: failures recorded, counted up to MaxAttempts
  aborts,
  context     \* the MemoryService.context call under way, or the last one made

outbox == <<attempts, due, projected, dead>>
vars == <<last, outbox, delivered, batch, answer, failed, aborts, context>>

NoRows == [s \in {} |-> 0]

Init ==
  /\ last = 0
  /\ attempts = [s \in Events |-> 0]
  /\ due = [s \in Events |-> TRUE]
  /\ projected = [s \in Events |-> FALSE]
  /\ dead = [s \in Events |-> FALSE]
  /\ delivered = {}
  /\ batch = [w \in Workers |-> NoRows]
  /\ answer = [w \in Workers |-> "none"]
  /\ failed = [s \in Events |-> 0]
  /\ aborts = 0
  /\ context = [at |-> "idle", seq |-> 0, status |-> "none", beliefs |-> {}, upto |-> 0]

-----------------------------------------------------------------------------
(* AuthorityStore *)

\* _emit, in the transaction of the record the event is about.
Emit ==
  /\ last < MaxEvents
  /\ last' = last + 1
  /\ UNCHANGED <<outbox, delivered, batch, answer, failed, aborts, context>>

\* Mutant of Eligible: rows that were projected count again.
EligibleProjected(s) == s <= last /\ ~dead[s] /\ due[s]

Eligible(s) == s <= last /\ ~projected[s] /\ ~dead[s] /\ due[s]

\* outbox_batch: the first Limit eligible rows, by sequence.
Batch ==
  LET rows == {s \in Events : Eligible(s)}
      first == {s \in rows : Cardinality({t \in rows : t < s}) < Limit}
  IN [s \in first |-> attempts[s]]

\* The delay after a failure has passed.
Delayed(s) ==
  /\ ~due[s]
  /\ due' = [due EXCEPT ![s] = TRUE]
  /\ UNCHANGED <<last, attempts, projected, dead, delivered, batch, answer, failed, aborts, context>>

-----------------------------------------------------------------------------
(* ProjectionWorker.drain_once *)

Draining(w) == DOMAIN batch[w] # {}

Begin(w) ==
  /\ ~Draining(w)
  /\ \E s \in Events : Eligible(s)
  /\ batch' = [batch EXCEPT ![w] = Batch]
  /\ UNCHANGED <<last, outbox, delivered, answer, failed, aborts, context>>

Row(w) == Min(DOMAIN batch[w])

\* await projection.project(envelope).
Project(w) ==
  /\ Draining(w)
  /\ answer[w] = "none"
  /\ \/ /\ answer' = [answer EXCEPT ![w] = "ok"]
        /\ delivered' = delivered \cup {Row(w)}
     \/ /\ answer' = [answer EXCEPT ![w] = "error"]
        /\ delivered' \in {delivered, delivered \cup {Row(w)}}
  /\ UNCHANGED <<last, outbox, batch, failed, aborts, context>>

NextRow(w) ==
  /\ batch' = [batch EXCEPT ![w] = [s \in DOMAIN @ \ {Row(w)} |-> @[s]]]
  /\ answer' = [answer EXCEPT ![w] = "none"]

\* Mutant of MarkProjected: the row is marked whatever project said.
MarkProjectedAnyway(w) ==
  /\ answer[w] # "none"
  /\ projected' = [projected EXCEPT ![Row(w)] = TRUE]
  /\ NextRow(w)
  /\ UNCHANGED <<last, attempts, due, dead, delivered, failed, aborts, context>>

MarkProjected(w) ==
  /\ answer[w] = "ok"
  /\ projected' = [projected EXCEPT ![Row(w)] = TRUE]
  /\ NextRow(w)
  /\ UNCHANGED <<last, attempts, due, dead, delivered, failed, aborts, context>>

\* Mutants of Fatal: one failure more, or less.
FatalLate(n) == n > MaxAttempts

FatalEarly(n) == n + 1 >= MaxAttempts

\* mark_projection_failed: attempts >= 10.
Fatal(n) == n >= MaxAttempts

\* Mutant of MarkFailed: the failure is not counted.
MarkFailedUncounted(w) ==
  LET n == batch[w][Row(w)] IN
  /\ answer[w] = "error"
  /\ attempts' = [attempts EXCEPT ![Row(w)] = n]
  /\ due' = [due EXCEPT ![Row(w)] = FALSE]
  /\ dead' = [dead EXCEPT ![Row(w)] = Fatal(n)]
  /\ failed' = [failed EXCEPT ![Row(w)] = Min({@ + 1, MaxAttempts})]
  /\ NextRow(w)
  /\ UNCHANGED <<last, projected, delivered, aborts, context>>

\* The row gets the count of the batch plus one, and dead_lettered_at is set anew.
MarkFailed(w) ==
  LET n == batch[w][Row(w)] + 1 IN
  /\ answer[w] = "error"
  /\ attempts' = [attempts EXCEPT ![Row(w)] = n]
  /\ due' = [due EXCEPT ![Row(w)] = FALSE]
  /\ dead' = [dead EXCEPT ![Row(w)] = Fatal(n)]
  /\ failed' = [failed EXCEPT ![Row(w)] = Min({@ + 1, MaxAttempts})]
  /\ NextRow(w)
  /\ UNCHANGED <<last, projected, delivered, aborts, context>>

\* The worker's task is cancelled in project (CancelledError is no Exception), or its
\* process dies anywhere: nothing is marked, and the rest of the batch is dropped.
Abort(w) ==
  /\ Draining(w)
  /\ aborts < MaxAborts
  /\ aborts' = aborts + 1
  /\ batch' = [batch EXCEPT ![w] = NoRows]
  /\ answer' = [answer EXCEPT ![w] = "none"]
  /\ \/ UNCHANGED delivered
     \/ answer[w] = "none" /\ delivered' = delivered \cup {Row(w)}
  /\ UNCHANGED <<last, outbox, failed, context>>

-----------------------------------------------------------------------------
(* MemoryService.context *)

Existing == 1 .. last

\* Mutant of Status: dead letters are not looked at.
StatusIgnoringDead ==
  IF \E s \in Existing : ~projected[s] /\ ~dead[s] THEN "lagging" ELSE "current"

\* projection_health, one query.
Status ==
  IF \E s \in Existing : dead[s] THEN "degraded"
  ELSE IF \E s \in Existing : ~projected[s] THEN "lagging"
  ELSE "current"

Ask ==
  /\ context.at = "idle"
  /\ context' = [at |-> "asked", seq |-> last, status |-> Status, beliefs |-> {}, upto |-> 0]
  /\ UNCHANGED <<last, outbox, delivered, batch, answer, failed, aborts>>

\* The projection answers with beliefs drawn from what it has, or fails.
Retrieve ==
  /\ context.at = "asked"
  /\ \/ context' = [context EXCEPT !.at = "retrieved", !.beliefs = delivered]
     \/ context' = [context EXCEPT !.at = "retrieved", !.status = "degraded"]
  /\ UNCHANGED <<last, outbox, delivered, batch, answer, failed, aborts>>

\* Mutant of ReadRecords: authoritative_sequence is computed last, after another
\* transaction had time to commit.
ReadRecordsFirst ==
  /\ context.at = "retrieved"
  /\ \E n \in last .. MaxEvents :
       context' = [context EXCEPT !.at = "made", !.upto = last, !.seq = n]
  /\ UNCHANGED <<last, outbox, delivered, batch, answer, failed, aborts>>

\* evidence and run_summaries, from the ledger.
ReadRecords ==
  /\ context.at = "retrieved"
  /\ context' = [context EXCEPT !.at = "made", !.upto = last]
  /\ UNCHANGED <<last, outbox, delivered, batch, answer, failed, aborts>>

Return ==
  /\ context.at = "made"
  /\ context' = [at |-> "idle", seq |-> 0, status |-> "none", beliefs |-> {}, upto |-> 0]
  /\ UNCHANGED <<last, outbox, delivered, batch, answer, failed, aborts>>

-----------------------------------------------------------------------------
Drain(w) == Begin(w) \/ Project(w) \/ MarkProjected(w) \/ MarkFailed(w)

Context == Ask \/ Retrieve \/ ReadRecords \/ Return

Next ==
  \/ Emit
  \/ \E w \in Workers : Drain(w) \/ Abort(w)
  \/ \E s \in Events : Delayed(s)
  \/ Context

Spec == Init /\ [][Next]_vars

\* Whoever owns the worker calls drain_once again and again, calls of project end,
\* and time passes.  The projection may fail every time.
FairSpec ==
  /\ Spec
  /\ \A w \in Workers : WF_vars(Drain(w))
  /\ \A s \in Events : WF_vars(Delayed(s))

-----------------------------------------------------------------------------
(* Properties. *)

Rows == UNION {[S -> 0 .. MaxAttempts - 1] : S \in SUBSET Events}

Contexts == [at : {"idle", "asked", "retrieved", "made"},
             seq : 0 .. MaxEvents, upto : 0 .. MaxEvents,
             status : {"none", "current", "lagging", "degraded"},
             beliefs : SUBSET Events]

\* Every variable has its type; in particular no live row is ever read that has
\* already used up its attempts.
TypeOK ==
  /\ last \in 0 .. MaxEvents
  /\ attempts \in [Events -> 0 .. MaxAttempts]
  /\ due \in [Events -> BOOLEAN]
  /\ projected \in [Events -> BOOLEAN]
  /\ dead \in [Events -> BOOLEAN]
  /\ delivered \subseteq Events
  /\ batch \in [Workers -> Rows]
  /\ answer \in [Workers -> {"none", "ok", "error"}]
  /\ failed \in [Events -> 0 .. MaxAttempts]
  /\ aborts \in 0 .. MaxAborts
  /\ context \in Contexts

\* An event is marked projected only when the projection has it, whatever is aborted
\* between the call and the mark and however many workers drain at once.
MarkedIsDelivered == \A s \in Events : projected[s] => s \in delivered

\* No event is given up early: a dead letter has failed MaxAttempts times, on record,
\* even if workers write back stale counts over each other's.
DeadLetterIsEarned == \A s \in Events : dead[s] => failed[s] = MaxAttempts

\* The fate on record has been earned, whichever it is.
FateIsEarned == MarkedIsDelivered /\ DeadLetterIsEarned

\* "dead-letters after ten failed deliveries" (02_MEMORY.md:18-19): an event is dead
\* once that many failures have been recorded.
DeadLetteredInTime == \A s \in Events : failed[s] = MaxAttempts => dead[s]

\* What has been settled is left alone: an event is projected or dead-lettered, never
\* both, neither fate is taken back, and the row is not offered to the projection again.
SettledIsFinal ==
  [][\A s \in Events : projected[s] \/ dead[s] =>
       /\ projected'[s] = projected[s]
       /\ dead'[s] = dead[s]
       /\ \A w \in Workers : answer'[w] # "none" /\ Row(w) = s => answer[w] # "none"]_vars

\* Every event is settled in the end, although any call may fail and a row that keeps
\* failing stands before the others in every batch.
EventuallySettled ==
  \A s \in Events : s <= last ~> projected[s] \/ dead[s]

\* A context that calls the projection current was answered by a projection that had
\* every event up to its authoritative_sequence.
CurrentIsComplete ==
  context.at \in {"retrieved", "made"} /\ context.status = "current" =>
    1 .. context.seq \subseteq context.beliefs

\* The records in a context are at least as recent as the sequence it states: a plan
\* cites no authoritative_sequence whose evidence the planner was not shown.
RecordsCoverSequence == context.at = "made" => context.seq <= context.upto

\* A context claims no more than it holds: of the projection, and of the ledger.
ContextIsHonest == CurrentIsComplete /\ RecordsCoverSequence
=============================================================================
