----------------------- MODULE ProjectionOutboxProofs -----------------------
(***************************************************************************)
(* Theorems about ProjectionOutbox, for any number of workers and events,  *)
(* any batch size and any number of attempts and aborts.                   *)
(***************************************************************************)
EXTENDS ProjectionOutbox, WellFoundedInduction, TLAPS

-----------------------------------------------------------------------------
(* Min *)

LEMMA MinIsLeast ==
  ASSUME NEW S \in SUBSET Nat, S # {}
  PROVE  Min(S) \in S
<1>1. PICK x \in S : \A y \in S : ~(<<y, x>> \in OpToRel(<, Nat))
  BY NatLessThanWellFounded, WFMin
<1>2. \A y \in S : ~(y < x)
  BY <1>1 DEF OpToRel
<1>3. \A y \in S : x =< y
  BY <1>2
<1> QED
  BY <1>3 DEF Min

LEMMA MinOfTwo ==
  ASSUME NEW a \in Nat, NEW b \in Nat
  PROVE  Min({a, b}) = IF a <= b THEN a ELSE b
<1>1. \A x \in {a, b} : (\A y \in {a, b} : x =< y) <=> x = IF a <= b THEN a ELSE b
  OBVIOUS
<1>2. \E x \in {a, b} : \A y \in {a, b} : x =< y
  BY <1>1
<1> QED
  BY <1>1, <1>2 DEF Min

-----------------------------------------------------------------------------
(* The inductive invariant.  A worker with an answer in hand has the row it  *)
(* is about; an answer "ok" means that the projection has the event; the     *)
(* attempts on a row, and those a worker has read from it, are at most the   *)
(* failures on record; a row is dead exactly when its attempts are used up.  *)

AnswerHasRow == \A w \in Workers : answer[w] # "none" => Draining(w)

OkIsDelivered == \A w \in Workers : answer[w] = "ok" => Row(w) \in delivered

CountsAreEarned ==
  /\ \A s \in Events : attempts[s] <= failed[s]
  /\ \A w \in Workers : \A s \in DOMAIN batch[w] : batch[w][s] <= failed[s]

DeadIsSpent == \A s \in Events : dead[s] <=> attempts[s] = MaxAttempts

Inv == TypeOK /\ AnswerHasRow /\ OkIsDelivered /\ CountsAreEarned /\ DeadIsSpent /\ MarkedIsDelivered

\* What the invariant says of one worker's batch.
LEMMA BatchFacts ==
  ASSUME TypeOK, NEW w \in Workers
  PROVE  /\ DOMAIN batch[w] \subseteq Events
         /\ \A s \in DOMAIN batch[w] : batch[w][s] \in 0 .. MaxAttempts - 1
         /\ Draining(w) => Row(w) \in DOMAIN batch[w] /\ Row(w) \in Events
<1>1. batch[w] \in Rows
  BY DEF TypeOK
<1>2. PICK S \in SUBSET Events : batch[w] \in [S -> 0 .. MaxAttempts - 1]
  BY <1>1 DEF Rows
<1>3. DOMAIN batch[w] \subseteq Events
  BY <1>2
<1>4. Draining(w) => Row(w) \in DOMAIN batch[w]
  BY <1>3, MinIsLeast DEF Draining, Row, Events
<1> QED
  BY <1>2, <1>3, <1>4

\* What is left of a batch, and what a new one holds, is a batch.
LEMMA RestIsRows ==
  ASSUME NEW b \in Rows, NEW r
  PROVE  [s \in DOMAIN b \ {r} |-> b[s]] \in Rows
<1>1. PICK S \in SUBSET Events : b \in [S -> 0 .. MaxAttempts - 1]
  BY DEF Rows
<1>2. [s \in S \ {r} |-> b[s]] \in [S \ {r} -> 0 .. MaxAttempts - 1]
  BY <1>1
<1>3. DOMAIN b = S
  BY <1>1
<1> QED
  BY <1>2, <1>3 DEF Rows

LEMMA NoRowsIsRows == NoRows \in Rows /\ DOMAIN NoRows = {}
<1>1. NoRows \in [{} -> 0 .. MaxAttempts - 1]
  BY DEF NoRows
<1> QED
  BY <1>1 DEF Rows, NoRows

LEMMA BatchIsRows ==
  ASSUME TypeOK, DeadIsSpent
  PROVE  /\ Batch \in Rows
         /\ \A s \in DOMAIN Batch : s \in Events /\ Batch[s] = attempts[s]
<1> DEFINE rows == {s \in Events : Eligible(s)}
           first == {s \in rows : Cardinality({t \in rows : t < s}) < Limit}
<1>1. Batch = [s \in first |-> attempts[s]]
  BY DEF Batch
<1>2. first \subseteq Events
  OBVIOUS
<1>3. ASSUME NEW s \in first PROVE attempts[s] \in 0 .. MaxAttempts - 1
  <2>1. s \in Events /\ ~dead[s]
    BY DEF Eligible
  <2>2. attempts[s] \in 0 .. MaxAttempts /\ attempts[s] # MaxAttempts
    BY <2>1 DEF TypeOK, DeadIsSpent
  <2> QED
    BY <2>2, OutboxConstants
<1>4. Batch \in [first -> 0 .. MaxAttempts - 1]
  BY <1>1, <1>3
<1> HIDE DEF first
<1> QED
  BY <1>1, <1>2, <1>4 DEF Rows

LEMMA InitInv == Init => Inv
<1> SUFFICES ASSUME Init PROVE Inv
  OBVIOUS
<1>1. TypeOK
  BY NoRowsIsRows, OutboxConstants DEF Init, TypeOK, Contexts, Events
<1>2. AnswerHasRow /\ OkIsDelivered /\ MarkedIsDelivered
  BY DEF Init, AnswerHasRow, OkIsDelivered, MarkedIsDelivered
<1>3. CountsAreEarned
  BY NoRowsIsRows DEF Init, CountsAreEarned
<1>4. DeadIsSpent
  BY OutboxConstants DEF Init, DeadIsSpent
<1> QED
  BY <1>1, <1>2, <1>3, <1>4 DEF Inv

-----------------------------------------------------------------------------
(* One lemma per step that touches a batch or a row.                         *)

LEMMA BeginKeeps ==
  ASSUME Inv, NEW w \in Workers, Begin(w)
  PROVE  Inv'
<1> USE DEF Inv
<1>1. /\ batch' = [batch EXCEPT ![w] = Batch] /\ ~Draining(w)
      /\ UNCHANGED <<last, outbox, delivered, answer, failed, aborts, context>>
  BY DEF Begin
<1>2. batch \in [Workers -> Rows]
  BY DEF TypeOK
<1>3. TypeOK'
  BY <1>1, <1>2, BatchIsRows DEF TypeOK, outbox, Existing
<1>4. answer[w] = "none"
  BY <1>1 DEF AnswerHasRow, TypeOK
<1>5. \A v \in Workers : v # w => batch'[v] = batch[v]
  BY <1>1, <1>2
<1>6. AnswerHasRow' /\ OkIsDelivered'
  BY <1>1, <1>4, <1>5 DEF AnswerHasRow, OkIsDelivered, Draining, Row
<1>7. batch'[w] = Batch
  BY <1>1, <1>2
<1>8. CountsAreEarned'
  BY <1>1, <1>5, <1>7, BatchIsRows DEF CountsAreEarned, outbox
<1>9. DeadIsSpent' /\ MarkedIsDelivered'
  BY <1>1 DEF DeadIsSpent, MarkedIsDelivered, outbox
<1> QED
  BY <1>3, <1>6, <1>8, <1>9

LEMMA ProjectKeeps ==
  ASSUME Inv, NEW w \in Workers, Project(w)
  PROVE  Inv'
<1> USE DEF Inv
<1>1. /\ Draining(w)
      /\ \/ answer' = [answer EXCEPT ![w] = "ok"] /\ delivered' = delivered \cup {Row(w)}
         \/ /\ answer' = [answer EXCEPT ![w] = "error"]
            /\ delivered' \in {delivered, delivered \cup {Row(w)}}
      /\ UNCHANGED <<last, outbox, batch, failed, aborts, context>>
  BY DEF Project
<1>2. Row(w) \in Events
  BY <1>1, BatchFacts
<1>3. answer \in [Workers -> {"none", "ok", "error"}] /\ delivered \subseteq Events
  BY DEF TypeOK
<1>4. TypeOK'
  BY <1>1, <1>2, <1>3 DEF TypeOK, outbox, Existing
<1>5. AnswerHasRow'
  BY <1>1, <1>3 DEF AnswerHasRow, Draining
<1>6. OkIsDelivered'
  BY <1>1, <1>3 DEF OkIsDelivered, Row
<1>7. CountsAreEarned' /\ DeadIsSpent' /\ MarkedIsDelivered'
  BY <1>1 DEF CountsAreEarned, DeadIsSpent, MarkedIsDelivered, outbox
<1> QED
  BY <1>4, <1>5, <1>6, <1>7

\* After a row has been marked: the rest of the batch is as it was.
LEMMA NextRowFacts ==
  ASSUME TypeOK, NEW w \in Workers, NextRow(w)
  PROVE  /\ batch' \in [Workers -> Rows]
         /\ answer' \in [Workers -> {"none", "ok", "error"}]
         /\ answer'[w] = "none"
         /\ \A v \in Workers : v # w => batch'[v] = batch[v] /\ answer'[v] = answer[v]
         /\ \A v \in Workers : \A s \in DOMAIN batch'[v] :
              s \in DOMAIN batch[v] /\ batch'[v][s] = batch[v][s]
<1>1. batch \in [Workers -> Rows] /\ answer \in [Workers -> {"none", "ok", "error"}]
  BY DEF TypeOK
<1> DEFINE rest == [s \in DOMAIN batch[w] \ {Row(w)} |-> batch[w][s]]
<1>2. rest \in Rows
  BY <1>1, RestIsRows
<1>3. batch' = [batch EXCEPT ![w] = rest] /\ answer' = [answer EXCEPT ![w] = "none"]
  BY DEF NextRow
<1>4. \A s \in DOMAIN rest : s \in DOMAIN batch[w] /\ rest[s] = batch[w][s]
  OBVIOUS
<1> HIDE DEF rest
<1> QED
  BY <1>1, <1>2, <1>3, <1>4

LEMMA MarkProjectedKeeps ==
  ASSUME Inv, NEW w \in Workers, MarkProjected(w)
  PROVE  Inv'
<1> USE DEF Inv
<1>1. /\ answer[w] = "ok" /\ projected' = [projected EXCEPT ![Row(w)] = TRUE] /\ NextRow(w)
      /\ UNCHANGED <<last, attempts, due, dead, delivered, failed, aborts, context>>
  BY DEF MarkProjected
<1>2. Row(w) \in Events /\ Row(w) \in delivered
  BY <1>1, BatchFacts DEF AnswerHasRow, OkIsDelivered
<1>3. TypeOK'
  <2>1. projected' \in [Events -> BOOLEAN]
    BY <1>1, <1>2 DEF TypeOK
  <2>2. batch' \in [Workers -> Rows] /\ answer' \in [Workers -> {"none", "ok", "error"}]
    BY <1>1, NextRowFacts
  <2> QED
    BY <1>1, <2>1, <2>2 DEF TypeOK, Existing
<1>4. AnswerHasRow' /\ OkIsDelivered'
  BY <1>1, NextRowFacts DEF AnswerHasRow, OkIsDelivered, Draining, Row
<1>5. CountsAreEarned'
  BY <1>1, NextRowFacts DEF CountsAreEarned
<1>6. DeadIsSpent'
  BY <1>1 DEF DeadIsSpent
<1>7. MarkedIsDelivered'
  BY <1>1, <1>2 DEF MarkedIsDelivered, TypeOK
<1> QED
  BY <1>3, <1>4, <1>5, <1>6, <1>7

LEMMA MarkFailedKeeps ==
  ASSUME Inv, NEW w \in Workers, MarkFailed(w)
  PROVE  Inv'
<1> USE DEF Inv
<1> DEFINE r == Row(w)
           n == batch[w][r] + 1
           m == Min({failed[r] + 1, MaxAttempts})
<1>1. /\ answer[w] = "error" /\ NextRow(w)
      /\ attempts' = [attempts EXCEPT ![r] = n]
      /\ due' = [due EXCEPT ![r] = FALSE]
      /\ dead' = [dead EXCEPT ![r] = Fatal(n)]
      /\ failed' = [failed EXCEPT ![r] = m]
      /\ UNCHANGED <<last, projected, delivered, aborts, context>>
  BY DEF MarkFailed
<1>2. r \in Events /\ r \in DOMAIN batch[w]
  BY <1>1, BatchFacts DEF AnswerHasRow
<1>3. n \in 1 .. MaxAttempts /\ n <= failed[r] + 1
  <2>1. batch[w][r] \in 0 .. MaxAttempts - 1
    BY <1>2, BatchFacts
  <2>2. batch[w][r] <= failed[r] /\ failed[r] \in Nat
    BY <1>2 DEF CountsAreEarned, TypeOK
  <2> QED
    BY <2>1, <2>2, OutboxConstants
<1>4. m \in 0 .. MaxAttempts /\ n <= m /\ failed[r] <= m
  <2>1. failed[r] \in 0 .. MaxAttempts
    BY <1>2 DEF TypeOK
  <2>2. m = IF failed[r] + 1 <= MaxAttempts THEN failed[r] + 1 ELSE MaxAttempts
    BY <2>1, OutboxConstants, MinOfTwo
  <2> HIDE DEF m, n, r
  <2> QED
    BY <1>3, <2>1, <2>2, OutboxConstants
<1>5. Fatal(n) \in BOOLEAN /\ (Fatal(n) <=> n = MaxAttempts)
  BY <1>3, OutboxConstants DEF Fatal
<1> HIDE DEF m, n, r
<1>6. TypeOK'
  <2>1. /\ attempts' \in [Events -> 0 .. MaxAttempts] /\ due' \in [Events -> BOOLEAN]
        /\ dead' \in [Events -> BOOLEAN] /\ failed' \in [Events -> 0 .. MaxAttempts]
    BY <1>1, <1>2, <1>3, <1>4, <1>5 DEF TypeOK
  <2>2. batch' \in [Workers -> Rows] /\ answer' \in [Workers -> {"none", "ok", "error"}]
    BY <1>1, NextRowFacts
  <2> QED
    BY <1>1, <2>1, <2>2 DEF TypeOK, Existing
<1>7. AnswerHasRow' /\ OkIsDelivered'
  BY <1>1, NextRowFacts DEF AnswerHasRow, OkIsDelivered, Draining, Row
<1>8. CountsAreEarned'
  <2>1. failed \in [Events -> 0 .. MaxAttempts] /\ attempts \in [Events -> 0 .. MaxAttempts]
    BY DEF TypeOK
  <2>2. \A s \in Events : failed[s] <= failed'[s]
    BY <1>1, <1>2, <1>4, <2>1
  <2>3. \A s \in Events : attempts'[s] <= failed'[s]
    BY <1>1, <1>2, <1>4, <2>1 DEF CountsAreEarned
  <2>4. ASSUME NEW v \in Workers, NEW s \in DOMAIN batch'[v]
        PROVE  batch'[v][s] <= failed'[s]
    <3>1. s \in DOMAIN batch[v] /\ batch'[v][s] = batch[v][s]
      BY <1>1, <2>4, NextRowFacts
    <3>2. s \in Events /\ batch[v][s] \in 0 .. MaxAttempts - 1
      BY <3>1, BatchFacts
    <3>3. batch[v][s] <= failed[s]
      BY <3>1 DEF CountsAreEarned
    <3>4. failed[s] \in Nat /\ failed'[s] \in Nat
      BY <1>1, <1>2, <1>4, <2>1, <3>2
    <3> QED
      BY <2>2, <3>1, <3>2, <3>3, <3>4, OutboxConstants
  <2> QED
    BY <2>3, <2>4 DEF CountsAreEarned
<1>9. DeadIsSpent'
  BY <1>1, <1>2, <1>5 DEF DeadIsSpent, TypeOK
<1>10. MarkedIsDelivered'
  BY <1>1 DEF MarkedIsDelivered
<1> QED
  BY <1>6, <1>7, <1>8, <1>9, <1>10

LEMMA AbortKeeps ==
  ASSUME Inv, NEW w \in Workers, Abort(w)
  PROVE  Inv'
<1> USE DEF Inv
<1>1. /\ Draining(w) /\ aborts < MaxAborts /\ aborts' = aborts + 1
      /\ batch' = [batch EXCEPT ![w] = NoRows] /\ answer' = [answer EXCEPT ![w] = "none"]
      /\ delivered' \in {delivered, delivered \cup {Row(w)}}
      /\ UNCHANGED <<last, outbox, failed, context>>
  BY DEF Abort
<1>2. Row(w) \in Events
  BY <1>1, BatchFacts
<1>3. batch \in [Workers -> Rows] /\ answer \in [Workers -> {"none", "ok", "error"}]
  BY DEF TypeOK
<1>4. TypeOK'
  <2>1. batch' \in [Workers -> Rows] /\ answer' \in [Workers -> {"none", "ok", "error"}]
    BY <1>1, <1>3, NoRowsIsRows
  <2>2. aborts' \in 0 .. MaxAborts
    BY <1>1, OutboxConstants DEF TypeOK
  <2> QED
    BY <1>1, <1>2, <2>1, <2>2 DEF TypeOK, outbox, Existing
<1>5. \A v \in Workers : v # w => batch'[v] = batch[v] /\ answer'[v] = answer[v]
  BY <1>1, <1>3
<1>6. answer'[w] = "none" /\ batch'[w] = NoRows
  BY <1>1, <1>3
<1>7. AnswerHasRow' /\ OkIsDelivered'
  BY <1>1, <1>5, <1>6 DEF AnswerHasRow, OkIsDelivered, Draining, Row
<1>8. CountsAreEarned'
  BY <1>1, <1>5, <1>6, NoRowsIsRows DEF CountsAreEarned, outbox
<1>9. DeadIsSpent' /\ MarkedIsDelivered'
  BY <1>1 DEF DeadIsSpent, MarkedIsDelivered, outbox
<1> QED
  BY <1>4, <1>7, <1>8, <1>9

-----------------------------------------------------------------------------
LEMMA OtherStepsKeep ==
  ASSUME Inv, Emit \/ Context \/ UNCHANGED vars \/ \E s \in Events : Delayed(s)
  PROVE  Inv'
<1> USE DEF Inv
<1>1. UNCHANGED <<attempts, projected, dead, delivered, batch, answer, failed, aborts>>
  BY DEF Emit, Context, Ask, Retrieve, ReadRecords, Return, Delayed, vars, outbox
<1>2. due' \in [Events -> BOOLEAN]
  BY DEF TypeOK, Emit, Context, Ask, Retrieve, ReadRecords, Return, Delayed, vars, outbox
<1>3. last' \in 0 .. MaxEvents
  BY OutboxConstants
     DEF TypeOK, Emit, Context, Ask, Retrieve, ReadRecords, Return, Delayed, vars, outbox
<1>4. context' \in Contexts
  <2> USE DEF TypeOK, Contexts
  <2>1. CASE Ask \/ Return
    BY <2>1, OutboxConstants DEF Ask, Return, Status
  <2>2. CASE Retrieve \/ ReadRecords
    BY <2>2 DEF Retrieve, ReadRecords
  <2>3. CASE UNCHANGED context
    BY <2>3
  <2> QED
    BY <2>1, <2>2, <2>3 DEF Emit, Context, Delayed, vars
<1>5. TypeOK'
  BY <1>1, <1>2, <1>3, <1>4 DEF TypeOK
<1> QED
  BY <1>1, <1>5
     DEF AnswerHasRow, Draining, OkIsDelivered, Row, CountsAreEarned, DeadIsSpent,
         MarkedIsDelivered

LEMMA Invariant == Spec => []Inv
<1>1. Inv /\ [Next]_vars => Inv'
  <2> SUFFICES ASSUME Inv, [Next]_vars PROVE Inv'
    OBVIOUS
  <2>1. ASSUME NEW w \in Workers, Drain(w) PROVE Inv'
    BY <2>1, BeginKeeps, ProjectKeeps, MarkProjectedKeeps, MarkFailedKeeps DEF Drain
  <2>2. ASSUME NEW w \in Workers, Abort(w) PROVE Inv'
    BY <2>2, AbortKeeps
  <2> QED
    BY <2>1, <2>2, OtherStepsKeep DEF Next
<1> QED
  BY InitInv, <1>1, PTL DEF Spec

-----------------------------------------------------------------------------
\* Every variable keeps its type; in particular no worker ever counts past
\* MaxAttempts.
THEOREM TypeCorrect == Spec => []TypeOK
<1>1. Inv => TypeOK
  BY DEF Inv
<1> QED
  BY <1>1, Invariant, PTL

\* However many workers drain the outbox, and wherever they are cut short, no event
\* is marked projected that the projection does not have.
THEOREM MarkedAfterDelivery == Spec => []MarkedIsDelivered
<1>1. Inv => MarkedIsDelivered
  BY DEF Inv
<1> QED
  BY <1>1, Invariant, PTL

\* However many workers write their counts over each other's, no event is
\* dead-lettered before MaxAttempts failures have been recorded.
THEOREM DeadLettersAreEarned == Spec => []DeadLetterIsEarned
<1>1. Inv => DeadLetterIsEarned
  <2> SUFFICES ASSUME Inv, NEW s \in Events, dead[s] PROVE failed[s] = MaxAttempts
    BY DEF DeadLetterIsEarned
  <2>1. attempts[s] = MaxAttempts /\ attempts[s] <= failed[s]
    BY DEF Inv, DeadIsSpent, CountsAreEarned
  <2>2. failed[s] \in 0 .. MaxAttempts
    BY DEF Inv, TypeOK
  <2> QED
    BY <2>1, <2>2, OutboxConstants
<1> QED
  BY <1>1, Invariant, PTL

\* Both: however many workers there are, the fate on record has been earned.
THEOREM FatesAreEarned == Spec => []FateIsEarned
<1>1. MarkedIsDelivered /\ DeadLetterIsEarned => FateIsEarned
  BY DEF FateIsEarned
<1> QED
  BY <1>1, MarkedAfterDelivery, DeadLettersAreEarned, PTL
-----------------------------------------------------------------------------
(* Contexts.  Between its two reads of the ledger a context relies on events *)
(* staying delivered and on sequence numbers only growing.                   *)

AskedKnows ==
  context.at = "asked" /\ context.status = "current" => 1 .. context.seq \subseteq delivered

SequenceExists == context.seq <= last

ContextInv == AskedKnows /\ SequenceExists /\ ContextIsHonest

\* Whatever happens, what the projection has it keeps, and sequence numbers grow.
LEMMA LedgerGrows ==
  ASSUME TypeOK, [Next]_vars
  PROVE  /\ delivered \subseteq delivered'
         /\ last \in Nat /\ last' \in Nat /\ last <= last'
         /\ context' = context \/ Context
<1>1. last \in Nat
  BY DEF TypeOK
<1>2. CASE Emit
  BY <1>1, <1>2 DEF Emit
<1>3. CASE Context
  BY <1>1, <1>3 DEF Context, Ask, Retrieve, ReadRecords, Return
<1>4. ASSUME NEW w \in Workers, Drain(w) \/ Abort(w)
      PROVE  delivered \subseteq delivered' /\ UNCHANGED <<last, context>>
  BY <1>4 DEF Drain, Begin, Project, MarkProjected, MarkFailed, Abort
<1>5. ASSUME NEW s \in Events, Delayed(s) PROVE UNCHANGED <<last, delivered, context>>
  BY <1>5 DEF Delayed
<1>6. CASE UNCHANGED vars
  BY <1>1, <1>6 DEF vars
<1> QED
  BY <1>1, <1>2, <1>3, <1>4, <1>5, <1>6 DEF Next

LEMMA ContextKeeps == Inv /\ ContextInv /\ [Next]_vars => ContextInv'
<1> SUFFICES ASSUME Inv, ContextInv, [Next]_vars PROVE ContextInv'
  OBVIOUS
<1> USE DEF ContextInv
<1>0. TypeOK /\ MarkedIsDelivered
  BY DEF Inv
<1>1. /\ delivered \subseteq delivered'
      /\ last \in Nat /\ last' \in Nat /\ last <= last'
      /\ context' = context \/ Context
  BY <1>0, LedgerGrows
<1>2. context \in Contexts /\ context.seq \in Nat
  BY <1>0 DEF TypeOK, Contexts
<1>3. CASE context' = context
  BY <1>1, <1>2, <1>3
     DEF AskedKnows, SequenceExists, ContextIsHonest, CurrentIsComplete, RecordsCoverSequence
<1>4. CASE Ask
  <2>1. /\ context'.at = "asked" /\ context'.seq = last /\ context'.status = Status
        /\ UNCHANGED <<last, delivered>>
    BY <1>4 DEF Ask
  <2>2. ASSUME Status = "current" PROVE 1 .. last \subseteq delivered
    <3>1. \A s \in Existing : projected[s]
      BY <2>2 DEF Status
    <3>2. Existing \subseteq Events
      BY <1>0, OutboxConstants DEF TypeOK, Existing, Events
    <3> QED
      BY <1>0, <3>1, <3>2 DEF MarkedIsDelivered, Existing
  <2> QED
    BY <1>1, <2>1, <2>2
       DEF AskedKnows, SequenceExists, ContextIsHonest, CurrentIsComplete, RecordsCoverSequence
<1>5. CASE Retrieve
  <2>1. /\ context.at = "asked" /\ context'.at = "retrieved" /\ context'.seq = context.seq
        /\ \/ context'.status = context.status /\ context'.beliefs = delivered
           \/ context'.status = "degraded"
        /\ UNCHANGED <<last, delivered>>
    BY <1>2, <1>5 DEF Retrieve, Contexts
  <2> QED
    BY <2>1
       DEF AskedKnows, SequenceExists, ContextIsHonest, CurrentIsComplete, RecordsCoverSequence
<1>6. CASE ReadRecords
  <2>1. /\ context.at = "retrieved" /\ context'.at = "made" /\ context'.seq = context.seq
        /\ context'.status = context.status /\ context'.beliefs = context.beliefs
        /\ context'.upto = last
        /\ UNCHANGED <<last, delivered>>
    BY <1>2, <1>6 DEF ReadRecords, Contexts
  <2> QED
    BY <2>1
       DEF AskedKnows, SequenceExists, ContextIsHonest, CurrentIsComplete, RecordsCoverSequence
<1>7. CASE Return
  <2>1. context'.at = "idle" /\ context'.seq = 0
    BY <1>7 DEF Return
  <2> QED
    BY <1>1, <2>1
       DEF AskedKnows, SequenceExists, ContextIsHonest, CurrentIsComplete, RecordsCoverSequence
<1> QED
  BY <1>1, <1>3, <1>4, <1>5, <1>6, <1>7 DEF Context

\* However many workers drain the outbox while it is made: a context that calls the
\* projection current holds every event up to its sequence, and its records are at
\* least as recent as that.
THEOREM ContextsAreHonest == Spec => []ContextIsHonest
<1>1. Init => ContextInv
  BY DEF Init, ContextInv, AskedKnows, SequenceExists, ContextIsHonest, CurrentIsComplete,
         RecordsCoverSequence
<1>2. Spec => []ContextInv
  BY <1>1, ContextKeeps, Invariant, PTL DEF Spec
<1>3. ContextInv => ContextIsHonest
  BY DEF ContextInv
<1> QED
  BY <1>2, <1>3, PTL

-----------------------------------------------------------------------------
(* One worker at a time.  What a batch says of a row is then what the row     *)
(* says: no failure is lost, and no row in a batch has been settled.          *)

OneWorker == \A v, w \in Workers : v = w

CountsAreExact ==
  /\ \A s \in Events : attempts[s] = failed[s]
  /\ \A w \in Workers : \A s \in DOMAIN batch[w] : batch[w][s] = failed[s]

BatchIsOpen ==
  \A w \in Workers : \A s \in DOMAIN batch[w] : ~projected[s] /\ ~dead[s]

SingleInv == CountsAreExact /\ BatchIsOpen

LEMMA BatchIsEligible == \A s \in DOMAIN Batch : s \in Events /\ Eligible(s)
  BY DEF Batch

\* The row a worker has dealt with is in no batch any more.
LEMMA RowIsDone ==
  ASSUME OneWorker, TypeOK, NEW w \in Workers, NextRow(w)
  PROVE  \A v \in Workers : Row(w) \notin DOMAIN batch'[v]
<1>1. batch' = [batch EXCEPT ![w] = [s \in DOMAIN batch[w] \ {Row(w)} |-> batch[w][s]]]
  BY DEF NextRow
<1>2. batch'[w] = [s \in DOMAIN batch[w] \ {Row(w)} |-> batch[w][s]]
  BY <1>1 DEF TypeOK
<1> QED
  BY <1>2 DEF OneWorker

LEMMA MarkFailedIsExact ==
  ASSUME OneWorker, Inv, SingleInv, NEW w \in Workers, MarkFailed(w)
  PROVE  SingleInv'
<1> USE DEF Inv, SingleInv
<1> DEFINE r == Row(w)
           n == batch[w][r] + 1
           m == Min({failed[r] + 1, MaxAttempts})
<1>1. /\ NextRow(w)
      /\ attempts' = [attempts EXCEPT ![r] = n]
      /\ dead' = [dead EXCEPT ![r] = Fatal(n)]
      /\ failed' = [failed EXCEPT ![r] = m]
      /\ UNCHANGED projected
  BY DEF MarkFailed
<1>2. r \in Events /\ r \in DOMAIN batch[w]
  BY BatchFacts DEF AnswerHasRow, MarkFailed
<1>3. n = m
  <2>1. batch[w][r] \in 0 .. MaxAttempts - 1 /\ batch[w][r] = failed[r]
    BY <1>2, BatchFacts DEF CountsAreExact
  <2>2. failed[r] + 1 <= MaxAttempts /\ failed[r] + 1 \in Nat
    BY <2>1, OutboxConstants
  <2>3. m = failed[r] + 1
    BY <2>2, OutboxConstants, MinOfTwo
  <2> QED
    BY <2>1, <2>3
<1> HIDE DEF m, n, r
<1>4. \A v \in Workers : \A s \in DOMAIN batch'[v] :
        s # r /\ s \in DOMAIN batch[v] /\ batch'[v][s] = batch[v][s]
  BY <1>1, RowIsDone, NextRowFacts DEF r
<1>5. /\ \A s \in Events : attempts'[s] = failed'[s]
      /\ \A s \in Events : s # r => failed'[s] = failed[s] /\ dead'[s] = dead[s]
  BY <1>1, <1>2, <1>3 DEF TypeOK, CountsAreExact
<1>6. \A v \in Workers : DOMAIN batch[v] \subseteq Events
  BY BatchFacts
<1>7. CountsAreExact'
  BY <1>4, <1>5, <1>6 DEF CountsAreExact
<1>8. BatchIsOpen'
  BY <1>1, <1>4, <1>5, <1>6 DEF BatchIsOpen
<1> QED
  BY <1>7, <1>8

LEMMA SingleKeeps ==
  ASSUME OneWorker, Inv, SingleInv, [Next]_vars
  PROVE  SingleInv'
<1> USE DEF Inv, SingleInv
<1>1. ASSUME NEW w \in Workers, Begin(w) PROVE SingleInv'
  <2>1. /\ batch' = [batch EXCEPT ![w] = Batch]
        /\ UNCHANGED <<attempts, failed, projected, dead>>
    BY <1>1 DEF Begin, outbox
  <2>2. batch'[w] = Batch /\ \A v \in Workers : v = w
    BY <2>1 DEF TypeOK, OneWorker
  <2>3. CountsAreExact'
    BY <2>1, <2>2, BatchIsRows DEF CountsAreExact
  <2>4. BatchIsOpen'
    BY <2>1, <2>2, BatchIsEligible DEF BatchIsOpen, Eligible
  <2> QED
    BY <2>3, <2>4
<1>2. ASSUME NEW w \in Workers, MarkProjected(w) PROVE SingleInv'
  <2>1. /\ NextRow(w) /\ projected' = [projected EXCEPT ![Row(w)] = TRUE]
        /\ UNCHANGED <<attempts, failed, dead>>
    BY <1>2 DEF MarkProjected
  <2>2. \A v \in Workers : \A s \in DOMAIN batch'[v] :
          s # Row(w) /\ s \in DOMAIN batch[v] /\ batch'[v][s] = batch[v][s]
    BY <2>1, RowIsDone, NextRowFacts
  <2>3. \A v \in Workers : DOMAIN batch[v] \subseteq Events
    BY BatchFacts
  <2>4. CountsAreExact'
    BY <2>1, <2>2 DEF CountsAreExact
  <2>5. BatchIsOpen'
    BY <2>1, <2>2, <2>3 DEF BatchIsOpen, TypeOK
  <2> QED
    BY <2>4, <2>5
<1>3. ASSUME NEW w \in Workers, Abort(w) PROVE SingleInv'
  <2>1. /\ batch' = [batch EXCEPT ![w] = NoRows]
        /\ UNCHANGED <<attempts, failed, projected, dead>>
    BY <1>3 DEF Abort, outbox
  <2>2. \A v \in Workers : DOMAIN batch'[v] = {}
    BY <2>1, NoRowsIsRows DEF TypeOK, OneWorker
  <2> QED
    BY <2>1, <2>2 DEF CountsAreExact, BatchIsOpen
<1>4. ASSUME \/ \E w \in Workers : Project(w)
             \/ Emit \/ Context \/ UNCHANGED vars \/ \E s \in Events : Delayed(s)
      PROVE  SingleInv'
  <2>1. UNCHANGED <<attempts, failed, projected, dead, batch>>
    BY <1>4 DEF Project, Emit, Context, Ask, Retrieve, ReadRecords, Return, Delayed, vars, outbox
  <2> QED
    BY <2>1 DEF CountsAreExact, BatchIsOpen
<1> QED
  BY <1>1, <1>2, <1>3, <1>4, MarkFailedIsExact DEF Next, Drain

LEMMA SingleHolds == OneWorker => (Spec => []SingleInv)
<1> SUFFICES ASSUME OneWorker PROVE Spec => []SingleInv
  OBVIOUS
<1>1. Init => SingleInv
  BY NoRowsIsRows DEF Init, SingleInv, CountsAreExact, BatchIsOpen
<1>2. Inv /\ SingleInv /\ [Next]_vars => SingleInv'
  BY SingleKeeps
<1> QED
  BY <1>1, <1>2, Invariant, PTL DEF Spec

\* With one worker at a time no failure is lost: an event is dead-lettered with its
\* MaxAttempts-th failure.
THEOREM DeadLettersAreInTime ==
  ASSUME OneWorker
  PROVE  Spec => []DeadLetteredInTime
<1>1. Inv /\ SingleInv => DeadLetteredInTime
  BY DEF Inv, SingleInv, CountsAreExact, DeadIsSpent, DeadLetteredInTime
<1> QED
  BY <1>1, SingleHolds, Invariant, PTL

\* With one worker at a time an event that has been settled is left alone for good.
THEOREM FatesAreFinal ==
  ASSUME OneWorker
  PROVE  Spec => SettledIsFinal
<1> DEFINE LeftAlone ==
      \A s \in Events : projected[s] \/ dead[s] =>
        /\ projected'[s] = projected[s]
        /\ dead'[s] = dead[s]
        /\ \A w \in Workers : answer'[w] # "none" /\ Row(w) = s => answer[w] # "none"
<1>1. Inv /\ SingleInv /\ [Next]_vars => [LeftAlone]_vars
  <2> SUFFICES ASSUME Inv, SingleInv, [Next]_vars, NEW s \in Events, projected[s] \/ dead[s]
               PROVE  /\ projected'[s] = projected[s]
                      /\ dead'[s] = dead[s]
                      /\ \A w \in Workers : answer'[w] # "none" /\ Row(w) = s => answer[w] # "none"
    OBVIOUS
  <2> HIDE DEF LeftAlone
  <2> USE DEF Inv, SingleInv
  <2>1. ASSUME NEW w \in Workers, Draining(w) PROVE Row(w) # s
    BY <2>1, BatchFacts DEF BatchIsOpen
  <2>2. ASSUME NEW w \in Workers, Project(w)
        PROVE  /\ UNCHANGED <<projected, dead>>
               /\ \A v \in Workers : answer'[v] # "none" /\ Row(v) = s => answer[v] # "none"
    BY <2>1, <2>2 DEF Project, outbox, OneWorker
  <2>3. ASSUME NEW w \in Workers, MarkProjected(w) \/ MarkFailed(w)
        PROVE  /\ projected'[s] = projected[s] /\ dead'[s] = dead[s]
               /\ \A v \in Workers : answer'[v] # "none" => answer[v] # "none"
    <3>1. Draining(w) /\ NextRow(w)
      BY <2>3 DEF MarkProjected, MarkFailed, AnswerHasRow
    <3>2. Row(w) # s /\ Row(w) \in Events
      BY <2>1, <3>1, BatchFacts
    <3>3. projected'[s] = projected[s] /\ dead'[s] = dead[s]
      BY <2>3, <3>2 DEF MarkProjected, MarkFailed, TypeOK
    <3> QED
      BY <3>1, <3>3, NextRowFacts
  <2>4. ASSUME NEW w \in Workers, Begin(w) \/ Abort(w)
        PROVE  /\ UNCHANGED <<projected, dead>>
               /\ \A v \in Workers : answer'[v] # "none" => answer[v] # "none"
    BY <2>4 DEF Begin, Abort, outbox, TypeOK
  <2>5. ASSUME Emit \/ Context \/ UNCHANGED vars \/ \E t \in Events : Delayed(t)
        PROVE  UNCHANGED <<projected, dead, answer>>
    BY <2>5 DEF Emit, Context, Ask, Retrieve, ReadRecords, Return, Delayed, vars, outbox
  <2> QED
    BY <2>2, <2>3, <2>4, <2>5 DEF Next, Drain
<1> QED
  BY <1>1, SingleHolds, Invariant, PTL DEF Spec, SettledIsFinal
=============================================================================
