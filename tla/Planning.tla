------------------------------ MODULE Planning ------------------------------
(***************************************************************************)
(* LiteLLMPlanner.propose (services/planning.py) and the graph node that   *)
(* calls it and records the plan (plan in langgraph_runtime.py, record_plan*)
(* in ledger.py), for one session.                                         *)
(*                                                                         *)
(* propose asks the model until it has a valid plan, with one budget for   *)
(* transient errors and one for repairs.  After a crash, or after propose  *)
(* raised, the session can be resumed: LangGraph then runs the node again  *)
(* from its start unless its checkpoint already holds a plan.              *)
(*                                                                         *)
(* The model is outside the program: it chooses the plan_id as well as the *)
(* plan's content, and may answer differently when it is asked again.      *)
(***************************************************************************)
EXTENDS Naturals

CONSTANTS
  MaxTransient,  \* profile.max_transient_attempts
  MaxRepairs,    \* profile.max_repair_attempts
  PlanIds,       \* plan_ids the model may choose
  Contents,      \* digests a plan may have
  None,
  MaxReplays     \* bound: how often the node is run again

ASSUME PlanningConstants ==
  /\ MaxTransient \in Nat \ {0}
  /\ MaxRepairs \in Nat
  /\ MaxReplays \in Nat
  /\ None \notin [id : PlanIds, digest : Contents]

VARIABLES
  pc,         \* where the node is
  transient,  \* transient_attempt
  repairs,
  answer,     \* the error_category of the last call, or that it gave a plan
  calls,      \* calls of gateway.complete in this run of the node
  files,      \* of these, written to the private store
  rows,       \* of these, recorded as model invocations
  proposal,   \* the plan propose returned
  plans,      \* the plans table
  chosen,     \* the plan in the session's checkpoint
  replays

vars == <<pc, transient, repairs, answer, calls, files, rows, proposal, plans, chosen, replays>>

Plans == [id : PlanIds, digest : Contents]

Over == {"done", "raised", "down"}
Asking == {"calling", "answered", "filed", "judging", "sleeping"}

Init ==
  /\ pc = "calling"
  /\ transient = 1
  /\ repairs = 0
  /\ answer = "none"
  /\ calls = 1
  /\ files = 0
  /\ rows = 0
  /\ proposal = None
  /\ plans = {}
  /\ chosen = None
  /\ replays = 0

-----------------------------------------------------------------------------
(* propose: one turn of its loop. *)

\* gateway.complete, parsing and validation, as far as propose tells outcomes apart.
Answered(kind) ==
  /\ pc = "calling"
  /\ answer' = kind
  /\ IF kind = "plan" THEN proposal' \in Plans ELSE proposal' = None
  /\ pc' = "answered"
  /\ UNCHANGED <<transient, repairs, calls, files, rows, plans, chosen, replays>>

\* What nothing catches: a response without choices (IndexError).
Escape ==
  /\ pc = "calling"
  /\ pc' = "raised"
  /\ UNCHANGED <<transient, repairs, answer, calls, files, rows, proposal, plans, chosen, replays>>

WriteFile ==
  /\ pc = "answered"
  /\ files' = files + 1
  /\ pc' = "filed"
  /\ UNCHANGED <<transient, repairs, answer, calls, rows, proposal, plans, chosen, replays>>

\* Mutant of RecordInvocation: the row is written first.
RecordInvocationEarly ==
  /\ pc \in {"answered", "filed"}
  /\ rows' = rows + 1
  /\ pc' = "judging"
  /\ UNCHANGED <<transient, repairs, answer, calls, files, proposal, plans, chosen, replays>>

RecordInvocation ==
  /\ pc = "filed"
  /\ rows' = rows + 1
  /\ pc' = "judging"
  /\ UNCHANGED <<transient, repairs, answer, calls, files, proposal, plans, chosen, replays>>

MayRetry == answer = "transient" /\ transient < MaxTransient

\* Mutant of MayRepair: one repair more.
MayRepairOnce == answer = "invalid_output" /\ repairs <= MaxRepairs

MayRepair == answer = "invalid_output" /\ repairs < MaxRepairs

Accept ==
  /\ pc = "judging"
  /\ answer = "plan"
  /\ pc' = "proposed"
  /\ UNCHANGED <<transient, repairs, answer, calls, files, rows, proposal, plans, chosen, replays>>

Backoff ==
  /\ pc = "judging"
  /\ MayRetry
  /\ pc' = "sleeping"
  /\ UNCHANGED <<transient, repairs, answer, calls, files, rows, proposal, plans, chosen, replays>>

Retry ==
  /\ pc = "sleeping"
  /\ transient' = transient + 1
  /\ calls' = calls + 1
  /\ pc' = "calling"
  /\ UNCHANGED <<repairs, answer, files, rows, proposal, plans, chosen, replays>>

\* Mutant of Repair: repairs are not counted.
RepairUncounted ==
  /\ pc = "judging"
  /\ MayRepair
  /\ transient' = 1
  /\ calls' = 1
  /\ files' = 0
  /\ rows' = 0
  /\ pc' = "calling"
  /\ UNCHANGED <<repairs, answer, proposal, plans, chosen, replays>>

\* transient_attempt starts again at 0, and the next turn makes it 1.
Repair ==
  /\ pc = "judging"
  /\ MayRepair
  /\ repairs' = repairs + 1
  /\ transient' = 1
  /\ calls' = calls + 1
  /\ pc' = "calling"
  /\ UNCHANGED <<answer, files, rows, proposal, plans, chosen, replays>>

\* PlannerError.
GiveUp ==
  /\ pc = "judging"
  /\ answer # "plan" /\ ~MayRetry /\ ~MayRepair
  /\ pc' = "raised"
  /\ UNCHANGED <<transient, repairs, answer, calls, files, rows, proposal, plans, chosen, replays>>

-----------------------------------------------------------------------------
(* The node. *)

\* Mutant of Clash: the digest of the recorded plan is not looked at.
ClashNever(p) == p # p

Clash(p) == \E q \in plans : q.id = p.id /\ q.digest # p.digest

\* record_plan: a plan is recorded once; its id cannot be given to another.
RecordPlan ==
  /\ pc = "proposed"
  /\ IF Clash(proposal) THEN pc' = "raised" /\ UNCHANGED plans
     ELSE pc' = "recorded" /\ plans' = plans \cup {proposal}
  /\ UNCHANGED <<transient, repairs, answer, calls, files, rows, proposal, chosen, replays>>

\* LangGraph saves what the node returned.
Checkpoint ==
  /\ pc = "recorded"
  /\ chosen' = proposal
  /\ pc' = "done"
  /\ UNCHANGED <<transient, repairs, answer, calls, files, rows, proposal, plans, replays>>

\* The process dies, or the session's task is cancelled.
Crash ==
  /\ pc \notin Over
  /\ pc' = "down"
  /\ UNCHANGED <<transient, repairs, answer, calls, files, rows, proposal, plans, chosen, replays>>

\* The session is resumed: the node starts over.
Replay ==
  /\ pc \in {"raised", "down"}
  /\ replays < MaxReplays
  /\ replays' = replays + 1
  /\ pc' = "calling"
  /\ transient' = 1
  /\ repairs' = 0
  /\ calls' = 1
  /\ files' = 0
  /\ rows' = 0
  /\ answer' = "none"
  /\ proposal' = None
  /\ UNCHANGED <<plans, chosen>>

-----------------------------------------------------------------------------
Proceed ==
  \/ \E kind \in {"plan", "transient", "permanent", "invalid_output"} : Answered(kind)
  \/ WriteFile \/ RecordInvocation
  \/ Accept \/ Backoff \/ Retry \/ Repair \/ GiveUp
  \/ RecordPlan \/ Checkpoint

Next == Proceed \/ Escape \/ Crash \/ Replay

Spec == Init /\ [][Next]_vars

\* The gateway answers within its timeout and the coroutine keeps running.
FairSpec == Spec /\ WF_vars(Proceed)

-----------------------------------------------------------------------------
(* Properties. *)

\* Every variable has its type; neither budget is exceeded.
TypeOK ==
  /\ pc \in Asking \cup Over \cup {"proposed", "recorded"}
  /\ transient \in 1 .. MaxTransient
  /\ repairs \in 0 .. MaxRepairs
  /\ answer \in {"none", "plan", "transient", "permanent", "invalid_output"}
  /\ calls \in Nat /\ files \in Nat /\ rows \in Nat
  /\ proposal \in Plans \cup {None}
  /\ answer = "plan" => proposal \in Plans
  /\ pc \in {"proposed", "recorded"} => answer = "plan"
  /\ plans \subseteq Plans
  /\ chosen \in Plans \cup {None}
  /\ replays \in 0 .. MaxReplays

\* What the two budgets come to: a proposal never asks the model more than
\* MaxTransient times per repair and once more, in whatever order errors occur.
CallsBounded == calls <= MaxTransient * (MaxRepairs + 1)

\* A recorded invocation always has its private file, wherever the process dies.
RowHasFile == rows <= files

\* propose ends, whatever the model answers.
ProposalEnds == pc \in Asking ~> pc \notin Asking

\* "Plans are immutable and content-addressed" (03_PLANNING.md): in the ledger a
\* plan_id stands for one content for ever, although the model chooses it anew each
\* time the node is replayed.
PlanIdIsContent ==
  [][\A p \in plans : \A q \in plans' : q.id = p.id => q.digest = p.digest]_vars

\* "LangGraph checkpoints may replay graph nodes, so plans ... are idempotently
\* recorded by stable content identity" (01_ARCHITECTURE.md:39-40): replaying the
\* node leaves the session with one plan in the ledger.
ReplayIsIdempotent == \A p, q \in plans : p = q

\* "Each invocation records model/profile/template identity, ..." (03_PLANNING.md):
\* when propose has ended by itself, every call it made is on record.
EveryCallRecorded == pc \in {"raised", "done"} => rows = calls
=============================================================================
