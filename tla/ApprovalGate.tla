---------------------------- MODULE ApprovalGate ----------------------------
(***************************************************************************)
(* What tiered approval promises, with no digests, snapshots or            *)
(* interleavings: the gate in front of a governed step opens once, after   *)
(* enough people other than the requester have signed and none of them has *)
(* refused, and once closed it never opens again.                          *)
(***************************************************************************)
EXTENDS Naturals, FiniteSets

CONSTANTS Requests, Subjects, Requester, Required

VARIABLES gate, signers

\* "lapsed": the time for it ran out before it was opened; "void": it was opened, and
\* what it was opened on has gone.
GateStates == {"shut", "open", "refused", "lapsed", "void"}

Init ==
  /\ gate = [r \in Requests |-> "shut"]
  /\ signers = [r \in Requests |-> {}]

\* A person other than the requester signs, once: in vain after a refusal, and when
\* the time for it ran out while the signature was on its way.
Sign(r, a) ==
  /\ gate[r] \in {"shut", "refused", "lapsed"}
  /\ a \in Subjects \ (signers[r] \cup {Requester[r]})
  /\ signers' = [signers EXCEPT ![r] = @ \cup {a}]
  /\ UNCHANGED gate

Enough(r) == Cardinality(signers[r]) >= Required[r]

Open(r) ==
  /\ gate[r] = "shut"
  /\ Enough(r)
  /\ gate' = [gate EXCEPT ![r] = "open"]
  /\ UNCHANGED signers

\* Opened when what was signed is no longer good: nobody passes.
OpenTooLate(r) ==
  /\ gate[r] \in {"shut", "lapsed"}
  /\ Enough(r)
  /\ gate' = [gate EXCEPT ![r] = "void"]
  /\ UNCHANGED signers

\* One refusal is final.
Refuse(r) ==
  /\ gate[r] \in {"shut", "lapsed"}
  /\ gate' = [gate EXCEPT ![r] = "refused"]
  /\ UNCHANGED signers

\* Authority behind approvals, or the time for them, is gone: for good.  One
\* revocation may close the gates of several requests at once.
Close(rs) ==
  /\ \A r \in rs : gate[r] \in {"shut", "open"}
  /\ gate' = [r \in Requests |->
       IF r \notin rs THEN gate[r] ELSE IF gate[r] = "open" THEN "void" ELSE "lapsed"]
  /\ UNCHANGED signers

Move(r) ==
  (\E a \in Subjects : Sign(r, a)) \/ Open(r) \/ OpenTooLate(r) \/ Refuse(r) \/ Close({r})

Next == (\E r \in Requests : Move(r)) \/ (\E rs \in SUBSET Requests : Close(rs))

Spec == Init /\ [][Next]_<<gate, signers>>
=============================================================================
