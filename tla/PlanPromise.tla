----------------------------- MODULE PlanPromise -----------------------------
(***************************************************************************)
(* What executing a plan promises, with no processes, files, cancellations *)
(* or crashes: operators act in the order of the plan's dependencies and   *)
(* only in a run on record, a success is claimed only for a step that has  *)
(* acted, and a run that closes as succeeded leaves nothing undone.        *)
(***************************************************************************)
CONSTANTS Runs, Steps, Shapes

VARIABLES dependsOn, run, acted, done

Ends == {"succeeded", "failed", "cancelled", "reconciliation_required"}

Init ==
  /\ dependsOn \in Shapes
  /\ run = [r \in Runs |-> "none"]
  /\ acted = {}
  /\ done = {}

Open(r) ==
  /\ run[r] = "none"
  /\ run' = [run EXCEPT ![r] = "running"]
  /\ UNCHANGED <<dependsOn, acted, done>>

InTurn(s) == (\E r \in Runs : run[r] # "none") /\ dependsOn[s] \subseteq done

\* A step may act more than once, in several runs.
Act(s) ==
  /\ InTurn(s)
  /\ acted' = acted \cup {s}
  /\ UNCHANGED <<dependsOn, run, done>>

Claim(s) ==
  /\ InTurn(s)
  /\ s \in acted
  /\ done' = done \cup {s}
  /\ UNCHANGED <<dependsOn, run, acted>>

Close(r) ==
  /\ run[r] = "running"
  /\ \E end \in Ends :
       /\ end = "succeeded" => done = Steps
       /\ run' = [run EXCEPT ![r] = end]
  /\ UNCHANGED <<dependsOn, acted, done>>

Next == (\E r \in Runs : Open(r) \/ Close(r)) \/ (\E s \in Steps : Act(s) \/ Claim(s))

Spec == Init /\ [][Next]_<<dependsOn, run, acted, done>>
=============================================================================
