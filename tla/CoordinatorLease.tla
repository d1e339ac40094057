-------------------------- MODULE CoordinatorLease --------------------------
(***************************************************************************)
(* The single-coordinator lease: AuthorityStore.acquire_lease              *)
(* (services/ledger.py) as LasiRuntime uses it                             *)
(* (services/orchestration/langgraph_runtime.py).                          *)
(*                                                                         *)
(* A runtime takes the lease when it is constructed and whenever it starts *)
(* or resumes a session, and renews it by a heartbeat for as long as the   *)
(* caller of start or resume waits for the session's task.  A caller that  *)
(* is cancelled takes the heartbeat with it and leaves the task running:   *)
(* adrift.  The runtime never gives the lease back and, between sessions,  *)
(* does not renew it.                                                      *)
(*                                                                         *)
(* Time is relative: "left" is what remains of expires_at - now.  A        *)
(* heartbeat is due Period after the last one; the event loop may be late  *)
(* with it by up to MaxStall (blocked in a transaction or in hashing an    *)
(* artifact, or the machine suspended).  One session at a time has a       *)
(* caller in each runtime.                                                 *)
(***************************************************************************)
EXTENDS Integers

CONSTANTS
  Owners,    \* runtimes that share the ledger file
  TTL,       \* ttl_seconds (30)
  Period,    \* asyncio.sleep between heartbeats (10)
  MaxStall,  \* how late a heartbeat may be
  Kept,      \* runtimes that whoever deploys them keeps trying to construct
  None

ASSUME LeaseConstants ==
  /\ None \notin Owners
  /\ Kept \subseteq Owners
  /\ TTL \in Nat \ {0}
  /\ Period \in Nat \ {0}
  /\ MaxStall \in Nat

VARIABLES
  holder,    \* coordinator_lease.owner_id
  left,      \* its remaining time; 0: expired
  phase,     \* per runtime: down, idle, busy with a session, or stopping one
  adrift,    \* runtimes in which the task of an abandoned session still runs
  since,     \* per runtime at work: time since it last renewed the lease
  trespass   \* not in the code: writes made while another held a live lease

leaseVars == <<holder, left, phase, adrift, since, trespass>>

LeaseInit ==
  /\ holder = None
  /\ left = 0
  /\ phase = [o \in Owners |-> "down"]
  /\ adrift = {}
  /\ since = [o \in Owners |-> 0]
  /\ trespass = {}

-----------------------------------------------------------------------------
(* acquire_lease, one transaction. *)

\* Mutants of Available: any lease may be taken over; an expired one may not.
AvailableAlways(o) == holder = holder

AvailableOwn(o) == holder \in {None, o}

Available(o) == holder \in {None, o} \/ left = 0

Take(o) ==
  /\ Available(o)
  /\ holder' = o
  /\ left' = TTL

OtherHolds(o) == holder # o /\ left > 0

\* A session's task is under way in the runtime, attended by its caller or not.
Working(o) == phase[o] = "busy" \/ o \in adrift

-----------------------------------------------------------------------------
(* LasiRuntime *)

\* __init__; a refused construction leaves no runtime.
Construct(o) ==
  /\ phase[o] = "down"
  /\ Take(o)
  /\ phase' = [phase EXCEPT ![o] = "idle"]
  /\ UNCHANGED <<adrift, since, trespass>>

\* start or resume: _require_lease, then the task and its heartbeat.
Begin(o) ==
  /\ phase[o] = "idle"
  /\ Take(o)
  /\ phase' = [phase EXCEPT ![o] = "busy"]
  /\ since' = [since EXCEPT ![o] = 0]
  /\ UNCHANGED <<adrift, trespass>>

Beat(o) ==
  /\ phase[o] = "busy"
  /\ since[o] >= Period
  /\ Take(o)
  /\ since' = [since EXCEPT ![o] = 0]
  /\ UNCHANGED <<phase, adrift, trespass>>

\* Mutant of Lose: a heartbeat that is refused tries again later.
LoseNothing(o) ==
  /\ phase[o] = "busy"
  /\ since[o] >= Period
  /\ ~Available(o)
  /\ since' = [since EXCEPT ![o] = 0]
  /\ UNCHANGED <<holder, left, phase, adrift, trespass>>

\* The lease is gone: the task is cancelled, and cleans up.  A task adrift is not.
Lose(o) ==
  /\ phase[o] = "busy"
  /\ since[o] >= Period
  /\ ~Available(o)
  /\ phase' = [phase EXCEPT ![o] = "stopping"]
  /\ UNCHANGED <<holder, left, adrift, since, trespass>>

\* The session's task returns, raises or is cancelled.
End(o) ==
  /\ phase[o] \in {"busy", "stopping"}
  /\ phase' = [phase EXCEPT ![o] = "idle"]
  /\ UNCHANGED <<holder, left, adrift, since, trespass>>

\* The caller is cancelled in asyncio.wait, which leaves the task alone; the heartbeat
\* is cancelled on the way out.
Abandon(o) ==
  /\ phase[o] = "busy"
  /\ phase' = [phase EXCEPT ![o] = "idle"]
  /\ adrift' = adrift \cup {o}
  /\ UNCHANGED <<holder, left, since, trespass>>

\* The last of the runtime's tasks adrift returns, raises or is cancelled.
AdriftEnds(o) ==
  /\ o \in adrift
  /\ adrift' = adrift \ {o}
  /\ UNCHANGED <<holder, left, phase, since, trespass>>

Note(o, kind) == trespass' = IF OtherHolds(o) THEN trespass \cup {kind} ELSE trespass

\* The session's task writes to the ledger; no write looks at the lease.
SessionWrite(o) ==
  /\ Working(o)
  /\ Note(o, "session")
  /\ UNCHANGED <<holder, left, phase, adrift, since>>

\* The cancelled task records the step it terminated and the run's status.
CleanupWrite(o) ==
  /\ phase[o] = "stopping"
  /\ Note(o, "cleanup")
  /\ UNCHANGED <<holder, left, phase, adrift, since>>

\* decide_approval, cancel: no _require_lease.
DirectWrite(o) ==
  /\ phase[o] # "down"
  /\ Note(o, "direct")
  /\ UNCHANGED <<holder, left, phase, adrift, since>>

CrashRuntime(o) ==
  /\ phase[o] # "down"
  /\ phase' = [phase EXCEPT ![o] = "down"]
  /\ adrift' = adrift \ {o}
  /\ UNCHANGED <<holder, left, since, trespass>>

\* Where the time since a renewal stops mattering.
Longest == IF TTL > Period + MaxStall THEN TTL ELSE Period + MaxStall

\* Time passes, but no heartbeat is later than MaxStall.
Tick ==
  /\ \A o \in Owners : phase[o] = "busy" => since[o] < Period + MaxStall
  /\ left' = IF left = 0 THEN 0 ELSE left - 1
  /\ since' = [o \in Owners |->
       IF Working(o) /\ since[o] < Longest THEN since[o] + 1 ELSE since[o]]
  /\ UNCHANGED <<holder, phase, adrift, trespass>>

-----------------------------------------------------------------------------
Runtime(o) ==
  \/ Construct(o) \/ Begin(o) \/ Beat(o) \/ Lose(o) \/ End(o)
  \/ Abandon(o) \/ AdriftEnds(o)
  \/ SessionWrite(o) \/ CleanupWrite(o) \/ DirectWrite(o)
  \/ CrashRuntime(o)

LeaseNext == Tick \/ \E o \in Owners : Runtime(o)

LeaseSpec == LeaseInit /\ [][LeaseNext]_leaseVars

\* Clocks run, and the heartbeat of a session that has its caller fires: Beat and Lose
\* are those of an attended session.  Sessions need not end, adrift or not, and a
\* coordinator that crashed comes back only if somebody keeps starting it.
LeaseFairSpec ==
  /\ LeaseSpec
  /\ WF_leaseVars(Tick)
  /\ \A o \in Owners : WF_leaseVars(Beat(o) \/ Lose(o))
  /\ \A o \in Kept : WF_leaseVars(Construct(o))

-----------------------------------------------------------------------------
(* Properties. *)

\* Every variable has its type.
LeaseTypeOK ==
  /\ holder \in Owners \cup {None}
  /\ left \in 0 .. TTL
  /\ phase \in [Owners -> {"down", "idle", "busy", "stopping"}]
  /\ adrift \subseteq Owners
  /\ since \in [Owners -> 0 .. Longest]
  /\ trespass \subseteq {"session", "cleanup", "direct"}

\* "A renewable single-coordinator lease prevents two local runtimes from advancing
\* authority state at once" (01_ARCHITECTURE.md:33-35): sessions are never under way
\* in two runtimes.  Not so, though no heartbeat is ever late: the task of a session
\* whose caller was cancelled goes on without one (langgraph_runtime.py:295-313).
ExclusiveWork == \A o, p \in Owners : Working(o) /\ Working(p) => o = p

\* So it is for the sessions that have their callers: two of them are never under way
\* in two runtimes, if no heartbeat is late by as much as TTL leaves it.
Exclusive == \A o, p \in Owners : phase[o] = "busy" /\ phase[p] = "busy" => o = p

\* What makes it so: a runtime in such a session holds the lease, unexpired.
BusyHolds == \A o \in Owners : phase[o] = "busy" => holder = o /\ left > 0

\* And what is left of it when heartbeats are arbitrarily late, or missing: a runtime
\* works on without the lease only if it has itself not renewed it for TTL; the
\* others were never too early.
OnlyTheLateOverlap ==
  \A o \in Owners : Working(o) /\ OtherHolds(o) => since[o] >= TTL

\* A lease left behind by coordinators that stay down, or by the runtime's own
\* earlier life, does not keep a runtime from being constructed: it is down for
\* ever only if another runtime keeps coming up.
Takeover ==
  \A o \in Kept :
    (\A p \in Owners \ {o} : <>[](phase[p] = "down")) => []<>(phase[o] # "down")

\* A runtime whose attended session lost the lease stops it: a session that has been
\* overtaken does not go on for ever as long as somebody waits for it.
OvertakenStops ==
  \A o \in Owners : (phase[o] = "busy" /\ OtherHolds(o)) ~> (phase[o] # "busy" \/ ~OtherHolds(o))

\* The documented promise, of every write: none is made by one runtime while
\* another holds the lease.
NoTrespass == trespass = {}
=============================================================================
