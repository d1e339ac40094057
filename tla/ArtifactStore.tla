----------------------------- MODULE ArtifactStore -----------------------------
(***************************************************************************)
(* The promotion of an operator's artifacts: ArtifactStore.promote         *)
(* (services/artifacts.py) for each path of a result, as                   *)
(* SubprocessOperatorRunner.run calls it once the worker has exited, and   *)
(* the row of the ledger that ends up with the receipts.                   *)
(*                                                                         *)
(* promote reads the file once to name it and once to copy it, and takes   *)
(* no lock.  Several coordinators share a store: one that lost its lease   *)
(* works on for a while, and a crash leaves the files as they are.  Only   *)
(* the worker is waited for: a process it started may live on and write to *)
(* the workspace.                                                          *)
(*                                                                         *)
(* Abstractions.  A file's content is its digest.  A path is a regular     *)
(* file of the workspace with some content, or "unfit": missing, outside   *)
(* of it, or a symlink.  A copy is begun, and ends with what the file      *)
(* holds then; any mixture counts as a content of its own.  A temporary    *)
(* file goes by its run, which stands for the uuid.                        *)
(***************************************************************************)
EXTENDS Naturals, Sequences

CONSTANTS
  Runs,        \* results with artifacts; each is promoted by a process of its own
  NPaths,      \* artifact paths of a result
  Contents,    \* contents of files
  Survivors,   \* runs whose worker left a process behind
  MaxRewrites, \* bound: files such processes write
  None

ASSUME ArtifactConstants ==
  /\ NPaths \in Nat \ {0}
  /\ Survivors \subseteq Runs
  /\ MaxRewrites \in Nat
  /\ None \notin Contents \cup {"part", "unfit"}
  /\ {"part", "unfit"} \cap Contents = {}

VARIABLES
  file,        \* per run and path: what the workspace holds
  store,       \* digest -> what the file of that name holds
  temps,       \* the temporary files beside them
  pc,          \* per run: where promote is, and how the result ends
  digest,      \* per run: what it computed for the path at hand
  receipts,    \* per run: the receipts it holds
  result,      \* operator_results: the status, with the receipts if it succeeded
  left,        \* per run: what the worker left at each path
  rewritten,   \* history: digests whose file changed between the two reads
  rewrites     \* files written by survivors so far

vars == <<file, store, temps, pc, digest, receipts, result, left, rewritten, rewrites>>

Paths == 1 .. NPaths
Names == Runs \cup Contents   \* what a temporary file may be called
At(r) == Len(receipts[r]) + 1

Init ==
  /\ file \in [Runs -> [Paths -> Contents \cup {"unfit"}]]
  /\ store = [d \in Contents |-> None]
  /\ temps = [n \in Names |-> None]
  /\ pc = [r \in Runs |-> "hash"]
  /\ digest = [r \in Runs |-> None]
  /\ receipts = [r \in Runs |-> <<>>]
  /\ result = [r \in Runs |-> "none"]
  /\ left = file
  /\ rewritten = {}
  /\ rewrites = 0

-----------------------------------------------------------------------------
(* ArtifactStore.promote, one path after the other. *)

\* Mutant of Temporary: one name per digest, as if there were no uuid.
TemporaryShared(r) == digest[r]

\* The file the copy is written to.
Temporary(r) == r

\* Mutant of Hash: a path that cannot be promoted ends the loop.
HashStops(r) ==
  /\ pc[r] = "hash"
  /\ IF file[r][At(r)] \in Contents
     THEN /\ pc' = [pc EXCEPT ![r] = "look"]
          /\ digest' = [digest EXCEPT ![r] = file[r][At(r)]]
     ELSE pc' = [pc EXCEPT ![r] = "promoted"] /\ UNCHANGED digest
  /\ UNCHANGED <<file, store, temps, receipts, result, left, rewritten, rewrites>>

\* The path is checked and the file read to name it; one that is unfit is refused,
\* and with it the whole result.
Hash(r) ==
  /\ pc[r] = "hash"
  /\ IF file[r][At(r)] \in Contents
     THEN /\ pc' = [pc EXCEPT ![r] = "look"]
          /\ digest' = [digest EXCEPT ![r] = file[r][At(r)]]
     ELSE pc' = [pc EXCEPT ![r] = "refused"] /\ UNCHANGED digest
  /\ UNCHANGED <<file, store, temps, receipts, result, left, rewritten, rewrites>>

\* What is there is not copied again.
Look(r) ==
  /\ pc[r] = "look"
  /\ pc' = [pc EXCEPT ![r] = IF store[digest[r]] = None THEN "copy" ELSE "stat"]
  /\ UNCHANGED <<file, store, temps, digest, receipts, result, left, rewritten, rewrites>>

\* Mutant of BeginCopy: the copy is made in place.
BeginCopyInPlace(r) ==
  /\ pc[r] = "copy"
  /\ store' = [store EXCEPT ![digest[r]] = "part"]
  /\ temps' = [temps EXCEPT ![Temporary(r)] = "part"]
  /\ pc' = [pc EXCEPT ![r] = "copying"]
  /\ UNCHANGED <<file, digest, receipts, result, left, rewritten, rewrites>>

BeginCopy(r) ==
  /\ pc[r] = "copy"
  /\ temps' = [temps EXCEPT ![Temporary(r)] = "part"]
  /\ pc' = [pc EXCEPT ![r] = "copying"]
  /\ UNCHANGED <<file, store, digest, receipts, result, left, rewritten, rewrites>>

EndCopy(r) ==
  /\ pc[r] = "copying"
  /\ temps' = [temps EXCEPT ![Temporary(r)] = file[r][At(r)]]
  /\ pc' = [pc EXCEPT ![r] = "replace"]
  /\ UNCHANGED <<file, store, digest, receipts, result, left, rewritten, rewrites>>

\* os.replace is atomic, and takes the place of what another run put there.
Replace(r) ==
  /\ pc[r] = "replace"
  /\ store' = [store EXCEPT ![digest[r]] = temps[Temporary(r)]]
  /\ temps' = [temps EXCEPT ![Temporary(r)] = None]
  /\ pc' = [pc EXCEPT ![r] = "stat"]
  /\ UNCHANGED <<file, digest, receipts, result, left, rewritten, rewrites>>

\* The receipt: digest, uri and size of the file in the store.
Stat(r) ==
  /\ pc[r] = "stat"
  /\ receipts' = [receipts EXCEPT ![r] = Append(@, digest[r])]
  /\ pc' = [pc EXCEPT ![r] = IF At(r) = NPaths THEN "promoted" ELSE "hash"]
  /\ UNCHANGED <<file, store, temps, digest, result, left, rewritten, rewrites>>

\* run returns, and record_step writes what it returned.
Record(r) ==
  /\ pc[r] \in {"promoted", "refused"}
  /\ result' = [result EXCEPT ![r] = IF pc[r] = "promoted" THEN "succeeded" ELSE "failed"]
  /\ pc' = [pc EXCEPT ![r] = "over"]
  /\ UNCHANGED <<file, store, temps, digest, receipts, left, rewritten, rewrites>>

-----------------------------------------------------------------------------
\* The copy raises: the disk is full.  What was copied remains, nobody removes it.
CopyFails(r) ==
  /\ pc[r] = "copying"
  /\ pc' = [pc EXCEPT ![r] = "refused"]
  /\ UNCHANGED <<file, store, temps, digest, receipts, result, left, rewritten, rewrites>>

\* The coordinator dies.  Its step is run again, if at all, as another run.
Crash(r) ==
  /\ pc[r] # "over"
  /\ pc' = [pc EXCEPT ![r] = "over"]
  /\ UNCHANGED <<file, store, temps, digest, receipts, result, left, rewritten, rewrites>>

\* A process the worker left behind writes to a file.
Rewrite(r, p, c) ==
  /\ r \in Survivors
  /\ rewrites < MaxRewrites
  /\ file[r][p] # c
  /\ file' = [file EXCEPT ![r][p] = c]
  /\ rewrites' = rewrites + 1
  /\ rewritten' = IF p = At(r) /\ pc[r] \in {"look", "copy", "copying"}
                  THEN rewritten \cup {digest[r]} ELSE rewritten
  /\ UNCHANGED <<store, temps, pc, digest, receipts, result, left>>

Promote(r) ==
  Hash(r) \/ Look(r) \/ BeginCopy(r) \/ EndCopy(r) \/ Replace(r) \/ Stat(r)

Next ==
  \E r \in Runs :
    \/ Promote(r) \/ Record(r) \/ CopyFails(r) \/ Crash(r)
    \/ \E p \in Paths, c \in Contents : Rewrite(r, p, c)

Spec == Init /\ [][Next]_vars

-----------------------------------------------------------------------------
(* Properties. *)

Stages == {"hash", "look", "copy", "copying", "replace", "stat", "promoted", "refused", "over"}

\* Every variable has its type.
TypeOK ==
  /\ file \in [Runs -> [Paths -> Contents \cup {"unfit"}]]
  /\ store \in [Contents -> Contents \cup {None}]
  /\ temps \in [Names -> Contents \cup {None, "part"}]
  /\ pc \in [Runs -> Stages]
  /\ digest \in [Runs -> Contents \cup {None}]
  /\ receipts \in [Runs -> Seq(Contents)]
  /\ result \in [Runs -> {"none", "failed", "succeeded"}]
  /\ left \in [Runs -> [Paths -> Contents \cup {"unfit"}]]
  /\ rewritten \subseteq Contents
  /\ rewrites \in 0 .. MaxRewrites

\* What is in the store is never part of a file, although coordinators die and disks
\* fill up in the middle of a copy, and it is what its name says, unless that very
\* file was written to between the two reads (artifacts.py:34-41).
StoreHoldsWhatItNames ==
  \A d \in Contents :
    store[d] = None \/ store[d] = d \/ (d \in rewritten /\ store[d] \in Contents)

\* A result on record as succeeded has all its artifacts, each in the store under its
\* receipt, and each what the worker left there if nobody wrote to it afterwards: a
\* path refused after others were promoted leaves no partial success
\* (execution.py:153-169).
SuccessHasItsArtifacts ==
  \A r \in Runs : result[r] = "succeeded" => \A p \in Paths :
    /\ p \in DOMAIN receipts[r]
    /\ store[receipts[r][p]] # None
    /\ r \notin Survivors => receipts[r][p] = left[r][p]

\* "the content-addressed artifact store" (_architecture/04_EXECUTION.md:19-20) of
\* those who trust it: a receipt leads to what the worker left.  Not so if a survivor
\* of any run wrote to its file at the wrong moment: what is there is not compared.
ReceiptLeadsToContent ==
  \A r \in Runs \ Survivors : \A p \in DOMAIN receipts[r] :
    store[receipts[r][p]] = left[r][p]
=============================================================================
