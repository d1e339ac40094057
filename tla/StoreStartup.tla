---------------------------- MODULE StoreStartup ----------------------------
(***************************************************************************)
(* The start of an AuthorityStore on a path: services/ledger.py,           *)
(* AuthorityStore.__init__, _read_version, _user_tables, _backup,          *)
(* _configure and _migrate.                                                *)
(*                                                                         *)
(* No lock covers a start.  Several processes may start on one path at     *)
(* once; each looks at the file through two connections of its own, copies *)
(* it or opens it, reads the version again and creates the schema.         *)
(* executescript commits the transaction it is called in, so every CREATE  *)
(* TABLE is a transaction of its own and PRAGMA user_version is the last.  *)
(* The script has eighteen tables; they are named 1 .. NTables here.       *)
(*                                                                         *)
(* In WAL mode a commit goes to the log and reaches the main file when the *)
(* log is checkpointed: when the last connection closes, or at some commit *)
(* in between.  "content" is what a connection reads, "main" the file that *)
(* shutil.copy2 copies.  The mode is in the file's header: whoever turns   *)
(* it on has written to the file.  The copy is one step, and a statement   *)
(* that waits for another writer is not told apart from one that comes     *)
(* later.                                                                  *)
(***************************************************************************)
EXTENDS Integers

CONSTANTS
  Procs,      \* processes that start on the path
  NTables,    \* tables the schema script creates
  Supplied,   \* databases that the path may hold at first; any is let through
  MaxStarts,  \* bound: starts altogether
  MaxFaults   \* bound: crashes and failed statements altogether

SCHEMA_VERSION == 1

Schema == 1 .. NTables
Foreign == 0           \* tables of another program, or of another version

\* By user_version and tables: a negative version stands for all of them, as does the
\* one that is newer.
Databases == [version : -1 .. SCHEMA_VERSION + 1, tables : SUBSET (Schema \cup {Foreign})]

Empty == [version |-> 0, tables |-> {}]

ASSUME StartupConstants ==
  /\ NTables \in Nat \ {0} /\ MaxStarts \in Nat /\ MaxFaults \in Nat
  /\ Supplied \subseteq Databases

VARIABLES
  given,      \* what the path held at first: it never changes
  exists,     \* the path names a file
  journal,    \* the mode in its header
  content,    \* what the database holds for whoever connects
  main,       \* the same for the main file alone
  backups,    \* the copies made, each with what its maker saw and whether alone
  pc,         \* per process: where __init__ is; "open" once it returned, "failed"
              \* when it raised, "aborted" when a failed statement made it raise
  seen,       \* per process: what _read_version and _user_tables returned
  at,         \* per process: the next table of the script
  company,    \* processes that shared the path with another since they started
  starts,     \* starts so far
  faults      \* crashes and failed statements so far

vars == <<given, exists, journal, content, main, backups, pc, seen, at, company, starts, faults>>

Active(p) == pc[p] \notin {"off", "failed", "aborted"}

\* The phases in which the process has a connection to the database.
Connected(p) == pc[p] \in {"version", "tables", "migrate", "create", "open"}

Init ==
  /\ exists \in BOOLEAN
  /\ given \in IF exists THEN Supplied ELSE {Empty}
  /\ journal \in IF exists THEN {"rollback", "wal"} ELSE {"rollback"}
  /\ content = given
  \* In WAL mode its last user may have died before a checkpoint.
  /\ main \in IF journal = "wal" THEN {given, Empty} ELSE {given}
  /\ backups = {}
  /\ pc = [p \in Procs |-> "off"]
  /\ seen = [p \in Procs |-> Empty]
  /\ at = [p \in Procs |-> 1]
  /\ company = {}
  /\ starts = 0
  /\ faults = 0

-----------------------------------------------------------------------------
\* Mutant of Close: what the log holds stays there.
CloseWithoutCheckpoint(p) == main' = main

\* A connection of p closes.  If it is the last one the log is checkpointed.
Close(p) ==
  main' = IF \A q \in Procs \ {p} : ~Connected(q) THEN content ELSE main

\* AuthorityStore(path): nothing to look at unless the file exists.
Start(p) ==
  /\ ~Active(p)
  /\ starts < MaxStarts
  /\ starts' = starts + 1
  /\ pc' = [pc EXCEPT ![p] = IF exists THEN "version" ELSE "connect"]
  /\ company' = LET others == {q \in Procs \ {p} : Active(q)} IN
       IF others = {} THEN company \ {p} ELSE company \cup others \cup {p}
  /\ UNCHANGED <<given, exists, journal, content, main, backups, seen, at, faults>>

\* _read_version: a connection, one query, and the connection is closed.
ReadVersion(p) ==
  /\ pc[p] = "version"
  /\ seen' = [seen EXCEPT ![p] = [version |-> content.version, tables |-> {}]]
  /\ pc' = [pc EXCEPT ![p] =
       IF content.version = 0 THEN "tables"
       ELSE IF content.version = SCHEMA_VERSION THEN "connect" ELSE "copy"]
  /\ Close(p)
  /\ UNCHANGED <<given, exists, journal, content, backups, at, company, starts, faults>>

\* Mutant of UserTables: an unversioned database is taken for a new one.
UserTablesIgnored(p) ==
  /\ pc[p] = "tables"
  /\ seen' = [seen EXCEPT ![p].tables = content.tables]
  /\ pc' = [pc EXCEPT ![p] = "connect"]
  /\ Close(p)
  /\ UNCHANGED <<given, exists, journal, content, backups, at, company, starts, faults>>

\* _user_tables: asked only of a database without a version.
UserTables(p) ==
  /\ pc[p] = "tables"
  /\ seen' = [seen EXCEPT ![p].tables = content.tables]
  /\ pc' = [pc EXCEPT ![p] = IF content.tables = {} THEN "connect" ELSE "copy"]
  /\ Close(p)
  /\ UNCHANGED <<given, exists, journal, content, backups, at, company, starts, faults>>

\* _backup, and the refusal if the database has no version.
Backup(p) ==
  /\ pc[p] = "copy"
  /\ backups' = backups \cup
       {[saw |-> seen[p], copy |-> main, alone |-> p \notin company]}
  /\ pc' = [pc EXCEPT ![p] = IF seen[p].version = 0 THEN "failed" ELSE "connect"]
  /\ UNCHANGED <<given, exists, journal, content, main, seen, at, company, starts, faults>>

\* sqlite3.connect creates a missing file; _configure turns WAL mode on, before _migrate
\* looks at the version.
Connect(p) ==
  /\ pc[p] = "connect"
  /\ exists' = TRUE
  /\ journal' = "wal"
  /\ pc' = [pc EXCEPT ![p] = "migrate"]
  /\ UNCHANGED <<given, content, main, backups, seen, at, company, starts, faults>>

\* The constructor raises and its connection is dropped.
Raise(p) ==
  /\ pc' = [pc EXCEPT ![p] = "failed"]
  /\ Close(p)

\* _migrate: the version is read once more.
CheckVersion(p) ==
  /\ pc[p] = "migrate"
  /\ \/ /\ content.version > SCHEMA_VERSION
        /\ Raise(p)
        /\ at' = at
     \/ /\ content.version <= SCHEMA_VERSION
        /\ pc' = [pc EXCEPT ![p] = IF content.version = 0 THEN "create" ELSE "open"]
        /\ at' = [at EXCEPT ![p] = 1]
        /\ UNCHANGED main
  /\ UNCHANGED <<given, exists, journal, content, backups, seen, company, starts, faults>>

\* Mutant of CreateTable: the script sets user_version first.
CreateTableVersionFirst(p) ==
  /\ pc[p] = "create"
  /\ at[p] <= NTables
  /\ IF at[p] \in content.tables
     THEN Raise(p) /\ UNCHANGED <<content, at>>
     ELSE /\ content' = [version |-> SCHEMA_VERSION, tables |-> content.tables \cup {at[p]}]
          /\ at' = [at EXCEPT ![p] = @ + 1]
          /\ UNCHANGED <<main, pc>>
  /\ UNCHANGED <<given, exists, journal, backups, seen, company, starts, faults>>

\* One CREATE TABLE of the script, committed by itself: an error if somebody else
\* created that table since.
CreateTable(p) ==
  /\ pc[p] = "create"
  /\ at[p] <= NTables
  /\ IF at[p] \in content.tables
     THEN Raise(p) /\ UNCHANGED <<content, at>>
     ELSE /\ content' = [content EXCEPT !.tables = @ \cup {at[p]}]
          /\ at' = [at EXCEPT ![p] = @ + 1]
          /\ UNCHANGED <<main, pc>>
  /\ UNCHANGED <<given, exists, journal, backups, seen, company, starts, faults>>

\* Mutant of SetVersion: the script ends without it.
SetVersionForgotten(p) ==
  /\ pc[p] = "create"
  /\ at[p] > NTables
  /\ pc' = [pc EXCEPT ![p] = "open"]
  /\ UNCHANGED <<given, exists, journal, content, main, backups, seen, at, company, starts, faults>>

\* PRAGMA user_version ends the script, and __init__ returns.
SetVersion(p) ==
  /\ pc[p] = "create"
  /\ at[p] > NTables
  /\ content' = [content EXCEPT !.version = SCHEMA_VERSION]
  /\ pc' = [pc EXCEPT ![p] = "open"]
  /\ UNCHANGED <<given, exists, journal, main, backups, seen, at, company, starts, faults>>

-----------------------------------------------------------------------------
\* A statement of the script fails: the disk is full, the database stays busy.
\* transaction() rolls back, but what the script committed stays.
StatementFails(p) ==
  /\ pc[p] = "create"
  /\ faults < MaxFaults
  /\ faults' = faults + 1
  /\ pc' = [pc EXCEPT ![p] = "aborted"]
  /\ Close(p)
  /\ UNCHANGED <<given, exists, journal, content, backups, seen, at, company, starts>>

\* A process dies: its connections vanish without a checkpoint.
Crash(p) ==
  /\ Active(p)
  /\ faults < MaxFaults
  /\ faults' = faults + 1
  /\ pc' = [pc EXCEPT ![p] = "off"]
  /\ UNCHANGED <<given, exists, journal, content, main, backups, seen, at, company, starts>>

\* AuthorityStore.close
Leave(p) ==
  /\ pc[p] = "open"
  /\ pc' = [pc EXCEPT ![p] = "off"]
  /\ Close(p)
  /\ UNCHANGED <<given, exists, journal, content, backups, seen, at, company, starts, faults>>

\* A commit of a long log checkpoints it.
Checkpoint ==
  /\ \E p \in Procs : pc[p] \in {"create", "open"}
  /\ main # content
  /\ main' = content
  /\ UNCHANGED <<given, exists, journal, content, backups, pc, seen, at, company, starts, faults>>

-----------------------------------------------------------------------------
\* __init__, once it was called.
Proceed(p) ==
  \/ ReadVersion(p)
  \/ UserTables(p)
  \/ Backup(p)
  \/ Connect(p)
  \/ CheckVersion(p)
  \/ CreateTable(p)
  \/ SetVersion(p)

Next ==
  \/ \E p \in Procs : Start(p) \/ Proceed(p) \/ StatementFails(p) \/ Crash(p) \/ Leave(p)
  \/ Checkpoint

Spec == Init /\ [][Next]_vars /\ \A p \in Procs : WF_vars(Proceed(p))

-----------------------------------------------------------------------------
(* Properties. *)

\* Every variable has its type.
TypeOK ==
  /\ given \in Databases
  /\ exists \in BOOLEAN
  /\ journal \in {"rollback", "wal"}
  /\ content \in Databases
  /\ main \in Databases
  /\ backups \subseteq [saw : Databases, copy : Databases, alone : BOOLEAN]
  /\ pc \in [Procs -> {"off", "version", "tables", "copy", "connect", "migrate",
                       "create", "open", "failed", "aborted"}]
  /\ seen \in [Procs -> Databases]
  /\ at \in [Procs -> 1 .. NTables + 1]
  /\ company \subseteq Procs
  /\ starts \in 0 .. MaxStarts
  /\ faults \in 0 .. MaxFaults

\* Whoever holds a store on a path that held nothing, or an empty database, holds all of
\* the schema, although another process may have been in the middle of creating it, or
\* have died there, when this one looked; nobody holds one whose tables had no version;
\* and one that came with a version is opened as it came (ledger.py:101-107, 197).
OpenIsComplete ==
  \A p \in Procs : pc[p] = "open" =>
    IF given = Empty THEN content = [version |-> SCHEMA_VERSION, tables |-> Schema]
    ELSE given.version # 0 /\ content = given

\* A version is all that is looked at.  Not so, that whoever holds an open store has
\* its tables: a database of another program may have that version, or a negative one.
OpenHasSchema == \A p \in Procs : pc[p] = "open" => Schema \subseteq content.tables

\* A database without a version that holds tables, and that no living process is
\* creating, is never written to again by any start, not even in its header, also by
\* one that found no file or an empty one.  "Startup ... refuses initialization"
\* (_architecture/08_MIGRATION.md:10-12) holds for whatever was supplied, and equally
\* for a schema whose creator died half way.  The tables and the version of a database
\* that has a version are never changed either.
Creating(p) == pc[p] = "create" /\ at[p] > 1

LeftAlone ==
  [][/\ content.version = 0 /\ content.tables # {} /\ (\A p \in Procs : ~Creating(p)) =>
          UNCHANGED <<content, journal>>
     /\ content.version # 0 => UNCHANGED content]_vars

\* A database that is refused is not written to.  Not so if it is a newer one: it is
\* switched to WAL mode before it is refused (ledger.py:65, 97, 103-104).
NewerNotWritten ==
  [][content.version > SCHEMA_VERSION => UNCHANGED <<content, journal>>]_vars

\* The backup of a refused database holds the tables that made the start refuse,
\* if no other process used the path meanwhile: also when the database's last
\* user died and left them in the log (ledger.py:70-93).
Kept(b) == b.copy.version = b.saw.version /\ b.saw.tables \subseteq b.copy.tables

LoneBackupIsComplete == \A b \in backups : b.alone => Kept(b)

\* Whoever created the first table creates them all and sets the version, unless
\* it dies or one of its own statements fails, however many others start
\* meanwhile: none of them can get in its way.
SchemaGetsDone ==
  \A p \in Procs :
    Creating(p) ~> (content.version = SCHEMA_VERSION \/ pc[p] \in {"off", "aborted"})

\* "If an unversioned non-empty database is accidentally supplied ... startup
\* creates a private evidence backup" (_architecture/08_MIGRATION.md:10-11): the
\* evidence is in the backup, whoever else is at work.
BackupHoldsEvidence == \A b \in backups : b.saw.version = 0 => Kept(b)

\* A start that is cut short can be repeated.  Not so: half a schema without a
\* version is refused for good.
RestartGetsOn ==
  content.tables # {} /\ Foreign \notin content.tables ~> content.version = SCHEMA_VERSION
=============================================================================
