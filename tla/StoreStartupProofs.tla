--------------------------- MODULE StoreStartupProofs ---------------------------
(***************************************************************************)
(* What StoreStartup promises for any number of processes, starts and      *)
(* crashes and a schema of any length.  The first table is the lock nobody *)
(* wrote: whoever creates it is the only creator from then on (OneCreator),*)
(* and everybody else's first CREATE TABLE fails.                          *)
(***************************************************************************)
EXTENDS StoreStartup, TLAPS

\* What came with tables or a version stays as it came: nobody creates anything in it,
\* and nobody gets as far as to open it if it has no version.
CameAndStays ==
  given # Empty =>
    /\ content = given /\ exists
    /\ \A p \in Procs : pc[p] # "create"
    /\ given.version = 0 => \A p \in Procs : pc[p] \notin {"connect", "migrate", "open"}
    /\ given.version > SCHEMA_VERSION => \A p \in Procs : pc[p] # "open"

\* Where nothing was, tables are created in order, from the first, and a version is set
\* only when all of the schema is there.
MadeInOrder ==
  given = Empty =>
    /\ content.version \in {0, SCHEMA_VERSION} /\ content.tables \subseteq Schema
    /\ content.version = SCHEMA_VERSION => content.tables = Schema
    /\ content.tables # {} => 1 \in content.tables
    /\ \A p \in Procs : pc[p] = "open" => content.version = SCHEMA_VERSION

\* Who got past _configure, and whatever was written, was so in WAL mode.
WrittenInWal ==
  /\ content # given => journal = "wal"
  /\ \A p \in Procs : pc[p] \in {"migrate", "create", "open"} => journal = "wal"

\* What is there is what the creator created.
CreatorsTables ==
  \A p \in Procs : Creating(p) => content = [version |-> 0, tables |-> 1 .. at[p] - 1]

OneCreator == \A p, q \in Procs : Creating(p) /\ Creating(q) => p = q

\* A version that was seen is still there.
SeenIsPast ==
  \A p \in Procs :
    pc[p] = "tables" \/ (pc[p] = "copy" /\ content.version = 0) => seen[p].version = 0

\* What is known of the database, and of those who work on it.
SchemaInv ==
  /\ CameAndStays
  /\ MadeInOrder
  /\ WrittenInWal
  /\ CreatorsTables
  /\ OneCreator
  /\ SeenIsPast

\* Who shared the path with nobody still does, has seen what is there, and left it
\* in the main file.
AloneIsAlone ==
  \A p \in Procs \ company : Active(p) =>
    /\ \A q \in Procs \ {p} : ~Active(q)
    /\ pc[p] \in {"tables", "copy"} => seen[p].version = content.version
    /\ pc[p] = "copy" => main = content /\ seen[p].tables \subseteq content.tables

Inv == TypeOK /\ SchemaInv /\ AloneIsAlone /\ LoneBackupIsComplete

LEMMA InvInit == Init => Inv
<1> USE StartupConstants DEF SCHEMA_VERSION, Schema, Foreign, Databases, Empty
<1> SUFFICES ASSUME Init PROVE Inv
  OBVIOUS
<1>1. given \in Databases /\ content \in Databases /\ main \in Databases
  BY DEF Init
<1>2. TypeOK
  BY <1>1 DEF Init, TypeOK
<1>3. CameAndStays /\ MadeInOrder /\ WrittenInWal
  BY DEF Init, CameAndStays, MadeInOrder, WrittenInWal
<1>5. CreatorsTables /\ OneCreator /\ SeenIsPast
  BY DEF Init, CreatorsTables, OneCreator, SeenIsPast, Creating
<1>6. AloneIsAlone /\ LoneBackupIsComplete
  BY DEF Init, AloneIsAlone, Active, LoneBackupIsComplete
<1> QED
  BY <1>2, <1>3, <1>5, <1>6 DEF Inv, SchemaInv

LEMMA TypeNext == TypeOK /\ [Next]_vars => TypeOK'
<1> USE StartupConstants DEF SCHEMA_VERSION, Schema, Foreign, Databases, TypeOK
<1> SUFFICES ASSUME TypeOK, [Next]_vars PROVE TypeOK'
  OBVIOUS
<1>1. ASSUME NEW p \in Procs, Start(p) PROVE TypeOK'
  BY <1>1 DEF Start
<1>2. ASSUME NEW p \in Procs, ReadVersion(p) PROVE TypeOK'
  BY <1>2 DEF ReadVersion, Close
<1>3. ASSUME NEW p \in Procs, UserTables(p) PROVE TypeOK'
  BY <1>3 DEF UserTables, Close
<1>4. ASSUME NEW p \in Procs, Backup(p) PROVE TypeOK'
  <2> DEFINE b == [saw |-> seen[p], copy |-> main, alone |-> p \notin company]
  <2>1. seen[p] \in Databases /\ main \in Databases /\ (p \notin company) \in BOOLEAN
    BY Zenon
  <2>2. b \in [saw : Databases, copy : Databases, alone : BOOLEAN]
    BY <2>1, Zenon
  <2>3. backups' = backups \cup {b}
    BY <1>4, Zenon DEF Backup
  <2>4. backups' \subseteq [saw : Databases, copy : Databases, alone : BOOLEAN]
    BY <2>2, <2>3, Zenon
  <2>5. pc' \in [Procs -> {"off", "version", "tables", "copy", "connect", "migrate",
                          "create", "open", "failed", "aborted"}]
    BY <1>4 DEF Backup
  <2> QED
    BY <1>4, <2>4, <2>5 DEF Backup
<1>5. ASSUME NEW p \in Procs, Connect(p) PROVE TypeOK'
  BY <1>5 DEF Connect
<1>6. ASSUME NEW p \in Procs, CheckVersion(p) PROVE TypeOK'
  <2>1. CASE content.version > SCHEMA_VERSION
    BY <1>6, <2>1 DEF CheckVersion, Raise, Close
  <2>2. CASE content.version <= SCHEMA_VERSION
    <3>1. /\ pc' = [pc EXCEPT ![p] = IF content.version = 0 THEN "create" ELSE "open"]
          /\ at' = [at EXCEPT ![p] = 1]
          /\ UNCHANGED <<given, exists, journal, content, main, backups, seen, company, starts, faults>>
      BY <1>6, <2>2 DEF CheckVersion
    <3> QED
      BY <3>1
  <2> QED
    BY <2>1, <2>2
<1>7. ASSUME NEW p \in Procs, CreateTable(p) PROVE TypeOK'
  BY <1>7 DEF CreateTable, Raise, Close
<1>8. ASSUME NEW p \in Procs, SetVersion(p) PROVE TypeOK'
  BY <1>8 DEF SetVersion
<1>9. ASSUME NEW p \in Procs, StatementFails(p) PROVE TypeOK'
  BY <1>9 DEF StatementFails, Close
<1>10. ASSUME NEW p \in Procs, Crash(p) PROVE TypeOK'
  BY <1>10 DEF Crash
<1>11. ASSUME NEW p \in Procs, Leave(p) PROVE TypeOK'
  BY <1>11 DEF Leave, Close
<1>12. CASE Checkpoint
  BY <1>12 DEF Checkpoint
<1>13. CASE UNCHANGED vars
  BY <1>13 DEF vars
<1> QED
  BY <1>1, <1>2, <1>3, <1>4, <1>5, <1>6, <1>7, <1>8, <1>9, <1>10, <1>11, <1>12, <1>13
  DEF Next, Proceed

LEMMA SchemaNext == Inv /\ [Next]_vars => SchemaInv'
<1> USE StartupConstants DEF SCHEMA_VERSION, Schema, Foreign, Databases, Empty, Inv, TypeOK,
    SchemaInv, CameAndStays, MadeInOrder, WrittenInWal, CreatorsTables, OneCreator, SeenIsPast,
    Creating
<1> SUFFICES ASSUME Inv, [Next]_vars PROVE SchemaInv'
  OBVIOUS
<1>1. ASSUME NEW p \in Procs, Start(p) PROVE SchemaInv'
  BY <1>1 DEF Start, Active
<1>2. ASSUME NEW p \in Procs, ReadVersion(p) PROVE SchemaInv'
  BY <1>2 DEF ReadVersion
<1>3. ASSUME NEW p \in Procs, UserTables(p) PROVE SchemaInv'
  BY <1>3 DEF UserTables
<1>4. ASSUME NEW p \in Procs, Backup(p) PROVE SchemaInv'
  BY <1>4 DEF Backup
<1>5. ASSUME NEW p \in Procs, Connect(p) PROVE SchemaInv'
  BY <1>5 DEF Connect
<1>6. ASSUME NEW p \in Procs, CheckVersion(p) PROVE SchemaInv'
  <2>1. CASE content.version > SCHEMA_VERSION
    BY <1>6, <2>1 DEF CheckVersion, Raise
  <2>2. CASE content.version = 0
    <3>1. /\ pc[p] = "migrate"
          /\ pc' = [pc EXCEPT ![p] = "create"]
          /\ at' = [at EXCEPT ![p] = 1]
          /\ UNCHANGED <<given, exists, journal, content, seen>>
      BY <1>6, <2>2 DEF CheckVersion
    <3> QED
      BY <2>2, <3>1
  <2>3. CASE content.version # 0 /\ content.version =< SCHEMA_VERSION
    <3>1. /\ pc[p] = "migrate"
          /\ pc' = [pc EXCEPT ![p] = "open"]
          /\ at' = [at EXCEPT ![p] = 1]
          /\ UNCHANGED <<given, exists, journal, content, seen>>
      BY <1>6, <2>3 DEF CheckVersion
    <3> QED
      BY <2>3, <3>1
  <2> QED
    BY <2>1, <2>2, <2>3
<1>7. ASSUME NEW p \in Procs, CreateTable(p) PROVE SchemaInv'
  <2>1. CASE at[p] \in content.tables
    <3>1. pc' = [pc EXCEPT ![p] = "failed"] /\ UNCHANGED <<given, exists, journal, content, seen, at>>
      BY <1>7, <2>1 DEF CreateTable, Raise
    <3> QED
      BY <3>1
  <2>2. CASE at[p] \notin content.tables
    <3>0. given = Empty
      BY <1>7 DEF CreateTable
    <3>1. content.version = 0
      BY <1>7, <2>2, <3>0 DEF CreateTable
    <3>2. content = [version |-> 0, tables |-> 1 .. at[p] - 1]
      <4>1. CASE at[p] > 1
        BY <1>7, <4>1 DEF CreateTable
      <4>2. CASE at[p] = 1
        <5>1. content.tables = {}
          BY <1>7, <2>2, <3>0, <3>1, <4>2 DEF CreateTable
        <5> QED
          BY <3>1, <4>2, <5>1
      <4> QED
        BY <4>1, <4>2
    <3>3. ASSUME NEW q \in Procs \ {p}, Creating(q) PROVE FALSE
      <4>1. 1 \in content.tables
        BY <3>3
      <4>2. at[p] > 1
        BY <3>2, <4>1
      <4> QED
        BY <1>7, <3>3, <4>2 DEF CreateTable
    <3>4. content' = [version |-> 0, tables |-> 1 .. at[p]]
      <4>1. content' = [content EXCEPT !.tables = @ \cup {at[p]}]
        BY <1>7, <2>2 DEF CreateTable
      <4>2. (1 .. at[p] - 1) \cup {at[p]} = 1 .. at[p]
        BY <1>7 DEF CreateTable
      <4> QED
        BY <3>2, <4>1, <4>2
    <3>5. at' = [at EXCEPT ![p] = at[p] + 1] /\ UNCHANGED <<given, exists, journal, pc, seen>>
      BY <1>7, <2>2 DEF CreateTable
    <3>6. pc[p] = "create" /\ at[p] \in Schema
      BY <1>7 DEF CreateTable
    <3>7. CreatorsTables' /\ OneCreator'
      BY <3>3, <3>4, <3>5, <3>6
    <3>8. (CameAndStays /\ MadeInOrder /\ WrittenInWal)'
      <4>1. content'.version = 0 /\ 1 \in content'.tables /\ content'.tables \subseteq Schema
        BY <3>4, <3>6
      <4>2. \A q \in Procs : pc[q] # "open" /\ (pc[p] = "create" => journal = "wal")
        BY <3>0, <3>1, <3>6
      <4> QED
        BY <3>0, <3>5, <3>6, <4>1, <4>2
    <3>9. SeenIsPast'
      BY <3>1, <3>4, <3>5, <3>6
    <3> QED
      BY <3>7, <3>8, <3>9
  <2> QED
    BY <2>1, <2>2
<1>8. ASSUME NEW p \in Procs, SetVersion(p) PROVE SchemaInv'
  <2>1. given = Empty /\ pc[p] = "create" /\ at[p] = NTables + 1 /\ journal = "wal"
    BY <1>8 DEF SetVersion
  <2>2. content = [version |-> 0, tables |-> Schema] /\ at[p] > 1
    BY <2>1
  <2>3. content' = [version |-> SCHEMA_VERSION, tables |-> Schema]
    BY <1>8, <2>2 DEF SetVersion
  <2>4. pc' = [pc EXCEPT ![p] = "open"] /\ UNCHANGED <<given, exists, journal, seen, at>>
    BY <1>8 DEF SetVersion
  <2>5. \A q \in Procs \ {p} : ~Creating(q)
    BY <2>1, <2>2
  <2>6. (CameAndStays /\ MadeInOrder /\ WrittenInWal)'
    BY <2>1, <2>3, <2>4
  <2>7. (CreatorsTables /\ OneCreator)'
    BY <2>4, <2>5
  <2>8. SeenIsPast'
    BY <2>1, <2>2, <2>3, <2>4
  <2> QED
    BY <2>6, <2>7, <2>8
<1>9. ASSUME NEW p \in Procs, StatementFails(p) PROVE SchemaInv'
  BY <1>9 DEF StatementFails
<1>10. ASSUME NEW p \in Procs, Crash(p) PROVE SchemaInv'
  BY <1>10 DEF Crash
<1>11. ASSUME NEW p \in Procs, Leave(p) PROVE SchemaInv'
  BY <1>11 DEF Leave
<1>12. CASE Checkpoint
  BY <1>12 DEF Checkpoint
<1>13. CASE UNCHANGED vars
  BY <1>13 DEF vars
<1> QED
  BY <1>1, <1>2, <1>3, <1>4, <1>5, <1>6, <1>7, <1>8, <1>9, <1>10, <1>11, <1>12, <1>13
  DEF Next, Proceed

LEMMA AloneNext == Inv /\ [Next]_vars => (AloneIsAlone /\ LoneBackupIsComplete)'
<1> USE DEF Inv, TypeOK, SchemaInv, SeenIsPast, AloneIsAlone, LoneBackupIsComplete, Kept, Active
<1> DEFINE Goal == (AloneIsAlone /\ LoneBackupIsComplete)'
<1> SUFFICES ASSUME Inv, [Next]_vars PROVE Goal
  OBVIOUS
<1>1. ASSUME NEW p \in Procs, Start(p) PROVE Goal
  BY <1>1 DEF Start
<1>2. ASSUME NEW p \in Procs, ReadVersion(p) PROVE Goal
  BY <1>2 DEF ReadVersion, Close, Connected
<1>3. ASSUME NEW p \in Procs, UserTables(p) PROVE Goal
  BY <1>3 DEF UserTables, Close, Connected
<1>4. ASSUME NEW p \in Procs, Backup(p) PROVE Goal
  <2> DEFINE b == [saw |-> seen[p], copy |-> main, alone |-> p \notin company]
  <2>1. AloneIsAlone'
    BY <1>4 DEF Backup
  <2>2. backups' = backups \cup {b}
    BY <1>4, Zenon DEF Backup
  <2>3. b.alone => p \notin company
    BY Zenon
  <2>4. b.saw = seen[p] /\ b.copy = main
    BY Zenon
  <2>5. p \notin company => Kept(b)
    BY <1>4, <2>4 DEF Backup
  <2>6. \A c \in backups' : c.alone => Kept(c)
    <3> HIDE DEF b
    <3> QED
      BY <2>2, <2>3, <2>5
  <2> QED
    BY <2>1, <2>6
<1>5. ASSUME NEW p \in Procs, Connect(p) PROVE Goal
  BY <1>5 DEF Connect
<1>6. ASSUME NEW p \in Procs, CheckVersion(p) PROVE Goal
  BY <1>6 DEF CheckVersion, Raise, Close, Connected
<1>7. ASSUME NEW p \in Procs, CreateTable(p) PROVE Goal
  BY <1>7 DEF CreateTable, Raise, Close, Connected
<1>8. ASSUME NEW p \in Procs, SetVersion(p) PROVE Goal
  BY <1>8 DEF SetVersion
<1>9. ASSUME NEW p \in Procs, StatementFails(p) PROVE Goal
  BY <1>9 DEF StatementFails, Close, Connected
<1>10. ASSUME NEW p \in Procs, Crash(p) PROVE Goal
  BY <1>10 DEF Crash
<1>11. ASSUME NEW p \in Procs, Leave(p) PROVE Goal
  BY <1>11 DEF Leave, Close, Connected
<1>12. CASE Checkpoint
  BY <1>12 DEF Checkpoint
<1>13. CASE UNCHANGED vars
  BY <1>13 DEF vars
<1> QED
  BY <1>1, <1>2, <1>3, <1>4, <1>5, <1>6, <1>7, <1>8, <1>9, <1>10, <1>11, <1>12, <1>13
  DEF Next, Proceed

LEMMA Invariant == Spec => []Inv
<1>1. Inv /\ [Next]_vars => Inv'
  BY TypeNext, SchemaNext, AloneNext DEF Inv
<1> QED
  BY <1>1, InvInit, PTL DEF Spec

\* Every variable keeps its type.
THEOREM TypeCorrect == Spec => []TypeOK
<1>1. Inv => TypeOK
  BY DEF Inv
<1> QED
  BY <1>1, Invariant, PTL

\* However many processes start and die on the path: a store on what was nothing has all
\* of the schema once it is open, and any other that opens came with a version.
THEOREM OpenStoresAreComplete == Spec => []OpenIsComplete
<1>1. Inv => OpenIsComplete
  <2> SUFFICES ASSUME Inv, NEW p \in Procs, pc[p] = "open"
               PROVE  IF given = Empty
                      THEN content = [version |-> SCHEMA_VERSION, tables |-> Schema]
                      ELSE given.version # 0 /\ content = given
    BY DEF OpenIsComplete
  <2>1. CASE given = Empty
    <3>1. content.version = SCHEMA_VERSION /\ content.tables = Schema
      BY <2>1 DEF Inv, SchemaInv, MadeInOrder
    <3>2. content \in Databases
      BY DEF Inv, TypeOK
    <3> QED
      BY <2>1, <3>1, <3>2 DEF Databases
  <2>2. CASE given # Empty
    BY <2>2 DEF Inv, SchemaInv, CameAndStays
  <2> QED
    BY <2>1, <2>2
<1> QED
  BY <1>1, Invariant, PTL

\* A start that had the path to itself keeps in its backup all that it refused.
THEOREM LoneBackupsAreComplete == Spec => []LoneBackupIsComplete
<1>1. Inv => LoneBackupIsComplete
  BY DEF Inv
<1> QED
  BY <1>1, Invariant, PTL

\* No start writes to a database without a version whose tables nobody is creating, nor
\* changes the tables or the version of one that has a version.
THEOREM StrangersAreLeftAlone == Spec => LeftAlone
<1> USE StartupConstants DEF SCHEMA_VERSION, Schema, Foreign, Databases, Empty
<1> DEFINE Strange == /\ content.version = 0 /\ content.tables # {}
                      /\ \A p \in Procs : ~Creating(p)
           Versioned == content.version # 0
           Allowed == (Strange => UNCHANGED <<content, journal>>) /\ (Versioned => UNCHANGED content)
<1>1. ASSUME Inv, [Next]_vars PROVE Allowed
  <2> USE <1>1 DEF Inv, SchemaInv
  <2>1. ASSUME NEW p \in Procs, CreateTable(p), Strange \/ Versioned PROVE UNCHANGED <<content, journal>>
    <3>0. given = Empty /\ pc[p] = "create" /\ at[p] \in 1 .. NTables
      BY <2>1 DEF CreateTable, CameAndStays, TypeOK
    <3>1. CASE Versioned
      <4>1. at[p] \in content.tables
        BY <3>0, <3>1 DEF MadeInOrder
      <4> QED
        BY <2>1, <4>1 DEF CreateTable
    <3>2. CASE Strange
      <4>1. at[p] = 1
        BY <3>0, <3>2 DEF Creating
      <4>2. at[p] \in content.tables
        BY <3>0, <3>2, <4>1 DEF MadeInOrder
      <4> QED
        BY <2>1, <4>2 DEF CreateTable
    <3> QED
      BY <2>1, <3>1, <3>2
  <2>2. ASSUME NEW p \in Procs, SetVersion(p), Strange \/ Versioned PROVE FALSE
    <3>1. Creating(p)
      BY <2>2 DEF SetVersion, Creating, TypeOK
    <3>2. content.version = 0
      BY <3>1 DEF CreatorsTables
    <3> QED
      BY <2>2, <3>1, <3>2
  <2>3. ASSUME NEW p \in Procs, Connect(p) PROVE Allowed
    <3>1. content' = content /\ journal' = "wal" /\ pc[p] = "connect"
      BY <2>3 DEF Connect
    <3>2. Strange => journal = "wal"
      <4>1. CASE given = Empty
        BY <4>1 DEF WrittenInWal
      <4>2. CASE given # Empty
        BY <3>1, <4>2 DEF CameAndStays
      <4> QED
        BY <4>1, <4>2
    <3> QED
      BY <3>1, <3>2
  <2>4. ASSUME NEW p \in Procs, Start(p) \/ ReadVersion(p) \/ UserTables(p) \/ Backup(p)
                                \/ CheckVersion(p) \/ StatementFails(p) \/ Crash(p) \/ Leave(p)
        PROVE  UNCHANGED <<content, journal>>
    BY <2>4 DEF Start, ReadVersion, UserTables, Backup, CheckVersion, StatementFails, Crash, Leave
  <2>5. CASE Checkpoint \/ UNCHANGED vars
    BY <2>5 DEF Checkpoint, vars
  <2> QED
    BY <2>1, <2>2, <2>3, <2>4, <2>5 DEF Next, Proceed
<1>2. Inv /\ [Next]_vars => [Allowed]_vars
  BY <1>1
<1> QED
  BY <1>2, Invariant, PTL DEF Spec, LeftAlone
===============================================================================
