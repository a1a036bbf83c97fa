----------------------------- MODULE Installation ------------------------------
(***************************************************************************)
(* The database file of an installation: every connection of the API       *)
(* bootstraps the schema before its request (api/database.py,              *)
(* persistence/schema_bootstrap.py, migrations.py, sqlite.py), operators   *)
(* back the file up and restore copies of it (operations/backup.py) while  *)
(* the API runs, processes are killed, and the API is restarted on another *)
(* release of the software or on a restored file, with the same directory  *)
(* of certificate PDFs.                                                    *)
(*                                                                         *)
(* Python's sqlite3 runs DDL and scripts outside a transaction, so each    *)
(* step of the bootstrap is committed by itself.                           *)
(***************************************************************************)
EXTENDS Naturals, Sequences, FiniteSets

CONSTANTS
  Connections,  \* connections the API may have open together
  Operators,    \* people who may run a maintenance command at the same time
  Paths,        \* database files
  Live,         \* the file of the first start
  Plan,         \* the migrations of each release of the software, in order
  Seconds,      \* seconds that backups may be named after
  SchemaVersion,  \* the schema version marker of each release
  Repeatable,   \* migrations whose SQL may run twice
  MaxIssued,    \* bound: certificates
  MaxRestarts,  \* bound: restarts of the API
  MaxFaults     \* bound: killed requests and commands

Release == DOMAIN Plan

Migration == UNION {{Plan[r][i] : i \in DOMAIN Plan[r]} : r \in Release}

ASSUME InstallationAssumption ==
  /\ Live \in Paths
  /\ Plan \in Seq(Seq(Migration) \ {<<>>}) /\ Plan # <<>>
  /\ DOMAIN SchemaVersion = Release
  /\ Repeatable \subseteq Migration
  /\ {MaxIssued, MaxRestarts, MaxFaults} \subseteq Nat

\* A plan that names a version twice is refused (_validate_migration_plan). That
\* a release only adds at the end of the plan before is not checked by the code:
\* it is what the history counts on.
ASSUME PlansAssumption ==
  \A r, s \in Release :
    \A i \in DOMAIN Plan[r], j \in DOMAIN Plan[s] :
      /\ i = j => Plan[r][i] = Plan[s][j]
      /\ r = s /\ Plan[r][i] = Plan[s][j] => i = j

\* There is no file, or a file without a page, which SQLite finds intact.
Missing == [file |-> "missing"]
Empty == [file |-> "empty"]

\* A file with the tables: whether the sequences have their status column, the
\* schema version markers, the migrations that ran, those recorded, and the
\* certificate each number was issued to.
Database(status) ==
  [file |-> "database", status |-> status, markers |-> {}, effects |-> {},
   applied |-> <<>>, issued |-> <<>>]

\* A file of the releases before the status column.
Legacy == Database(FALSE)

VARIABLES
  file,      \* the database files
  serving,   \* the path the API is configured with
  release,   \* the release of the software that runs
  conn,      \* connections of the API
  pdf,       \* certificate PDFs: number -> certificate
  minted,    \* certificates issued so far, whatever database recorded them
  answered,  \* number and certificate of every release answered with success
  backup,    \* the backup directory: a file for a second
  op,        \* maintenance commands
  evidence,  \* evidence they wrote
  copied,    \* history: backups begun for each second, and what they copied
  restarts, faults

vars == <<file, serving, release, conn, pdf, minted, answered, backup, op,
          evidence, copied, restarts, faults>>
served == <<pdf, minted, answered>>
maintained == <<backup, op, evidence, copied>>
bounded == <<restarts, faults>>

Closed == [pc |-> "closed"]
Idle == [pc |-> "idle"]

\* A table with one more row.
With(table, id, row) ==
  [x \in DOMAIN table \cup {id} |-> IF x = id THEN row ELSE table[x]]

db == file[serving]
Known(plan) == {plan[i] : i \in DOMAIN plan}

(***************************************************************************)
(* Bootstrap of a connection                                               *)
(***************************************************************************)

\* A connection and the migration of the plan it is at.
Bootstrapping(pc, i) == [pc |-> pc, i |-> i]

Step(c, pc) == [conn[c] EXCEPT !.pc = pc]
Go(c, pc) == conn' = [conn EXCEPT ![c] = Step(c, pc)]

Change(c, content, next) ==
  /\ file' = [file EXCEPT ![serving] = content]
  /\ conn' = [conn EXCEPT ![c] = next]

\* An sqlite3 error or a MigrationError.
Refuse(c) == Go(c, "refused") /\ UNCHANGED file

\* sqlite3.connect creates the file.
Connect(c) ==
  /\ conn[c] = Closed
  /\ conn' = [conn EXCEPT ![c] = Bootstrapping("tables", 1)]
  /\ file' = [file EXCEPT ![serving] = IF @ = Missing THEN Empty ELSE @]
  /\ UNCHANGED <<serving, release, served, maintained, bounded>>

\* A schema that is created with the file only.
CreateNoTables(c) ==
  /\ conn[c].pc = "tables"
  /\ Go(c, "column")
  /\ UNCHANGED <<file, serving, release, served, maintained, bounded>>

\* CREATE TABLE IF NOT EXISTS, with the status column where it is new.
CreateTables(c) ==
  /\ conn[c].pc = "tables"
  /\ IF db = Empty
     THEN Change(c, Database(TRUE), Step(c, "column"))
     ELSE Go(c, "column") /\ UNCHANGED file
  /\ UNCHANGED <<serving, release, served, maintained, bounded>>

\* A bootstrap that expects every file to have the column.
SkipColumn(c) ==
  /\ conn[c].pc = "column"
  /\ Go(c, "marker")
  /\ UNCHANGED <<file, serving, release, served, maintained, bounded>>

\* PRAGMA table_info.
ReadColumns(c) ==
  /\ conn[c].pc = "column"
  /\ Go(c, IF db.status THEN "marker" ELSE "alter")
  /\ UNCHANGED <<file, serving, release, served, maintained, bounded>>

\* ALTER TABLE ... ADD COLUMN fails when the column is there by now.
AddColumn(c) ==
  /\ conn[c].pc = "alter"
  /\ IF db.status THEN Refuse(c)
     ELSE Change(c, [db EXCEPT !.status = TRUE], Step(c, "marker"))
  /\ UNCHANGED <<serving, release, served, maintained, bounded>>

\* INSERT OR IGNORE of the schema version.
Mark(c) ==
  /\ conn[c].pc = "marker"
  /\ Change(c, [db EXCEPT !.markers = @ \cup {SchemaVersion[release]}],
            Step(c, "plan"))
  /\ UNCHANGED <<serving, release, served, maintained, bounded>>

\* A database of a later release has migrations this plan does not know.
CheckPlan(c) ==
  /\ conn[c].pc = "plan"
  /\ IF Known(db.applied) \subseteq Known(Plan[release])
     THEN Go(c, "migration") /\ UNCHANGED file
     ELSE Refuse(c)
  /\ UNCHANGED <<serving, release, served, maintained, bounded>>

NextMigration(c) ==
  LET i == conn[c].i
  IN /\ conn[c].pc = "migration"
     /\ conn' = [conn EXCEPT ![c] =
          IF i > Len(Plan[release]) THEN Bootstrapping("open", i)
          ELSE IF Plan[release][i] \in Known(db.applied)
               THEN [@ EXCEPT !.i = i + 1]
               ELSE Step(c, "script")]
     /\ UNCHANGED <<file, serving, release, served, maintained, bounded>>

\* executescript commits: the migration's SQL, then its history row.
RunScript(c) ==
  LET m == Plan[release][conn[c].i]
  IN /\ conn[c].pc = "script"
     /\ IF m \in db.effects \ Repeatable THEN Refuse(c)
        ELSE Change(c, [db EXCEPT !.effects = @ \cup {m}], Step(c, "history"))
     /\ UNCHANGED <<serving, release, served, maintained, bounded>>

\* A history that two connections may add the same version to.
RecordMigrationAgain(c) ==
  LET m == Plan[release][conn[c].i]
  IN /\ conn[c].pc = "history"
     /\ Change(c, [db EXCEPT !.applied = Append(@, m)],
               [Step(c, "migration") EXCEPT !.i = @ + 1])
     /\ UNCHANGED <<serving, release, served, maintained, bounded>>

\* version is the PRIMARY KEY of the history.
RecordMigration(c) ==
  LET m == Plan[release][conn[c].i]
  IN /\ conn[c].pc = "history"
     /\ IF m \in Known(db.applied) THEN Refuse(c)
        ELSE Change(c, [db EXCEPT !.applied = Append(@, m)],
                    [Step(c, "migration") EXCEPT !.i = @ + 1])
     /\ UNCHANGED <<serving, release, served, maintained, bounded>>

(***************************************************************************)
(* Requests                                                                *)
(***************************************************************************)

NextNumber == Len(db.issued) + 1

\* A release that numbers a certificate from the database alone.
IssueUnchecked(c) ==
  LET certificate == minted + 1
  IN /\ conn[c].pc = "open"
     /\ minted < MaxIssued
     /\ minted' = certificate
     /\ file' = [file EXCEPT ![serving].issued = Append(@, certificate)]
     /\ pdf' = With(pdf, NextNumber, certificate)
     /\ answered' = answered \cup {<<NextNumber, certificate>>}
     /\ conn' = [conn EXCEPT ![c] = Closed]
     /\ UNCHANGED <<serving, release, maintained, bounded>>

\* A release with an allocated number (ArtifactStore, in one step here), which
\* fails when the number has a PDF already.
Issue(c) ==
  LET certificate == minted + 1
  IN /\ conn[c].pc = "open"
     /\ minted < MaxIssued
     /\ NextNumber \notin DOMAIN pdf
     /\ minted' = certificate
     /\ file' = [file EXCEPT ![serving].issued = Append(@, certificate)]
     /\ pdf' = With(pdf, NextNumber, certificate)
     /\ answered' = answered \cup {<<NextNumber, certificate>>}
     /\ conn' = [conn EXCEPT ![c] = Closed]
     /\ UNCHANGED <<serving, release, maintained, bounded>>

\* Any other request, /readiness among them, and the answer to a bootstrap that
\* was refused.
Close(c) ==
  /\ conn[c].pc \in {"open", "refused"}
  /\ conn' = [conn EXCEPT ![c] = Closed]
  /\ UNCHANGED <<file, serving, release, served, maintained, bounded>>

\* What /readiness finds on a connection that is open.
Ready ==
  /\ db.markers = {SchemaVersion[release]}
  /\ Plan[release][1] \in Known(db.applied)

(***************************************************************************)
(* Backup and restore                                                      *)
(***************************************************************************)

Do(o, command) == op' = [op EXCEPT ![o] = command]

\* The name of the second is free; it is not reserved.
BeginBackup(o, name) ==
  /\ op[o] = Idle
  /\ db # Missing
  /\ backup[name] = Missing
  /\ Do(o, [pc |-> "backup", name |-> name])
  /\ copied' = [copied EXCEPT ![name].begun = @ + 1]
  /\ UNCHANGED <<file, serving, release, conn, served, backup, evidence,
                 bounded>>

\* sqlite3.connect creates the file; an interrupted copy is rolled back to it.
CreateBackup(o) ==
  /\ op[o].pc = "backup"
  /\ backup' = [backup EXCEPT ![op[o].name] = IF @ = Missing THEN Empty ELSE @]
  /\ Do(o, [op[o] EXCEPT !.pc = "copy"])
  /\ UNCHANGED <<file, serving, release, conn, served, evidence, copied,
                 bounded>>

\* A consistent copy of what is committed.
CopyBackup(o) ==
  LET name == op[o].name
  IN /\ op[o].pc = "copy"
     /\ backup' = [backup EXCEPT ![name] = db]
     /\ copied' = [copied EXCEPT ![name].contents = @ \cup {db}]
     /\ Do(o, [op[o] EXCEPT !.pc = "verify"])
     /\ UNCHANGED <<file, serving, release, conn, served, evidence,
                    bounded>>

\* A DatabaseError, such as the lock of another copy: the file is removed,
\* whoever made it.
FailBackup(o) ==
  /\ op[o].pc = "copy"
  /\ faults < MaxFaults /\ faults' = faults + 1
  /\ backup' = [backup EXCEPT ![op[o].name] = Missing]
  /\ Do(o, Idle)
  /\ UNCHANGED <<file, serving, release, conn, served, evidence, copied,
                 restarts>>

\* A verification of the source instead of the copy.
FinishBackupOfSource(o) ==
  /\ op[o].pc = "verify"
  /\ evidence' = evidence \cup
       {[kind |-> "backup", name |-> op[o].name, sha |-> db]}
  /\ Do(o, Idle)
  /\ UNCHANGED <<file, serving, release, conn, served, backup, copied, bounded>>

\* The checksum of the file that is there now; none is an error.
FinishBackup(o) ==
  LET name == op[o].name
  IN /\ op[o].pc = "verify"
     /\ evidence' =
          IF backup[name] = Missing THEN evidence
          ELSE evidence \cup {[kind |-> "backup", name |-> name,
                               sha |-> backup[name]]}
     /\ Do(o, Idle)
     /\ UNCHANGED <<file, serving, release, conn, served, backup, copied,
                    bounded>>

\* Over the live database a restore waits for the API to be stopped, as the
\* runbook has it.
BeginRestore(o, name, path) ==
  /\ op[o] = Idle
  /\ path # serving
  /\ backup[name] # Missing
  /\ file[path] = Missing
  /\ Do(o, [pc |-> "restore", name |-> name, path |-> path,
            sha |-> backup[name]])
  /\ UNCHANGED <<file, serving, release, conn, served, backup, evidence, copied, bounded>>

CreateRestored(o) ==
  LET path == op[o].path
  IN /\ op[o].pc = "restore"
     /\ file' = [file EXCEPT ![path] = IF @ = Missing THEN Empty ELSE @]
     /\ Do(o, [op[o] EXCEPT !.pc = "restoring"])
     /\ UNCHANGED <<serving, release, conn, served, backup, evidence, copied, bounded>>

CopyRestored(o) ==
  LET name == op[o].name
      path == op[o].path
  IN /\ op[o].pc = "restoring"
     /\ file' = [file EXCEPT ![path] =
                   IF backup[name] = Missing THEN Empty ELSE backup[name]]
     /\ Do(o, [op[o] EXCEPT !.pc = "restored"])
     /\ UNCHANGED <<serving, release, conn, served, backup, evidence, copied, bounded>>

\* A DatabaseError: the file of the restore is removed.
FailRestore(o) ==
  /\ op[o].pc = "restoring"
  /\ faults < MaxFaults /\ faults' = faults + 1
  /\ file' = [file EXCEPT ![op[o].path] = Missing]
  /\ Do(o, Idle)
  /\ UNCHANGED <<serving, release, conn, served, backup, evidence, copied,
                 restarts>>

FinishRestore(o) ==
  LET command == op[o]
  IN /\ command.pc = "restored"
     /\ evidence' = evidence \cup
          {[kind |-> "restore", name |-> command.name, path |-> command.path,
            sha |-> command.sha, restored |-> file[command.path]]}
     /\ Do(o, Idle)
     /\ UNCHANGED <<file, serving, release, conn, served, backup, copied,
                    bounded>>

\* build_backup_restore_validation_evidence: the three checksums agree.
DrillPassed(b, r) ==
  /\ b.kind = "backup" /\ r.kind = "restore"
  /\ b.sha = r.sha /\ r.sha = r.restored

(***************************************************************************)
(* Faults, restarts                                                        *)
(***************************************************************************)

KillRequest(c) ==
  /\ conn[c] # Closed
  /\ faults < MaxFaults /\ faults' = faults + 1
  /\ conn' = [conn EXCEPT ![c] = Closed]
  /\ UNCHANGED <<file, serving, release, served, maintained, restarts>>

KillCommand(o) ==
  /\ op[o] # Idle
  /\ faults < MaxFaults /\ faults' = faults + 1
  /\ Do(o, Idle)
  /\ UNCHANGED <<file, serving, release, conn, served, backup, evidence, copied, restarts>>

\* The API is stopped and started, on any release and any file that nobody is
\* restoring to.
Restart(r, path) ==
  /\ restarts < MaxRestarts /\ restarts' = restarts + 1
  /\ \A o \in Operators : op[o] = Idle
  /\ release' = r /\ serving' = path
  /\ conn' = [c \in Connections |-> Closed]
  /\ UNCHANGED <<file, served, maintained, faults>>

(***************************************************************************)
(* Specification                                                           *)
(***************************************************************************)

Init ==
  /\ \E first \in {Missing, Legacy} :
       file = [path \in Paths |-> IF path = Live THEN first ELSE Missing]
  /\ serving = Live /\ release = 1
  /\ conn = [c \in Connections |-> Closed]
  /\ pdf = <<>> /\ minted = 0 /\ answered = {}
  /\ backup = [second \in Seconds |-> Missing]
  /\ op = [o \in Operators |-> Idle]
  /\ evidence = {}
  /\ copied = [second \in Seconds |-> [begun |-> 0, contents |-> {}]]
  /\ restarts = 0 /\ faults = 0

Next ==
  \/ \E c \in Connections :
       \/ Connect(c)
       \/ CreateTables(c)
       \/ ReadColumns(c)
       \/ AddColumn(c)
       \/ Mark(c)
       \/ CheckPlan(c)
       \/ NextMigration(c)
       \/ RunScript(c)
       \/ RecordMigration(c)
       \/ Issue(c)
       \/ Close(c)
       \/ KillRequest(c)
  \/ \E o \in Operators :
       \/ \E name \in Seconds : BeginBackup(o, name)
       \/ CreateBackup(o)
       \/ CopyBackup(o)
       \/ FailBackup(o)
       \/ FinishBackup(o)
       \/ \E name \in Seconds, path \in Paths : BeginRestore(o, name, path)
       \/ CreateRestored(o)
       \/ CopyRestored(o)
       \/ FailRestore(o)
       \/ FinishRestore(o)
       \/ KillCommand(o)
  \/ \E r \in Release, path \in Paths : Restart(r, path)

Spec == Init /\ [][Next]_vars

(***************************************************************************)
(* Properties                                                              *)
(***************************************************************************)

Content ==
  {Missing, Empty} \cup
  [file : {"database"}, status : BOOLEAN,
   markers : SUBSET {SchemaVersion[r] : r \in Release},
   effects : SUBSET Migration, applied : Seq(Migration), issued : Seq(1..minted)]

\* Files are databases or empty, a bootstrap past its first step has a database
\* under it, and every PDF is of a certificate that was issued.
TypeOK ==
  /\ \A path \in Paths : file[path] \in Content
  /\ \A second \in Seconds : backup[second] \in Content
  /\ serving \in Paths /\ release \in Release
  /\ \A c \in Connections :
       conn[c] # Closed =>
         /\ db # Missing
         /\ conn[c].pc # "tables" => db # Empty
  /\ DOMAIN pdf \subseteq 1..MaxIssued
  /\ \A number \in DOMAIN pdf : pdf[number] \in 1..minted

\* A request is handed its connection only with a complete schema of the
\* release that runs: the status column, the marker and every migration of the
\* plan recorded, whoever made them (bootstrap_sqlite_schema).
OpenMeansComplete ==
  \A c \in Connections :
    conn[c].pc = "open" =>
      /\ db.status
      /\ SchemaVersion[release] \in db.markers
      /\ Known(db.applied) = Known(Plan[release])

\* The history of a file, a backup's too, is how far some release's plan was
\* applied, in order and each migration once; what ran and is not recorded is at
\* most the migration that comes next (executescript commits before the row).
HistoryFollowsPlan ==
  \A content \in {file[path] : path \in Paths}
               \cup {backup[second] : second \in Seconds} :
    content.file = "database" =>
      \E r \in Release :
        /\ Len(content.applied) <= Len(Plan[r])
        /\ content.applied = SubSeq(Plan[r], 1, Len(content.applied))
        /\ content.effects \in
             {Known(content.applied),
              {Plan[r][i] : i \in DOMAIN Plan[r] \cap 1..Len(content.applied) + 1}}

\* No number is answered for two certificates, not even after a restore of an
\* older database whose sequence starts over: the PDF that stands in the
\* directory refuses the number (stage_artifact).
NumbersStandAfterRestore ==
  \A a, b \in answered : a[1] = b[1] => a = b

\* While no two backups were begun in one second, backup evidence keeps
\* describing its file, and a drill that passes (three checksums that agree)
\* restored what that backup copied from the live database, though requests
\* commit, the API restarts on the restored file and commands are killed.
PassedDrillRestoresCopy ==
  \A b \in evidence :
    b.kind = "backup" /\ copied[b.name].begun = 1 =>
      /\ backup[b.name] = b.sha
      /\ \A r \in evidence : DrillPassed(b, r) => r.restored \in copied[b.name].contents

=============================================================================
