---------------------------- MODULE DatabaseFile ----------------------------
(***************************************************************************)
(* The database file over the life of an installation: the migrations at   *)
(* startup (shared/migrations.py), the backups made of it and restored     *)
(* over it (shared/backup_service.py, api/backup_routes.py), crashes, and  *)
(* the watchdog, a second process with a connection of its own.            *)
(*                                                                         *)
(* The file is three pages: the objects (tables, columns, seeded rows) it  *)
(* has, the highest version in schema_version, and everything else.  A     *)
(* committed page stays in the write-ahead log until a checkpoint; SQLite  *)
(* reads it from there, whatever the file holds.  When the last connection *)
(* closes, the log is checkpointed and removed.                            *)
(***************************************************************************)
EXTENDS Naturals, Sequences, FiniteSets

CONSTANTS
    Migrations, \* Migrations[v]: the kinds of the statements of version v
    Base,       \* the objects that SCHEMA_SQL creates
    Known,      \* the versions an existing file may come from
    MaxWrites,  \* bound: values of the data page
    MaxBackups, \* bound: backups that are kept
    MaxCrashes  \* bound: deaths of the API

Newest == Len(Migrations)
ObjectsOf(v) == {v} \X DOMAIN Migrations[v]
UpTo(v) == Base \cup UNION {ObjectsOf(w) : w \in 1 .. v}
AllObjects == UpTo(Newest)

ASSUME FileAssumption ==
    /\ Migrations \in Seq(Seq({"ddl", "row"})) /\ Len(Migrations) > 0
    /\ Base \subseteq UNION {ObjectsOf(v) : v \in 1 .. Len(Migrations)}
    /\ Known \subseteq 0 .. Len(Migrations)
    /\ {MaxWrites, MaxBackups, MaxCrashes} \subseteq Nat

VARIABLES
    file,       \* what readers see of the database
    logged,     \* the pages that are in the write-ahead log
    seeded,     \* rows a migration has inserted and not committed
    backups,    \* the backups, oldest first
    apiState,   \* where the API is
    mversion,   \* the migration it is at
    mstatement, \* the statement of it
    restoring,  \* the backup being restored, 0 if none
    watching,   \* whether the watchdog is connected
    restored,   \* whether a restore has finished since the API started
    mixed,      \* whether a restore has kept pages of the log
    deaths

fileVars == <<file, logged, seeded, backups, apiState, mversion, mstatement,
              restoring, watching, restored, mixed, deaths>>

Pages == {"objects", "version", "data"}
Contents == [objects : SUBSET AllObjects, version : 0 .. Newest, data : 0 .. MaxWrites]

FileTypeOK ==
    /\ file \in Contents
    /\ logged \subseteq Pages
    /\ seeded \subseteq AllObjects
    /\ backups \in Seq(Contents) /\ Len(backups) <= MaxBackups
    /\ apiState \in {"down", "migrating", "starting", "up", "closed", "opening"}
    /\ mversion \in 1 .. Newest + 1
    /\ mstatement \in Nat \ {0}
    /\ restoring \in 0 .. MaxBackups
    /\ watching \in BOOLEAN /\ restored \in BOOLEAN /\ mixed \in BOOLEAN
    /\ deaths \in 0 .. MaxCrashes

\* What release v has left; release 0 is no file.
Left(v) == [objects |-> IF v = 0 THEN {} ELSE UpTo(v), version |-> v, data |-> 0]

\* A file of an earlier release with backups of that and earlier ones, or none.
FileInit ==
    /\ \E v \in Known, n \in 0 .. MaxBackups :
        /\ file = Left(v)
        /\ backups \in [1 .. n -> {Left(w) : w \in {w \in Known : w \in 1 .. v}}]
    /\ logged = {}
    /\ seeded = {}
    /\ apiState = "down"
    /\ mversion = 1 /\ mstatement = 1
    /\ restoring = 0
    /\ watching = FALSE
    /\ restored = FALSE
    /\ mixed = FALSE
    /\ deaths = 0

migrateVars == <<mversion, mstatement, seeded>>
restoreVars == <<restoring, restored, mixed>>

\* The pages ps are committed.
Put(new, ps) == file' = new /\ logged' = logged \cup ps

-----------------------------------------------------------------------------
(* Startup.                                                                *)

\* SQLiteBackend.initialize, then run_migrations reads MAX(version).
OpenDatabase ==
    /\ apiState = "down"
    /\ Put([file EXCEPT !.objects = @ \cup Base],
           IF Base \subseteq file.objects THEN {} ELSE {"objects"})
    /\ apiState' = "migrating"
    /\ mversion' = file.version + 1
    /\ mstatement' = 1
    /\ restored' = FALSE
    /\ UNCHANGED <<seeded, backups, restoring, mixed, watching, deaths>>

Object == <<mversion, mstatement>>

\* Mutant: the last migration is left out.
NotYetLast == mversion < Newest

Pending == mversion <= Newest
StatementsLeft == Pending /\ mstatement <= Len(Migrations[mversion])

\* Mutant: an object that exists ends the migration.
RunStatementStrictly ==
    /\ apiState = "migrating" /\ StatementsLeft
    /\ Migrations[mversion][mstatement] = "ddl" => Object \notin file.objects \ Base
    /\ IF Migrations[mversion][mstatement] = "ddl"
       THEN /\ Put([file EXCEPT !.objects = @ \cup {Object}], {"objects"})
            /\ UNCHANGED seeded
       ELSE seeded' = seeded \cup {Object} /\ UNCHANGED <<file, logged>>
    /\ mstatement' = mstatement + 1
    /\ UNCHANGED <<backups, apiState, mversion, restoreVars, watching, deaths>>

(* One statement of the current migration.  ALTER and CREATE commit by     *)
(* themselves, and are skipped when the object exists; INSERT OR IGNORE    *)
(* opens a transaction.                                                    *)
RunStatement ==
    /\ apiState = "migrating" /\ StatementsLeft
    /\ IF Migrations[mversion][mstatement] = "ddl"
       THEN /\ Put([file EXCEPT !.objects = @ \cup {Object}],
                   IF Object \in file.objects THEN {} ELSE {"objects"})
            /\ UNCHANGED seeded
       ELSE seeded' = seeded \cup {Object} /\ UNCHANGED <<file, logged>>
    /\ mstatement' = mstatement + 1
    /\ UNCHANGED <<backups, apiState, mversion, restoreVars, watching, deaths>>

\* Mutant: the version is recorded when its migration begins.
RecordVersionFirst ==
    /\ apiState = "migrating" /\ Pending
    /\ mstatement = 1 \/ ~StatementsLeft
    /\ IF file.version < mversion
       THEN /\ Put([file EXCEPT !.version = mversion], {"version"})
            /\ UNCHANGED migrateVars
       ELSE /\ ~StatementsLeft
            /\ Put([file EXCEPT !.objects = @ \cup seeded], {"objects"})
            /\ seeded' = {}
            /\ mversion' = mversion + 1
            /\ mstatement' = 1
    /\ UNCHANGED <<backups, apiState, restoreVars, watching, deaths>>

\* INSERT INTO schema_version, and the commit that ends the migration.
RecordVersion ==
    /\ apiState = "migrating" /\ Pending /\ ~StatementsLeft
    /\ Put([file EXCEPT !.version = mversion, !.objects = @ \cup seeded],
           {"version", "objects"})
    /\ seeded' = {}
    /\ mversion' = mversion + 1
    /\ mstatement' = 1
    /\ UNCHANGED <<backups, apiState, restoreVars, watching, deaths>>

FinishMigrations ==
    /\ apiState = "migrating" /\ ~Pending
    /\ apiState' = "starting"
    /\ UNCHANGED <<file, logged, migrateVars, backups, restoreVars, watching, deaths>>

\* VACUUM INTO: a copy of what the connection reads, log included; then
\* cleanup_old_backups may remove old ones, of which this is none.
AddBackup ==
    \E kept \in 0 .. Len(backups) :
        /\ kept < MaxBackups
        /\ backups' = Append(SubSeq(backups, Len(backups) - kept + 1, Len(backups)), file)

(* _run_auto_backup: a failure (the target exists, the disk is full) is    *)
(* logged.  The other startup tasks are not about the file.                *)
AutoBackup ==
    /\ apiState = "starting"
    /\ AddBackup \/ UNCHANGED backups
    /\ apiState' = "up"
    /\ UNCHANGED <<file, logged, migrateVars, restoreVars, watching, deaths>>

-----------------------------------------------------------------------------
(* Requests.                                                               *)

\* trigger_backup.
Backup ==
    /\ apiState = "up"
    /\ AddBackup
    /\ UNCHANGED <<file, logged, migrateVars, apiState, restoreVars, watching, deaths>>

\* Any request that writes; the watchdog, once the API made the tables.
WriteData ==
    /\ apiState = "up" \/ watching
    /\ file.data < MaxWrites
    /\ Put([file EXCEPT !.data = @ + 1], {"data"})
    /\ UNCHANGED <<migrateVars, backups, apiState, restoreVars, watching, deaths>>

\* trigger_restore: closes the connection.  The last one takes the log along.
RestoreClose ==
    /\ apiState = "up"
    /\ \E b \in DOMAIN backups : restoring' = b
    /\ logged' = IF watching THEN logged ELSE {}
    /\ apiState' = "closed"
    /\ UNCHANGED <<file, migrateVars, backups, restored, mixed, watching, deaths>>

\* shutil.copy2: the file is the backup, pages in the log hide its own.
RestoreCopy ==
    LET kept == IF watching THEN logged ELSE {} IN
    /\ apiState = "closed"
    /\ file' = [p \in Pages |-> IF p \in kept THEN file[p] ELSE backups[restoring][p]]
    /\ logged' = kept
    /\ mixed' = (mixed \/ kept # {})
    /\ apiState' = "opening"
    /\ UNCHANGED <<migrateVars, backups, restoring, restored, watching, deaths>>

\* DatabaseManager.initialize: SCHEMA_SQL, no migrations.
RestoreOpen ==
    /\ apiState = "opening"
    /\ Put([file EXCEPT !.objects = @ \cup Base],
           IF Base \subseteq file.objects THEN {} ELSE {"objects"})
    /\ restoring' = 0
    /\ restored' = TRUE
    /\ apiState' = "up"
    /\ UNCHANGED <<migrateVars, backups, mixed, watching, deaths>>

-----------------------------------------------------------------------------
(* The environment.                                                        *)

Checkpoint ==
    /\ logged # {} /\ (apiState \notin {"down", "closed", "opening"} \/ watching)
    /\ logged' = {}
    /\ UNCHANGED <<file, migrateVars, backups, apiState, restoreVars, watching, deaths>>

\* The watchdog is started next to a running API, and may stop.
WatchdogConnects ==
    /\ ~watching /\ apiState = "up"
    /\ watching' = TRUE
    /\ UNCHANGED <<file, logged, migrateVars, backups, apiState, restoreVars, deaths>>

WatchdogStops ==
    /\ watching
    /\ watching' = FALSE
    /\ logged' = IF apiState \in {"down", "closed", "opening"} THEN {} ELSE logged
    /\ UNCHANGED <<file, migrateVars, backups, apiState, restoreVars, deaths>>

\* The transaction is lost; the log outlives the process.  A death in the
\* middle of the copy, which leaves part of a file, is not modelled.
ApiDies ==
    /\ apiState # "down" /\ deaths < MaxCrashes
    /\ deaths' = deaths + 1
    /\ apiState' = "down"
    /\ seeded' = {}
    /\ restoring' = 0
    /\ UNCHANGED <<file, logged, backups, mversion, mstatement, restored, mixed, watching>>

Starting == OpenDatabase \/ RunStatement \/ RecordVersion \/ FinishMigrations \/ AutoBackup
Restoring == RestoreCopy \/ RestoreOpen

FileNext ==
    \/ Starting \/ Restoring
    \/ Backup \/ WriteData \/ RestoreClose
    \/ Checkpoint \/ WatchdogConnects \/ WatchdogStops \/ ApiDies

\* The API is started again when it died, and works on.
FileFairness == WF_fileVars(Starting) /\ WF_fileVars(Restoring)

FileSpec == FileInit /\ [][FileNext]_fileVars /\ FileFairness

-----------------------------------------------------------------------------
(* "Jede Migration läuft genau einmal" (shared/migrations.py): a version   *)
(* is skipped once it is recorded, so everything of a recorded version is  *)
(* in the file, whatever crash came between its statements and whichever   *)
(* backup was restored.  A restore under the watchdog's connection, which  *)
(* keeps pages of the log, is exempt: it may keep the version and lose the *)
(* objects.                                                                *)
RecordedIsApplied ==
    mixed \/ \A v \in 1 .. file.version : ObjectsOf(v) \subseteq file.objects

(* Requests meet the schema of this release, with every object of it,      *)
(* whatever crashes came and whichever backup an earlier life restored,    *)
(* until a restore in this one: it opens the backup of an earlier release  *)
(* as it is.  The objects are exempt as above.                             *)
OldSchemaOnlyAfterRestore ==
    apiState = "up" /\ ~restored =>
        file.version = Newest /\ (mixed \/ AllObjects \subseteq file.objects)

(* A start that has begun to migrate comes up, whatever crash came in the   *)
(* middle of a migration: the statements that ran are skipped the next time.*)
ComesUp == apiState = "migrating" ~> apiState = "up"
=============================================================================
