----------------------------- MODULE Data_proofs ----------------------------
(***************************************************************************)
(* Proofs about the components that keep rows in the database, for any     *)
(* migrations, options, messages and crashes: what a file has recorded,    *)
(* what a start does to a changed setting, what a turn of the chat may     *)
(* do and what its prompt has, and that MCData combines them soundly.      *)
(***************************************************************************)
EXTENDS MCData, DataDeletion_proofs, SequenceTheorems

-----------------------------------------------------------------------------
(***************************************************************************)
(* DatabaseFile: the types, and that a recorded version has been           *)
(* applied.                                                                *)
(***************************************************************************)

\* The objects of the versions a file has recorded are in it.
Applied(c) == \A v \in 1 .. c.version : ObjectsOf(v) \subseteq c.objects

\* So are those of every backup, which is a copy of an earlier file.
AllApplied == mixed \/ (Applied(file) /\ \A b \in DOMAIN backups : Applied(backups[b]))

\* While the API migrates it is at the version after the recorded one, and
\* what it has run of that is in the file or in its open transaction.
Progress ==
    apiState = "migrating" =>
        /\ mversion = file.version + 1
        /\ mversion <= Newest =>
              \A k \in 1 .. mstatement - 1 : <<mversion, k>> \in file.objects \cup seeded

\* Only a migrated file gets past the migrations.
Migrated == apiState \in {"starting", "up"} => file.version = Newest \/ restored

\* A restore is of a backup that is there.
OfBackup == apiState = "closed" => restoring \in DOMAIN backups

FileInv == FileTypeOK /\ AllApplied /\ Progress /\ Migrated /\ OfBackup

-----------------------------------------------------------------------------
\* The numbers are numbers.
LEMMA Bounds ==
    /\ Newest \in Nat \ {0}
    /\ MaxWrites \in Nat /\ MaxBackups \in Nat /\ MaxCrashes \in Nat
BY FileAssumption DEF Newest

LEMMA VersionType == FileTypeOK => file.version \in 0 .. Newest
BY DEF FileTypeOK, Contents

LEMMA ObjectsKnown ==
    /\ Base \subseteq AllObjects
    /\ \A v \in 0 .. Newest : UpTo(v) \subseteq AllObjects
    /\ \A v \in 1 .. Newest : /\ ObjectsOf(v) \subseteq AllObjects
                              /\ Migrations[v] \in Seq({"ddl", "row"})
                              /\ DOMAIN Migrations[v] = 1 .. Len(Migrations[v])
<1>. USE FileAssumption
<1>1. Newest \in Nat \ {0}
  BY Bounds
<1>2. Base \subseteq AllObjects
  BY DEF AllObjects, UpTo
<1>3. \A v \in 0 .. Newest : UpTo(v) \subseteq AllObjects
  BY <1>1 DEF AllObjects, UpTo
<1>4. \A v \in 1 .. Newest : ObjectsOf(v) \subseteq AllObjects
  BY <1>1 DEF AllObjects, UpTo
<1>5. \A v \in 1 .. Newest : Migrations[v] \in Seq({"ddl", "row"})
  BY <1>1 DEF Newest
<1>. QED
  BY <1>2, <1>3, <1>4, <1>5

LEMMA FileInitInv == FileInit => FileInv
<1>. SUFFICES ASSUME FileInit PROVE FileInv
  OBVIOUS
<1>. USE Bounds
<1>1. PICK v \in Known, n \in 0 .. MaxBackups :
        /\ file = Left(v)
        /\ backups \in [1 .. n -> {Left(w) : w \in {w \in Known : w \in 1 .. v}}]
  BY DEF FileInit
<1>2. v \in 0 .. Newest /\ n \in Nat
  BY FileAssumption DEF Newest
<1>3. \A w \in 0 .. Newest : Left(w) \in Contents /\ Applied(Left(w))
  <2>. TAKE w \in 0 .. Newest
  <2>1. Left(w) = [objects |-> IF w = 0 THEN {} ELSE UpTo(w), version |-> w, data |-> 0]
    BY DEF Left
  <2>2. Left(w) \in Contents
    BY <2>1, ObjectsKnown DEF Contents
  <2>3. Applied(Left(w))
    BY <2>1 DEF Applied, UpTo
  <2>. QED
    BY <2>2, <2>3
<1>4. /\ backups \in Seq(Contents) /\ Len(backups) = n /\ DOMAIN backups = 1 .. n
      /\ \A b \in DOMAIN backups : Applied(backups[b])
  <2>1. \A b \in 1 .. n : \E w \in 1 .. v : backups[b] = Left(w)
    BY <1>1
  <2>2. \A b \in 1 .. n : backups[b] \in Contents /\ Applied(backups[b])
    BY <1>2, <1>3, <2>1
  <2>3. backups \in [1 .. n -> Contents]
    BY <1>1, <2>2
  <2>4. backups \in Seq(Contents) /\ Len(backups) = n
    BY <1>2, <2>3
  <2>. QED
    BY <2>2, <2>3, <2>4
<1>5. FileTypeOK
  <2>1. file \in Contents /\ logged = {} /\ seeded = {} /\ n <= MaxBackups
    BY <1>1, <1>2, <1>3 DEF FileInit
  <2>2. watching \in BOOLEAN /\ restored \in BOOLEAN /\ mixed \in BOOLEAN
    BY DEF FileInit
  <2>3. mversion \in 1 .. Newest + 1 /\ restoring \in 0 .. MaxBackups /\ deaths \in 0 .. MaxCrashes
    BY DEF FileInit
  <2>. QED
    BY <1>4, <2>1, <2>2, <2>3 DEF FileInit, FileTypeOK
<1>6. Applied(file)
  BY <1>1, <1>2, <1>3
<1>. QED
  BY <1>4, <1>5, <1>6 DEF FileInit, FileInv, AllApplied, Progress, Migrated, OfBackup

(* A commit that adds objects keeps what is applied.                       *)
LEMMA AppliedGrows ==
    ASSUME NEW c, NEW d, Applied(c), d.version = c.version, c.objects \subseteq d.objects
    PROVE  Applied(d)
BY DEF Applied

(* The migrations.                                                         *)
LEMMA MigrationStep ==
    ASSUME FileInv, OpenDatabase \/ RunStatement \/ RecordVersion \/ FinishMigrations
    PROVE  FileInv'
<1>. USE Bounds, ObjectsKnown DEF FileInv
<1>1. CASE OpenDatabase
  <2>1. /\ file' = [file EXCEPT !.objects = @ \cup Base]
        /\ mversion' = file.version + 1 /\ mstatement' = 1 /\ restored' = FALSE
        /\ logged' \subseteq Pages
        /\ apiState' = "migrating"
        /\ UNCHANGED <<seeded, backups, restoring, mixed, watching, deaths>>
    BY <1>1 DEF OpenDatabase, Put, FileTypeOK, Pages
  <2>2. file' \in Contents
    BY <2>1 DEF FileTypeOK, Contents
  <2>3. FileTypeOK'
    <3>1. file.version + 1 \in 1 .. Newest + 1
      BY VersionType
    <3>2. restored' \in BOOLEAN
      BY <2>1
    <3>. QED
      BY <2>1, <2>2, <3>1, <3>2 DEF FileTypeOK
  <2>4. /\ file'.version = file.version
        /\ file'.objects = file.objects \cup Base
    BY <2>1 DEF FileTypeOK, Contents
  <2>5. AllApplied'
    BY <2>1, <2>4, AppliedGrows DEF AllApplied
  <2>6. Progress' /\ Migrated' /\ OfBackup'
    BY <2>1, <2>4 DEF Progress, Migrated, OfBackup
  <2>. QED
    BY <2>3, <2>5, <2>6
<1>2. CASE RunStatement
  <2>1. /\ apiState = "migrating" /\ apiState' = "migrating"
        /\ mversion \in 1 .. Newest /\ mstatement \in DOMAIN Migrations[mversion]
        /\ mstatement' = mstatement + 1
        /\ UNCHANGED <<backups, mversion, restoring, restored, mixed, watching, deaths>>
    BY <1>2 DEF RunStatement, StatementsLeft, Pending, FileTypeOK, restoreVars
  <2>2. Object \in AllObjects
    BY <2>1 DEF Object, ObjectsOf
  <2>3. /\ file' \in Contents /\ file'.version = file.version
        /\ file.objects \subseteq file'.objects
        /\ logged' \subseteq Pages
        /\ seeded \subseteq seeded' /\ seeded' \subseteq AllObjects
        /\ Object \in file'.objects \cup seeded'
    <3>1. CASE Migrations[mversion][mstatement] = "ddl"
      <4>1. /\ file' = [file EXCEPT !.objects = @ \cup {Object}]
            /\ logged' \subseteq Pages /\ seeded' = seeded
        BY <1>2, <3>1 DEF RunStatement, Put, FileTypeOK, Pages
      <4>. QED
        BY <2>2, <4>1 DEF FileTypeOK, Contents
    <3>2. CASE Migrations[mversion][mstatement] # "ddl"
      BY <1>2, <2>2, <3>2 DEF RunStatement, FileTypeOK, Contents
    <3>. QED
      BY <3>1, <3>2
  <2>4. FileTypeOK'
    BY <2>1, <2>3 DEF FileTypeOK
  <2>5. AllApplied'
    BY <2>1, <2>3, AppliedGrows DEF AllApplied
  <2>6. Progress'
    <3>1. mversion = file.version + 1
          /\ \A k \in 1 .. mstatement - 1 : <<mversion, k>> \in file.objects \cup seeded
      BY <2>1 DEF Progress
    <3>2. \A k \in 1 .. mstatement : k = mstatement \/ k \in 1 .. mstatement - 1
      BY DEF FileTypeOK
    <3>3. \A k \in 1 .. mstatement : <<mversion, k>> \in file'.objects \cup seeded'
      BY <2>3, <3>1, <3>2 DEF Object
    <3>4. mstatement' - 1 = mstatement
      BY <2>1 DEF FileTypeOK
    <3>. QED
      BY <2>1, <2>3, <3>1, <3>3, <3>4 DEF Progress
  <2>. QED
    BY <2>1, <2>4, <2>5, <2>6 DEF Migrated, OfBackup
<1>3. CASE RecordVersion
  <2>1. /\ apiState = "migrating" /\ apiState' = "migrating"
        /\ mversion \in 1 .. Newest /\ mversion = file.version + 1
        /\ mstatement > Len(Migrations[mversion])
        /\ file' = [file EXCEPT !.version = mversion, !.objects = @ \cup seeded]
        /\ logged' = logged \cup {"version", "objects"}
        /\ seeded' = {} /\ mversion' = mversion + 1 /\ mstatement' = 1
        /\ UNCHANGED <<backups, restoring, restored, mixed, watching, deaths>>
    BY <1>3 DEF RecordVersion, Put, StatementsLeft, Pending, FileTypeOK, Progress, restoreVars
  <2>2. /\ file' \in Contents /\ file'.version = mversion
        /\ file'.objects = file.objects \cup seeded
    <3>1. file \in Contents /\ seeded \subseteq AllObjects /\ mversion \in 0 .. Newest
      BY <2>1 DEF FileTypeOK
    <3>. QED
      BY <2>1, <3>1 DEF Contents
  <2>3. FileTypeOK'
    BY <2>1, <2>2 DEF FileTypeOK, Pages
  <2>4. ObjectsOf(mversion) \subseteq file.objects \cup seeded
    <3>1. \A k \in 1 .. mstatement - 1 : <<mversion, k>> \in file.objects \cup seeded
      BY <2>1 DEF Progress
    <3>2. \A k \in DOMAIN Migrations[mversion] : k \in 1 .. mstatement - 1
      <4>1. DOMAIN Migrations[mversion] = 1 .. Len(Migrations[mversion])
        BY <2>1
      <4>2. Len(Migrations[mversion]) \in Nat /\ mstatement \in Nat
        BY <2>1 DEF FileTypeOK
      <4>. QED
        BY <2>1, <4>1, <4>2
    <3>. QED
      BY <3>1, <3>2 DEF ObjectsOf
  <2>5. ASSUME Applied(file)
        PROVE  Applied(file')
    <3>1. \A v \in 1 .. mversion : v = mversion \/ v \in 1 .. file.version
      BY <2>1, VersionType
    <3>. QED
      BY <2>2, <2>4, <2>5, <3>1 DEF Applied
  <2>6. AllApplied'
    BY <2>1, <2>5 DEF AllApplied
  <2>. QED
    BY <2>1, <2>2, <2>3, <2>6 DEF Progress, Migrated, OfBackup
<1>4. CASE FinishMigrations
  <2>1. file.version = Newest
    BY <1>4 DEF FinishMigrations, Pending, Progress, FileTypeOK, Contents
  <2>2. /\ apiState' = "starting"
        /\ UNCHANGED <<file, logged, mversion, mstatement, seeded, backups,
                       restoring, restored, mixed, watching, deaths>>
    BY <1>4 DEF FinishMigrations, migrateVars, restoreVars
  <2>. QED
    BY <2>1, <2>2 DEF FileTypeOK, AllApplied, Applied, Progress, Migrated, OfBackup
<1>. QED
  BY <1>1, <1>2, <1>3, <1>4

(* A new backup is a copy of the file; the ones that are kept stay.        *)
LEMMA AddBackupStep ==
    ASSUME FileTypeOK, AddBackup
    PROVE  /\ backups' \in Seq(Contents) /\ Len(backups') <= MaxBackups
           /\ \A i \in DOMAIN backups' :
                 backups'[i] = file \/ \E j \in DOMAIN backups : backups'[i] = backups[j]
<1>1. PICK kept \in 0 .. Len(backups) :
          /\ kept < MaxBackups
          /\ backups' = Append(SubSeq(backups, Len(backups) - kept + 1, Len(backups)), file)
  BY DEF AddBackup
<1>. DEFINE first == Len(backups) - kept + 1
            rest == SubSeq(backups, first, Len(backups))
<1>2. /\ backups \in Seq(Contents) /\ Len(backups) \in Nat /\ file \in Contents
      /\ first \in 1 .. Len(backups) + 1 /\ kept \in Nat /\ MaxBackups \in Nat
  BY Bounds DEF FileTypeOK
<1>3. /\ rest \in Seq(Contents) /\ Len(rest) = kept
      /\ \A i \in 1 .. kept : rest[i] = backups[first + i - 1]
  BY <1>2, SubSeqProperties
<1>4. \A i \in 1 .. kept : first + i - 1 \in DOMAIN backups
  BY <1>2
<1>. HIDE DEF rest, first
<1>5. backups' = Append(rest, file)
  BY <1>1 DEF rest, first
<1>6. /\ backups' \in Seq(Contents) /\ Len(backups') = kept + 1
      /\ \A i \in 1 .. kept + 1 : backups'[i] = IF i <= kept THEN rest[i] ELSE file
  BY <1>2, <1>3, <1>5
<1>7. Len(backups') <= MaxBackups
  BY <1>1, <1>2, <1>6
<1>8. ASSUME NEW i \in DOMAIN backups'
      PROVE  backups'[i] = file \/ \E j \in DOMAIN backups : backups'[i] = backups[j]
  <2>1. i \in 1 .. kept + 1
    BY <1>6
  <2>2. CASE i \in 1 .. kept
    BY <1>3, <1>4, <1>6, <2>1, <2>2
  <2>3. CASE i = kept + 1
    BY <1>2, <1>6, <2>3
  <2>. QED
    BY <1>2, <2>1, <2>2, <2>3
<1>. QED
  BY <1>6, <1>7, <1>8

(* Backups, writes and restores.                                           *)
LEMMA FileRequestStep ==
    ASSUME FileInv,
           AutoBackup \/ Backup \/ WriteData \/ RestoreClose \/ RestoreCopy \/ RestoreOpen
    PROVE  FileInv'
<1>. USE Bounds, ObjectsKnown DEF FileInv
<1>1. ASSUME AddBackup \/ UNCHANGED backups,
             apiState \in {"starting", "up"}, apiState' = "up",
             UNCHANGED <<file, logged, migrateVars, restoreVars, watching, deaths>>
      PROVE  FileInv'
  <2>1. UNCHANGED <<mversion, mstatement, seeded, restoring, restored, mixed>>
    BY <1>1 DEF migrateVars, restoreVars
  <2>2. /\ backups' \in Seq(Contents) /\ Len(backups') <= MaxBackups
        /\ \A i \in DOMAIN backups' :
              backups'[i] = file \/ \E j \in DOMAIN backups : backups'[i] = backups[j]
    BY <1>1, AddBackupStep DEF FileTypeOK
  <2>3. FileTypeOK'
    BY <1>1, <2>1, <2>2 DEF FileTypeOK
  <2>4. AllApplied'
    BY <1>1, <2>1, <2>2 DEF AllApplied
  <2>. QED
    BY <1>1, <2>1, <2>3, <2>4 DEF Progress, Migrated, OfBackup
<1>2. CASE AutoBackup
  BY <1>1, <1>2 DEF AutoBackup
<1>3. CASE Backup
  BY <1>1, <1>3 DEF Backup
<1>4. CASE WriteData
  <2>1. /\ file' = [file EXCEPT !.data = @ + 1] /\ file.data < MaxWrites
        /\ logged' = logged \cup {"data"}
        /\ UNCHANGED <<mversion, mstatement, seeded, backups, apiState, restoring,
                       restored, mixed, watching, deaths>>
    BY <1>4 DEF WriteData, Put, migrateVars, restoreVars
  <2>2. /\ file' \in Contents /\ file'.version = file.version
        /\ file'.objects = file.objects
    <3>1. file.data + 1 \in 0 .. MaxWrites /\ file \in Contents
      BY <2>1 DEF FileTypeOK, Contents
    <3>. QED
      BY <2>1, <3>1 DEF Contents
  <2>3. FileTypeOK'
    BY <2>1, <2>2 DEF FileTypeOK, Pages
  <2>. QED
    BY <2>1, <2>2, <2>3, AppliedGrows DEF AllApplied, Progress, Migrated, OfBackup
<1>5. CASE RestoreClose
  <2>1. /\ restoring' \in DOMAIN backups /\ logged' \subseteq Pages /\ apiState' = "closed"
        /\ UNCHANGED <<file, mversion, mstatement, seeded, backups, restored, mixed,
                       watching, deaths>>
    BY <1>5 DEF RestoreClose, migrateVars, FileTypeOK
  <2>2. FileTypeOK'
    BY <2>1 DEF FileTypeOK
  <2>. QED
    BY <2>1, <2>2 DEF AllApplied, Progress, Migrated, OfBackup
<1>6. CASE RestoreCopy
  <2>. DEFINE kept == IF watching THEN logged ELSE {}
  <2>1. /\ apiState = "closed" /\ apiState' = "opening"
        /\ file' = [p \in Pages |-> IF p \in kept THEN file[p] ELSE backups[restoring][p]]
        /\ logged' = kept /\ mixed' = (mixed \/ kept # {})
        /\ UNCHANGED <<mversion, mstatement, seeded, backups, restoring, restored,
                       watching, deaths>>
    BY <1>6 DEF RestoreCopy, migrateVars
  <2>2. backups[restoring] \in Contents /\ file \in Contents /\ kept \subseteq Pages
    BY <2>1 DEF OfBackup, FileTypeOK
  <2>. HIDE DEF kept
  <2>3. file' = [objects |-> IF "objects" \in kept THEN file.objects
                                                   ELSE backups[restoring].objects,
                 version |-> IF "version" \in kept THEN file.version
                                                   ELSE backups[restoring].version,
                 data    |-> IF "data" \in kept THEN file.data
                                                ELSE backups[restoring].data]
    BY <2>1, <2>2 DEF Pages
  <2>4. file' \in Contents
    BY <2>2, <2>3 DEF Contents
  <2>5. FileTypeOK'
    BY <2>1, <2>2, <2>4 DEF FileTypeOK
  <2>6. AllApplied'
    <3>1. CASE mixed'
      BY <3>1 DEF AllApplied
    <3>2. CASE ~mixed'
      <4>1. ~mixed /\ kept = {}
        BY <2>1, <3>2
      <4>2. Applied(backups[restoring])
        BY <2>1, <4>1 DEF AllApplied, OfBackup
      <4>3. /\ file'.version = backups[restoring].version
            /\ file'.objects = backups[restoring].objects
        BY <2>3, <4>1
      <4>. QED
        BY <2>1, <4>1, <4>2, <4>3, AppliedGrows DEF AllApplied
    <3>. QED
      BY <3>1, <3>2
  <2>. QED
    BY <2>1, <2>5, <2>6 DEF Progress, Migrated, OfBackup
<1>7. CASE RestoreOpen
  <2>1. /\ file' = [file EXCEPT !.objects = @ \cup Base]
        /\ logged' \subseteq Pages
        /\ restoring' = 0 /\ restored' = TRUE /\ apiState' = "up"
        /\ UNCHANGED <<mversion, mstatement, seeded, backups, mixed, watching, deaths>>
    BY <1>7 DEF RestoreOpen, Put, migrateVars, FileTypeOK, Pages
  <2>2. /\ file' \in Contents /\ file'.version = file.version
        /\ file'.objects = file.objects \cup Base
    BY <2>1 DEF FileTypeOK, Contents
  <2>3. FileTypeOK'
    BY <2>1, <2>2 DEF FileTypeOK
  <2>. QED
    BY <2>1, <2>2, <2>3, AppliedGrows DEF AllApplied, Progress, Migrated, OfBackup
<1>. QED
  BY <1>2, <1>3, <1>4, <1>5, <1>6, <1>7

(* What happens around the API changes no page.                            *)
LEMMA EnvironmentStep ==
    ASSUME FileInv, Checkpoint \/ WatchdogConnects \/ WatchdogStops \/ ApiDies
    PROVE  FileInv'
<1>1. /\ UNCHANGED <<file, mversion, mstatement, backups, restored, mixed>>
      /\ logged' \subseteq Pages
      /\ watching' \in BOOLEAN /\ deaths' \in 0 .. MaxCrashes
      /\ \/ UNCHANGED <<apiState, seeded, restoring>>
         \/ apiState' = "down" /\ seeded' = {} /\ restoring' = 0
  <2>1. CASE Checkpoint \/ WatchdogConnects \/ WatchdogStops
    BY <2>1 DEF FileInv, FileTypeOK, Checkpoint, WatchdogConnects, WatchdogStops,
                migrateVars, restoreVars
  <2>2. CASE ApiDies
    BY <2>2, Bounds DEF FileInv, FileTypeOK, ApiDies
  <2>. QED
    BY <2>1, <2>2
<1>2. FileTypeOK'
  BY <1>1, Bounds DEF FileInv, FileTypeOK
<1>. QED
  BY <1>1, <1>2 DEF FileInv, AllApplied, Progress, Migrated, OfBackup

\* Every step of the file keeps FileInv.
LEMMA FileStep == FileInv /\ [FileNext]_fileVars => FileInv'
<1>. SUFFICES ASSUME FileInv, [FileNext]_fileVars
              PROVE  FileInv'
  OBVIOUS
<1>1. CASE FileNext
  BY <1>1, MigrationStep, FileRequestStep, EnvironmentStep DEF FileNext, Starting, Restoring
<1>2. CASE UNCHANGED fileVars
  BY <1>2 DEF fileVars, FileInv, FileTypeOK, AllApplied, Progress, Migrated, OfBackup
<1>. QED
  BY <1>1, <1>2

\* The invariant of the file holds throughout, its types among it, over crashes,
\* backups and restores (migrations.py, backup_service.py).
THEOREM FileInvCorrect == FileSpec => []FileInv
BY FileInitInv, FileStep, PTL DEF FileSpec

-----------------------------------------------------------------------------
(* "Jede Migration läuft genau einmal": what is recorded was applied, over *)
(* crashes between statements and restores (migrations.py run_migrations). *)
THEOREM RecordedIsAppliedCorrect == FileSpec => []RecordedIsApplied
<1>1. FileInv => RecordedIsApplied
  BY DEF FileInv, AllApplied, Applied, RecordedIsApplied
<1>. QED
  BY <1>1, FileInvCorrect, PTL

(* Requests meet this release's schema with all its objects, whatever file *)
(* and backups earlier releases left and whatever crashes came, until a    *)
(* restore in this life of the API (run_migrations, trigger_restore).      *)
THEOREM OldSchemaOnlyAfterRestoreCorrect == FileSpec => []OldSchemaOnlyAfterRestore
<1>1. ASSUME FileInv PROVE OldSchemaOnlyAfterRestore
  <2>. SUFFICES ASSUME apiState = "up", ~restored
                PROVE  file.version = Newest /\ (mixed \/ AllObjects \subseteq file.objects)
    BY DEF OldSchemaOnlyAfterRestore
  <2>1. file.version = Newest
    BY <1>1, Bounds DEF FileInv, Migrated
  <2>2. ASSUME ~mixed PROVE AllObjects \subseteq file.objects
    <3>1. \A v \in 1 .. Newest : ObjectsOf(v) \subseteq file.objects
      BY <1>1, <2>1, <2>2 DEF FileInv, AllApplied, Applied
    <3>2. Base \subseteq UNION {ObjectsOf(v) : v \in 1 .. Newest}
      BY FileAssumption DEF Newest
    <3>. QED
      BY <3>1, <3>2 DEF AllObjects, UpTo
  <2>. QED
    BY <2>1, <2>2
<1>. QED
  BY <1>1, FileInvCorrect, PTL

-----------------------------------------------------------------------------
(***************************************************************************)
(* Settings: the types, and that a start changes no setting that is        *)
(* there.                                                                  *)
(***************************************************************************)

\* The types hold at first and are kept by every step.
LEMMA SettingsTypeInitially == SettingsInit => SettingsTypeOK
<1> SUFFICES ASSUME SettingsInit PROVE SettingsTypeOK
  OBVIOUS
<1> USE SettingsAssumption DEF SettingsAssumption, SettingsInit, Readers, Profiles
<1>1. boots \in 0 .. MaxSeeds
  OBVIOUS
<1>2. /\ setting \in [Keys -> {"default", "changed", NoRow}]
      /\ batch \in [Updates -> {"sent", "writing", "done", "lost"}]
      /\ keys \in [Updates -> SUBSET Keys]
      /\ cache \in [Readers -> SUBSET Keys]
      /\ profile \in [Profiles -> Names \cup {NoRow}]
      /\ edit \in [Edits -> {"sent", "update", "delete", "done", "lost"}]
      /\ edited \in [Edits -> Profiles \cup {NoRow}]
  OBVIOUS
<1>3. posted \in BOOLEAN /\ registered \subseteq Readers
  OBVIOUS
<1> QED
  BY <1>1, <1>2, <1>3 DEF SettingsTypeOK

LEMMA SettingsTypeKept == SettingsTypeOK /\ [SettingsNext]_settingsVars => SettingsTypeOK'
<1> SUFFICES ASSUME SettingsTypeOK, [SettingsNext]_settingsVars
             PROVE  SettingsTypeOK'
  OBVIOUS
<1> USE SettingsAssumption DEF SettingsAssumption, SettingsTypeOK, Readers, settingVars,
        profileVars, Profiles
<1>1. CASE BootApi
  BY <1>1 DEF BootApi
<1>2. CASE SeedSettings
  BY <1>2 DEF SeedSettings
<1>3. CASE SeedProfiles
  BY <1>3 DEF SeedProfiles, Missing
<1>4. CASE SeedProfilesFails
  BY <1>4 DEF SeedProfilesFails
<1>5. CASE StopApi
  BY <1>5 DEF StopApi
<1>6. ASSUME NEW u \in Updates, SendUpdate(u) PROVE SettingsTypeOK'
  BY <1>6 DEF SendUpdate
<1>7. ASSUME NEW u \in Updates, WriteBatch(u) PROVE SettingsTypeOK'
  BY <1>7 DEF WriteBatch
<1>8. CASE PostWebhook
  BY <1>8 DEF PostWebhook, Load
<1>9. CASE CreateProfile
  BY <1>9 DEF CreateProfile
<1>10. ASSUME NEW e \in Edits, CheckEdit(e) PROVE SettingsTypeOK'
  BY <1>10 DEF CheckEdit
<1>11. ASSUME NEW e \in Edits, UpdateProfile(e) PROVE SettingsTypeOK'
  <2>1. PICK n \in Names :
            profile' = profile \/ profile' = [profile EXCEPT ![edited[e]] = n]
    BY <1>11 DEF UpdateProfile
  <2>2. profile' \in [Profiles -> Names \cup {NoRow}]
    BY <2>1
  <2> QED
    BY <1>11, <2>2 DEF UpdateProfile
<1>12. ASSUME NEW e \in Edits, DeleteProfile(e) PROVE SettingsTypeOK'
  BY <1>12 DEF DeleteProfile
<1>13. CASE UNCHANGED settingsVars
  BY <1>13 DEF settingsVars
<1> QED
  BY <1>1, <1>2, <1>3, <1>4, <1>5, <1>6, <1>7, <1>8, <1>9, <1>10, <1>11, <1>12, <1>13
     DEF SettingsNext

\* A profile that is inserted had no row.
LEMMA SeedsWhereNothingIs ==
    ASSUME SeedProfiles, NEW i \in Profiles, profile[i] # NoRow
    PROVE  profile'[i] = profile[i]
<1>1. i \notin Missing
  BY DEF SeedProfiles, CanSeed
<1> QED
  BY <1>1 DEF SeedProfiles

\* No start of the API changes a setting or a profile that has a row, for any
\* keys, profiles and updates in flight (settings_repository.py seed_defaults,
\* profile_repository.py seed_builtin_profiles).
THEOREM StartsKeepChangesCorrect == SettingsSpec => StartsKeepChanges
<1>1. ASSUME [SettingsNext]_settingsVars,
             boot' \in {"settings", "profiles", "up", "broken"}, boot' # boot
      PROVE  /\ \A k \in Keys : setting[k] # NoRow => setting'[k] = setting[k]
             /\ \A i \in Profiles : profile[i] # NoRow => profile'[i] = profile[i]
  <2>1. CASE BootApi \/ SeedProfilesFails
    BY <2>1 DEF BootApi, SeedProfilesFails, settingVars, profileVars
  <2>2. CASE SeedSettings
    BY <2>2 DEF SeedSettings, profileVars
  <2>3. CASE SeedProfiles
    <3>1. UNCHANGED setting
      BY <2>3 DEF SeedProfiles
    <3> QED
      BY <2>3, <3>1, SeedsWhereNothingIs
  <2>4. CASE StopApi
    BY <1>1, <2>4 DEF StopApi
  <2>5. ~(\/ \E u \in Updates : SendUpdate(u) \/ WriteBatch(u)
          \/ PostWebhook \/ CreateProfile
          \/ \E e \in Edits : CheckEdit(e) \/ UpdateProfile(e) \/ DeleteProfile(e)
          \/ UNCHANGED settingsVars)
    BY <1>1 DEF SendUpdate, WriteBatch, PostWebhook, CreateProfile, CheckEdit,
       UpdateProfile, DeleteProfile, settingsVars
  <2> QED
    BY <1>1, <2>1, <2>2, <2>3, <2>4, <2>5 DEF SettingsNext
<1> QED
  BY <1>1, PTL DEF SettingsSpec, StartsKeepChanges

-----------------------------------------------------------------------------
(***************************************************************************)
(* Chat: the types, the bound on tool calls and the place of a message     *)
(* in the prompt that answers it.                                          *)
(***************************************************************************)

\* The tool loop of t.  Each round that goes on has dealt with a tool call
\* of its own, which is why the rounds need no bound of theirs.
LoopInv(t) ==
    /\ called[t] + pending[t] <= ToolMax
    /\ executed[t] <= called[t] + pending[t]
    /\ turnStep[t] # "tools" => pending[t] = 0
    /\ turnStep[t] = "tools" => pending[t] > 0
    /\ turnStep[t] # "tools" => executed[t] = called[t]
    /\ iteration[t] <= called[t] + pending[t] + 1
    /\ turnStep[t] \notin {"call", "running", "degrade", "fallback"} =>
           iteration[t] <= called[t] + pending[t]
    /\ turnStep[t] \in {"call", "running", "tools"} => iteration[t] >= 1

\* Where the message of t is: in the chat, as many rows from the end as were
\* saved after it, then in the conversation, before its last element.
HistoryInv(t) ==
    /\ turnStep[t] = "new" => behind[t] = -1
    /\ turnStep[t] = "accepted" /\ behind[t] \in 0 .. HistoryLimit - 1 =>
           /\ behind[t] < Len(chat)
           /\ chat[Len(chat) - behind[t]] = <<"user", t>>
    /\ turnStep[t] # "accepted" /\ behind[t] \in 0 .. HistoryLimit - 1 =>
           \E i \in 1 .. Len(conversation[t]) - 1 : conversation[t][i] = <<"user", t>>

\* Both hold for every turn, next to the types.
ChatInv ==
    /\ ChatTypeOK
    /\ \A t \in Turns : LoopInv(t) /\ HistoryInv(t)

-----------------------------------------------------------------------------
\* The types in three parts: what is local to a turn, the world, the rows.
LocalTypes ==
    /\ turnStep \in [Turns -> Answering \cup {"new", "blocked", "done", "dead"}]
    /\ conversation \in [Turns -> Seq(Item)]
    /\ iteration \in [Turns -> 0 .. ToolMax + 1]
    /\ called \in [Turns -> 0 .. ToolMax]
    /\ pending \in [Turns -> 0 .. BatchMax]
    /\ executed \in [Turns -> Nat]
    /\ behind \in [Turns -> Nat \cup {-1}]

WorldTypes ==
    /\ findingRows \subseteq Turns
    /\ runtime \in BOOLEAN /\ gateway \in BOOLEAN
    /\ stopped \in BOOLEAN /\ provider \in BOOLEAN
    /\ probe \in {"none", "up", "down"}
    /\ events \in 0 .. MaxEvents

ChatRows == chat \in Seq({"user", "agent"} \X Turns)

LEMMA ChatTypes == ChatTypeOK <=> LocalTypes /\ WorldTypes /\ ChatRows
  BY DEF ChatTypeOK, LocalTypes, WorldTypes, ChatRows

\* What the bounds are, as the proofs use them.
LEMMA ChatBounds ==
    /\ ToolMax \in Nat /\ BatchMax \in Nat /\ HistoryLimit \in Nat /\ MaxEvents \in Nat
    /\ ToolMax >= 1 /\ HistoryLimit >= 1
    /\ 0 \in 0 .. ToolMax /\ 0 \in 0 .. ToolMax + 1 /\ 0 \in 0 .. BatchMax /\ -1 \in Int
  BY ChatAssumption DEF ChatAssumption

LEMMA ChatInitially == ChatInit => ChatInv
<1> SUFFICES ASSUME ChatInit PROVE ChatInv
  OBVIOUS
<1> USE ChatBounds
<1>1. LocalTypes
  <2>1. <<>> \in Seq(Item) /\ 0 \in Nat /\ "new" \in Answering \cup {"new", "blocked", "done", "dead"}
    OBVIOUS
  <2>. QED
    BY <2>1 DEF ChatInit, LocalTypes
<1>2. WorldTypes /\ ChatRows
  <2>1. 0 \in 0 .. MaxEvents /\ <<>> \in Seq({"user", "agent"} \X Turns)
    OBVIOUS
  <2> QED
    BY <2>1 DEF ChatInit, WorldTypes, ChatRows
<1>3. \A t \in Turns : LoopInv(t) /\ HistoryInv(t)
  BY DEF ChatInit, LoopInv, HistoryInv
<1> QED
  BY <1>1, <1>2, <1>3, ChatTypes DEF ChatInv

\* A step of t that leaves the chat and the other turns alone.
LEMMA OneTurn ==
    ASSUME ChatInv, NEW t \in Turns, chat' = chat, LocalTypes', WorldTypes',
           \A u \in Turns \ {t} :
               /\ turnStep'[u] = turnStep[u] /\ conversation'[u] = conversation[u]
               /\ iteration'[u] = iteration[u] /\ called'[u] = called[u]
               /\ pending'[u] = pending[u] /\ executed'[u] = executed[u]
               /\ behind'[u] = behind[u],
           LoopInv(t)', HistoryInv(t)'
    PROVE  ChatInv'
<1>1. ChatTypeOK'
  <2>1. ChatRows'
    BY ChatTypes DEF ChatInv, ChatRows
  <2> QED
    BY <2>1 DEF ChatTypeOK, LocalTypes, WorldTypes, ChatRows
<1>2. ASSUME NEW u \in Turns \ {t} PROVE LoopInv(u)' /\ HistoryInv(u)'
  <2>1. LoopInv(u)'
    BY DEF ChatInv, LoopInv
  <2>2. HistoryInv(u)'
    <3>1. HistoryInv(u) /\ u # t
      BY DEF ChatInv
    <3>2. turnStep'[u] = turnStep[u] /\ conversation'[u] = conversation[u] /\ behind'[u] = behind[u]
      OBVIOUS
    <3> QED
      BY <3>1, <3>2 DEF HistoryInv
  <2> QED
    BY <2>1, <2>2
<1> QED
  BY <1>1, <1>2 DEF ChatInv

\* The agent is done with: nothing of the loop is left.
LEMMA TurnAnswered ==
    ASSUME ChatInv, NEW t \in Turns, NEW from, Answered(t, from), UNCHANGED <<chat, worldVars>>
    PROVE  ChatInv'
<1>1. LocalTypes /\ WorldTypes'
  BY ChatTypes DEF ChatInv, WorldTypes, worldVars
<1>2. LocalTypes'
  <2>1. turnStep' \in [Turns -> Answering \cup {"new", "blocked", "done", "dead"}]
    BY <1>1 DEF LocalTypes, Answered, At, Answering
  <2>2. conversation' \in [Turns -> Seq(Item)]
    BY <1>1 DEF LocalTypes, Answered, Leave
  <2>3. /\ iteration' \in [Turns -> 0 .. ToolMax + 1] /\ called' \in [Turns -> 0 .. ToolMax]
        /\ pending' \in [Turns -> 0 .. BatchMax] /\ executed' \in [Turns -> Nat]
    BY <1>1, ChatBounds DEF LocalTypes, Answered, Leave
  <2>4. behind' \in [Turns -> Nat \cup {-1}]
    BY <1>1, ChatBounds DEF LocalTypes, Answered, Leave
  <2> QED
    BY <2>1, <2>2, <2>3, <2>4 DEF LocalTypes
<1>3. /\ turnStep'[t] = "save" /\ called'[t] = 0 /\ pending'[t] = 0 /\ executed'[t] = 0
      /\ iteration'[t] = 0 /\ behind'[t] = -1
  BY <1>1 DEF LocalTypes, Answered, At, Leave
<1>4. LoopInv(t)' /\ HistoryInv(t)'
  BY <1>3, ChatBounds DEF LoopInv, HistoryInv
<1>5. \A u \in Turns \ {t} :
          /\ turnStep'[u] = turnStep[u] /\ conversation'[u] = conversation[u]
          /\ iteration'[u] = iteration[u] /\ called'[u] = called[u]
          /\ pending'[u] = pending[u] /\ executed'[u] = executed[u]
          /\ behind'[u] = behind[u]
  BY <1>1 DEF LocalTypes, Answered, At, Leave
<1> QED
  BY <1>1, <1>2, <1>4, <1>5, OneTurn

\* A turn goes on with what it has.
LEMMA TurnGoesOn ==
    ASSUME ChatInv, NEW t \in Turns,
           NEW from \in Answering, NEW to \in Answering \cup {"done"}, At(t, from, to),
           from \notin {"accepted", "tools"}, to \notin {"accepted", "tools"},
           to \in {"call", "running", "degrade", "fallback"}
               \/ from \notin {"call", "running", "degrade", "fallback"},
           to \in {"call", "running"} => from \in {"call", "running"},
           UNCHANGED <<chat, localVars>>, WorldTypes'
    PROVE  ChatInv'
<1>1. LocalTypes
  BY ChatTypes DEF ChatInv
<1>2. /\ turnStep[t] = from /\ turnStep'[t] = to
      /\ \A u \in Turns \ {t} : turnStep'[u] = turnStep[u]
      /\ UNCHANGED <<conversation, iteration, called, pending, executed, behind>>
  BY <1>1 DEF At, LocalTypes, localVars
<1>3. LocalTypes'
  BY <1>1, <1>2 DEF At, LocalTypes
<1>4. LoopInv(t)'
  BY <1>2 DEF ChatInv, LoopInv
<1>5. HistoryInv(t)'
  BY <1>2 DEF ChatInv, HistoryInv, Answering
<1> QED
  BY <1>2, <1>3, <1>4, <1>5, OneTurn

-----------------------------------------------------------------------------
\* Where the rows are once another one is saved.
LEMMA RowSaved ==
    ASSUME ChatInv, NEW t \in Turns, NEW role \in {"user", "agent"}, SaveRow(role, t)
    PROVE  /\ ChatRows' /\ behind' \in [Turns -> Nat \cup {-1}]
           /\ role = "user" => /\ behind'[t] = 0 /\ 0 < Len(chat')
                               /\ chat'[Len(chat')] = <<"user", t>>
           /\ \A u \in Turns : u # t \/ role # "user" =>
                  /\ turnStep[u] # "accepted" => behind'[u] = behind[u]
                  /\ turnStep[u] = "accepted" /\ behind'[u] \in 0 .. HistoryLimit - 1 =>
                         /\ behind'[u] < Len(chat')
                         /\ chat'[Len(chat') - behind'[u]] = <<"user", u>>
<1> DEFINE row == <<role, t>>
           older == IF Len(chat) < HistoryLimit THEN chat ELSE Tail(chat)
<1>1. /\ chat \in Seq({"user", "agent"} \X Turns) /\ row \in {"user", "agent"} \X Turns
      /\ LocalTypes /\ Len(chat) \in Nat /\ HistoryLimit \in Nat /\ HistoryLimit >= 1
  BY ChatTypes, ChatBounds DEF ChatInv, ChatRows
<1>2. /\ older \in Seq({"user", "agent"} \X Turns) /\ Len(older) \in Nat
      /\ Len(chat) < HistoryLimit => older = chat
      /\ ~(Len(chat) < HistoryLimit) =>
             /\ Len(older) = Len(chat) - 1
             /\ \A i \in 1 .. Len(older) : older[i] = chat[i + 1]
  BY <1>1
<1>3. chat' = Append(older, row)
  BY DEF SaveRow
<1> HIDE DEF older
<1>4. /\ Len(chat') = Len(older) + 1 /\ chat'[Len(chat')] = row
      /\ \A i \in 1 .. Len(older) : chat'[i] = older[i]
      /\ ChatRows'
  BY <1>1, <1>2, <1>3 DEF ChatRows
<1>5. behind \in [Turns -> Nat \cup {-1}]
  BY <1>1 DEF LocalTypes
<1>6. /\ behind' \in [Turns -> Nat \cup {-1}]
      /\ role = "user" => behind'[t] = 0
      /\ \A u \in Turns : u # t \/ role # "user" =>
             behind'[u] = IF turnStep[u] = "accepted" /\ behind[u] >= 0
                          THEN behind[u] + 1 ELSE behind[u]
  BY <1>5 DEF SaveRow
<1>7. ASSUME NEW u \in Turns, u # t \/ role # "user", turnStep[u] = "accepted",
             behind'[u] \in 0 .. HistoryLimit - 1
      PROVE  /\ behind'[u] < Len(chat')
             /\ chat'[Len(chat') - behind'[u]] = <<"user", u>>
  <2> DEFINE b == behind[u]
  <2>1. b \in Nat /\ behind'[u] = b + 1 /\ b \in 0 .. HistoryLimit - 1
    BY <1>1, <1>5, <1>6, <1>7
  <2>2. b < Len(chat) /\ chat[Len(chat) - b] = <<"user", u>>
    BY <1>7, <2>1 DEF ChatInv, HistoryInv
  <2> HIDE DEF b
  <2>3. CASE Len(chat) < HistoryLimit
    <3>1. /\ Len(chat') = Len(chat) + 1 /\ behind'[u] < Len(chat')
          /\ Len(chat') - behind'[u] = Len(chat) - b /\ Len(chat) - b \in 1 .. Len(older)
      BY <1>1, <1>2, <1>4, <2>1, <2>2, <2>3
    <3>2. chat'[Len(chat) - b] = chat[Len(chat) - b]
      BY <1>2, <1>4, <2>3, <3>1
    <3> QED
      BY <2>2, <3>1, <3>2
  <2>4. CASE ~(Len(chat) < HistoryLimit)
    <3>1. Len(chat') = Len(chat) /\ Len(older) = Len(chat) - 1
      BY <1>1, <1>2, <1>4, <2>4
    <3>2. b + 1 < Len(chat)
      BY <1>1, <1>7, <2>1, <2>4
    <3>3. /\ Len(chat) - (b + 1) \in 1 .. Len(older)
          /\ (Len(chat) - (b + 1)) + 1 = Len(chat) - b
      BY <1>1, <2>1, <3>1, <3>2
    <3>4. older[Len(chat) - (b + 1)] = chat[Len(chat) - b]
      BY <1>2, <2>4, <3>3
    <3> QED
      BY <1>4, <2>1, <2>2, <3>1, <3>2, <3>3, <3>4
  <2> QED
    BY <2>3, <2>4
<1> QED
  BY <1>4, <1>6, <1>7, <1>2

\* The step of a message: its row is saved and the turn begins.
LEMMA MessageStep == ASSUME ChatInv, NEW t \in Turns, Send(t) PROVE ChatInv'
<1>1. /\ LocalTypes /\ WorldTypes' /\ turnStep[t] = "new" /\ behind[t] = -1
      /\ UNCHANGED <<conversation, iteration, called, pending, executed>>
  BY ChatTypes DEF ChatInv, Send, At, WorldTypes, worldVars, HistoryInv
<1>2. PICK next \in {"accepted", "blocked"} :
          /\ turnStep' = [turnStep EXCEPT ![t] = next]
          /\ \/ next = "accepted" /\ SaveRow("user", t)
             \/ UNCHANGED <<chat, behind>>
  BY DEF Send, At
<1>3. /\ turnStep'[t] = next /\ \A u \in Turns \ {t} : turnStep'[u] = turnStep[u]
      /\ turnStep' \in [Turns -> Answering \cup {"new", "blocked", "done", "dead"}]
  BY <1>1, <1>2 DEF LocalTypes, Answering
<1>4. ASSUME NEW u \in Turns PROVE LoopInv(u)'
  BY <1>1, <1>3 DEF ChatInv, LoopInv
<1>5. CASE UNCHANGED <<chat, behind>>
  <2>1. LocalTypes'
    BY <1>1, <1>3, <1>5 DEF LocalTypes
  <2>2. HistoryInv(t)'
    BY <1>1, <1>3, <1>5 DEF HistoryInv
  <2> QED
    BY <1>1, <1>3, <1>4, <1>5, <2>1, <2>2, OneTurn
<1>6. CASE next = "accepted" /\ SaveRow("user", t)
  <2>1. LocalTypes' /\ ChatRows'
    BY <1>1, <1>3, <1>6, RowSaved DEF LocalTypes
  <2>2. HistoryInv(t)'
    BY <1>1, <1>3, <1>6, RowSaved, ChatBounds DEF HistoryInv
  <2>3. ASSUME NEW u \in Turns \ {t} PROVE HistoryInv(u)'
    <3>1. HistoryInv(u) /\ turnStep'[u] = turnStep[u] /\ conversation'[u] = conversation[u]
      BY <1>1, <1>3 DEF ChatInv
    <3>2. /\ turnStep[u] # "accepted" => behind'[u] = behind[u]
          /\ turnStep[u] = "accepted" /\ behind'[u] \in 0 .. HistoryLimit - 1 =>
                 /\ behind'[u] < Len(chat')
                 /\ chat'[Len(chat') - behind'[u]] = <<"user", u>>
      BY <1>6, RowSaved
    <3> QED
      BY <3>1, <3>2 DEF HistoryInv
  <2>4. ChatTypeOK'
    BY <1>1, <2>1 DEF ChatTypeOK, LocalTypes, WorldTypes, ChatRows
  <2> QED
    BY <1>4, <2>2, <2>3, <2>4 DEF ChatInv
<1> QED
  BY <1>2, <1>5, <1>6

\* The agent's answer is saved.
LEMMA SaveStep == ASSUME ChatInv, NEW t \in Turns, SaveAnswer(t) PROVE ChatInv'
<1>1. /\ LocalTypes /\ WorldTypes' /\ turnStep[t] = "save"
      /\ UNCHANGED <<conversation, iteration, called, pending, executed>>
      /\ turnStep' = [turnStep EXCEPT ![t] = "extract"]
      /\ SaveRow("agent", t) \/ UNCHANGED <<chat, behind>>
  BY ChatTypes DEF ChatInv, SaveAnswer, At, WorldTypes, worldVars
<1>2. /\ turnStep'[t] = "extract" /\ \A u \in Turns \ {t} : turnStep'[u] = turnStep[u]
      /\ turnStep' \in [Turns -> Answering \cup {"new", "blocked", "done", "dead"}]
  BY <1>1 DEF LocalTypes, Answering
<1>3. ASSUME NEW u \in Turns PROVE LoopInv(u)'
  BY <1>1, <1>2 DEF ChatInv, LoopInv
<1>4. /\ ChatRows' /\ behind' \in [Turns -> Nat \cup {-1}]
      /\ \A u \in Turns :
             /\ turnStep[u] # "accepted" => behind'[u] = behind[u]
             /\ turnStep[u] = "accepted" /\ behind'[u] \in 0 .. HistoryLimit - 1 =>
                    /\ behind'[u] < Len(chat')
                    /\ chat'[Len(chat') - behind'[u]] = <<"user", u>>
  <2>1. CASE SaveRow("agent", t)
    BY <2>1, RowSaved
  <2>2. CASE UNCHANGED <<chat, behind>>
    BY <1>1, <2>2, ChatTypes DEF ChatInv, HistoryInv, LocalTypes, ChatRows
  <2> QED
    BY <1>1, <2>1, <2>2
<1>5. ASSUME NEW u \in Turns PROVE HistoryInv(u)'
  <2>1. /\ HistoryInv(u) /\ conversation'[u] = conversation[u]
        /\ turnStep'[u] = turnStep[u] \/ (turnStep[u] = "save" /\ turnStep'[u] = "extract")
    BY <1>1, <1>2 DEF ChatInv
  <2> QED
    BY <1>4, <2>1 DEF HistoryInv
<1>6. ChatTypeOK'
  BY <1>1, <1>2, <1>4 DEF ChatTypeOK, LocalTypes, WorldTypes, ChatRows
<1> QED
  BY <1>3, <1>5, <1>6 DEF ChatInv

\* The history is read: a row that is not further behind than the limit is in it.
LEMMA ReadStep == ASSUME ChatInv, NEW t \in Turns, ReadHistory(t) PROVE ChatInv'
<1> DEFINE item == <<"user", t>>
<1>1. /\ LocalTypes /\ WorldTypes' /\ turnStep[t] = "accepted" /\ chat' = chat
      /\ turnStep' = [turnStep EXCEPT ![t] = "asking"]
      /\ UNCHANGED <<iteration, called, pending, executed>>
      /\ item \in Item
  BY ChatTypes DEF ChatInv, ReadHistory, HistoryFails, At, WorldTypes, worldVars, Item
<1>2. /\ chat \in Seq(Item) /\ Len(chat) \in Nat
  <2>1. chat \in Seq({"user", "agent"} \X Turns)
    BY ChatTypes DEF ChatInv, ChatRows
  <2>2. chat \in [1 .. Len(chat) -> Item] /\ Len(chat) \in Nat
    BY <2>1 DEF Item
  <2> QED
    BY <2>1, <2>2
<1>3. CASE /\ conversation' = [conversation EXCEPT ![t] = Append(chat, item)]
           /\ behind' = behind
  <2>1. LocalTypes'
    BY <1>1, <1>2, <1>3 DEF LocalTypes, Answering
  <2>2. conversation'[t] = Append(chat, item) /\ turnStep'[t] = "asking" /\ behind'[t] = behind[t]
    BY <1>1, <1>3 DEF LocalTypes
  <2>3. LoopInv(t)'
    BY <1>1, <2>2 DEF ChatInv, LoopInv
  <2>4. ASSUME behind[t] \in 0 .. HistoryLimit - 1
        PROVE  \E i \in 1 .. Len(conversation'[t]) - 1 : conversation'[t][i] = <<"user", t>>
    <3>1. behind[t] < Len(chat) /\ chat[Len(chat) - behind[t]] = <<"user", t>>
      BY <1>1, <2>4 DEF ChatInv, HistoryInv
    <3>2. Len(chat) - behind[t] \in 1 .. Len(chat) /\ behind[t] \in Nat
      BY <1>2, <2>4, <3>1, ChatBounds
    <3>3. Len(conversation'[t]) = Len(chat) + 1
          /\ \A i \in 1 .. Len(chat) : conversation'[t][i] = chat[i]
      BY <1>1, <1>2, <2>2
    <3>4. Len(conversation'[t]) - 1 = Len(chat)
      BY <1>2, <3>3
    <3> QED
      BY <3>1, <3>2, <3>3, <3>4
  <2>5. HistoryInv(t)'
    BY <2>2, <2>4 DEF HistoryInv
  <2> QED
    BY <1>1, <1>3, <2>1, <2>3, <2>5, OneTurn DEF LocalTypes
<1>4. CASE /\ conversation' = [conversation EXCEPT ![t] = <<item>>]
           /\ behind' = [behind EXCEPT ![t] = -1]
  <2>1. LocalTypes'
    BY <1>1, <1>4, ChatBounds DEF LocalTypes, Answering
  <2>2. turnStep'[t] = "asking" /\ behind'[t] = -1
    BY <1>1, <1>4 DEF LocalTypes
  <2>3. LoopInv(t)' /\ HistoryInv(t)'
    BY <1>1, <2>2 DEF ChatInv, LoopInv, HistoryInv
  <2> QED
    BY <1>1, <1>4, <2>1, <2>3, OneTurn DEF LocalTypes
<1> QED
  BY <1>3, <1>4 DEF ReadHistory, HistoryFails, LoadedRows

\* Another round, while it may take one.
LEMMA RoundStep ==
    ASSUME ChatInv, NEW t \in Turns, BeginRound(t), ~Answered(t, "round")
    PROVE  ChatInv'
<1>1. /\ LocalTypes /\ WorldTypes' /\ turnStep[t] = "round" /\ chat' = chat
      /\ turnStep' = [turnStep EXCEPT ![t] = "call"]
      /\ iteration' = [iteration EXCEPT ![t] = @ + 1]
      /\ UNCHANGED <<conversation, called, pending, executed, behind>>
  BY ChatTypes DEF ChatInv, BeginRound, At, WorldTypes, worldVars
<1>2. /\ LoopInv(t) /\ HistoryInv(t) /\ ToolMax \in Nat
      /\ iteration[t] \in Nat /\ called[t] \in Nat /\ pending[t] \in Nat
  BY <1>1, ChatBounds DEF ChatInv, LocalTypes
<1>3. iteration'[t] = iteration[t] + 1 /\ turnStep'[t] = "call"
  BY <1>1 DEF LocalTypes
<1>4. iteration[t] <= called[t] + pending[t] /\ called[t] + pending[t] <= ToolMax
  BY <1>1, <1>2 DEF LoopInv
<1>5. iteration'[t] \in 1 .. ToolMax + 1 /\ iteration'[t] <= called[t] + pending[t] + 1
  BY <1>2, <1>3, <1>4
<1>6. LocalTypes'
  <2>1. iteration' \in [Turns -> 0 .. ToolMax + 1]
    BY <1>1, <1>3, <1>5 DEF LocalTypes
  <2> QED
    BY <1>1, <2>1 DEF LocalTypes, Answering
<1>7. LoopInv(t)'
  BY <1>1, <1>2, <1>3, <1>5 DEF LoopInv
<1>8. HistoryInv(t)'
  BY <1>1, <1>2, <1>3 DEF HistoryInv
<1> QED
  BY <1>1, <1>6, <1>7, <1>8, OneTurn DEF LocalTypes

\* One more element at the end moves none of those before.
LEMMA ConversationGrows ==
    ASSUME NEW c \in Seq(Item), NEW x \in Item, NEW y,
           \E i \in 1 .. Len(c) - 1 : c[i] = y
    PROVE  \E i \in 1 .. Len(Append(c, x)) - 1 : Append(c, x)[i] = y
<1>1. PICK i \in 1 .. Len(c) - 1 : c[i] = y
  OBVIOUS
<1>2. Len(Append(c, x)) = Len(c) + 1 /\ Append(c, x)[i] = c[i] /\ Len(c) \in Nat
  BY <1>1
<1>3. i \in 1 .. Len(Append(c, x)) - 1
  BY <1>1, <1>2
<1> QED
  BY <1>1, <1>2, <1>3

\* An answer with tool calls that are not too many.
LEMMA AnswerStep ==
    ASSUME ChatInv, NEW t \in Turns, NEW n \in 0 .. BatchMax, n > 0, ~OverLimit(t, n),
           At(t, "running", "tools"), chat' = chat, WorldTypes',
           pending' = [pending EXCEPT ![t] = n],
           conversation' = [conversation EXCEPT ![t] = Append(@, <<"said", t, iteration[t]>>)],
           UNCHANGED <<iteration, called, executed, behind>>
    PROVE  ChatInv'
<1> DEFINE item == <<"said", t, iteration[t]>>
<1>1. /\ LocalTypes /\ turnStep[t] = "running"
      /\ turnStep' = [turnStep EXCEPT ![t] = "tools"]
      /\ LoopInv(t) /\ HistoryInv(t)
  BY ChatTypes DEF ChatInv, At
<1>2. /\ ToolMax \in Nat /\ iteration[t] \in 0 .. ToolMax + 1 /\ called[t] \in Nat
      /\ pending[t] = 0 /\ executed[t] = called[t] /\ iteration[t] >= 1 /\ n \in Nat
      /\ iteration[t] <= called[t] + pending[t] + 1 /\ called[t] + n <= ToolMax
  BY <1>1, ChatBounds DEF LocalTypes, LoopInv, OverLimit
<1>3. conversation[t] \in Seq(Item) /\ item \in Item
  BY <1>1, <1>2 DEF LocalTypes, Item
<1>4. /\ turnStep'[t] = "tools" /\ pending'[t] = n
      /\ conversation'[t] = Append(conversation[t], item)
  BY <1>1 DEF LocalTypes
<1>5. LocalTypes'
  BY <1>1, <1>3 DEF LocalTypes, Answering
<1>6. LoopInv(t)'
  <2>1. /\ called[t] + n <= ToolMax /\ executed[t] <= called[t] + n
        /\ iteration[t] <= called[t] + n /\ iteration[t] <= called[t] + n + 1
    BY <1>2
  <2> QED
    BY <1>2, <1>4, <2>1 DEF LoopInv
<1>7. HistoryInv(t)'
  <2>1. behind[t] \in 0 .. HistoryLimit - 1 =>
            \E i \in 1 .. Len(conversation[t]) - 1 : conversation[t][i] = <<"user", t>>
    BY <1>1 DEF HistoryInv
  <2> HIDE DEF item
  <2>2. ASSUME behind[t] \in 0 .. HistoryLimit - 1
        PROVE  \E i \in 1 .. Len(conversation'[t]) - 1 : conversation'[t][i] = <<"user", t>>
    <3>1. PICK c, y : c = conversation[t] /\ y = <<"user", t>>
      OBVIOUS
    <3>2. c \in Seq(Item) /\ \E i \in 1 .. Len(c) - 1 : c[i] = y
      BY <1>3, <2>1, <2>2, <3>1
    <3>3. \E i \in 1 .. Len(Append(c, item)) - 1 : Append(c, item)[i] = y
      BY <1>3, <3>2, ConversationGrows
    <3> QED
      BY <1>4, <3>1, <3>3
  <2> QED
    BY <1>4, <2>2 DEF HistoryInv
<1> QED
  BY <1>1, <1>5, <1>6, <1>7, OneTurn DEF LocalTypes

\* One of the calls is executed.
LEMMA ExecuteStep == ASSUME ChatInv, NEW t \in Turns, ExecuteTool(t) PROVE ChatInv'
<1>1. /\ LocalTypes /\ WorldTypes' /\ turnStep[t] = "tools" /\ LoopInv(t) /\ HistoryInv(t)
      /\ executed[t] < called[t] + pending[t]
      /\ executed' = [executed EXCEPT ![t] = @ + 1]
      /\ UNCHANGED <<chat, turnStep, conversation, iteration, called, pending, behind>>
  BY ChatTypes DEF ChatInv, ExecuteTool, WorldTypes, worldVars
<1>2. executed[t] \in Nat /\ called[t] \in Nat /\ pending[t] \in Nat /\ executed'[t] = executed[t] + 1
  BY <1>1, ChatBounds DEF LocalTypes
<1>3. LocalTypes'
  BY <1>1, <1>2 DEF LocalTypes
<1>4. LoopInv(t)'
  <2>1. executed'[t] <= called[t] + pending[t]
    BY <1>1, <1>2
  <2> QED
    BY <1>1, <2>1 DEF LoopInv
<1>5. HistoryInv(t)'
  BY <1>1 DEF HistoryInv
<1> QED
  BY <1>1, <1>3, <1>4, <1>5, OneTurn DEF LocalTypes

\* All of them are: their results end the round.
LEMMA ToolsStep == ASSUME ChatInv, NEW t \in Turns, ToolsDone(t) PROVE ChatInv'
<1> DEFINE item == <<"results", t, iteration[t]>>
<1>1. /\ LocalTypes /\ WorldTypes' /\ turnStep[t] = "tools" /\ LoopInv(t) /\ HistoryInv(t)
      /\ executed[t] = called[t] + pending[t]
      /\ turnStep' = [turnStep EXCEPT ![t] = "round"]
      /\ called' = [called EXCEPT ![t] = @ + pending[t]]
      /\ pending' = [pending EXCEPT ![t] = 0]
      /\ conversation' = [conversation EXCEPT ![t] = Append(@, item)]
      /\ UNCHANGED <<chat, iteration, executed, behind>>
  BY ChatTypes DEF ChatInv, ToolsDone, At, WorldTypes, worldVars
<1>2. /\ ToolMax \in Nat /\ iteration[t] \in 0 .. ToolMax + 1 /\ iteration[t] >= 1
      /\ called[t] \in Nat /\ pending[t] \in Nat /\ called[t] + pending[t] <= ToolMax
      /\ iteration[t] <= called[t] + pending[t]
  BY <1>1, ChatBounds DEF LocalTypes, LoopInv
<1>3. conversation[t] \in Seq(Item) /\ item \in Item
  BY <1>1, <1>2 DEF LocalTypes, Item
<1>4. /\ turnStep'[t] = "round" /\ pending'[t] = 0 /\ called'[t] = called[t] + pending[t]
      /\ conversation'[t] = Append(conversation[t], item)
  BY <1>1 DEF LocalTypes
<1>5. LocalTypes'
  <2>1. called' \in [Turns -> 0 .. ToolMax]
    BY <1>1, <1>2 DEF LocalTypes
  <2>2. conversation' \in [Turns -> Seq(Item)]
    BY <1>1, <1>3 DEF LocalTypes
  <2> QED
    BY <1>1, <2>1, <2>2, ChatBounds DEF LocalTypes, Answering
<1>6. LoopInv(t)'
  <2>1. /\ called'[t] + pending'[t] = called[t] + pending[t]
        /\ executed'[t] = called'[t] /\ executed'[t] <= called'[t] + pending'[t]
    BY <1>1, <1>2, <1>4
  <2>2. iteration'[t] <= called'[t] + pending'[t] + 1
    BY <1>1, <1>2, <2>1
  <2> QED
    BY <1>1, <1>2, <1>4, <2>1, <2>2 DEF LoopInv
<1>7. HistoryInv(t)'
  <2>1. behind[t] \in 0 .. HistoryLimit - 1 =>
            \E i \in 1 .. Len(conversation[t]) - 1 : conversation[t][i] = <<"user", t>>
    BY <1>1 DEF HistoryInv
  <2> HIDE DEF item
  <2>2. ASSUME behind[t] \in 0 .. HistoryLimit - 1
        PROVE  \E i \in 1 .. Len(conversation'[t]) - 1 : conversation'[t][i] = <<"user", t>>
    <3>1. PICK c, y : c = conversation[t] /\ y = <<"user", t>>
      OBVIOUS
    <3>2. c \in Seq(Item) /\ \E i \in 1 .. Len(c) - 1 : c[i] = y
      BY <1>3, <2>1, <2>2, <3>1
    <3>3. \E i \in 1 .. Len(Append(c, item)) - 1 : Append(c, item)[i] = y
      BY <1>3, <3>2, ConversationGrows
    <3> QED
      BY <1>4, <3>1, <3>3
  <2> QED
    BY <1>1, <1>4, <2>2 DEF HistoryInv
<1> QED
  BY <1>1, <1>5, <1>6, <1>7, OneTurn DEF LocalTypes

\* The steps of a turn together.
LEMMA WorkStep == ASSUME ChatInv, NEW t \in Turns, Work(t) PROVE ChatInv'
<1>0. WorldTypes /\ UNCHANGED worldVars => WorldTypes'
  BY DEF WorldTypes, worldVars
<1>1. WorldTypes
  BY ChatTypes DEF ChatInv
<1>2. CASE TryNemoclaw(t)
  <2>1. WorldTypes'
    BY <1>1, <1>2 DEF TryNemoclaw, WorldTypes
  <2>2. \E next \in {"round", "degrade"} : At(t, "asking", next)
    BY <1>2 DEF TryNemoclaw
  <2> QED
    BY <1>2, <2>1, <2>2, TurnGoesOn DEF TryNemoclaw, Answering
<1>3. CASE BeginRound(t)
  <2>1. CASE Answered(t, "round")
    BY <1>3, <2>1, TurnAnswered DEF BeginRound
  <2>2. CASE ~Answered(t, "round")
    BY <1>3, <2>2, RoundStep
  <2> QED
    BY <2>1, <2>2
<1>4. CASE CallAgent(t)
  <2>1. CASE Answered(t, "call")
    BY <1>4, <2>1, TurnAnswered DEF CallAgent
  <2>2. CASE ~Answered(t, "call")
    <3>1. \E next \in {"degrade", "running"} : At(t, "call", next)
      BY <1>4, <2>2 DEF CallAgent
    <3> QED
      BY <1>0, <1>1, <1>4, <2>2, <3>1, TurnGoesOn DEF CallAgent, Answering
  <2> QED
    BY <2>1, <2>2
<1>5. CASE AgentAnswers(t)
  <2>1. CASE Answered(t, "running")
    BY <1>5, <2>1, TurnAnswered DEF AgentAnswers
  <2>2. CASE ~Answered(t, "running")
    BY <1>0, <1>1, <1>5, <2>2, AnswerStep DEF AgentAnswers
  <2> QED
    BY <2>1, <2>2
<1>6. CASE AgentFails(t)
  <2>1. CASE Answered(t, "running")
    BY <1>6, <2>1, TurnAnswered DEF AgentFails
  <2>2. CASE ~Answered(t, "running")
    BY <1>0, <1>1, <1>6, <2>2, TurnGoesOn DEF AgentFails, Answering
  <2> QED
    BY <2>1, <2>2
<1>7. CASE Degrade(t)
  <2>1. CASE Answered(t, "degrade")
    BY <1>7, <2>1, TurnAnswered DEF Degrade
  <2>2. CASE ~Answered(t, "degrade")
    BY <1>0, <1>1, <1>7, <2>2, TurnGoesOn DEF Degrade, Answering
  <2> QED
    BY <2>1, <2>2
<1>8. CASE FallbackAnswers(t)
  BY <1>8, TurnAnswered DEF FallbackAnswers
<1>9. CASE StoreFindings(t)
  <2>1. WorldTypes'
    BY <1>1, <1>9 DEF StoreFindings, WorldTypes
  <2> QED
    BY <1>9, <2>1, TurnGoesOn DEF StoreFindings, Answering
<1>10. CASE PushAnswer(t)
  BY <1>0, <1>1, <1>10, TurnGoesOn DEF PushAnswer, Answering
<1> QED
  BY <1>2, <1>3, <1>4, <1>5, <1>6, <1>7, <1>8, <1>9, <1>10,
     ReadStep, SaveStep, ExecuteStep, ToolsStep DEF Work

\* What happens around the turns: the runtime, a death of the process.
LEMMA WorldStep ==
    ASSUME ChatInv, ClearHistory \/ ProbeExpires \/ GatewayChanges \/ Kill \/ Die
    PROVE  ChatInv'
<1>1. LocalTypes /\ WorldTypes /\ ChatRows
  BY ChatTypes DEF ChatInv
<1>2. WorldTypes'
  <2>1. Event => events' \in 0 .. MaxEvents
    BY <1>1, ChatBounds DEF WorldTypes, Event
  <2> QED
    BY <1>1, <2>1 DEF WorldTypes, ClearHistory, ProbeExpires, GatewayChanges, Kill, Die
<1>3. CASE ClearHistory
  <2>1. /\ UNCHANGED <<turnStep, conversation, iteration, called, pending, executed>> /\ chat' = <<>>
        /\ behind' = [t \in Turns |-> IF turnStep[t] = "accepted" THEN -1 ELSE behind[t]]
    BY <1>3 DEF ClearHistory
  <2>2. LocalTypes' /\ ChatRows'
    BY <1>1, <2>1, ChatBounds DEF LocalTypes, ChatRows
  <2>3. ASSUME NEW t \in Turns PROVE LoopInv(t)' /\ HistoryInv(t)'
    <3>1. LoopInv(t)'
      BY <2>1 DEF ChatInv, LoopInv
    <3>2. /\ HistoryInv(t)
          /\ turnStep[t] = "accepted" => behind'[t] = -1
          /\ turnStep[t] # "accepted" => behind'[t] = behind[t]
      BY <2>1 DEF ChatInv
    <3>3. -1 \notin 0 .. HistoryLimit - 1
      OBVIOUS
    <3> QED
      BY <2>1, <3>1, <3>2, <3>3 DEF HistoryInv
  <2> QED
    BY <1>2, <2>2, <2>3 DEF ChatInv, ChatTypeOK, LocalTypes, WorldTypes, ChatRows
<1>4. CASE ProbeExpires \/ GatewayChanges \/ Kill
  <2>1. UNCHANGED <<turnStep, chat, conversation, iteration, called, pending, executed, behind>>
    BY <1>4 DEF ProbeExpires, GatewayChanges, Kill, localVars
  <2>2. LocalTypes' /\ ChatRows'
    BY <1>1, <2>1 DEF LocalTypes, ChatRows
  <2>3. ASSUME NEW t \in Turns PROVE LoopInv(t)' /\ HistoryInv(t)'
    <3>1. LoopInv(t)'
      BY <2>1 DEF ChatInv, LoopInv
    <3> QED
      BY <2>1, <3>1 DEF ChatInv, HistoryInv
  <2> QED
    BY <1>2, <2>2, <2>3 DEF ChatInv, ChatTypeOK, LocalTypes, WorldTypes, ChatRows
<1>5. CASE Die
  <2>1. /\ chat' = chat
        /\ turnStep' = [t \in Turns |-> IF turnStep[t] \in Answering THEN "dead" ELSE turnStep[t]]
        /\ \A t \in Turns : /\ conversation'[t] = <<>> /\ iteration'[t] = 0 /\ called'[t] = 0
                            /\ pending'[t] = 0 /\ executed'[t] = 0 /\ behind'[t] = -1
    BY <1>5 DEF Die, Leave
  <2>2. LocalTypes' /\ ChatRows'
    <3>1. /\ conversation' \in [Turns -> Seq(Item)]
          /\ iteration' \in [Turns -> 0 .. ToolMax + 1] /\ called' \in [Turns -> 0 .. ToolMax]
          /\ pending' \in [Turns -> 0 .. BatchMax] /\ executed' \in [Turns -> Nat]
          /\ behind' \in [Turns -> Nat \cup {-1}]
      BY <1>5, <2>1, ChatBounds DEF Die, Leave
    <3> QED
      BY <1>1, <2>1, <3>1 DEF LocalTypes, ChatRows
  <2>3. ASSUME NEW t \in Turns PROVE LoopInv(t)' /\ HistoryInv(t)'
    <3>1. turnStep'[t] \notin Answering
      BY <2>1 DEF Answering
    <3>2. LoopInv(t)'
      BY <2>1, <3>1, ChatBounds DEF LoopInv, Answering
    <3> QED
      BY <2>1, <3>2 DEF HistoryInv
  <2> QED
    BY <1>2, <2>2, <2>3 DEF ChatInv, ChatTypeOK, LocalTypes, WorldTypes, ChatRows
<1> QED
  BY <1>3, <1>4, <1>5

\* Every step of the chat keeps ChatInv.
LEMMA ChatKept == ChatInv /\ [ChatNext]_chatVars => ChatInv'
<1> SUFFICES ASSUME ChatInv, [ChatNext]_chatVars PROVE ChatInv'
  OBVIOUS
<1>1. CASE UNCHANGED chatVars
  <2>1. UNCHANGED <<turnStep, chat, conversation, iteration, called, pending, executed, behind,
                    findingRows, runtime, probe, gateway, stopped, provider, events>>
    BY <1>1 DEF chatVars, localVars
  <2>2. ChatTypeOK'
    BY <2>1 DEF ChatInv, ChatTypeOK
  <2>3. ASSUME NEW t \in Turns PROVE LoopInv(t)' /\ HistoryInv(t)'
    <3>1. LoopInv(t)'
      BY <2>1 DEF ChatInv, LoopInv
    <3> QED
      BY <2>1, <3>1 DEF ChatInv, HistoryInv
  <2> QED
    BY <2>2, <2>3 DEF ChatInv
<1> QED
  BY <1>1, MessageStep, WorkStep, WorldStep DEF ChatNext

LEMMA ChatImplies == ChatInv => ToolsBounded /\ MessageInPrompt
<1> SUFFICES ASSUME ChatInv, NEW t \in Turns
             PROVE  /\ executed[t] <= ToolMax /\ iteration[t] <= ToolMax + 1
                    /\ turnStep[t] = "running" /\ behind[t] \in 0 .. HistoryLimit - 1 =>
                           <<"user", t>> \in ToSet(Prompt(t))
  BY DEF ToolsBounded, MessageInPrompt
<1>1. LocalTypes /\ LoopInv(t) /\ HistoryInv(t)
  BY ChatTypes DEF ChatInv
<1>2. executed[t] <= ToolMax /\ iteration[t] <= ToolMax + 1
  <2>1. /\ called[t] \in Nat /\ pending[t] \in Nat /\ executed[t] \in Nat
        /\ iteration[t] \in 0 .. ToolMax + 1
    BY <1>1, ChatBounds DEF LocalTypes
  <2> QED
    BY <1>1, <2>1, ChatBounds DEF LoopInv
<1>3. ASSUME turnStep[t] = "running", behind[t] \in 0 .. HistoryLimit - 1
      PROVE  <<"user", t>> \in ToSet(Prompt(t))
  <2>1. PICK i \in 1 .. Len(conversation[t]) - 1 : conversation[t][i] = <<"user", t>>
    BY <1>1, <1>3 DEF HistoryInv
  <2>2. conversation[t] \in Seq(Item)
    BY <1>1 DEF LocalTypes
  <2>3. i \in DOMAIN Prompt(t) /\ Prompt(t)[i] = conversation[t][i]
    BY <2>1, <2>2 DEF Prompt, Front
  <2> QED
    BY <2>1, <2>3 DEF ToSet
<1> QED
  BY <1>2, <1>3

\* A turn deals with no more tool calls than it may (_run_tool_loop).
THEOREM ToolsBoundedCorrect == ChatSpec => []ToolsBounded
<1>1. ChatSpec => []ChatInv
  BY ChatInitially, ChatKept, PTL DEF ChatSpec
<1> QED
  BY <1>1, ChatImplies, PTL

\* The message a turn is for is in its prompts (_load_history_for_agent).
THEOREM MessageInPromptCorrect == ChatSpec => []MessageInPrompt
<1>1. ChatSpec => []ChatInv
  BY ChatInitially, ChatKept, PTL DEF ChatSpec
<1> QED
  BY <1>1, ChatImplies, PTL

-----------------------------------------------------------------------------
(***************************************************************************)
(* MCData: the components side by side.                                    *)
(***************************************************************************)

\* The invariants of the components.
MCDataInv == DataInv /\ ConnectionInv /\ FileInv /\ SettingsTypeOK /\ ChatInv

\* A step is of one component or of none.
LEMMA StepOfOne ==
    [MCNext]_mcVars => /\ [DataNext]_dataVars /\ [FileNext]_fileVars
                       /\ [SettingsNext]_settingsVars /\ [ChatNext]_chatVars
<1>1. MCNext => /\ [DataNext]_dataVars /\ [FileNext]_fileVars
                /\ [SettingsNext]_settingsVars /\ [ChatNext]_chatVars
  BY Zenon DEF MCNext
<1>2. UNCHANGED mcVars => /\ UNCHANGED dataVars /\ UNCHANGED fileVars
                          /\ UNCHANGED settingsVars /\ UNCHANGED chatVars
  BY DEF mcVars
<1>. QED
  BY <1>1, <1>2

(* The components of MCData side by side keep their types, and no turn of  *)
(* the chat deals with more tool calls than it may (_run_tool_loop), for   *)
(* every value of the constants the runs fix.                              *)
THEOREM MCInvariantCorrect == MCSpec => []MCInvariant
<1>1. MCInit => MCDataInv
  BY DataInitInv, HalfInitially, FileInitInv, SettingsTypeInitially, ChatInitially
     DEF MCInit, MCDataInv
<1>2. MCDataInv /\ [MCNext]_mcVars => MCDataInv'
  BY StepOfOne, DataStep, ConnectionKept, FileStep, SettingsTypeKept, ChatKept
     DEF MCDataInv
<1>3. MCDataInv => MCInvariant
  <2>1. MCDataInv => DataTypeOK /\ SettingsTypeOK
    BY DataTyped DEF MCDataInv
  <2>2. MCDataInv => FileTypeOK
    BY DEF MCDataInv, FileInv
  <2>3. MCDataInv => ChatTypeOK /\ ToolsBounded
    BY ChatImplies DEF MCDataInv, ChatInv
  <2>. QED
    BY <2>1, <2>2, <2>3 DEF MCInvariant, MCTypeOK
<1>. QED
  BY <1>1, <1>2, <1>3, PTL DEF MCSpec

=============================================================================
