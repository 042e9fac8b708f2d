----------------------------- MODULE BackupRestore ------------------------------
(***************************************************************************)
(* Backups and the staged restore: BasketraDatabase.backup and its         *)
(* retention, stageRestore of the gateway, and applyPendingRestore, which  *)
(* runs step by step at start up and may be cut short between any two.     *)
(* The content of a database is the set of the writes it holds.            *)
(***************************************************************************)
EXTENDS Naturals, FiniteSets

CONSTANTS
  Imports,      \* imported backups, validated when they were imported
  OldImport,    \* those with a schema older than CURRENT_SCHEMA_VERSION
  MaxBackups,   \* manualBackupRetention.maxCount
  MaxWrites,    \* bound on the writes of one behaviour; writes are numbered
  MaxNames,     \* bound on the backups made in one behaviour; backups are numbered
  MaxCrashes    \* bound on the times the process dies

ASSUME BackupAssumption ==
  /\ MaxBackups \in Nat \ {0} /\ MaxWrites \in Nat /\ MaxNames \in Nat /\ MaxCrashes \in Nat
  /\ OldImport \subseteq Imports /\ "none" \notin Imports

DatabaseWrite    == 1 .. MaxWrites
Name     == 1 .. MaxNames
NoMarker == [import |-> "none", pre |-> 0]

VARIABLES
  mainFile,   \* basketra.db: the writes in it, and whether its schema is current
  walFile,    \* committed writes that are only in basketra.db-wal
  imported,   \* the files in backups/imports/
  backups,    \* the files in backups/, by their number: what they hold
  migrated,   \* what the pre-migration backups hold
  marker,     \* restore-pending.json
  staging,    \* the restore request that is making its pre-restore backup
  process,    \* "up", or how far start up has come
  written, named, crashed,
  lineage     \* what the database must hold: the acknowledged writes since the last restore

backupVars == <<mainFile, walFile, imported, backups, migrated, marker, staging, process,
                written, named, crashed, lineage>>

FileContent == mainFile.rows \cup walFile

BackupInit ==
  /\ mainFile = [rows |-> {}, current |-> TRUE] /\ walFile = {}
  /\ imported = {} /\ backups = [n \in {} |-> {}] /\ migrated = {}
  /\ marker = NoMarker /\ staging = NoMarker
  /\ process = "up"
  /\ written = 0 /\ named = 0 /\ crashed = 0
  /\ lineage = {}

--------------------------------------------------------------------------------
(* The process is up. *)

CommitWrite ==
  /\ process = "up" /\ written < MaxWrites
  /\ written' = written + 1
  /\ walFile' = walFile \cup {written + 1}
  /\ lineage' = lineage \cup {written + 1}
  /\ UNCHANGED <<mainFile, imported, backups, migrated, marker, staging, process, named, crashed>>

\* wal_checkpoint
Checkpoint == mainFile' = [mainFile EXCEPT !.rows = FileContent] /\ walFile' = {}

AutoCheckpoint ==
  /\ process = "up" /\ walFile # {}
  /\ Checkpoint
  /\ UNCHANGED <<imported, backups, migrated, marker, staging, process, written, named, crashed, lineage>>

\* pruneBackupDirectory: the newest, with room for the one to be made.
Newest(files) == {n \in files : Cardinality({m \in files : m > n}) < MaxBackups - 1}

\* BasketraDatabase.backup
MakeBackup ==
  /\ named < MaxNames
  /\ named' = named + 1
  /\ Checkpoint
  /\ backups' = [n \in Newest(DOMAIN backups) \cup {named + 1} |->
                   IF n = named + 1 THEN FileContent ELSE backups[n]]

CreateBackup ==
  /\ process = "up"
  /\ MakeBackup
  /\ UNCHANGED <<imported, migrated, marker, staging, process, written, crashed, lineage>>

\* importBackupStream: a file that is not a valid database leaves nothing behind.
ImportBackup(i) ==
  /\ process = "up" /\ i \notin imported
  /\ imported' = imported \cup {i}
  /\ UNCHANGED <<mainFile, walFile, backups, migrated, marker, staging, process,
                 written, named, crashed, lineage>>

\* stageRestore: the backup before a restore is made through the inner server.
StageRestore(i) ==
  /\ process = "up" /\ staging = NoMarker /\ i \in imported
  /\ MakeBackup
  /\ staging' = [import |-> i, pre |-> named + 1]
  /\ UNCHANGED <<imported, migrated, marker, process, written, crashed, lineage>>

\* stagePendingRestore, once the file is hashed; a later request replaces the marker.
WriteMarker ==
  /\ process = "up" /\ staging # NoMarker
  /\ marker' = IF staging.pre \in DOMAIN backups THEN staging ELSE marker
  /\ staging' = NoMarker
  /\ UNCHANGED <<mainFile, walFile, imported, backups, migrated, process, written, named, crashed, lineage>>

\* requestRestart: closing the database checkpoints it.
CleanShutdown ==
  /\ process = "up" /\ marker # NoMarker
  /\ Checkpoint
  /\ process' = "down" /\ staging' = NoMarker
  /\ UNCHANGED <<imported, backups, migrated, marker, written, named, crashed, lineage>>

Crash ==
  /\ process # "down" /\ crashed < MaxCrashes
  /\ crashed' = crashed + 1
  /\ process' = "down" /\ staging' = NoMarker
  /\ UNCHANGED <<mainFile, walFile, imported, backups, migrated, marker, written, named, lineage>>

--------------------------------------------------------------------------------
(* applyPendingRestore, before the database is opened. *)

StartUp(from, to) == process = from /\ process' = to

Start ==
  /\ StartUp("down", IF marker = NoMarker THEN "open" ELSE "check")
  /\ UNCHANGED <<mainFile, walFile, imported, backups, migrated, marker, staging, written, named, crashed, lineage>>

\* Mutants: the marker of a restore that failed is kept; the backup need not be there.
KeepFailedMarker == UNCHANGED marker
NoPreCheck       == TRUE

\* The marker is renamed to restore-failed-*.json.
SetMarkerAside == marker' = NoMarker

PreRestoreExists == marker.pre \in DOMAIN backups

\* A check or the copy fails: the disk is full, or a file is not there any more.
RestoreFails ==
  /\ process = "check"
  /\ process' = "open"
  /\ SetMarkerAside
  /\ UNCHANGED <<mainFile, walFile, imported, backups, migrated, staging, written, named, crashed, lineage>>

\* The copy is made next to the database and validated.
CopyImport ==
  /\ StartUp("check", "copied") /\ PreRestoreExists
  /\ UNCHANGED <<mainFile, walFile, imported, backups, migrated, marker, staging, written, named, crashed, lineage>>

\* Mutant: the WAL of the old database stays.
KeepWal == UNCHANGED walFile

\* rmSync of -wal and -shm
RemoveWal == walFile' = {}

DropWal ==
  /\ StartUp("copied", "dropped")
  /\ RemoveWal
  /\ UNCHANGED <<mainFile, imported, backups, migrated, marker, staging, written, named, crashed, lineage>>

\* renameSync: from here on the database is the imported one, which has no writes.
ReplaceDatabase ==
  /\ StartUp("dropped", "replaced")
  /\ mainFile' = [rows |-> {}, current |-> marker.import \notin OldImport]
  /\ lineage' = {}
  /\ UNCHANGED <<walFile, imported, backups, migrated, marker, staging, written, named, crashed>>

\* rmSync(marker)
ClearMarker == marker' = NoMarker

RestoreApplied ==
  /\ StartUp("replaced", "open")
  /\ ClearMarker
  /\ UNCHANGED <<mainFile, walFile, imported, backups, migrated, staging, written, named, crashed, lineage>>

\* createPreMigrationBackup
PreMigrationBackup == migrated' = migrated \cup {FileContent}

\* new BasketraDatabase: migrate, after a backup of what it finds.
OpenDatabase ==
  /\ StartUp("open", "up")
  /\ IF mainFile.current THEN UNCHANGED <<mainFile, walFile, migrated>>
     ELSE /\ PreMigrationBackup
          /\ mainFile' = [rows |-> FileContent, current |-> TRUE]
          /\ walFile' = {}
  /\ UNCHANGED <<imported, backups, marker, staging, written, named, crashed, lineage>>

--------------------------------------------------------------------------------

StartUpStep ==
  \/ Start
  \/ RestoreFails
  \/ CopyImport
  \/ DropWal
  \/ ReplaceDatabase
  \/ RestoreApplied
  \/ OpenDatabase

BackupNext ==
  \/ CommitWrite
  \/ AutoCheckpoint
  \/ CreateBackup
  \/ \E i \in Imports : ImportBackup(i) \/ StageRestore(i)
  \/ WriteMarker
  \/ CleanShutdown
  \/ Crash
  \/ StartUpStep

\* The container restarts the process, and the 250 ms timer asks for the restart.
BackupFairness == WF_backupVars(StartUpStep) /\ WF_backupVars(CleanShutdown)

BackupSpec == BackupInit /\ [][BackupNext]_backupVars /\ BackupFairness

--------------------------------------------------------------------------------

BackupTypeOK ==
  /\ mainFile \in [rows : SUBSET DatabaseWrite, current : BOOLEAN] /\ walFile \subseteq DatabaseWrite
  /\ imported \subseteq Imports /\ DOMAIN backups \subseteq Name /\ \A n \in DOMAIN backups : backups[n] \subseteq DatabaseWrite
  /\ migrated \subseteq SUBSET DatabaseWrite
  /\ {marker, staging} \subseteq [import : Imports, pre : Name] \cup {NoMarker}
  /\ process \in {"up", "down", "check", "copied", "dropped", "replaced", "open"}
  /\ written \in 0 .. MaxWrites /\ named \in 0 .. MaxNames /\ crashed \in 0 .. MaxCrashes
  /\ lineage \subseteq DatabaseWrite

\* When the server is up its database is one database: the one it had, with every
\* acknowledged write, or the imported one with the writes made since. A failed
\* restore has cost nothing, and no WAL of the old file is read into the new one.
DatabaseIsWhole == process = "up" => FileContent = lineage

\* A marker is consumed by the start that finds it, before the database is opened: no
\* write is accepted that the next start would silently replace.
RestoreAppliedOnce == process = "open" => marker = NoMarker

RestoreSound == DatabaseIsWhole /\ RestoreAppliedOnce

\* A restore replaces the database only over a backup of what it held when the
\* restore was asked for, although retention goes on removing backups meanwhile, and
\* the schema of a database is raised only over a backup of all it held.
RestoreOverBackup ==
  [][/\ ReplaceDatabase => marker.pre \in DOMAIN backups
     /\ OpenDatabase /\ ~mainFile.current => FileContent \in migrated']_backupVars

\* A staged restore is applied or set aside; it cannot send the container round
\* in a loop of restarts.
RestoreEnds == (marker # NoMarker) ~> (marker = NoMarker)

================================================================================
