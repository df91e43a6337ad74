------------------------------- MODULE Backup -------------------------------
(***************************************************************************)
(* Snapshot readers of a store and the physical backup: StoreSnapshot of   *)
(* src/storage.rs, inspect_store and backup_store of src/maintenance.rs,   *)
(* next to the writers of LogStore.                                        *)
(*                                                                         *)
(* A maintenance tool holds store.lock shared while it reads, a writer     *)
(* holds it exclusively.  A backup validates the committed part of the     *)
(* log, copies that many bytes, and then copies the manifest file, which   *)
(* it reads a second time.  The copy is a directory of its own, whose      *)
(* files reach the medium step by step.                                    *)
(***************************************************************************)
EXTENDS LogStore

VARIABLES
    tool,       \* where the maintenance tool is
    snapshot,   \* StoreSnapshot: the committed entries it validated
    copy,       \* the destination directory of the backup
    origin,     \* history: the snapshot that the copy is made of
    reported    \* history: backup_store returned Ok for this copy

backupVars == <<tool, snapshot, copy, origin, reported>>
allVars == <<vars, backupVars>>

ToolSteps == {"idle", "shared", "open", "copylog", "synclog", "copymanifest",
              "syncmanifest", "syncdir", "syncparent", "verify"}

(***************************************************************************)
(* The steps between try_lock_shared and the drop of the snapshot.         *)
(***************************************************************************)
Sharing == tool \notin {"idle", "verify"}

(***************************************************************************)
(* What of the destination a power failure cannot take back any more: its  *)
(* log, its manifest, the entries of both, and its own entry.              *)
(***************************************************************************)
Nothing == 0
LogBytes == 1
ManifestBytes == 2
Entries == 3
Everything == 4

Copy == [exists: BOOLEAN, log: Seq(Entry), manifest: Manifest, synced: 0..4]

NoCopy == [exists |-> FALSE, log |-> <<>>, manifest |-> NoManifest, synced |-> 0]

BackupTypeOK ==
    /\ tool \in ToolSteps
    /\ snapshot \in Seq(Entry)
    /\ copy \in Copy
    /\ origin \in Seq(Entry)
    /\ reported \in BOOLEAN

BackupInit ==
    /\ Init
    /\ tool = "idle"
    /\ snapshot = <<>>
    /\ copy = NoCopy
    /\ origin = <<>>
    /\ reported = FALSE

-----------------------------------------------------------------------------
ToolGoes(from, to) ==
    /\ tool = from
    /\ tool' = to
    /\ UNCHANGED vars

(***************************************************************************)
(* StoreSnapshot::open_internal: try_lock_shared fails against a writer.   *)
(***************************************************************************)
ShareLock ==
    /\ owner = NoOwner
    /\ ToolGoes("idle", "shared")
    /\ UNCHANGED <<snapshot, copy, origin, reported>>

(***************************************************************************)
(* The committed part, by the manifest, must be there and must replay.     *)
(***************************************************************************)
ReadSnapshot ==
    /\ manifest.length > 0
    /\ manifest.valid
    /\ ScanAccepts(log, manifest.length)
    /\ snapshot' = SubSeq(log, 1, manifest.length)
    /\ ToolGoes("shared", "open")
    /\ UNCHANGED <<copy, origin, reported>>

-----------------------------------------------------------------------------
(***************************************************************************)
(* backup_to: create_dir, the lock file, and an empty log.                 *)
(***************************************************************************)
CreateDestination ==
    /\ ~copy.exists
    /\ copy' = [NoCopy EXCEPT !.exists = TRUE]
    /\ origin' = snapshot
    /\ reported' = FALSE
    /\ ToolGoes("open", "copylog")
    /\ UNCHANGED snapshot

(***************************************************************************)
(* Copy the committed length that was read, and sync the copy.             *)
(***************************************************************************)
CopyLog ==
    /\ Len(snapshot) <= Len(log)
    /\ copy' = [copy EXCEPT !.log = SubSeq(log, 1, Len(snapshot))]
    /\ ToolGoes("copylog", "synclog")
    /\ UNCHANGED <<snapshot, origin, reported>>

\* Mutant: the copy of the log is not synced before the manifest is written.
LeaveCopyUnsynced ==
    /\ ToolGoes("synclog", "copymanifest")
    /\ UNCHANGED <<snapshot, copy, origin, reported>>

SyncCopy ==
    /\ copy' = [copy EXCEPT !.synced = LogBytes]
    /\ ToolGoes("synclog", "copymanifest")
    /\ UNCHANGED <<snapshot, origin, reported>>

(***************************************************************************)
(* The manifest file is read again, and written in place.                  *)
(***************************************************************************)
CopyManifest ==
    /\ copy' = [copy EXCEPT !.manifest = Settled(manifest)]
    /\ ToolGoes("copymanifest", "syncmanifest")
    /\ UNCHANGED <<snapshot, origin, reported>>

SyncUpTo(level, from, to) ==
    /\ copy' = [copy EXCEPT !.synced = level]
    /\ ToolGoes(from, to)
    /\ UNCHANGED <<snapshot, origin, reported>>

SyncCopiedManifest == SyncUpTo(ManifestBytes, "syncmanifest", "syncdir")

SyncCopyDirectory == SyncUpTo(Entries, "syncdir", "syncparent")

\* Mutant: the directory that holds the backup is not synced.
SkipCopyParent == SyncUpTo(Entries, "syncparent", "verify")

(***************************************************************************)
(* The last step of backup_to; then the snapshot is dropped, and with it   *)
(* the shared lock.                                                        *)
(***************************************************************************)
SyncCopyParent ==
    SyncUpTo(IF ParentNamed THEN Everything ELSE Entries, "syncparent", "verify")

(***************************************************************************)
(* backup_store inspects what it made: it opens, and has the length that   *)
(* was committed, and nothing else.                                        *)
(***************************************************************************)
Opens(directory) ==
    /\ directory.manifest.length > 0
    /\ directory.manifest.valid
    /\ ScanAccepts(directory.log, directory.manifest.length)

Report ==
    /\ Opens(copy)
    /\ copy.manifest.length = Len(snapshot)
    /\ Len(copy.log) = Len(snapshot)
    /\ reported' = TRUE
    /\ snapshot' = <<>>
    /\ ToolGoes("verify", "idle")
    /\ UNCHANGED <<copy, origin>>

-----------------------------------------------------------------------------
(***************************************************************************)
(* inspect_store ends where it has replayed the snapshot; any call may     *)
(* fail, a refused store or destination is an error, and the process may   *)
(* end.  The shared lock is dropped.  A file that was being written may    *)
(* end in torn bytes.                                                      *)
(***************************************************************************)
ToolEnds ==
    /\ tool # "idle"
    /\ tool' = "idle"
    /\ \/ UNCHANGED copy
       \/ /\ tool = "copylog"
          /\ \E n \in 1..Len(snapshot) :
                copy' = [copy EXCEPT !.log = SubSeq(log, 1, n - 1) \o <<TornEntry>>]
       \/ /\ tool = "copymanifest"
          /\ copy' = [copy EXCEPT !.manifest = TornManifest]
    /\ snapshot' = <<>>
    /\ UNCHANGED <<vars, origin, reported>>

(***************************************************************************)
(* The operator moves the directory away.                                  *)
(***************************************************************************)
RemoveCopy ==
    /\ tool = "idle"
    /\ copy.exists
    /\ copy' = NoCopy
    /\ origin' = <<>>
    /\ reported' = FALSE
    /\ UNCHANGED <<vars, tool, snapshot>>

(***************************************************************************)
(* What a power failure may leave of the destination.                      *)
(***************************************************************************)
CopiedLogs ==
    IF copy.synced >= LogBytes
      THEN {copy.log}
      ELSE Images(<<>>, copy.log)

CopiedManifests ==
    IF copy.synced >= ManifestBytes
      THEN {copy.manifest}
      ELSE {NoManifest, copy.manifest} \cup
              (IF copy.manifest.length > 0 THEN {TornManifest} ELSE {})

CopySurvives ==
    /\ copy.exists
    /\ \E file \in CopiedLogs, m \in CopiedManifests :
          copy' = [copy EXCEPT !.log = file, !.manifest = m]

CopyLosesEntries ==
    /\ copy.exists
    /\ copy.synced < Entries
    /\ \/ \E file \in CopiedLogs :
             copy' = [copy EXCEPT !.log = file, !.manifest = NoManifest]
       \/ copy' = [NoCopy EXCEPT !.exists = TRUE]

CopyVanishes ==
    /\ copy.synced < Everything
    /\ copy' = NoCopy

(***************************************************************************)
(* Power fails.  A tool that is running then has ended just before.        *)
(***************************************************************************)
PowerFails ==
    /\ PowerLoss
    /\ tool = "idle"
    /\ CopySurvives \/ CopyLosesEntries \/ CopyVanishes
    /\ UNCHANGED <<tool, snapshot, origin, reported>>

-----------------------------------------------------------------------------
\* Mutant: the tool does not keep the shared lock.
ProcessStepUnlocked ==
    /\ \E p \in Procs : \/ OpenStep(p) \/ ManifestStep(p) \/ AppendStep(p)
                       \/ IOError(p) \/ ProcessExit(p)
    /\ UNCHANGED backupVars

(***************************************************************************)
(* A step of a writer; none can lock the store while the tool shares it.   *)
(***************************************************************************)
ProcessStep ==
    /\ \E p \in Procs : \/ OpenStep(p) \/ ManifestStep(p) \/ AppendStep(p)
                       \/ IOError(p) \/ ProcessExit(p)
    /\ Sharing => owner' = owner
    /\ UNCHANGED backupVars

ToolStep ==
    \/ ShareLock \/ ReadSnapshot
    \/ CreateDestination \/ CopyLog \/ SyncCopy
    \/ CopyManifest \/ SyncCopiedManifest
    \/ SyncCopyDirectory \/ SyncCopyParent \/ Report
    \/ ToolEnds \/ RemoveCopy

BackupNext == ProcessStep \/ ToolStep \/ PowerFails

BackupSpec == BackupInit /\ [][BackupNext]_allVars

-----------------------------------------------------------------------------
Validated == tool \in ToolSteps \ {"idle", "shared", "verify"}

(***************************************************************************)
(* What a snapshot validated stays what the store holds for as long as the *)
(* tool shares the lock, so that the bytes and the manifest it reads later *)
(* are those it validated; and it has every batch acknowledged so far      *)
(* (TRANSFER.md, physical backup).                                         *)
(***************************************************************************)
SnapshotIsStable ==
    Validated =>
        /\ owner = NoOwner
        /\ manifest.length \in 1..Len(log)
        /\ SubSeq(log, 1, manifest.length) = snapshot
        /\ acked \subseteq Range(snapshot)

(***************************************************************************)
(* The manifest is written last: wherever the backup or the machine was    *)
(* stopped, a destination whose manifest verifies opens, and holds exactly *)
(* the committed batches of the snapshot (TRANSFER.md, physical backup).   *)
(***************************************************************************)
CopiesAreWhole ==
    copy.manifest.length > 0 /\ copy.manifest.valid =>
        /\ Opens(copy)
        /\ SubSeq(copy.log, 1, copy.manifest.length) = origin

(***************************************************************************)
(* A backup that was reported survives a power failure, if the path it was *)
(* given names the directory that holds it.                                *)
(***************************************************************************)
ReportedBackupSurvives ==
    reported /\ ParentNamed =>
        /\ copy.manifest.length > 0 /\ copy.manifest.valid
        /\ copy.log = origin

(***************************************************************************)
(* Why these hold: the shared lock keeps the store as it was validated,    *)
(* and the copy is built and synced in the order of the steps.  The parts  *)
(* are inductive together with IInv of LogStore.                           *)
(***************************************************************************)
Building == tool \in {"copylog", "synclog", "copymanifest", "syncmanifest",
                      "syncdir", "syncparent", "verify"}

Whole(directory) ==
    /\ directory.exists
    /\ directory.synced >= LogBytes
    /\ directory.manifest.valid
    /\ directory.manifest.length = Len(origin)
    /\ directory.log = origin
    /\ ScanAccepts(directory.log, Len(origin))

CopyInv ==
    /\ Building => copy.exists /\ origin = snapshot /\ ~reported
    /\ tool = "copylog" => copy.log = <<>>
    /\ tool \in {"synclog", "copymanifest"} => copy.log = snapshot
    /\ tool \in {"copylog", "synclog", "copymanifest"} => copy.manifest = NoManifest
    /\ tool = "copymanifest" => copy.synced >= LogBytes
    /\ tool \in {"syncmanifest", "syncdir", "syncparent", "verify"} => Whole(copy)
    /\ tool = "verify" /\ ParentNamed => copy.synced = Everything
    /\ reported /\ ParentNamed => Whole(copy) /\ copy.synced = Everything
    /\ copy.manifest.length > 0 /\ copy.manifest.valid => Whole(copy)

BackupInv ==
    /\ IInv
    /\ BackupTypeOK
    /\ Sharing => owner = NoOwner
    /\ Validated => /\ ScanAccepts(log, manifest.length)
                    /\ manifest.length > 0
                    /\ manifest.valid
                    /\ snapshot = SubSeq(log, 1, manifest.length)
    /\ CopyInv
=============================================================================
