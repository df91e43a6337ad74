------------------------------ MODULE LogStore ------------------------------
(***************************************************************************)
(* The append-only store of src/storage.rs: one log, one manifest that     *)
(* names the committed length of the log, and store.lock.                  *)
(*                                                                         *)
(* The log is a sequence whose first entry is the file header and whose    *)
(* other entries are batches: the member frames of one append_batch and    *)
(* the Commit frame that closes them, which are written by one write_all.  *)
(* A "torn" entry stands for bytes that are no such group.  Lengths count  *)
(* entries; 0 means that the file does not exist.                          *)
(*                                                                         *)
(* Each file has a visible content, which a restarted process reads, and a *)
(* content on the medium, which is what a power failure certainly leaves.  *)
(* Directory updates reach the medium in the order they were made.         *)
(***************************************************************************)
EXTENDS Naturals, Sequences, SequencesExt

CONSTANTS
    Procs,              \* processes that may open the store
    NoOwner,            \* store.lock is not held
    Data,               \* contents of a batch
    NoData,
    MaxRecords,         \* bound: member frames in one batch
    MaxBatches,         \* bound: batches in the log
    DirectoryPreexists, \* the store directory is on the medium before the first open
    ParentNamed         \* Path::parent names the directory that holds the store

ASSUME LogStoreAssumption ==
    /\ NoOwner \notin Procs
    /\ NoData \notin Data
    /\ MaxRecords \in Nat \ {0}
    /\ MaxBatches \in Nat
    /\ DirectoryPreexists \in BOOLEAN
    /\ ParentNamed \in BOOLEAN

VARIABLES
    log,            \* visible content of log-00000000000000000001.plog
    diskLog,        \* its content on the medium
    linked,         \* its directory entry is on the medium
    manifest,       \* visible manifest.pmf
    diskManifest,   \* the manifest the directory on the medium names
    next,           \* manifest.next
    anchored,       \* the entry of the store directory itself is on the medium
    owner,          \* holder of store.lock
    pc,             \* where each process is in open_internal or append_batch
    mem,            \* each process's LogStore value
    acked           \* history: batches whose append_batch returned Ok

files == <<log, diskLog, linked, manifest, diskManifest, next, anchored>>
vars == <<files, owner, pc, mem, acked>>

-----------------------------------------------------------------------------
Batch == [kind: {"batch"}, batch: Nat, first: Nat, size: Nat, data: Data]

Mark(kind) == [kind |-> kind, batch |-> 0, first |-> 0, size |-> 0, data |-> NoData]

Header == Mark("header")

TornEntry == Mark("torn")

NoBatch == Mark("none")

Entry == Batch \cup {Header, TornEntry}

(***************************************************************************)
(* manifest.pmf: the committed length, and whether its bytes are on the    *)
(* medium.  A manifest whose checksum fails is TornManifest.               *)
(***************************************************************************)
Manifest == [length: Nat, flushed: BOOLEAN, valid: BOOLEAN]

NoManifest == [length |-> 0, flushed |-> TRUE, valid |-> TRUE]

TornManifest == [length |-> 1, flushed |-> TRUE, valid |-> FALSE]

(***************************************************************************)
(* The fields of a LogStore that change, and the batch being appended      *)
(* (NoBatch while the store is being opened).                              *)
(***************************************************************************)
Store == [committed: Nat, nextSequence: Nat, nextBatch: Nat,
          poisoned: BOOLEAN, group: Batch \cup {NoBatch}]

ClosedStore == [committed |-> 0, nextSequence |-> 1, nextBatch |-> 1,
                poisoned |-> FALSE, group |-> NoBatch]

Steps == {"closed", "locked", "stage", "rename", "syncdir", "syncparent",
          "check", "synctrunc", "replay", "idle",
          "write", "writing", "synclog", "done"}

TypeOK ==
    /\ log \in Seq(Entry)
    /\ diskLog \in Seq(Entry)
    /\ linked \in BOOLEAN
    /\ manifest \in Manifest
    /\ diskManifest \in Manifest
    /\ next \in Manifest
    /\ anchored \in BOOLEAN
    /\ owner \in Procs \cup {NoOwner}
    /\ pc \in [Procs -> Steps]
    /\ mem \in [Procs -> Store]
    /\ acked \subseteq Batch

Init ==
    /\ log = <<>>
    /\ diskLog = <<>>
    /\ linked = FALSE
    /\ manifest = NoManifest
    /\ diskManifest = NoManifest
    /\ next = NoManifest
    /\ anchored = DirectoryPreexists
    /\ owner = NoOwner
    /\ pc = [p \in Procs |-> "closed"]
    /\ mem = [p \in Procs |-> ClosedStore]
    /\ acked = {}

-----------------------------------------------------------------------------
(***************************************************************************)
(* write_all at offset n of a file: entry n + 1 is replaced or added, what *)
(* lies beyond it stays.                                                   *)
(***************************************************************************)
WriteAt(file, n, entry) ==
    [i \in 1..(IF n < Len(file) THEN Len(file) ELSE n + 1) |->
        IF i = n + 1 THEN entry ELSE file[i]]

(***************************************************************************)
(* What scan_committed accepts in the first n entries: an intact header,   *)
(* then batches numbered from one whose record sequences are consecutive   *)
(* (a batch of k members takes k + 1 sequence numbers).                    *)
(***************************************************************************)
Continues(prev, entry) ==
    /\ entry.kind = "batch"
    /\ entry.batch = prev.batch + 1
    /\ entry.first = prev.first + prev.size + 1

ScanAccepts(file, n) ==
    /\ n \in 1..Len(file)
    /\ file[1] = Header
    /\ \A i \in 2..n : Continues(file[i - 1], file[i])

At(p, s) == pc[p] = s

Goto(p, s) == pc' = [pc EXCEPT ![p] = s]

Appending(p) == mem[p].group # NoBatch

Leave(p) ==
    /\ Goto(p, "closed")
    /\ owner' = NoOwner
    /\ mem' = [mem EXCEPT ![p] = ClosedStore]
    /\ UNCHANGED acked

\* Mutant: a failed append leaves the writer usable.
FailAppendUnpoisoned(p) ==
    /\ Appending(p)
    /\ Goto(p, "idle")
    /\ mem' = [mem EXCEPT ![p].group = NoBatch]
    /\ UNCHANGED <<owner, acked>>

(***************************************************************************)
(* The error path: a failed open drops the lock; a failed append leaves    *)
(* the writer poisoned and returns an error to its caller.                 *)
(***************************************************************************)
FailAppend(p) ==
    /\ Appending(p)
    /\ Goto(p, "idle")
    /\ mem' = [mem EXCEPT ![p].poisoned = TRUE, ![p].group = NoBatch]
    /\ UNCHANGED <<owner, acked>>

FailOpen(p) == ~Appending(p) /\ Leave(p)

Fail(p) == FailAppend(p) \/ FailOpen(p)

Advance(p, s) ==
    /\ Goto(p, s)
    /\ UNCHANGED <<owner, mem, acked>>

-----------------------------------------------------------------------------
\* Mutant: a held lock does not stop another open.
LockShared(p) ==
    /\ At(p, "closed")
    /\ owner' = p
    /\ Goto(p, "locked")
    /\ UNCHANGED <<files, mem, acked>>

(***************************************************************************)
(* open_internal: try_lock store.lock, then look for a manifest.           *)
(***************************************************************************)
Lock(p) ==
    /\ At(p, "closed")
    /\ owner = NoOwner
    /\ owner' = p
    /\ Goto(p, "locked")
    /\ UNCHANGED <<files, mem, acked>>

FindManifest(p) ==
    /\ At(p, "locked")
    /\ manifest.length > 0
    /\ manifest.valid
    /\ mem' = [mem EXCEPT ![p].committed = manifest.length]
    /\ Goto(p, "check")
    /\ UNCHANGED <<files, owner, acked>>

(***************************************************************************)
(* initialize_store: create_new of the log, its header, sync_all.  A       *)
(* failure leaves the log in place, whole or torn.                         *)
(***************************************************************************)
CreateLog(p) ==
    /\ At(p, "locked")
    /\ manifest.length = 0
    /\ log = <<>>
    /\ linked' = FALSE
    /\ \/ /\ log' = <<Header>>
          /\ diskLog' = <<Header>>
          /\ Advance(p, "stage")
       \/ /\ log' \in {<<Header>>, <<TornEntry>>}
          /\ diskLog' = <<TornEntry>>
          /\ Leave(p)
    /\ UNCHANGED <<manifest, diskManifest, next, anchored>>

-----------------------------------------------------------------------------
(***************************************************************************)
(* write_manifest, called by initialize_store and by append_batch: write   *)
(* and sync manifest.next, rename it, sync the directory.                  *)
(***************************************************************************)
NewLength(p) == IF Appending(p) THEN mem[p].committed + 1 ELSE 1

Stage(p, flush) ==
    /\ At(p, "stage")
    /\ next' = [length |-> NewLength(p), flushed |-> flush, valid |-> TRUE]
    /\ UNCHANGED <<log, diskLog, linked, manifest, diskManifest, anchored>>
    /\ Advance(p, "rename")

\* Mutant: manifest.next is renamed without having been synced.
StageUnsynced(p) == Stage(p, FALSE)

StageManifest(p) == Stage(p, TRUE)

RenameManifest(p) ==
    /\ At(p, "rename")
    /\ manifest' = next
    /\ next' = NoManifest
    /\ UNCHANGED <<log, diskLog, linked, diskManifest, anchored>>
    /\ Advance(p, "syncdir")

\* Mutant: the directory is not synced after the rename.
SkipSyncDirectory(p) ==
    /\ At(p, "syncdir")
    /\ UNCHANGED files
    /\ Advance(p, IF Appending(p) THEN "done" ELSE "syncparent")

SyncDirectory(p) ==
    /\ At(p, "syncdir")
    /\ diskManifest' = manifest
    /\ linked' = TRUE
    /\ UNCHANGED <<log, diskLog, manifest, next, anchored>>
    /\ Advance(p, IF Appending(p) THEN "done" ELSE "syncparent")

(***************************************************************************)
(* sync_parent_directory does nothing when the path has no named parent.   *)
(***************************************************************************)
SyncParent(p) ==
    /\ At(p, "syncparent")
    /\ anchored' = (anchored \/ ParentNamed)
    /\ mem' = [mem EXCEPT ![p].committed = 1]
    /\ Goto(p, "check")
    /\ UNCHANGED <<log, diskLog, linked, manifest, diskManifest, next,
                   owner, acked>>

(***************************************************************************)
(* Any of these calls may return an error instead.                         *)
(***************************************************************************)
IOError(p) ==
    /\ pc[p] \in {"stage", "rename", "syncdir", "syncparent",
                  "synctrunc", "writing", "synclog"}
    /\ UNCHANGED files
    /\ Fail(p)

-----------------------------------------------------------------------------
(***************************************************************************)
(* open_internal, continued: a tail beyond the committed length is cut     *)
(* off, and the rest is replayed.                                          *)
(***************************************************************************)
LengthFits(p) ==
    /\ log # <<>>
    /\ log[1] = Header
    /\ mem[p].committed <= Len(log)

CheckLength(p) ==
    /\ At(p, "check")
    /\ LengthFits(p)
    /\ IF Len(log) > mem[p].committed
          THEN /\ log' = SubSeq(log, 1, mem[p].committed)
               /\ Advance(p, "synctrunc")
          ELSE /\ UNCHANGED log
               /\ Advance(p, "replay")
    /\ UNCHANGED <<diskLog, linked, manifest, diskManifest, next, anchored>>

SyncTruncation(p) ==
    /\ At(p, "synctrunc")
    /\ diskLog' = log
    /\ UNCHANGED <<log, linked, manifest, diskManifest, next, anchored>>
    /\ Advance(p, "replay")

Replayed(file, n) ==
    [committed |-> n,
     nextSequence |-> file[n].first + file[n].size + 1,
     nextBatch |-> file[n].batch + 1,
     poisoned |-> FALSE,
     group |-> NoBatch]

Replay(p) ==
    /\ At(p, "replay")
    /\ ScanAccepts(log, mem[p].committed)
    /\ mem' = [mem EXCEPT ![p] = Replayed(log, mem[p].committed)]
    /\ Goto(p, "idle")
    /\ UNCHANGED <<files, owner, acked>>

(***************************************************************************)
(* Everything else makes the open fail: a manifest that does not verify, a *)
(* log where create_new expects none, a log that is too short, or records  *)
(* that scan_committed rejects.                                            *)
(***************************************************************************)
Unusable(p) ==
    \/ At(p, "locked") /\ ~manifest.valid
    \/ At(p, "locked") /\ manifest.length = 0 /\ log # <<>>
    \/ At(p, "check") /\ ~LengthFits(p)
    \/ At(p, "replay") /\ ~ScanAccepts(log, mem[p].committed)

Refuse(p) ==
    /\ Unusable(p)
    /\ Leave(p)
    /\ UNCHANGED files

-----------------------------------------------------------------------------
(***************************************************************************)
(* append_batch: frame the records, write them after the committed part,   *)
(* sync the log, then commit through the manifest.                         *)
(***************************************************************************)
FramedBatch(store, size, data) ==
    [kind |-> "batch", batch |-> store.nextBatch, first |-> store.nextSequence,
     size |-> size, data |-> data]

BeginAppend(p) ==
    /\ At(p, "idle")
    /\ ~mem[p].poisoned
    /\ mem[p].committed <= MaxBatches
    /\ \E size \in 0..MaxRecords, data \in Data :
          mem' = [mem EXCEPT ![p].group = FramedBatch(mem[p], size, data)]
    /\ Goto(p, "write")
    /\ UNCHANGED <<files, owner, acked>>

BeginWrite(p) ==
    /\ At(p, "write")
    /\ log' = WriteAt(log, mem[p].committed, TornEntry)
    /\ UNCHANGED <<diskLog, linked, manifest, diskManifest, next, anchored>>
    /\ Advance(p, "writing")

FinishWrite(p) ==
    /\ At(p, "writing")
    /\ log' = WriteAt(log, mem[p].committed, mem[p].group)
    /\ UNCHANGED <<diskLog, linked, manifest, diskManifest, next, anchored>>
    /\ Advance(p, "synclog")

SyncLog(p) ==
    /\ At(p, "synclog")
    /\ diskLog' = log
    /\ UNCHANGED <<log, linked, manifest, diskManifest, next, anchored>>
    /\ Advance(p, "stage")

Committed(store) ==
    [committed |-> store.committed + 1,
     nextSequence |-> store.group.first + store.group.size + 1,
     nextBatch |-> store.nextBatch + 1,
     poisoned |-> FALSE,
     group |-> NoBatch]

\* Mutant: the writer's state is replaced before the batch is reported.
AcknowledgeLate(p) ==
    /\ At(p, "done")
    /\ acked' = acked \cup {Committed(mem[p]).group}
    /\ mem' = [mem EXCEPT ![p] = Committed(mem[p])]
    /\ Goto(p, "idle")
    /\ UNCHANGED <<files, owner>>

Acknowledge(p) ==
    /\ At(p, "done")
    /\ acked' = acked \cup {mem[p].group}
    /\ mem' = [mem EXCEPT ![p] = Committed(mem[p])]
    /\ Goto(p, "idle")
    /\ UNCHANGED <<files, owner>>

(***************************************************************************)
(* flush is one more sync_all of the log.                                  *)
(***************************************************************************)
Flush(p) ==
    /\ At(p, "idle")
    /\ ~mem[p].poisoned
    /\ diskLog' = log
    /\ UNCHANGED <<log, linked, manifest, diskManifest, next, anchored>>
    /\ UNCHANGED <<owner, pc, mem, acked>>

-----------------------------------------------------------------------------
(***************************************************************************)
(* The process ends, cleanly or not: the operating system keeps what was   *)
(* written and drops the lock.                                             *)
(***************************************************************************)
ProcessExit(p) ==
    /\ ~At(p, "closed")
    /\ Leave(p)
    /\ UNCHANGED files

(***************************************************************************)
(* What a power failure may leave of a file: each entry that is not the    *)
(* same on the medium as in the file is old, new or torn, and the length   *)
(* is anything in between.                                                 *)
(***************************************************************************)
Outcomes(disk, file, i) ==
    IF i <= Len(disk) /\ i <= Len(file) /\ disk[i] = file[i]
      THEN {file[i]}
      ELSE {TornEntry} \cup (IF i <= Len(disk) THEN {disk[i]} ELSE {})
                      \cup (IF i <= Len(file) THEN {file[i]} ELSE {})

Shorter(disk, file) == IF Len(disk) < Len(file) THEN Len(disk) ELSE Len(file)
Longer(disk, file) == IF Len(disk) < Len(file) THEN Len(file) ELSE Len(disk)

Images(disk, file) ==
    UNION {{image \in [1..n -> {TornEntry} \cup Range(disk) \cup Range(file)] :
                \A i \in 1..n : image[i] \in Outcomes(disk, file, i)} :
           n \in Shorter(disk, file)..Longer(disk, file)}

Settled(m) == [m EXCEPT !.flushed = TRUE]

ManifestOutcomes ==
    {diskManifest, Settled(manifest)}
        \cup (IF manifest.flushed THEN {} ELSE {TornManifest})

(***************************************************************************)
(* Power fails: every process stops.  The directory is as it was last      *)
(* synced, or as it was at some later moment; if its own entry never       *)
(* reached the medium it may be gone altogether.                           *)
(***************************************************************************)
Stopped ==
    /\ owner' = NoOwner
    /\ pc' = [p \in Procs |-> "closed"]
    /\ mem' = [p \in Procs |-> ClosedStore]
    /\ UNCHANGED acked

Survives ==
    /\ manifest' \in ManifestOutcomes
    /\ \/ log' \in Images(diskLog, log)
       \/ ~linked /\ manifest'.length = 0 /\ log' = <<>>
    /\ linked' = (log' # <<>>)
    /\ anchored' = (anchored \/ log' # <<>>)

Vanishes ==
    /\ ~anchored
    /\ log' = <<>>
    /\ linked' = FALSE
    /\ manifest' = NoManifest
    /\ anchored' = FALSE

PowerLoss ==
    /\ Stopped
    /\ Survives \/ Vanishes
    /\ diskLog' = log'
    /\ diskManifest' = manifest'
    /\ next' = NoManifest

-----------------------------------------------------------------------------
OpenStep(p) ==
    \/ Lock(p) \/ FindManifest(p) \/ CreateLog(p) \/ SyncParent(p)
    \/ CheckLength(p) \/ SyncTruncation(p) \/ Replay(p) \/ Refuse(p)

ManifestStep(p) == StageManifest(p) \/ RenameManifest(p) \/ SyncDirectory(p)

AppendStep(p) ==
    \/ BeginAppend(p) \/ BeginWrite(p) \/ FinishWrite(p)
    \/ SyncLog(p) \/ Acknowledge(p) \/ Flush(p)

Next ==
    \/ \E p \in Procs : \/ OpenStep(p) \/ ManifestStep(p) \/ AppendStep(p)
                       \/ IOError(p) \/ ProcessExit(p)
    \/ PowerLoss

Spec == Init /\ [][Next]_vars

-----------------------------------------------------------------------------
Batches(file, n) == IF n = 0 THEN <<>> ELSE SubSeq(file, 2, n)

Visible == Batches(log, manifest.length)

Durable == Batches(diskLog, diskManifest.length)

(***************************************************************************)
(* Whatever the crash, and however many crashes and failed opens came      *)
(* before it, a store that has a manifest is one that open_internal        *)
(* accepts: the manifest verifies, the log is long enough, and every batch *)
(* of the committed part replays (STORAGE.md, recovery).                   *)
(***************************************************************************)
Recoverable ==
    owner = NoOwner /\ manifest.length > 0 =>
        manifest.valid /\ ScanAccepts(log, manifest.length)

(***************************************************************************)
(* The writer that accepts the next append agrees with the manifest on     *)
(* where that append goes and which numbers its records get; otherwise it  *)
(* would overwrite a committed batch or write one that cannot be replayed. *)
(***************************************************************************)
WriterIsCurrent ==
    \A p \in Procs : At(p, "idle") /\ ~mem[p].poisoned =>
        mem[p] = Replayed(log, manifest.length)

(***************************************************************************)
(* A batch whose append_batch returned Ok is on the medium, under a        *)
(* manifest and a log that are both on the medium, and stays there         *)
(* whatever fails.                                                         *)
(***************************************************************************)
AcknowledgedIsDurable == acked \subseteq Range(Durable)

(***************************************************************************)
(* The store implements the abstract durable log.                          *)
(***************************************************************************)
DL == INSTANCE DurableLog WITH history <- Durable, served <- Visible

ImplementsDurableLog == DL!DLSpec

(***************************************************************************)
(* Why these hold.  store.lock admits one process at a time; both copies   *)
(* of the log agree on every batch that a manifest names; and the process  *)
(* that holds the lock is where its last completed step left the files.    *)
(* Together with TypeOK the parts form an inductive invariant.             *)
(***************************************************************************)
LockIsExclusive ==
    \A p \in Procs : IF owner = p THEN ~At(p, "closed")
                                  ELSE At(p, "closed") /\ mem[p] = ClosedStore

ManifestsAreWhole ==
    /\ manifest.valid /\ manifest.flushed
    /\ diskManifest.valid /\ diskManifest.flushed
    /\ next.valid /\ next.flushed
    /\ diskManifest.length <= manifest.length

CommittedIsSynced ==
    manifest.length > 0 =>
        /\ ScanAccepts(log, manifest.length)
        /\ manifest.length <= Len(diskLog)
        /\ \A i \in 1..manifest.length : diskLog[i] = log[i]

OpenerInv(p) ==
    /\ pc[p] \in {"stage", "rename"} =>
          manifest.length = 0 /\ log = <<Header>> /\ diskLog = log
    /\ At(p, "rename") => next.length = 1
    /\ pc[p] \in {"syncdir", "syncparent"} =>
          manifest.length = 1 /\ diskLog = log
    /\ pc[p] \in {"check", "synctrunc", "replay"} =>
          manifest.length > 0 /\ mem[p].committed = manifest.length
    /\ pc[p] \in {"synctrunc", "replay"} => Len(log) = manifest.length
    /\ At(p, "idle") /\ ~mem[p].poisoned =>
          /\ manifest.length > 0
          /\ Len(log) = manifest.length
          /\ mem[p] = Replayed(log, manifest.length)
    /\ pc[p] \notin {"write", "writing", "synclog", "done"}

NotYetCommitted(p) ==
    /\ manifest.length > 0
    /\ mem[p].committed = manifest.length
    /\ Continues(log[manifest.length], mem[p].group)

AppenderInv(p) ==
    /\ mem[p].group.batch = mem[p].nextBatch
    /\ At(p, "write") => NotYetCommitted(p) /\ Len(log) = mem[p].committed
    /\ pc[p] \in {"writing", "synclog", "stage", "rename"} =>
          NotYetCommitted(p) /\ Len(log) = mem[p].committed + 1
    /\ pc[p] \in {"synclog", "stage", "rename", "syncdir", "done"} =>
          log[mem[p].committed + 1] = mem[p].group
    /\ pc[p] \in {"stage", "rename", "syncdir", "done"} => diskLog = log
    /\ At(p, "rename") => next.length = mem[p].committed + 1
    /\ pc[p] \in {"syncdir", "done"} =>
          manifest.length = mem[p].committed + 1 /\ Len(log) = manifest.length
    /\ At(p, "done") => diskManifest = manifest
    /\ pc[p] \in {"write", "writing", "synclog", "stage", "rename",
                  "syncdir", "done"}

OwnerInv ==
    \A p \in Procs : owner = p =>
        IF Appending(p) THEN AppenderInv(p) ELSE OpenerInv(p)

IInv ==
    /\ TypeOK
    /\ LockIsExclusive
    /\ ManifestsAreWhole
    /\ CommittedIsSynced
    /\ OwnerInv

(***************************************************************************)
(* OPERATIONS.md says that restarting the process resolves an uncertain    *)
(* write; a store whose creation was interrupted cannot be opened again.   *)
(***************************************************************************)
RestartRecovers ==
    owner = NoOwner /\ manifest.length = 0 => log = <<>>
=============================================================================
