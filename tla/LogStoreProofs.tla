--------------------------- MODULE LogStoreProofs ---------------------------
(***************************************************************************)
(* Proofs about LogStore and about Backup, for any number of processes,    *)
(* batches, records and crashes: the invariants of the store; that it      *)
(* implements DurableLog when its directory was on the medium before it    *)
(* was created, and therefore acknowledges only what is durable; and what  *)
(* snapshots and backups beside it read and copy.                          *)
(***************************************************************************)
EXTENDS Backup, SequenceTheorems, TLAPS

USE LogStoreAssumption

-----------------------------------------------------------------------------
(***************************************************************************)
(* The values the actions build have their types.                          *)
(***************************************************************************)
LEMMA EntryTypes ==
    /\ Header \in Entry
    /\ TornEntry \in Entry
    /\ Header \notin Batch
    /\ TornEntry \notin Batch
    /\ NoBatch \notin Batch
    /\ ClosedStore \in Store
    /\ NoManifest \in Manifest
    /\ TornManifest \in Manifest
<1>1. Header \in Entry /\ TornEntry \in Entry
  BY DEF Entry
<1>2. /\ Header.kind = "header"
      /\ TornEntry.kind = "torn"
      /\ NoBatch.kind = "none"
  BY DEF Header, TornEntry, NoBatch, Mark
<1>3. \A b \in Batch : b.kind = "batch"
  BY DEF Batch
<1>4. ClosedStore \in Store
  BY DEF ClosedStore, Store
<1>5. NoManifest \in Manifest /\ TornManifest \in Manifest
  BY DEF NoManifest, TornManifest, Manifest
<1> QED
  BY <1>1, <1>2, <1>3, <1>4, <1>5

(***************************************************************************)
(* A write at or before the end of the file keeps what precedes it.        *)
(***************************************************************************)
LEMMA WriteAtKeepsPrefix ==
    ASSUME NEW file \in Seq(Entry), NEW n \in 0..Len(file), NEW e \in Entry
    PROVE  /\ WriteAt(file, n, e) \in Seq(Entry)
           /\ n < Len(file) => Len(WriteAt(file, n, e)) = Len(file)
           /\ n = Len(file) => Len(WriteAt(file, n, e)) = n + 1
           /\ WriteAt(file, n, e)[n + 1] = e
           /\ \A i \in 1..n : WriteAt(file, n, e)[i] = file[i]
<1> DEFINE m == IF n < Len(file) THEN Len(file) ELSE n + 1
<1>1. m \in Nat /\ n + 1 \in 1..m
  OBVIOUS
<1>2. \A i \in 1..m : i # n + 1 => i \in 1..Len(file)
  OBVIOUS
<1>3. \A i \in 1..m : (IF i = n + 1 THEN e ELSE file[i]) \in Entry
  BY <1>2
<1>4. WriteAt(file, n, e) = [i \in 1..m |-> IF i = n + 1 THEN e ELSE file[i]]
  BY DEF WriteAt
<1> HIDE DEF m
<1>5. WriteAt(file, n, e) \in [1..m -> Entry]
  BY <1>3, <1>4
<1>6. WriteAt(file, n, e) \in Seq(Entry)
  BY <1>1, <1>5, SeqDef
<1>7. Len(WriteAt(file, n, e)) = m
  BY <1>1, <1>5, <1>6, LenProperties
<1>8. n < m
  BY <1>1
<1>9. \A i \in 1..n : WriteAt(file, n, e)[i] = file[i]
  BY <1>1, <1>4, <1>8
<1> QED
  BY <1>1, <1>4, <1>6, <1>7, <1>9 DEF m

LEMMA WriteAtInside ==
    ASSUME NEW file \in Seq(Entry), NEW n \in Nat, n < Len(file), NEW e \in Entry
    PROVE  /\ WriteAt(file, n, e) \in Seq(Entry)
           /\ Len(WriteAt(file, n, e)) = Len(file)
           /\ WriteAt(file, n, e)[n + 1] = e
           /\ \A i \in 1..n : WriteAt(file, n, e)[i] = file[i]
<1>1. n \in 0..Len(file)
  OBVIOUS
<1> QED
  BY <1>1, WriteAtKeepsPrefix, ZenonT(30)

(***************************************************************************)
(* A power failure keeps the part of a file that had been synced.          *)
(***************************************************************************)
LEMMA ImageKeepsSynced ==
    ASSUME NEW disk \in Seq(Entry), NEW file \in Seq(Entry),
           NEW image \in Images(disk, file)
    PROVE  /\ image \in Seq(Entry)
           /\ \A n \in Nat :
                 /\ n <= Len(disk) /\ n <= Len(file)
                 /\ \A i \in 1..n : disk[i] = file[i]
                 => n <= Len(image) /\ \A i \in 1..n : image[i] = file[i]
<1> DEFINE S == {TornEntry} \cup Range(disk) \cup Range(file)
<1>1. S \subseteq Entry
  BY EntryTypes, LenProperties DEF Range
<1>2. PICK m \in Shorter(disk, file)..Longer(disk, file) :
        /\ image \in [1..m -> S]
        /\ \A i \in 1..m : image[i] \in Outcomes(disk, file, i)
  BY DEF Images
<1>3. m \in Nat /\ Shorter(disk, file) <= m
  BY DEF Shorter, Longer
<1> HIDE DEF S
<1>4. image \in Seq(Entry) /\ Len(image) = m
  BY <1>1, <1>2, <1>3, SeqDef, LenProperties
<1>5. ASSUME NEW n \in Nat, n <= Len(disk), n <= Len(file),
             \A i \in 1..n : disk[i] = file[i]
      PROVE  n <= Len(image) /\ \A i \in 1..n : image[i] = file[i]
  <2>1. n <= m
    BY <1>3, <1>5 DEF Shorter
  <2>2. ASSUME NEW i \in 1..n PROVE image[i] = file[i]
    <3>1. image[i] \in Outcomes(disk, file, i)
      BY <1>2, <1>3, <2>1
    <3>2. Outcomes(disk, file, i) = {file[i]}
      BY <1>5 DEF Outcomes
    <3> QED
      BY <3>1, <3>2
  <2> QED
    BY <1>4, <2>1, <2>2
<1> QED
  BY <1>4, <1>5

(***************************************************************************)
(* Writing after the committed part does not disturb it.                   *)
(***************************************************************************)
LEMMA PrefixStaysSynced ==
    ASSUME CommittedIsSynced, manifest.length \in Nat,
           log \in Seq(Entry), log' \in Seq(Entry),
           manifest' = manifest, diskLog' = diskLog,
           manifest.length <= Len(log'),
           \A i \in 1..manifest.length : log'[i] = log[i]
    PROVE  CommittedIsSynced'
<1> SUFFICES ASSUME manifest.length > 0
             PROVE  /\ ScanAccepts(log', manifest.length)
                    /\ manifest.length <= Len(diskLog)
                    /\ \A i \in 1..manifest.length : diskLog[i] = log'[i]
  BY DEF CommittedIsSynced, ScanAccepts
<1>1. ScanAccepts(log, manifest.length)
  BY DEF CommittedIsSynced
<1>2. ScanAccepts(log', manifest.length)
  BY <1>1 DEF ScanAccepts
<1> QED
  BY <1>2 DEF CommittedIsSynced

-----------------------------------------------------------------------------
LEMMA InitEstablishesIInv == Init => IInv
<1> SUFFICES ASSUME Init PROVE IInv
  OBVIOUS
<1> USE DEF Init
<1>1. TypeOK
  BY EntryTypes, EmptySeq DEF TypeOK, Steps
<1>2. LockIsExclusive
  BY DEF LockIsExclusive, At
<1>3. ManifestsAreWhole
  BY DEF ManifestsAreWhole, NoManifest
<1>4. CommittedIsSynced
  BY DEF CommittedIsSynced, NoManifest
<1>5. OwnerInv
  BY DEF OwnerInv
<1> QED
  BY <1>1, <1>2, <1>3, <1>4, <1>5 DEF IInv

(***************************************************************************)
(* A process that is not closed holds the lock, and it alone.              *)
(***************************************************************************)
LEMMA OwnerIsAlone ==
    ASSUME IInv, NEW p \in Procs, ~At(p, "closed")
    PROVE  /\ owner = p
           /\ IF Appending(p) THEN AppenderInv(p) ELSE OpenerInv(p)
<1>1. owner = p
  BY DEF IInv, LockIsExclusive
<1> QED
  BY <1>1 DEF IInv, OwnerInv

(***************************************************************************)
(* A step of the owner that goes on to another step only has to establish  *)
(* what the owner's next step assumes.                                     *)
(***************************************************************************)
LEMMA OwnerGoesOn ==
    ASSUME IInv, NEW p \in Procs, NEW s \in Steps \ {"closed"},
           owner = p, owner' = p, Goto(p, s),
           \A q \in Procs : q # p => mem'[q] = mem[q],
           TypeOK', ManifestsAreWhole', CommittedIsSynced',
           (IF Appending(p) THEN AppenderInv(p) ELSE OpenerInv(p))'
    PROVE  IInv'
<1>1. pc'[p] = s /\ \A q \in Procs : q # p => pc'[q] = pc[q]
  BY DEF IInv, TypeOK, Goto
<1>2. LockIsExclusive'
  BY <1>1 DEF IInv, LockIsExclusive, At
<1>3. OwnerInv'
  BY DEF OwnerInv
<1> QED
  BY <1>2, <1>3 DEF IInv

(***************************************************************************)
(* A process that gives up the lock leaves nobody with assumptions.        *)
(***************************************************************************)
LEMMA OwnerLeaves ==
    ASSUME IInv, NEW p \in Procs, owner = p, Leave(p),
           log' \in Seq(Entry), diskLog' \in Seq(Entry), linked' \in BOOLEAN,
           UNCHANGED <<manifest, diskManifest, next, anchored>>,
           CommittedIsSynced'
    PROVE  IInv'
<1>1. /\ pc' \in [Procs -> Steps] /\ mem' \in [Procs -> Store]
      /\ owner' = NoOwner /\ acked' = acked
      /\ pc'[p] = "closed" /\ mem'[p] = ClosedStore
      /\ \A q \in Procs : q # p => pc'[q] = pc[q] /\ mem'[q] = mem[q]
  BY EntryTypes DEF IInv, TypeOK, Leave, Goto, Steps
<1>2. TypeOK'
  BY <1>1 DEF IInv, TypeOK
<1>3. LockIsExclusive'
  BY <1>1 DEF IInv, LockIsExclusive, At
<1>4. ManifestsAreWhole'
  BY DEF IInv, ManifestsAreWhole
<1>5. OwnerInv'
  BY <1>1 DEF OwnerInv
<1> QED
  BY <1>2, <1>3, <1>4, <1>5 DEF IInv

-----------------------------------------------------------------------------
(***************************************************************************)
(* The steps of opening a store.                                           *)
(***************************************************************************)
LEMMA LockKeepsIInv ==
    ASSUME IInv, NEW p \in Procs, Lock(p) PROVE IInv'
<1>1. mem[p].group = NoBatch
  BY DEF Lock, IInv, LockIsExclusive, ClosedStore
<1>2. /\ pc' \in [Procs -> Steps] /\ pc'[p] = "locked"
      /\ \A q \in Procs : q # p => pc'[q] = pc[q]
      /\ owner' = p /\ mem' = mem /\ acked' = acked /\ UNCHANGED files
  BY DEF IInv, TypeOK, Lock, Goto, Steps
<1>3. TypeOK'
  BY <1>2 DEF IInv, TypeOK, files
<1>4. LockIsExclusive'
  BY <1>2 DEF IInv, LockIsExclusive, At, Lock
<1>5. ManifestsAreWhole' /\ CommittedIsSynced'
  BY <1>2 DEF IInv, ManifestsAreWhole, CommittedIsSynced, files
<1>6. OwnerInv'
  BY <1>1, <1>2 DEF OwnerInv, Appending, OpenerInv, At
<1> QED
  BY <1>3, <1>4, <1>5, <1>6 DEF IInv

LEMMA FindManifestKeepsIInv ==
    ASSUME IInv, NEW p \in Procs, FindManifest(p) PROVE IInv'
<1>1. owner = p /\ OpenerInv(p) /\ mem[p].group = NoBatch
  BY OwnerIsAlone DEF FindManifest, At, AppenderInv, Appending
<1>2. /\ mem' \in [Procs -> Store]
      /\ mem'[p].committed = manifest.length /\ mem'[p].group = NoBatch
      /\ \A q \in Procs : q # p => mem'[q] = mem[q]
  BY <1>1, ZenonT(30) DEF IInv, TypeOK, FindManifest, Store, Manifest
<1>3. pc'[p] = "check" /\ pc' \in [Procs -> Steps] /\ UNCHANGED <<files, owner, acked>>
  BY DEF IInv, TypeOK, FindManifest, Goto, Steps
<1>4. TypeOK'
  BY <1>2, <1>3 DEF IInv, TypeOK, files
<1>5. ManifestsAreWhole' /\ CommittedIsSynced'
  BY <1>3 DEF IInv, ManifestsAreWhole, CommittedIsSynced, files
<1>6. OpenerInv(p)' /\ ~Appending(p)'
  BY <1>2, <1>3 DEF OpenerInv, At, Appending, FindManifest, files
<1> QED
  BY <1>1, <1>2, <1>3, <1>4, <1>5, <1>6, OwnerGoesOn DEF FindManifest, Steps

LEMMA CreateLogKeepsIInv ==
    ASSUME IInv, NEW p \in Procs, CreateLog(p) PROVE IInv'
<1>1. owner = p /\ OpenerInv(p) /\ mem[p].group = NoBatch
  BY OwnerIsAlone DEF CreateLog, At, AppenderInv, Appending
<1>2. /\ log' \in Seq(Entry) /\ diskLog' \in Seq(Entry) /\ linked' \in BOOLEAN
      /\ UNCHANGED <<manifest, diskManifest, next, anchored>>
      /\ manifest.length = 0
  <2>1. <<Header>> \in Seq(Entry) /\ <<TornEntry>> \in Seq(Entry)
    BY EntryTypes
  <2>2. log' \in {<<Header>>, <<TornEntry>>} /\ diskLog' \in {<<Header>>, <<TornEntry>>}
    BY DEF CreateLog
  <2> QED
    BY <2>1, <2>2 DEF CreateLog
<1>3. CommittedIsSynced'
  BY <1>2 DEF CommittedIsSynced
<1>4. CASE Leave(p)
  BY <1>1, <1>2, <1>3, <1>4, OwnerLeaves
<1>5. CASE log' = <<Header>> /\ diskLog' = <<Header>> /\ Advance(p, "stage")
  <2>1. pc'[p] = "stage" /\ pc' \in [Procs -> Steps] /\ UNCHANGED <<owner, mem, acked>>
    BY <1>5 DEF IInv, TypeOK, Advance, Goto, Steps
  <2>2. TypeOK'
    BY <1>2, <2>1 DEF IInv, TypeOK
  <2>3. ManifestsAreWhole'
    BY <1>2 DEF IInv, ManifestsAreWhole
  <2>4. OpenerInv(p)' /\ ~Appending(p)'
    BY <1>1, <1>2, <1>5, <2>1 DEF OpenerInv, At, Appending
  <2> QED
    BY <1>1, <1>3, <1>5, <2>1, <2>2, <2>3, <2>4, OwnerGoesOn DEF Advance, Steps
<1> QED
  BY <1>4, <1>5 DEF CreateLog

LEMMA SyncParentKeepsIInv ==
    ASSUME IInv, NEW p \in Procs, SyncParent(p) PROVE IInv'
<1>1. owner = p /\ OpenerInv(p) /\ mem[p].group = NoBatch /\ manifest.length = 1
  BY OwnerIsAlone DEF SyncParent, At, AppenderInv, OpenerInv, Appending
<1>2. /\ mem' \in [Procs -> Store]
      /\ mem'[p].committed = 1 /\ mem'[p].group = NoBatch
      /\ \A q \in Procs : q # p => mem'[q] = mem[q]
  <2>1. /\ mem \in [Procs -> Store] /\ mem[p] \in Store
    BY DEF IInv, TypeOK
  <2>2. mem' = [mem EXCEPT ![p].committed = 1]
    BY <1>1 DEF SyncParent
  <2> QED
    BY <1>1, <2>1, <2>2 DEF Store
<1>3. /\ pc'[p] = "check" /\ pc' \in [Procs -> Steps]
      /\ UNCHANGED <<log, diskLog, linked, manifest, diskManifest, next, owner, acked>>
      /\ anchored' \in BOOLEAN
  BY DEF IInv, TypeOK, SyncParent, Goto, Steps, LogStoreAssumption
<1>4. TypeOK'
  BY <1>2, <1>3 DEF IInv, TypeOK
<1>5. ManifestsAreWhole' /\ CommittedIsSynced'
  BY <1>3 DEF IInv, ManifestsAreWhole, CommittedIsSynced
<1>6. OpenerInv(p)' /\ ~Appending(p)'
  BY <1>1, <1>2, <1>3 DEF OpenerInv, At, Appending
<1> QED
  BY <1>1, <1>2, <1>3, <1>4, <1>5, <1>6, OwnerGoesOn DEF SyncParent, Steps

LEMMA CheckLengthKeepsIInv ==
    ASSUME IInv, NEW p \in Procs, CheckLength(p) PROVE IInv'
<1>1. /\ owner = p /\ OpenerInv(p) /\ mem[p].group = NoBatch
      /\ manifest.length > 0 /\ mem[p].committed = manifest.length
      /\ manifest.length \in Nat /\ manifest.length <= Len(log)
  BY OwnerIsAlone
     DEF CheckLength, LengthFits, At, AppenderInv, OpenerInv, Appending,
         IInv, TypeOK, Manifest
<1>2. UNCHANGED <<diskLog, linked, manifest, diskManifest, next, anchored,
                  owner, mem, acked>>
  BY DEF CheckLength, Advance
<1>3. ManifestsAreWhole'
  BY <1>2 DEF IInv, ManifestsAreWhole
<1>4. CASE Len(log) > mem[p].committed
  <2>1. log' = SubSeq(log, 1, manifest.length) /\ Advance(p, "synctrunc")
    BY <1>1, <1>4 DEF CheckLength
  <2>2. /\ log' \in Seq(Entry) /\ Len(log') = manifest.length
        /\ \A i \in 1..manifest.length : log'[i] = log[i]
    BY <1>1, <2>1 DEF IInv, TypeOK
  <2>3. pc'[p] = "synctrunc" /\ pc' \in [Procs -> Steps]
    BY <2>1 DEF IInv, TypeOK, Advance, Goto, Steps
  <2>4. TypeOK'
    BY <1>2, <2>2, <2>3 DEF IInv, TypeOK
  <2>5. CommittedIsSynced'
    BY <1>1, <1>2, <2>2, SMTT(30) DEF IInv, CommittedIsSynced, ScanAccepts
  <2>6. OpenerInv(p)' /\ ~Appending(p)'
    BY <1>1, <1>2, <2>2, <2>3 DEF OpenerInv, At, Appending
  <2> QED
    BY <1>1, <1>2, <1>3, <2>1, <2>4, <2>5, <2>6, OwnerGoesOn DEF Advance, Steps
<1>5. CASE ~(Len(log) > mem[p].committed)
  <2>1. log' = log /\ Advance(p, "replay") /\ Len(log) = manifest.length
    BY <1>1, <1>5 DEF CheckLength, IInv, TypeOK
  <2>3. pc'[p] = "replay" /\ pc' \in [Procs -> Steps]
    BY <2>1 DEF IInv, TypeOK, Advance, Goto, Steps
  <2>4. TypeOK'
    BY <1>2, <2>1, <2>3 DEF IInv, TypeOK
  <2>5. CommittedIsSynced'
    BY <1>2, <2>1 DEF IInv, CommittedIsSynced
  <2>6. OpenerInv(p)' /\ ~Appending(p)'
    BY <1>1, <1>2, <2>1, <2>3 DEF OpenerInv, At, Appending
  <2> QED
    BY <1>1, <1>2, <1>3, <2>1, <2>4, <2>5, <2>6, OwnerGoesOn DEF Advance, Steps
<1> QED
  BY <1>4, <1>5

LEMMA SyncTruncationKeepsIInv ==
    ASSUME IInv, NEW p \in Procs, SyncTruncation(p) PROVE IInv'
<1>1. /\ owner = p /\ OpenerInv(p) /\ mem[p].group = NoBatch
      /\ manifest.length > 0 /\ mem[p].committed = manifest.length
      /\ Len(log) = manifest.length
  BY OwnerIsAlone DEF SyncTruncation, At, AppenderInv, OpenerInv, Appending
<1>2. /\ diskLog' = log
      /\ UNCHANGED <<log, linked, manifest, diskManifest, next, anchored,
                     owner, mem, acked>>
  BY DEF SyncTruncation, Advance
<1>3. pc'[p] = "replay" /\ pc' \in [Procs -> Steps]
  BY DEF IInv, TypeOK, SyncTruncation, Advance, Goto, Steps
<1>4. TypeOK'
  BY <1>2, <1>3 DEF IInv, TypeOK
<1>5. ManifestsAreWhole' /\ CommittedIsSynced'
  BY <1>1, <1>2 DEF IInv, TypeOK, ManifestsAreWhole, CommittedIsSynced
<1>6. OpenerInv(p)' /\ ~Appending(p)'
  BY <1>1, <1>2, <1>3 DEF OpenerInv, At, Appending
<1> QED
  BY <1>1, <1>2, <1>4, <1>5, <1>6, OwnerGoesOn DEF SyncTruncation, Advance, Steps

LEMMA ReplayKeepsIInv ==
    ASSUME IInv, NEW p \in Procs, Replay(p) PROVE IInv'
<1>1. /\ owner = p /\ OpenerInv(p) /\ mem[p].group = NoBatch
      /\ manifest.length > 0 /\ mem[p].committed = manifest.length
      /\ Len(log) = manifest.length /\ manifest.length \in Nat
  BY OwnerIsAlone
     DEF Replay, At, AppenderInv, OpenerInv, Appending, IInv, TypeOK, Manifest
<1>2. Replayed(log, manifest.length) \in Store
  <2>1. log[manifest.length] \in Entry
    BY <1>1, ElementOfSeq DEF IInv, TypeOK
  <2> QED
    BY <1>1, <2>1
       DEF Replayed, Store, Entry, Batch, Header, TornEntry, Mark
<1>3. /\ mem' \in [Procs -> Store] /\ mem'[p] = Replayed(log, manifest.length)
      /\ \A q \in Procs : q # p => mem'[q] = mem[q]
      /\ UNCHANGED <<files, owner, acked>>
  BY <1>1, <1>2 DEF IInv, TypeOK, Replay
<1>4. pc'[p] = "idle" /\ pc' \in [Procs -> Steps]
  BY DEF IInv, TypeOK, Replay, Goto, Steps
<1>5. TypeOK'
  BY <1>3, <1>4 DEF IInv, TypeOK, files
<1>6. ManifestsAreWhole' /\ CommittedIsSynced'
  BY <1>3 DEF IInv, ManifestsAreWhole, CommittedIsSynced, files
<1>7. mem'[p].group = NoBatch
  BY <1>3 DEF Replayed
<1>8. OpenerInv(p)' /\ ~Appending(p)'
  <2>1. Replayed(log, manifest.length)' = Replayed(log, manifest.length)
    BY <1>3 DEF files, Replayed
  <2> QED
    BY <1>1, <1>3, <1>4, <1>7, <2>1 DEF OpenerInv, At, Appending, files
<1> QED
  BY <1>1, <1>3, <1>5, <1>6, <1>8, OwnerGoesOn DEF Replay, Steps

LEMMA RefuseKeepsIInv ==
    ASSUME IInv, NEW p \in Procs, Refuse(p) PROVE IInv'
<1>1. owner = p
  BY OwnerIsAlone DEF Refuse, Unusable, At
<1>2. CommittedIsSynced'
  BY DEF Refuse, files, IInv, CommittedIsSynced
<1> QED
  BY <1>1, <1>2, OwnerLeaves DEF Refuse, files, IInv, TypeOK

-----------------------------------------------------------------------------
(***************************************************************************)
(* The steps of write_manifest, shared by creation and append.             *)
(***************************************************************************)
LEMMA StageManifestKeepsIInv ==
    ASSUME IInv, NEW p \in Procs, StageManifest(p) PROVE IInv'
<1>1. /\ owner = p
      /\ IF Appending(p) THEN AppenderInv(p) ELSE OpenerInv(p)
      /\ mem[p].committed \in Nat
  BY OwnerIsAlone DEF StageManifest, Stage, At, IInv, TypeOK, Store
<1>2. /\ next' = [length |-> NewLength(p), flushed |-> TRUE, valid |-> TRUE]
      /\ UNCHANGED <<log, diskLog, linked, manifest, diskManifest, anchored,
                     owner, mem, acked>>
  BY DEF StageManifest, Stage, Advance
<1>3. pc'[p] = "rename" /\ pc' \in [Procs -> Steps]
  BY DEF IInv, TypeOK, StageManifest, Stage, Advance, Goto, Steps
<1>4. next' \in Manifest /\ next'.valid /\ next'.flushed /\ next'.length = NewLength(p)
  BY <1>1, <1>2 DEF Manifest, NewLength
<1>5. TypeOK'
  BY <1>2, <1>3, <1>4 DEF IInv, TypeOK
<1>6. ManifestsAreWhole' /\ CommittedIsSynced'
  BY <1>2, <1>4 DEF IInv, ManifestsAreWhole, CommittedIsSynced
<1>7. (IF Appending(p) THEN AppenderInv(p) ELSE OpenerInv(p))'
  <2>1. At(p, "stage")
    BY DEF StageManifest, Stage
  <2>2. CASE Appending(p)
    <3>1. AppenderInv(p)'
      BY <1>1, <1>2, <1>3, <1>4, <2>1, <2>2
         DEF AppenderInv, NotYetCommitted, At, NewLength
    <3> QED
      BY <1>2, <2>2, <3>1 DEF Appending
  <2>3. CASE ~Appending(p)
    <3>1. OpenerInv(p)'
      BY <1>1, <1>2, <1>3, <1>4, <2>1, <2>3 DEF OpenerInv, At, NewLength
    <3> QED
      BY <1>2, <2>3, <3>1 DEF Appending
  <2> QED
    BY <2>2, <2>3
<1> QED
  BY <1>1, <1>2, <1>5, <1>6, <1>7, OwnerGoesOn
     DEF StageManifest, Stage, Advance, Steps

LEMMA RenameManifestKeepsIInv ==
    ASSUME IInv, NEW p \in Procs, RenameManifest(p) PROVE IInv'
<1>1. /\ owner = p
      /\ IF Appending(p) THEN AppenderInv(p) ELSE OpenerInv(p)
      /\ At(p, "rename")
      /\ mem[p].committed \in Nat
      /\ log \in Seq(Entry)
      /\ diskManifest.length \in Nat
  BY OwnerIsAlone DEF RenameManifest, At, IInv, TypeOK, Store, Manifest
<1>2. /\ manifest' = next /\ next' = NoManifest
      /\ UNCHANGED <<log, diskLog, linked, diskManifest, anchored,
                     owner, mem, acked>>
  BY DEF RenameManifest, Advance
<1>3. pc'[p] = "syncdir" /\ pc' \in [Procs -> Steps]
  BY DEF IInv, TypeOK, RenameManifest, Advance, Goto, Steps
<1>4. TypeOK'
  BY <1>2, <1>3, EntryTypes DEF IInv, TypeOK
<1>5. CASE Appending(p)
  <2>1. /\ AppenderInv(p) /\ NotYetCommitted(p)
        /\ manifest.length \in Nat /\ manifest.length > 0
        /\ mem[p].committed = manifest.length
        /\ next.length = manifest.length + 1
        /\ Len(log) = manifest.length + 1 /\ diskLog = log
        /\ log[manifest.length + 1] = mem[p].group
    BY <1>1, <1>5 DEF AppenderInv, NotYetCommitted, At
  <2>2. ManifestsAreWhole'
    BY <1>1, <1>2, <2>1 DEF IInv, ManifestsAreWhole, NoManifest
  <2>3. CommittedIsSynced'
    <3>1. ScanAccepts(log, manifest.length)
      BY <2>1 DEF IInv, CommittedIsSynced
    <3>2. Continues(log[manifest.length], log[manifest.length + 1])
      BY <2>1 DEF NotYetCommitted
    <3>3. ScanAccepts(log, manifest.length + 1)
      <4>1. ASSUME NEW i \in 2..(manifest.length + 1)
            PROVE  Continues(log[i - 1], log[i])
        <5>1. CASE i = manifest.length + 1
          BY <2>1, <3>2, <5>1
        <5>2. CASE i # manifest.length + 1
          BY <2>1, <3>1, <5>2 DEF ScanAccepts
        <5> QED
          BY <5>1, <5>2
      <4> QED
        BY <2>1, <3>1, <4>1 DEF ScanAccepts
    <3> QED
      BY <1>2, <2>1, <3>3 DEF CommittedIsSynced, ScanAccepts
  <2>4. AppenderInv(p)'
    BY <1>2, <1>3, <2>1 DEF AppenderInv, NotYetCommitted, At
  <2> QED
    BY <1>1, <1>2, <1>4, <1>5, <2>2, <2>3, <2>4, OwnerGoesOn
       DEF RenameManifest, Advance, Appending, Steps
<1>6. CASE ~Appending(p)
  <2>1. /\ OpenerInv(p) /\ manifest.length = 0 /\ next.length = 1
        /\ log = <<Header>> /\ diskLog = log
    BY <1>1, <1>6 DEF OpenerInv, At
  <2>2. ManifestsAreWhole'
    BY <1>1, <1>2, <2>1 DEF IInv, ManifestsAreWhole, NoManifest
  <2>3. CommittedIsSynced'
    BY <1>2, <2>1 DEF CommittedIsSynced, ScanAccepts
  <2>4. OpenerInv(p)'
    BY <1>2, <1>3, <2>1 DEF OpenerInv, At
  <2> QED
    BY <1>1, <1>2, <1>4, <1>6, <2>2, <2>3, <2>4, OwnerGoesOn
       DEF RenameManifest, Advance, Appending, Steps
<1> QED
  BY <1>5, <1>6

LEMMA SyncDirectoryKeepsIInv ==
    ASSUME IInv, NEW p \in Procs, SyncDirectory(p) PROVE IInv'
<1>1. /\ owner = p
      /\ IF Appending(p) THEN AppenderInv(p) ELSE OpenerInv(p)
      /\ At(p, "syncdir")
      /\ manifest.length \in Nat
  BY OwnerIsAlone DEF SyncDirectory, At, IInv, TypeOK, Manifest
<1>2. /\ diskManifest' = manifest /\ linked' = TRUE
      /\ UNCHANGED <<log, diskLog, manifest, next, anchored, owner, mem, acked>>
      /\ Goto(p, IF Appending(p) THEN "done" ELSE "syncparent")
  BY DEF SyncDirectory, Advance
<1>3. /\ pc'[p] = (IF Appending(p) THEN "done" ELSE "syncparent")
      /\ pc' \in [Procs -> Steps]
  BY <1>2 DEF IInv, TypeOK, Goto, Steps
<1>4. TypeOK'
  BY <1>2, <1>3 DEF IInv, TypeOK
<1>5. ManifestsAreWhole' /\ CommittedIsSynced'
  BY <1>1, <1>2 DEF IInv, ManifestsAreWhole, CommittedIsSynced
<1>6. CASE Appending(p)
  <2>1. AppenderInv(p)'
    BY <1>1, <1>2, <1>3, <1>6 DEF AppenderInv, NotYetCommitted, At
  <2> QED
    BY <1>1, <1>2, <1>4, <1>5, <1>6, <2>1, OwnerGoesOn DEF Appending, Steps
<1>7. CASE ~Appending(p)
  <2>1. OpenerInv(p)'
    BY <1>1, <1>2, <1>3, <1>7 DEF OpenerInv, At
  <2> QED
    BY <1>1, <1>2, <1>4, <1>5, <1>7, <2>1, OwnerGoesOn DEF Appending, Steps
<1> QED
  BY <1>6, <1>7

-----------------------------------------------------------------------------
(***************************************************************************)
(* The steps of append_batch.                                              *)
(***************************************************************************)
LEMMA BeginAppendKeepsIInv ==
    ASSUME IInv, NEW p \in Procs, BeginAppend(p) PROVE IInv'
<1>1. /\ owner = p /\ OpenerInv(p) /\ mem[p].group = NoBatch
      /\ manifest.length > 0 /\ manifest.length \in Nat
      /\ Len(log) = manifest.length
      /\ mem[p] = Replayed(log, manifest.length)
  BY OwnerIsAlone
     DEF BeginAppend, At, AppenderInv, OpenerInv, Appending, IInv, TypeOK, Manifest
<1>2. PICK size \in 0..MaxRecords, data \in Data :
        mem' = [mem EXCEPT ![p].group = FramedBatch(mem[p], size, data)]
  BY DEF BeginAppend
<1> DEFINE group == FramedBatch(mem[p], size, data)
<1>3. group \in Batch
  BY DEF IInv, TypeOK, FramedBatch, Store, Batch
<1>4. /\ mem' \in [Procs -> Store]
      /\ mem'[p] = [mem[p] EXCEPT !.group = group]
      /\ mem'[p].group = group
      /\ mem'[p].nextBatch = mem[p].nextBatch
      /\ mem'[p].committed = mem[p].committed
      /\ \A q \in Procs : q # p => mem'[q] = mem[q]
  <2> HIDE DEF group
  <2> QED
    BY <1>2, <1>3 DEF IInv, TypeOK, Store, group
<1>5. /\ pc'[p] = "write" /\ pc' \in [Procs -> Steps]
      /\ UNCHANGED <<files, owner, acked>>
  BY DEF IInv, TypeOK, BeginAppend, Goto, Steps
<1>6. TypeOK'
  BY <1>4, <1>5 DEF IInv, TypeOK, files
<1>7. ManifestsAreWhole' /\ CommittedIsSynced'
  BY <1>5 DEF IInv, ManifestsAreWhole, CommittedIsSynced, files
<1>8. Continues(log[manifest.length], group)
  BY <1>1 DEF Continues, FramedBatch, Replayed
<1>9. Appending(p)'
  BY <1>3, <1>4, EntryTypes DEF Appending
<1>10. AppenderInv(p)'
  <2>1. mem[p].committed = manifest.length /\ group.batch = mem[p].nextBatch
    BY <1>1 DEF Replayed, FramedBatch
  <2> HIDE DEF group
  <2> QED
    BY <1>1, <1>4, <1>5, <1>8, <2>1 DEF AppenderInv, NotYetCommitted, At, files
<1> QED
  BY <1>1, <1>4, <1>5, <1>6, <1>7, <1>9, <1>10, OwnerGoesOn DEF BeginAppend, Steps

(***************************************************************************)
(* The three steps that write and sync the log after its committed part.   *)
(***************************************************************************)
LEMMA WriteKeepsIInv ==
    ASSUME IInv, NEW p \in Procs,
           BeginWrite(p) \/ FinishWrite(p) \/ SyncLog(p)
    PROVE  IInv'
<1>1. /\ owner = p /\ AppenderInv(p) /\ NotYetCommitted(p) /\ Appending(p)
      /\ mem[p].group \in Batch
      /\ manifest.length > 0 /\ manifest.length \in Nat
      /\ mem[p].committed = manifest.length
      /\ manifest.length <= Len(log)
      /\ log \in Seq(Entry)
      /\ pc[p] \in {"write", "writing", "synclog"}
  BY OwnerIsAlone
     DEF BeginWrite, FinishWrite, SyncLog, At, AppenderInv, OpenerInv, Appending,
         NotYetCommitted, IInv, TypeOK, Manifest, Store
<1>2. UNCHANGED <<linked, manifest, diskManifest, next, anchored, owner, mem, acked>>
  BY DEF BeginWrite, FinishWrite, SyncLog, Advance
<1>3. ManifestsAreWhole'
  BY <1>2 DEF IInv, ManifestsAreWhole
<1>4. Appending(p)'
  BY <1>1, <1>2 DEF Appending
<1>5. diskLog \in Seq(Entry) /\ CommittedIsSynced
  BY DEF IInv, TypeOK
<1>6. SUFFICES ASSUME NEW s \in Steps \ {"closed"}, Goto(p, s),
                      log' \in Seq(Entry), diskLog' \in Seq(Entry),
                      CommittedIsSynced', AppenderInv(p)'
               PROVE  IInv'
  <2>1. CASE BeginWrite(p)
    <3>1. /\ log' = WriteAt(log, manifest.length, TornEntry) /\ diskLog' = diskLog
          /\ Goto(p, "writing") /\ Len(log) = manifest.length
      BY <1>1, <2>1 DEF BeginWrite, Advance, At, AppenderInv
    <3>2. /\ log' \in Seq(Entry) /\ Len(log') = manifest.length + 1
          /\ \A i \in 1..manifest.length : log'[i] = log[i]
      <4>1. manifest.length \in 0..Len(log) /\ TornEntry \in Entry
        BY <1>1, EntryTypes
      <4>2. manifest.length = Len(log) /\ log \in Seq(Entry)
        BY <1>1, <3>1
      <4>3. /\ WriteAt(log, manifest.length, TornEntry) \in Seq(Entry)
            /\ Len(WriteAt(log, manifest.length, TornEntry)) = manifest.length + 1
            /\ \A i \in 1..manifest.length :
                  WriteAt(log, manifest.length, TornEntry)[i] = log[i]
        <5>1. \A n \in 0..Len(log) :
                 /\ WriteAt(log, n, TornEntry) \in Seq(Entry)
                 /\ n = Len(log) => Len(WriteAt(log, n, TornEntry)) = n + 1
                 /\ \A i \in 1..n : WriteAt(log, n, TornEntry)[i] = log[i]
          BY <4>1, <4>2, WriteAtKeepsPrefix
        <5> QED
          BY <5>1, <4>1, <4>2, Zenon
      <4> QED
        BY <3>1, <4>3
    <3>3. CommittedIsSynced'
      BY <1>1, <1>2, <1>5, <3>1, <3>2, PrefixStaysSynced
    <3>4. AppenderInv(p)'
      <4>1. pc'[p] = "writing"
        BY <3>1 DEF Goto, IInv, TypeOK
      <4> QED
        BY <1>1, <1>2, <3>2, <4>1 DEF AppenderInv, NotYetCommitted, At
    <3> QED
      BY <1>6, <3>1, <3>2, <3>3, <3>4 DEF IInv, TypeOK, Steps
  <2>2. CASE FinishWrite(p)
    <3>1. /\ log' = WriteAt(log, manifest.length, mem[p].group) /\ diskLog' = diskLog
          /\ Goto(p, "synclog") /\ Len(log) = manifest.length + 1
      BY <1>1, <2>2 DEF FinishWrite, Advance, At, AppenderInv
    <3>2. /\ log' \in Seq(Entry) /\ Len(log') = manifest.length + 1
          /\ log'[manifest.length + 1] = mem[p].group
          /\ \A i \in 1..manifest.length : log'[i] = log[i]
      <4>1. /\ manifest.length \in Nat /\ mem[p].group \in Entry
            /\ manifest.length < Len(log) /\ log \in Seq(Entry)
        BY <1>1, <3>1 DEF Entry
      <4>2. /\ WriteAt(log, manifest.length, mem[p].group) \in Seq(Entry)
            /\ Len(WriteAt(log, manifest.length, mem[p].group)) = Len(log)
            /\ WriteAt(log, manifest.length, mem[p].group)[manifest.length + 1]
                  = mem[p].group
            /\ \A i \in 1..manifest.length :
                  WriteAt(log, manifest.length, mem[p].group)[i] = log[i]
        BY <4>1, WriteAtInside, Zenon
      <4>3. /\ log' = WriteAt(log, manifest.length, mem[p].group)
            /\ Len(log) = manifest.length + 1
        BY <3>1
      <4> QED
        BY ONLY <4>2, <4>3
    <3>3. CommittedIsSynced'
      BY <1>1, <1>2, <1>5, <3>1, <3>2, PrefixStaysSynced
    <3>4. AppenderInv(p)'
      <4>1. pc'[p] = "synclog"
        BY <3>1 DEF Goto, IInv, TypeOK
      <4> QED
        BY <1>1, <1>2, <3>2, <4>1 DEF AppenderInv, NotYetCommitted, At
    <3> QED
      BY <1>6, <3>1, <3>2, <3>3, <3>4 DEF IInv, TypeOK, Steps
  <2>3. CASE SyncLog(p)
    <3>1. /\ log' = log /\ diskLog' = log /\ At(p, "synclog")
          /\ Goto(p, "stage")
      BY <2>3 DEF SyncLog, Advance
    <3>2. CommittedIsSynced'
      BY <1>1, <1>2, <3>1 DEF IInv, CommittedIsSynced, ScanAccepts
    <3>3. AppenderInv(p)'
      <4>1. pc'[p] = "stage"
        BY <3>1 DEF Goto, IInv, TypeOK
      <4> QED
        BY <1>1, <1>2, <3>1, <4>1 DEF AppenderInv, NotYetCommitted, At
    <3> QED
      BY <1>1, <1>6, <3>1, <3>2, <3>3 DEF Steps
  <2> QED
    BY <2>1, <2>2, <2>3
<1>7. TypeOK'
  BY <1>2, <1>6 DEF IInv, TypeOK, Goto
<1> QED
  BY <1>1, <1>2, <1>3, <1>4, <1>6, <1>7, OwnerGoesOn

LEMMA AcknowledgeKeepsIInv ==
    ASSUME IInv, NEW p \in Procs, Acknowledge(p) PROVE IInv'
<1>1. /\ owner = p /\ AppenderInv(p) /\ mem[p].group \in Batch
      /\ mem[p] \in Store
      /\ mem[p].group.batch = mem[p].nextBatch
      /\ manifest.length = mem[p].committed + 1 /\ manifest.length > 0
      /\ Len(log) = manifest.length
      /\ log[manifest.length] = mem[p].group
  BY OwnerIsAlone
     DEF Acknowledge, At, AppenderInv, OpenerInv, Appending, IInv, TypeOK, Store
<1>2. Committed(mem[p]) \in Store
  BY <1>1 DEF Committed, Store, Batch
<1>3. Committed(mem[p]) = Replayed(log, manifest.length)
  BY <1>1 DEF Committed, Replayed
<1>4. /\ mem' \in [Procs -> Store] /\ mem'[p] = Committed(mem[p])
      /\ \A q \in Procs : q # p => mem'[q] = mem[q]
  BY <1>2 DEF IInv, TypeOK, Acknowledge
<1>5. /\ pc'[p] = "idle" /\ pc' \in [Procs -> Steps]
      /\ UNCHANGED <<files, owner>>
      /\ acked' \subseteq Batch
  BY <1>1 DEF IInv, TypeOK, Acknowledge, Goto, Steps
<1>6. TypeOK'
  BY <1>4, <1>5 DEF IInv, TypeOK, files
<1>7. ManifestsAreWhole' /\ CommittedIsSynced'
  BY <1>5 DEF IInv, ManifestsAreWhole, CommittedIsSynced, files
<1>8. ~Appending(p)' /\ OpenerInv(p)'
  <2>1. mem'[p].group = NoBatch
    BY <1>4 DEF Committed
  <2>2. Replayed(log, manifest.length)' = Replayed(log, manifest.length)
    BY <1>5 DEF Replayed, files
  <2> QED
    BY <1>1, <1>3, <1>4, <1>5, <2>1, <2>2 DEF OpenerInv, At, Appending, files
<1> QED
  BY <1>1, <1>4, <1>5, <1>6, <1>7, <1>8, OwnerGoesOn DEF Acknowledge, Steps

LEMMA FlushKeepsIInv ==
    ASSUME IInv, NEW p \in Procs, Flush(p) PROVE IInv'
<1>1. /\ owner = p /\ OpenerInv(p) /\ mem[p].group = NoBatch
      /\ Len(log) = manifest.length
  BY OwnerIsAlone DEF Flush, At, AppenderInv, OpenerInv, Appending
<1>2. /\ diskLog' = log
      /\ UNCHANGED <<log, linked, manifest, diskManifest, next, anchored,
                     owner, pc, mem, acked>>
  BY DEF Flush
<1>3. TypeOK' /\ LockIsExclusive' /\ ManifestsAreWhole'
  BY <1>2 DEF IInv, TypeOK, LockIsExclusive, ManifestsAreWhole, At
<1>4. CommittedIsSynced'
  BY <1>1, <1>2 DEF IInv, TypeOK, CommittedIsSynced
<1>5. OpenerInv(p)' /\ ~Appending(p)'
  <2>1. Replayed(log, manifest.length)' = Replayed(log, manifest.length)
    BY <1>2 DEF Replayed
  <2> QED
    BY <1>1, <1>2, <2>1 DEF OpenerInv, At, Appending, Flush
<1>6. OwnerInv'
  BY <1>1, <1>2, <1>5 DEF OwnerInv
<1> QED
  BY <1>3, <1>4, <1>6 DEF IInv

-----------------------------------------------------------------------------
(***************************************************************************)
(* Failures.                                                               *)
(***************************************************************************)
LEMMA IOErrorKeepsIInv ==
    ASSUME IInv, NEW p \in Procs, IOError(p) PROVE IInv'
<1>1. owner = p
  BY OwnerIsAlone DEF IOError, At
<1>2. UNCHANGED files
  BY DEF IOError
<1>3. ManifestsAreWhole' /\ CommittedIsSynced'
  BY <1>2 DEF IInv, ManifestsAreWhole, CommittedIsSynced, files
<1>4. CASE FailOpen(p)
  BY <1>1, <1>2, <1>3, <1>4, OwnerLeaves DEF FailOpen, files, IInv, TypeOK
<1>5. CASE FailAppend(p)
  <2>1. /\ mem' \in [Procs -> Store]
        /\ mem'[p].group = NoBatch /\ mem'[p].poisoned = TRUE
        /\ \A q \in Procs : q # p => mem'[q] = mem[q]
    BY <1>5 DEF FailAppend, IInv, TypeOK, Store
  <2>2. /\ pc'[p] = "idle" /\ pc' \in [Procs -> Steps]
        /\ UNCHANGED <<owner, acked>>
    BY <1>5 DEF FailAppend, IInv, TypeOK, Goto, Steps
  <2>3. TypeOK'
    BY <1>2, <2>1, <2>2 DEF IInv, TypeOK, files
  <2>4. ~Appending(p)' /\ OpenerInv(p)'
    BY <2>1, <2>2 DEF Appending, OpenerInv, At
  <2> QED
    BY <1>1, <1>3, <1>5, <2>1, <2>2, <2>3, <2>4, OwnerGoesOn DEF FailAppend, Steps
<1> QED
  BY <1>4, <1>5 DEF IOError, Fail

LEMMA ProcessExitKeepsIInv ==
    ASSUME IInv, NEW p \in Procs, ProcessExit(p) PROVE IInv'
<1>1. owner = p
  BY OwnerIsAlone DEF ProcessExit
<1>2. UNCHANGED files
  BY DEF ProcessExit
<1>3. CommittedIsSynced'
  BY <1>2 DEF IInv, CommittedIsSynced, files
<1> QED
  BY <1>1, <1>2, <1>3, OwnerLeaves DEF ProcessExit, files, IInv, TypeOK

(***************************************************************************)
(* Whatever manifest survives, the batches it names were synced before it  *)
(* was written.                                                            *)
(***************************************************************************)
LEMMA PowerLossKeepsIInv ==
    ASSUME IInv, PowerLoss PROVE IInv'
<1>1. /\ owner' = NoOwner /\ acked' = acked
      /\ pc' \in [Procs -> Steps] /\ mem' \in [Procs -> Store]
      /\ \A p \in Procs : pc'[p] = "closed" /\ mem'[p] = ClosedStore
  BY EntryTypes DEF PowerLoss, Stopped, Steps
<1>2. diskLog' = log' /\ diskManifest' = manifest' /\ next' = NoManifest
  BY DEF PowerLoss
<1>3. /\ log' \in Seq(Entry) /\ linked' \in BOOLEAN /\ anchored' \in BOOLEAN
      /\ manifest' \in Manifest /\ manifest'.valid /\ manifest'.flushed
      /\ manifest'.length > 0 => ScanAccepts(log', manifest'.length)
  <2>1. CASE Vanishes
    <3>1. /\ log' = <<>> /\ linked' = FALSE /\ anchored' = FALSE
          /\ manifest' = NoManifest
      BY <2>1 DEF Vanishes
    <3>2. NoManifest.valid /\ NoManifest.flushed /\ ~(NoManifest.length > 0)
      BY DEF NoManifest
    <3> QED
      BY <3>1, <3>2, EntryTypes, EmptySeq
  <2>2. CASE Survives
    <3>1. /\ Settled(manifest) \in Manifest
          /\ Settled(manifest).length = manifest.length
          /\ Settled(manifest).valid /\ Settled(manifest).flushed
      BY DEF IInv, TypeOK, ManifestsAreWhole, Settled, Manifest
    <3>2. manifest' \in {diskManifest, Settled(manifest)}
      BY <2>2 DEF Survives, ManifestOutcomes, IInv, ManifestsAreWhole
    <3>3. /\ manifest' \in Manifest /\ manifest'.valid /\ manifest'.flushed
          /\ manifest'.length <= manifest.length
          /\ manifest'.length \in Nat /\ manifest.length \in Nat
      BY <3>1, <3>2 DEF IInv, TypeOK, ManifestsAreWhole, Manifest
    <3>4. CASE log' = <<>> /\ manifest'.length = 0
      BY <2>2, <3>3, <3>4, EmptySeq DEF Survives, IInv, TypeOK
    <3>5. CASE log' \in Images(diskLog, log)
      <4>1. log \in Seq(Entry) /\ diskLog \in Seq(Entry)
        BY DEF IInv, TypeOK
      <4>2. log' \in Seq(Entry)
        BY <3>5, <4>1, ImageKeepsSynced
      <4>3. ASSUME manifest'.length > 0 PROVE ScanAccepts(log', manifest'.length)
        <5>1. /\ ScanAccepts(log, manifest.length)
              /\ manifest.length <= Len(diskLog) /\ manifest.length <= Len(log)
              /\ \A i \in 1..manifest.length : diskLog[i] = log[i]
          BY <3>3, <4>3 DEF IInv, CommittedIsSynced, ScanAccepts
        <5>2. /\ manifest.length <= Len(log')
              /\ \A i \in 1..manifest.length : log'[i] = log[i]
          BY <3>3, <3>5, <4>1, <5>1, ImageKeepsSynced
        <5> QED
          BY <3>3, <4>1, <4>2, <4>3, <5>1, <5>2, SMTT(30) DEF ScanAccepts
      <4> QED
        BY <2>2, <3>3, <4>2, <4>3 DEF Survives, IInv, TypeOK
    <3> QED
      BY <2>2, <3>4, <3>5 DEF Survives
  <2> QED
    BY <2>1, <2>2 DEF PowerLoss
<1>4. TypeOK'
  BY <1>1, <1>2, <1>3, EntryTypes DEF IInv, TypeOK
<1>5. LockIsExclusive'
  BY <1>1 DEF LockIsExclusive, At
<1>6. ManifestsAreWhole'
  BY <1>2, <1>3 DEF ManifestsAreWhole, NoManifest, Manifest
<1>7. CommittedIsSynced'
  BY <1>2, <1>3 DEF CommittedIsSynced, ScanAccepts
<1>8. OwnerInv'
  BY <1>1 DEF OwnerInv
<1> QED
  BY <1>4, <1>5, <1>6, <1>7, <1>8 DEF IInv

-----------------------------------------------------------------------------
LEMMA StepKeepsIInv == IInv /\ [Next]_vars => IInv'
<1> SUFFICES ASSUME IInv, [Next]_vars PROVE IInv'
  OBVIOUS
<1>1. ASSUME NEW p \in Procs, OpenStep(p) PROVE IInv'
  BY <1>1, LockKeepsIInv, FindManifestKeepsIInv, CreateLogKeepsIInv,
     SyncParentKeepsIInv, CheckLengthKeepsIInv, SyncTruncationKeepsIInv,
     ReplayKeepsIInv, RefuseKeepsIInv
     DEF OpenStep
<1>2. ASSUME NEW p \in Procs, ManifestStep(p) PROVE IInv'
  BY <1>2, StageManifestKeepsIInv, RenameManifestKeepsIInv, SyncDirectoryKeepsIInv
     DEF ManifestStep
<1>3. ASSUME NEW p \in Procs, AppendStep(p) PROVE IInv'
  BY <1>3, BeginAppendKeepsIInv, WriteKeepsIInv, AcknowledgeKeepsIInv, FlushKeepsIInv
     DEF AppendStep
<1>4. CASE PowerLoss
  BY <1>4, PowerLossKeepsIInv
<1>5. CASE UNCHANGED vars
  BY <1>5 DEF vars, files, IInv, TypeOK, LockIsExclusive, ManifestsAreWhole,
              CommittedIsSynced, OwnerInv, OpenerInv, AppenderInv,
              NotYetCommitted, Appending, At, Replayed
<1> QED
  BY <1>1, <1>2, <1>3, <1>4, <1>5, IOErrorKeepsIInv, ProcessExitKeepsIInv DEF Next

(***************************************************************************)
(* Every state of every behavior satisfies the inductive invariant.        *)
(***************************************************************************)
THEOREM InductiveInvariant == Spec => []IInv
  BY InitEstablishesIInv, StepKeepsIInv, PTL DEF Spec

(***************************************************************************)
(* Type correctness of the store and of each process's view of it.         *)
(***************************************************************************)
THEOREM TypeCorrect == Spec => []TypeOK
<1>1. IInv => TypeOK
  BY DEF IInv
<1> QED
  BY <1>1, InductiveInvariant, PTL

(***************************************************************************)
(* A store that has a manifest can be opened, whatever failed before.      *)
(***************************************************************************)
THEOREM AlwaysRecoverable == Spec => []Recoverable
<1>1. IInv => Recoverable
  BY DEF IInv, Recoverable, ManifestsAreWhole, CommittedIsSynced
<1> QED
  BY <1>1, InductiveInvariant, PTL

(***************************************************************************)
(* The writer that may append agrees with the manifest.                    *)
(***************************************************************************)
THEOREM WriterAlwaysCurrent == Spec => []WriterIsCurrent
<1>1. IInv => WriterIsCurrent
  BY OwnerIsAlone DEF WriterIsCurrent, At, AppenderInv, OpenerInv
<1> QED
  BY <1>1, InductiveInvariant, PTL

-----------------------------------------------------------------------------
(***************************************************************************)
(* What a manifest names depends only on the part of the log it covers.    *)
(***************************************************************************)
LEMMA BatchesAgree ==
    ASSUME NEW f \in Seq(Entry), NEW g \in Seq(Entry), NEW n \in Nat,
           n <= Len(f), n <= Len(g),
           \A i \in 1..n : f[i] = g[i]
    PROVE  Batches(f, n) = Batches(g, n)
<1>1. CASE n = 0
  BY <1>1 DEF Batches
<1>2. CASE n > 0
  <2> DEFINE s == SubSeq(f, 2, n)
             t == SubSeq(g, 2, n)
  <2>1. /\ s \in Seq(Entry) /\ Len(s) = n - 1
        /\ \A i \in 1..(n - 1) : s[i] = f[i + 1]
    BY <1>2
  <2>2. /\ t \in Seq(Entry) /\ Len(t) = n - 1
        /\ \A i \in 1..(n - 1) : t[i] = g[i + 1]
    BY <1>2
  <2>3. \A i \in 1..(n - 1) : f[i + 1] = g[i + 1]
    BY <1>2
  <2> HIDE DEF s, t
  <2>4. \A i \in 1..(n - 1) : s[i] = t[i]
    BY <2>1, <2>2, <2>3
  <2>5. s = t
    BY <2>1, <2>2, <2>4, SeqEqual
  <2> QED
    BY <1>2, <2>5 DEF Batches, s, t
<1> QED
  BY <1>1, <1>2

LEMMA BatchesGrow ==
    ASSUME NEW f \in Seq(Entry), NEW n \in Nat \ {0}, n + 1 <= Len(f)
    PROVE  Batches(f, n + 1) = Append(Batches(f, n), f[n + 1])
<1> DEFINE s == SubSeq(f, 2, n + 1)
           t == Append(SubSeq(f, 2, n), f[n + 1])
<1>1. /\ s \in Seq(Entry) /\ Len(s) = n
      /\ \A i \in 1..n : s[i] = f[i + 1]
  OBVIOUS
<1>2. /\ SubSeq(f, 2, n) \in Seq(Entry) /\ Len(SubSeq(f, 2, n)) = n - 1
      /\ \A i \in 1..(n - 1) : SubSeq(f, 2, n)[i] = f[i + 1]
  OBVIOUS
<1>3. f[n + 1] \in Entry
  BY ElementOfSeq
<1>4. /\ t \in Seq(Entry) /\ Len(t) = n /\ t[n] = f[n + 1]
      /\ \A i \in 1..(n - 1) : t[i] = f[i + 1]
  BY <1>2, <1>3, AppendProperties
<1> HIDE DEF s, t
<1>5. ASSUME NEW i \in 1..n PROVE s[i] = t[i]
  <2>1. i = n \/ i \in 1..(n - 1)
    OBVIOUS
  <2>2. s[i] = f[i + 1]
    BY <1>1
  <2>3. CASE i = n
    BY <2>2, <2>3, <1>4
  <2>4. CASE i \in 1..(n - 1)
    BY <2>2, <2>4, <1>4
  <2> QED
    BY <2>1, <2>3, <2>4
<1>6. s = t
  BY <1>1, <1>4, <1>5, SeqEqual
<1> QED
  BY <1>6 DEF Batches, s, t

(***************************************************************************)
(* Both copies of the log cover every batch a manifest names.              *)
(***************************************************************************)
LEMMA Covered ==
    ASSUME IInv
    PROVE  /\ log \in Seq(Entry) /\ diskLog \in Seq(Entry)
           /\ manifest.length \in Nat /\ diskManifest.length \in Nat
           /\ diskManifest.length <= manifest.length
           /\ manifest.length <= Len(log) /\ manifest.length <= Len(diskLog)
           /\ \A i \in 1..manifest.length : diskLog[i] = log[i]
<1>1. /\ log \in Seq(Entry) /\ diskLog \in Seq(Entry)
      /\ manifest.length \in Nat /\ diskManifest.length \in Nat
      /\ diskManifest.length <= manifest.length
  BY DEF IInv, TypeOK, Manifest, ManifestsAreWhole
<1>2. CASE manifest.length = 0
  BY <1>1, <1>2
<1>3. CASE manifest.length > 0
  BY <1>1, <1>3 DEF IInv, CommittedIsSynced, ScanAccepts
<1> QED
  BY <1>1, <1>2, <1>3

(***************************************************************************)
(* A step that keeps the manifests and the committed part of both copies   *)
(* of the log does not show.                                               *)
(***************************************************************************)
LEMMA HiddenStep ==
    ASSUME IInv, IInv',
           UNCHANGED <<manifest, diskManifest>>,
           \A i \in 1..manifest.length : log'[i] = log[i]
    PROVE  UNCHANGED <<Durable, Visible>>
<1>1. /\ log \in Seq(Entry) /\ diskLog \in Seq(Entry)
      /\ manifest.length \in Nat /\ diskManifest.length \in Nat
      /\ diskManifest.length <= manifest.length
      /\ manifest.length <= Len(log) /\ manifest.length <= Len(diskLog)
      /\ \A i \in 1..manifest.length : diskLog[i] = log[i]
  BY Covered
<1>2. /\ log' \in Seq(Entry) /\ diskLog' \in Seq(Entry)
      /\ manifest.length <= Len(log') /\ manifest.length <= Len(diskLog')
      /\ \A i \in 1..manifest.length : diskLog'[i] = log'[i]
  <2>1. (/\ log \in Seq(Entry) /\ diskLog \in Seq(Entry)
         /\ manifest.length <= Len(log) /\ manifest.length <= Len(diskLog)
         /\ \A i \in 1..manifest.length : diskLog[i] = log[i])'
    BY Covered, PTL
  <2> QED
    BY <2>1
<1>3. Visible' = Batches(log', manifest.length)
  BY DEF Visible, Batches
<1>4. Durable' = Batches(diskLog', diskManifest.length)
  BY DEF Durable, Batches
<1>5. Batches(log', manifest.length) = Batches(log, manifest.length)
  BY <1>1, <1>2, BatchesAgree
<1>6. Batches(diskLog', diskManifest.length) = Batches(diskLog, diskManifest.length)
  <2>1. \A i \in 1..diskManifest.length : diskLog'[i] = diskLog[i]
    BY <1>1, <1>2
  <2>2. diskManifest.length <= Len(diskLog) /\ diskManifest.length <= Len(diskLog')
    BY <1>1, <1>2
  <2> QED
    BY <1>1, <1>2, <2>1, <2>2, BatchesAgree
<1> QED
  BY <1>3, <1>4, <1>5, <1>6 DEF Visible, Durable

-----------------------------------------------------------------------------
(***************************************************************************)
(* How each step maps to a step of DurableLog.                             *)
(***************************************************************************)
LEMMA QuietStep ==
    ASSUME IInv, IInv', NEW p \in Procs,
           \/ Lock(p) \/ FindManifest(p) \/ SyncParent(p) \/ Replay(p)
           \/ Refuse(p) \/ StageManifest(p) \/ SyncTruncation(p)
           \/ BeginAppend(p) \/ SyncLog(p) \/ Flush(p)
           \/ IOError(p) \/ ProcessExit(p)
    PROVE  UNCHANGED DL!dlVars
<1>1. UNCHANGED <<log, manifest, diskManifest, acked>>
  BY DEF Lock, FindManifest, SyncParent, Replay, Refuse, StageManifest, Stage,
         SyncTruncation, BeginAppend, SyncLog, Flush, IOError, ProcessExit,
         files, Advance, Leave, Fail, FailOpen, FailAppend
<1>2. UNCHANGED <<Durable, Visible>>
  BY <1>1, HiddenStep
<1> QED
  BY <1>1, <1>2 DEF DL!dlVars

LEMMA LogStep ==
    ASSUME IInv, IInv', NEW p \in Procs,
           CreateLog(p) \/ CheckLength(p) \/ BeginWrite(p) \/ FinishWrite(p)
    PROVE  UNCHANGED DL!dlVars
<1>1. UNCHANGED <<manifest, diskManifest, acked>>
  BY DEF CreateLog, CheckLength, BeginWrite, FinishWrite, Advance, Leave
<1>2. \A i \in 1..manifest.length : log'[i] = log[i]
  <2>1. CASE CreateLog(p)
    BY <2>1 DEF CreateLog
  <2>2. CASE CheckLength(p)
    <3>1. /\ mem[p].committed = manifest.length /\ manifest.length \in Nat
          /\ manifest.length <= Len(log) /\ log \in Seq(Entry)
      BY <2>2, Covered, OwnerIsAlone
         DEF CheckLength, At, OpenerInv, AppenderInv
    <3>2. log' = log \/ log' = SubSeq(log, 1, manifest.length)
      BY <2>2, <3>1 DEF CheckLength
    <3> QED
      BY <3>1, <3>2
  <2>3. CASE BeginWrite(p) \/ FinishWrite(p)
    <3>1. /\ mem[p].committed = manifest.length /\ manifest.length \in 0..Len(log)
          /\ log \in Seq(Entry) /\ mem[p].group \in Entry
      <4>1. NotYetCommitted(p) /\ Appending(p)
        BY <2>3, OwnerIsAlone
           DEF BeginWrite, FinishWrite, At, OpenerInv, AppenderInv
      <4> QED
        BY <4>1, Covered DEF NotYetCommitted, Appending, IInv, TypeOK, Store, Entry
    <3>2. PICK e \in Entry : log' = WriteAt(log, manifest.length, e)
      BY <2>3, <3>1, EntryTypes DEF BeginWrite, FinishWrite
    <3>3. \A i \in 1..manifest.length : WriteAt(log, manifest.length, e)[i] = log[i]
      BY <3>1, <3>2, WriteAtKeepsPrefix
    <3> QED
      BY <3>2, <3>3
  <2> QED
    BY <2>1, <2>2, <2>3
<1>3. UNCHANGED <<Durable, Visible>>
  BY <1>1, <1>2, HiddenStep
<1> QED
  BY <1>1, <1>3 DEF DL!dlVars

(***************************************************************************)
(* The rename of the manifest makes the batch visible; at creation there   *)
(* is no batch yet.                                                        *)
(***************************************************************************)
LEMMA RenameStep ==
    ASSUME IInv, NEW p \in Procs, RenameManifest(p)
    PROVE  [DL!DLNext]_(DL!dlVars)
<1>1. /\ UNCHANGED <<log, diskLog, diskManifest, acked>> /\ manifest' = next
      /\ At(p, "rename")
      /\ IF Appending(p) THEN AppenderInv(p) ELSE OpenerInv(p)
  BY OwnerIsAlone DEF RenameManifest, Advance, At
<1>2. Durable' = Durable
  BY <1>1 DEF Durable, Batches
<1>3. CASE Appending(p)
  <2>1. /\ manifest.length \in Nat \ {0} /\ log \in Seq(Entry)
        /\ next.length = manifest.length + 1
        /\ manifest.length + 1 <= Len(log)
        /\ log[manifest.length + 1] = mem[p].group
        /\ mem[p].group \in Batch
    BY <1>1, <1>3, Covered
       DEF AppenderInv, NotYetCommitted, At, Appending, IInv, TypeOK, Store
  <2>2. Visible' = Append(Visible, mem[p].group)
    <3>1. Visible' = Batches(log, manifest.length + 1)
      BY <1>1, <2>1 DEF Visible, Batches
    <3> QED
      BY <2>1, <3>1, BatchesGrow DEF Visible
  <2>3. DL!Publish(mem[p].group)
    BY <1>1, <1>2, <2>2 DEF DL!Publish
  <2>4. mem[p].group \in Range(Visible')
    <3>1. Batches(log, manifest.length) \in Seq(Entry)
      BY <2>1 DEF Batches
    <3>2. mem[p].group \in Entry
      BY <2>1 DEF Entry
    <3>3. /\ Len(Visible') \in DOMAIN Visible'
          /\ Visible'[Len(Visible')] = mem[p].group
      BY <2>2, <3>1, <3>2, AppendProperties DEF Visible
    <3> QED
      BY <3>3 DEF Range
  <2> QED
    BY <2>1, <2>3, <2>4 DEF DL!DLNext, DL!Range, Range
<1>4. CASE ~Appending(p)
  <2>1. manifest.length = 0 /\ next.length = 1 /\ log = <<Header>>
    BY <1>1, <1>4 DEF OpenerInv, At
  <2>2. Visible = <<>> /\ Visible' = <<>>
    BY <1>1, <2>1 DEF Visible, Batches
  <2> QED
    BY <1>1, <1>2, <2>2 DEF DL!dlVars
<1> QED
  BY <1>3, <1>4

LEMMA SyncDirectoryStep ==
    ASSUME IInv, NEW p \in Procs, SyncDirectory(p)
    PROVE  DL!Persist
<1>1. /\ UNCHANGED <<log, diskLog, manifest, acked>>
      /\ diskManifest' = manifest
  BY DEF SyncDirectory, Advance
<1>2. Visible' = Visible
  BY <1>1 DEF Visible, Batches
<1>3. Durable' = Batches(diskLog, manifest.length)
  BY <1>1 DEF Durable, Batches
<1>4. Batches(diskLog, manifest.length) = Batches(log, manifest.length)
  BY Covered, BatchesAgree
<1> QED
  BY <1>1, <1>2, <1>3, <1>4 DEF DL!Persist, Visible

LEMMA AcknowledgeStep ==
    ASSUME IInv, NEW p \in Procs, Acknowledge(p)
    PROVE  DL!DLNext
<1>1. /\ UNCHANGED files /\ acked' = acked \cup {mem[p].group}
      /\ diskManifest = manifest /\ manifest.length = mem[p].committed + 1
      /\ diskLog = log /\ log[manifest.length] = mem[p].group
      /\ Len(log) = manifest.length /\ log \in Seq(Entry)
      /\ mem[p].group \in Batch
      /\ manifest.length \in Nat /\ mem[p].committed \in Nat
  BY OwnerIsAlone, Covered
     DEF Acknowledge, At, AppenderInv, OpenerInv, Appending, IInv, TypeOK, Store
<1>2. UNCHANGED <<Durable, Visible>>
  BY <1>1 DEF Durable, Visible, Batches, files
<1>3. manifest.length > 1
  <2>1. log[1] = Header
    BY <1>1 DEF IInv, CommittedIsSynced, ScanAccepts
  <2>2. manifest.length # 1
    BY <1>1, <2>1, EntryTypes
  <2> QED
    BY <1>1, <2>2
<1>4. mem[p].group \in Range(Durable)
  <2>1. Durable = SubSeq(log, 2, manifest.length)
    BY <1>1, <1>3 DEF Durable, Batches
  <2>2. /\ manifest.length - 1 \in DOMAIN Durable
        /\ Durable[manifest.length - 1] = log[manifest.length]
    BY <1>1, <1>3, <2>1
  <2> QED
    BY <1>1, <2>2 DEF Range
<1>5. DL!Acknowledge(mem[p].group)
  BY <1>1, <1>2 DEF DL!Acknowledge
<1> QED
  BY <1>4, <1>5 DEF DL!DLNext, DL!Range, Range

(***************************************************************************)
(* A power failure leaves the directory as it was last synced, which takes *)
(* back what was only visible, or as it is, which makes it durable.        *)
(***************************************************************************)
LEMMA PowerLossStep ==
    ASSUME IInv, PowerLoss, anchored
    PROVE  DL!Revert \/ DL!Persist
<1>1. /\ acked' = acked /\ diskLog' = log' /\ diskManifest' = manifest'
      /\ Survives
  BY DEF PowerLoss, Stopped, Vanishes
<1>2. Durable' = Visible'
  BY <1>1 DEF Durable, Visible, Batches
<1>3. Settled(manifest).length = manifest.length
  BY DEF IInv, TypeOK, Manifest, Settled
<1>4. manifest'.length \in {diskManifest.length, manifest.length}
  BY <1>1, <1>3 DEF Survives, ManifestOutcomes, IInv, ManifestsAreWhole
<1>5. Visible' = Batches(log, manifest'.length)
  <2>1. CASE manifest'.length = 0
    BY <2>1 DEF Visible, Batches
  <2>2. CASE manifest'.length # 0
    <3>1. log' \in Images(diskLog, log)
      BY <1>1, <2>2 DEF Survives
    <3>2. /\ log \in Seq(Entry) /\ diskLog \in Seq(Entry)
          /\ manifest.length \in Nat /\ manifest'.length \in Nat
          /\ manifest'.length <= manifest.length
          /\ manifest.length <= Len(log) /\ manifest.length <= Len(diskLog)
          /\ \A i \in 1..manifest.length : diskLog[i] = log[i]
      BY <1>4, Covered
    <3>3. /\ log' \in Seq(Entry) /\ manifest.length <= Len(log')
          /\ \A i \in 1..manifest.length : log'[i] = log[i]
      BY <3>1, <3>2, ImageKeepsSynced
    <3>4. /\ manifest'.length <= Len(log) /\ manifest'.length <= Len(log')
          /\ \A i \in 1..manifest'.length : log'[i] = log[i]
      BY <3>2, <3>3
    <3>5. Batches(log', manifest'.length) = Batches(log, manifest'.length)
      BY <3>2, <3>3, <3>4, BatchesAgree
    <3> QED
      BY <3>5 DEF Visible, Batches
  <2> QED
    BY <2>1, <2>2
<1>6. CASE manifest'.length = manifest.length
  <2>1. Visible' = Visible
    BY <1>5, <1>6 DEF Visible
  <2> QED
    BY <1>1, <1>2, <2>1 DEF DL!Persist
<1>7. CASE manifest'.length = diskManifest.length
  <2>1. Batches(log, diskManifest.length) = Batches(diskLog, diskManifest.length)
    <3>1. /\ log \in Seq(Entry) /\ diskLog \in Seq(Entry)
          /\ diskManifest.length \in Nat
          /\ diskManifest.length <= Len(log) /\ diskManifest.length <= Len(diskLog)
          /\ \A i \in 1..diskManifest.length : log[i] = diskLog[i]
      BY Covered
    <3> QED
      BY <3>1, BatchesAgree
  <2>2. Visible' = Durable
    BY <1>5, <1>7, <2>1 DEF Durable
  <2> QED
    BY <1>1, <1>2, <2>2 DEF DL!Revert
<1> QED
  BY <1>4, <1>6, <1>7

-----------------------------------------------------------------------------
(***************************************************************************)
(* A directory whose entry is on the medium stays there.                   *)
(***************************************************************************)
LEMMA StaysAnchored == anchored /\ [Next]_vars => anchored'
<1> SUFFICES ASSUME anchored, [Next]_vars PROVE anchored'
  OBVIOUS
<1>1. ASSUME NEW p \in Procs, OpenStep(p) PROVE anchored'
  BY <1>1 DEF OpenStep, Lock, FindManifest, CreateLog, SyncParent, CheckLength,
              SyncTruncation, Replay, Refuse, files
<1>2. ASSUME NEW p \in Procs, ManifestStep(p) PROVE anchored'
  BY <1>2 DEF ManifestStep, StageManifest, Stage, RenameManifest, SyncDirectory
<1>3. ASSUME NEW p \in Procs, AppendStep(p) PROVE anchored'
  BY <1>3 DEF AppendStep, BeginAppend, BeginWrite, FinishWrite, SyncLog,
              Acknowledge, Flush, files
<1>4. ASSUME NEW p \in Procs, IOError(p) \/ ProcessExit(p) PROVE anchored'
  BY <1>4 DEF IOError, ProcessExit, files
<1>5. CASE PowerLoss
  BY <1>5 DEF PowerLoss, Survives, Vanishes
<1>6. CASE UNCHANGED vars
  BY <1>6 DEF vars, files
<1> QED
  BY <1>1, <1>2, <1>3, <1>4, <1>5, <1>6 DEF Next

LEMMA StepRefines ==
    ASSUME IInv, IInv', anchored, [Next]_vars
    PROVE  [DL!DLNext]_(DL!dlVars)
<1>1. ASSUME NEW p \in Procs, OpenStep(p) PROVE UNCHANGED DL!dlVars
  BY <1>1, QuietStep, LogStep DEF OpenStep
<1>2. ASSUME NEW p \in Procs, ManifestStep(p) PROVE [DL!DLNext]_(DL!dlVars)
  BY <1>2, QuietStep, RenameStep, SyncDirectoryStep DEF ManifestStep, DL!DLNext
<1>3. ASSUME NEW p \in Procs, AppendStep(p) PROVE [DL!DLNext]_(DL!dlVars)
  BY <1>3, QuietStep, LogStep, AcknowledgeStep DEF AppendStep
<1>4. ASSUME NEW p \in Procs, IOError(p) \/ ProcessExit(p)
      PROVE  UNCHANGED DL!dlVars
  BY <1>4, QuietStep
<1>5. CASE PowerLoss
  BY <1>5, PowerLossStep DEF DL!DLNext
<1>6. CASE UNCHANGED vars
  BY <1>6 DEF vars, files, DL!dlVars, Durable, Visible, Batches
<1> QED
  BY <1>1, <1>2, <1>3, <1>4, <1>5, <1>6 DEF Next

(***************************************************************************)
(* Every behavior of the store, crashes included, is one of DurableLog.    *)
(***************************************************************************)
THEOREM Refinement ==
    ASSUME DirectoryPreexists PROVE Spec => ImplementsDurableLog
<1>1. Init => anchored /\ DL!DLInit
  BY DEF Init, DL!DLInit, Durable, Visible, Batches, NoManifest
<1>2. IInv /\ IInv' /\ anchored /\ [Next]_vars => [DL!DLNext]_(DL!dlVars)
  BY StepRefines
<1> QED
  BY <1>1, <1>2, StaysAnchored, InductiveInvariant, PTL
     DEF Spec, ImplementsDurableLog, DL!DLSpec

-----------------------------------------------------------------------------
(***************************************************************************)
(* The promise of DurableLog follows from its steps alone, whatever the    *)
(* store does between them.                                                *)
(***************************************************************************)
LEMMA PrefixPointwise ==
    ASSUME NEW S, NEW s \in Seq(S), NEW t \in Seq(S)
    PROVE  DL!IsPrefix(s, t) <=> /\ Len(s) <= Len(t)
                                 /\ \A i \in 1..Len(s) : s[i] = t[i]
<1>1. ASSUME DL!IsPrefix(s, t)
      PROVE  Len(s) <= Len(t) /\ \A i \in 1..Len(s) : s[i] = t[i]
  BY <1>1 DEF DL!IsPrefix
<1>2. ASSUME Len(s) <= Len(t), \A i \in 1..Len(s) : s[i] = t[i]
      PROVE  DL!IsPrefix(s, t)
  BY <1>2 DEF DL!IsPrefix
<1> QED
  BY <1>1, <1>2

PromiseInv == DL!DLTypeOK /\ DL!DurablePromise

LEMMA PromiseParts ==
    /\ PromiseInv <=> /\ Durable \in Seq(Batch) /\ Visible \in Seq(Batch)
                      /\ acked \subseteq Batch /\ acked \subseteq DL!Range(Durable)
                      /\ DL!IsPrefix(Durable, Visible)
    /\ PromiseInv' <=> /\ Durable' \in Seq(Batch) /\ Visible' \in Seq(Batch)
                       /\ acked' \subseteq Batch /\ acked' \subseteq DL!Range(Durable')
                       /\ DL!IsPrefix(Durable', Visible')
BY DEF PromiseInv, DL!DLTypeOK, DL!DurablePromise

LEMMA NothingPromised == DL!DLInit => PromiseInv
<1> SUFFICES ASSUME DL!DLInit PROVE PromiseInv
  OBVIOUS
<1>1. Durable = <<>> /\ Visible = <<>> /\ acked = {}
  BY DEF DL!DLInit
<1>2. <<>> \in Seq(Batch) /\ Len(<<>>) = 0
  OBVIOUS
<1>3. DL!IsPrefix(<<>>, <<>>)
  BY <1>2 DEF DL!IsPrefix
<1> QED
  BY <1>1, <1>2, <1>3, PromiseParts

LEMMA PublishKeeps ==
    ASSUME PromiseInv, NEW b \in Batch, DL!Publish(b) PROVE PromiseInv'
<1>1. /\ Durable \in Seq(Batch) /\ Visible \in Seq(Batch)
      /\ acked \subseteq Batch /\ acked \subseteq DL!Range(Durable)
      /\ DL!IsPrefix(Durable, Visible)
  BY PromiseParts
<1>2. Visible' = Append(Visible, b) /\ Durable' = Durable /\ acked' = acked
  BY DEF DL!Publish
<1>3. /\ Visible' \in Seq(Batch) /\ Len(Visible') = Len(Visible) + 1
      /\ \A i \in 1..Len(Visible) : Visible'[i] = Visible[i]
  BY <1>1, <1>2
<1>4. Len(Durable) <= Len(Visible) /\ \A i \in 1..Len(Durable) : Durable[i] = Visible[i]
  BY <1>1, PrefixPointwise
<1>5. Len(Durable) <= Len(Visible') /\ \A i \in 1..Len(Durable) : Durable[i] = Visible'[i]
  BY <1>1, <1>3, <1>4
<1>6. DL!IsPrefix(Durable, Visible')
  BY <1>1, <1>3, <1>5, PrefixPointwise
<1> QED
  BY <1>1, <1>2, <1>3, <1>6, PromiseParts

LEMMA AcknowledgeKeeps ==
    ASSUME PromiseInv, NEW b \in DL!Range(Durable), DL!Acknowledge(b) PROVE PromiseInv'
<1>1. /\ Durable \in Seq(Batch) /\ Visible \in Seq(Batch)
      /\ acked \subseteq Batch /\ acked \subseteq DL!Range(Durable)
      /\ DL!IsPrefix(Durable, Visible)
  BY PromiseParts
<1>2. b \in Batch
  BY <1>1 DEF DL!Range
<1>3. Visible' = Visible /\ Durable' = Durable /\ acked' = acked \cup {b}
  BY DEF DL!Acknowledge
<1> QED
  BY <1>1, <1>2, <1>3, PromiseParts

LEMMA PersistKeeps ==
    ASSUME PromiseInv, DL!Persist PROVE PromiseInv'
<1>1. /\ Durable \in Seq(Batch) /\ Visible \in Seq(Batch)
      /\ acked \subseteq Batch /\ acked \subseteq DL!Range(Durable)
      /\ DL!IsPrefix(Durable, Visible)
  BY PromiseParts
<1>2. Durable' = Visible /\ Visible' = Visible /\ acked' = acked
  BY DEF DL!Persist
<1>3. DL!IsPrefix(Visible, Visible)
  BY <1>1, PrefixPointwise
<1>4. DL!Range(Durable) \subseteq DL!Range(Visible)
  BY <1>1, PrefixPointwise DEF DL!Range
<1> QED
  BY <1>1, <1>2, <1>3, <1>4, PromiseParts

LEMMA RevertKeeps ==
    ASSUME PromiseInv, DL!Revert PROVE PromiseInv'
<1>1. /\ Durable \in Seq(Batch) /\ acked \subseteq Batch /\ acked \subseteq DL!Range(Durable)
  BY PromiseParts
<1>2. Durable' = Durable /\ Visible' = Durable /\ acked' = acked
  BY DEF DL!Revert
<1>3. DL!IsPrefix(Durable, Durable)
  BY <1>1, PrefixPointwise
<1> QED
  BY <1>1, <1>2, <1>3, PromiseParts

(***************************************************************************)
(* Whatever the order of publishing, persisting, failing and               *)
(* acknowledging, the medium holds a prefix of what is visible and all     *)
(* that was acknowledged.                                                  *)
(***************************************************************************)
THEOREM PromiseKept == DL!DLSpec => []DL!DurablePromise
<1>1. PromiseInv /\ [DL!DLNext]_(DL!dlVars) => PromiseInv'
  <2> SUFFICES ASSUME PromiseInv, [DL!DLNext]_(DL!dlVars) PROVE PromiseInv'
    OBVIOUS
  <2>1. CASE UNCHANGED DL!dlVars
    BY <2>1, PromiseParts DEF DL!dlVars
  <2> QED
    BY <2>1, PublishKeeps, AcknowledgeKeeps, PersistKeeps, RevertKeeps DEF DL!DLNext
<1>2. PromiseInv => DL!DurablePromise
  BY DEF PromiseInv
<1> QED
  BY <1>1, <1>2, NothingPromised, PTL DEF DL!DLSpec

(***************************************************************************)
(* What append_batch acknowledged is on the medium and stays there.        *)
(***************************************************************************)
THEOREM AcknowledgedAlwaysDurable ==
    ASSUME DirectoryPreexists PROVE Spec => []AcknowledgedIsDurable
<1>1. DL!DLSpec => []DL!DurablePromise
  BY PromiseKept
<1>2. DL!DurablePromise => AcknowledgedIsDurable
  BY DEF DL!DurablePromise, AcknowledgedIsDurable, DL!Range, Range
<1> QED
  BY <1>1, <1>2, Refinement, PTL DEF ImplementsDurableLog

-----------------------------------------------------------------------------
(***************************************************************************)
(* Backup: the snapshot readers and copiers beside the processes of the    *)
(* store leave it as it was proved to be, and what they read and copy is   *)
(* what was committed.  Every step of the tool leaves the store alone, and *)
(* every other step is one of LogStore.                                    *)
(***************************************************************************)
LEMMA ToolLeavesStore == ToolStep => UNCHANGED vars
  BY DEF ToolStep, ShareLock, ReadSnapshot, CreateDestination, CopyLog, SyncCopy,
         CopyManifest, SyncCopiedManifest, SyncCopyDirectory, SyncCopyParent,
         SyncUpTo, Report, ToolEnds, RemoveCopy, ToolGoes

LEMMA StoreStep == [BackupNext]_allVars => [Next]_vars
<1> SUFFICES ASSUME [BackupNext]_allVars PROVE [Next]_vars
  OBVIOUS
<1>1. CASE ProcessStep
  BY <1>1 DEF ProcessStep, Next
<1>2. CASE ToolStep
  BY <1>2, ToolLeavesStore
<1>3. CASE PowerFails
  BY <1>3 DEF PowerFails, Next
<1>4. CASE UNCHANGED allVars
  BY <1>4 DEF allVars
<1> QED
  BY <1>1, <1>2, <1>3, <1>4 DEF BackupNext

(***************************************************************************)
(* Snapshot readers and backups are invisible to the store: whatever holds *)
(* of LogStore alone holds beside them.                                    *)
(***************************************************************************)
THEOREM ToolsAreInvisible == BackupSpec => Spec
<1>1. BackupInit => Init
  BY DEF BackupInit
<1> QED
  BY <1>1, StoreStep, PTL DEF BackupSpec, Spec

-----------------------------------------------------------------------------
(***************************************************************************)
(* Values.                                                                 *)
(***************************************************************************)
LEMMA EmptyCopy ==
    /\ NoCopy \in Copy
    /\ NoCopy.manifest = NoManifest /\ NoCopy.log = <<>>
<1>1. NoManifest \in Manifest
  BY EntryTypes
<1> QED
  BY <1>1, EmptySeq DEF Copy, NoCopy

LEMMA NothingToOpen == ~(NoManifest.length > 0) /\ ~TornManifest.valid
  BY DEF NoManifest, TornManifest

LEMMA Levels ==
    /\ LogBytes \in 0..4 /\ Everything \in 0..4
    /\ LogBytes >= LogBytes
    /\ \A level \in LogBytes..Everything : level \in 0..4 /\ level >= LogBytes
  BY DEF LogBytes, Everything

LEMMA BackupInitEstablishesInv == BackupInit => BackupInv
<1> SUFFICES ASSUME BackupInit PROVE BackupInv
  OBVIOUS
<1>1. IInv
  BY InitEstablishesIInv DEF BackupInit
<1>2. /\ tool = "idle" /\ snapshot = <<>> /\ copy = NoCopy
      /\ origin = <<>> /\ reported = FALSE
  BY DEF BackupInit
<1>3. BackupTypeOK
  BY <1>2, EmptyCopy, EmptySeq DEF BackupTypeOK, ToolSteps
<1>4. ~Sharing /\ ~Validated /\ ~Building
  BY <1>2 DEF Sharing, Validated, Building
<1>5. CopyInv
  <2>1. ~(copy.manifest.length > 0)
    BY <1>2, EmptyCopy, NothingToOpen
  <2> QED
    BY <1>2, <1>4, <2>1 DEF CopyInv, Building
<1> QED
  BY <1>1, <1>3, <1>4, <1>5 DEF BackupInv

-----------------------------------------------------------------------------
(***************************************************************************)
(* A prefix that scan_committed accepts is accepted by itself.             *)
(***************************************************************************)
LEMMA PrefixAccepted ==
    ASSUME NEW file \in Seq(Entry), NEW n \in Nat, ScanAccepts(file, n)
    PROVE  /\ SubSeq(file, 1, n) \in Seq(Entry)
           /\ Len(SubSeq(file, 1, n)) = n
           /\ ScanAccepts(SubSeq(file, 1, n), n)
<1> DEFINE s == SubSeq(file, 1, n)
<1>1. n \in 1..Len(file)
  BY DEF ScanAccepts
<1>2. s \in Seq(Entry) /\ Len(s) = n /\ \A i \in 1..n : s[i] = file[i]
  BY <1>1
<1> QED
  BY <1>1, <1>2 DEF ScanAccepts

(***************************************************************************)
(* While the tool shares the lock no writer changes anything.              *)
(***************************************************************************)
LEMMA NoWriterWhileShared ==
    ASSUME BackupInv, Sharing, ProcessStep
    PROVE  FALSE
<1>1. owner = NoOwner /\ owner' = NoOwner
  BY DEF BackupInv, ProcessStep
<1>2. PICK p \in Procs : \/ OpenStep(p) \/ ManifestStep(p) \/ AppendStep(p)
                        \/ IOError(p) \/ ProcessExit(p)
  BY DEF ProcessStep
<1>3. pc[p] = "closed"
  BY <1>1 DEF BackupInv, IInv, LockIsExclusive, At
<1>5. ASSUME OpenStep(p) PROVE Lock(p)
  BY <1>3, <1>5 DEF OpenStep, FindManifest, CreateLog, SyncParent, CheckLength,
                    SyncTruncation, Replay, Refuse, Unusable, At
<1>6. ~ManifestStep(p)
  BY <1>3 DEF ManifestStep, StageManifest, Stage, RenameManifest, SyncDirectory, At
<1>7. ~AppendStep(p)
  BY <1>3 DEF AppendStep, BeginAppend, BeginWrite, FinishWrite, SyncLog,
              Acknowledge, Flush, At
<1>8. ~IOError(p) /\ ~ProcessExit(p)
  BY <1>3 DEF IOError, ProcessExit, At
<1>9. Lock(p)
  BY <1>2, <1>5, <1>6, <1>7, <1>8
<1> QED
  BY <1>1, <1>9 DEF Lock

(***************************************************************************)
(* A step of a writer happens only where the tool does not look.           *)
(***************************************************************************)
LEMMA WriterKeepsInv ==
    ASSUME BackupInv, IInv', ProcessStep PROVE BackupInv'
<1>1. ~Sharing
  BY NoWriterWhileShared
<1>2. UNCHANGED backupVars
  BY DEF ProcessStep
<1>3. ~Sharing' /\ ~Validated'
  BY <1>1, <1>2 DEF backupVars, Sharing, Validated
<1>4. BackupTypeOK' /\ CopyInv'
  BY <1>2 DEF backupVars, BackupInv, BackupTypeOK, CopyInv, Building, Whole, ScanAccepts
<1> QED
  BY <1>3, <1>4 DEF BackupInv

(***************************************************************************)
(* The snapshot is opened: locked, and validated.                          *)
(***************************************************************************)
LEMMA OpeningKeepsInv ==
    ASSUME BackupInv, IInv', ShareLock \/ ReadSnapshot PROVE BackupInv'
<1>1. /\ log \in Seq(Entry) /\ manifest \in Manifest
      /\ manifest.length \in Nat
  BY DEF BackupInv, IInv, TypeOK, Manifest
<1>2. UNCHANGED vars /\ UNCHANGED <<copy, origin, reported>>
  BY DEF ShareLock, ReadSnapshot, ToolGoes
<1>3. CASE ShareLock
  <2>1. tool = "idle" /\ tool' = "shared" /\ owner = NoOwner /\ snapshot' = snapshot
    BY <1>3 DEF ShareLock, ToolGoes
  <2>2. ~Validated' /\ owner' = NoOwner
    BY <1>2, <2>1 DEF Validated, vars
  <2>3. BackupTypeOK' /\ CopyInv'
    BY <1>2, <2>1 DEF BackupInv, BackupTypeOK, ToolSteps, CopyInv, Building, Whole,
                      ScanAccepts
  <2> QED
    BY <2>2, <2>3 DEF BackupInv
<1>4. CASE ReadSnapshot
  <2>1. /\ tool = "shared" /\ tool' = "open"
        /\ manifest.length > 0 /\ manifest.valid
        /\ ScanAccepts(log, manifest.length)
        /\ snapshot' = SubSeq(log, 1, manifest.length)
    BY <1>4 DEF ReadSnapshot, ToolGoes
  <2>2. snapshot' \in Seq(Entry)
    BY <1>1, <2>1, PrefixAccepted
  <2>3. owner' = NoOwner /\ UNCHANGED <<log, manifest>>
    BY <1>2, <2>1 DEF BackupInv, Sharing, vars, files
  <2>4. /\ ScanAccepts(log', manifest'.length) /\ manifest'.length > 0
        /\ manifest'.valid /\ snapshot' = SubSeq(log', 1, manifest'.length)
    BY <2>1, <2>3
  <2>5. BackupTypeOK' /\ CopyInv'
    BY <1>2, <2>1, <2>2 DEF BackupInv, BackupTypeOK, ToolSteps, CopyInv, Building,
                            Whole, ScanAccepts
  <2> QED
    BY <2>3, <2>4, <2>5 DEF BackupInv
<1> QED
  BY <1>3, <1>4

(***************************************************************************)
(* The steps of backup_to change the copy and nothing else; the store is   *)
(* still what was validated.                                               *)
(***************************************************************************)
LEMMA StillValidated ==
    ASSUME BackupInv, Validated, UNCHANGED <<vars, snapshot>>
    PROVE  /\ owner' = NoOwner
           /\ ScanAccepts(log', manifest'.length) /\ manifest'.length > 0
           /\ manifest'.valid
           /\ snapshot' = SubSeq(log', 1, manifest'.length)
  BY DEF BackupInv, Validated, Sharing, vars, files, ScanAccepts

LEMMA SnapshotFacts ==
    ASSUME BackupInv, Validated
    PROVE  /\ snapshot \in Seq(Entry) /\ Len(snapshot) = manifest.length
           /\ Len(snapshot) \in Nat \ {0} /\ Len(snapshot) <= Len(log)
           /\ ScanAccepts(snapshot, Len(snapshot))
           /\ SubSeq(log, 1, Len(snapshot)) = snapshot
<1>1. log \in Seq(Entry) /\ manifest.length \in Nat
  BY DEF BackupInv, IInv, TypeOK, Manifest
<1>2. /\ ScanAccepts(log, manifest.length) /\ manifest.length > 0
      /\ snapshot = SubSeq(log, 1, manifest.length)
  BY DEF BackupInv
<1>3. /\ snapshot \in Seq(Entry) /\ Len(snapshot) = manifest.length
      /\ ScanAccepts(snapshot, manifest.length)
  BY <1>1, <1>2, PrefixAccepted
<1>4. manifest.length <= Len(log)
  BY <1>2 DEF ScanAccepts
<1> QED
  BY <1>1, <1>2, <1>3, <1>4

LEMMA CreatingKeepsInv ==
    ASSUME BackupInv, IInv', CreateDestination PROVE BackupInv'
<1>1. /\ tool = "open" /\ tool' = "copylog" /\ UNCHANGED <<vars, snapshot>>
      /\ ~copy.exists /\ origin' = snapshot /\ reported' = FALSE
      /\ copy' = [NoCopy EXCEPT !.exists = TRUE]
  BY DEF CreateDestination, ToolGoes
<1>2. /\ copy' \in Copy /\ copy'.exists /\ copy'.log = <<>>
      /\ copy'.manifest = NoManifest
  BY <1>1, EmptyCopy DEF Copy
<1>3. ~(copy'.manifest.length > 0)
  BY <1>2, NothingToOpen
<1>4. BackupTypeOK'
  BY <1>1, <1>2 DEF BackupInv, BackupTypeOK, ToolSteps
<1>5. CopyInv'
  BY <1>1, <1>2, <1>3 DEF CopyInv, Building
<1> QED
  BY <1>1, <1>4, <1>5, StillValidated DEF BackupInv, Validated, ToolSteps

LEMMA CopyingKeepsInv ==
    ASSUME BackupInv, IInv', CopyLog \/ SyncCopy PROVE BackupInv'
<1>1. CASE CopyLog
  <2>1. /\ tool = "copylog" /\ tool' = "synclog"
        /\ UNCHANGED <<vars, snapshot, origin, reported>>
        /\ copy' = [copy EXCEPT !.log = SubSeq(log, 1, Len(snapshot))]
    BY <1>1 DEF CopyLog, ToolGoes
  <2>2. Validated /\ Validated' /\ Building
    BY <2>1 DEF Validated, ToolSteps, Building
  <2>3. /\ copy \in Copy /\ copy.exists /\ origin = snapshot
        /\ copy.manifest = NoManifest
    BY <2>1, <2>2 DEF BackupInv, BackupTypeOK, CopyInv
  <2>4. copy' = [copy EXCEPT !.log = snapshot] /\ snapshot \in Seq(Entry)
    BY <2>1, <2>2, SnapshotFacts
  <2>5. /\ copy' \in Copy /\ copy'.exists /\ copy'.log = snapshot
        /\ copy'.manifest = NoManifest
    BY <2>3, <2>4 DEF Copy
  <2>6. ~reported' /\ ~(copy'.manifest.length > 0)
    BY <2>1, <2>2, <2>5, NothingToOpen DEF BackupInv, CopyInv
  <2>7. BackupTypeOK'
    BY <2>1, <2>5 DEF BackupInv, BackupTypeOK, ToolSteps
  <2>8. CopyInv'
    BY <2>1, <2>3, <2>5, <2>6 DEF CopyInv, Building
  <2> QED
    BY <2>1, <2>2, <2>7, <2>8, StillValidated DEF BackupInv
<1>2. CASE SyncCopy
  <2>1. /\ tool = "synclog" /\ tool' = "copymanifest"
        /\ UNCHANGED <<vars, snapshot, origin, reported>>
        /\ copy' = [copy EXCEPT !.synced = LogBytes]
    BY <1>2 DEF SyncCopy, ToolGoes
  <2>2. Validated /\ Validated' /\ Building
    BY <2>1 DEF Validated, ToolSteps, Building
  <2>3. /\ copy \in Copy /\ copy.exists /\ origin = snapshot
        /\ copy.manifest = NoManifest /\ copy.log = snapshot
    BY <2>1, <2>2 DEF BackupInv, BackupTypeOK, CopyInv
  <2>4. /\ copy' \in Copy /\ copy'.exists /\ copy'.log = snapshot
        /\ copy'.manifest = NoManifest /\ copy'.synced = LogBytes
    BY <2>1, <2>3, Levels DEF Copy
  <2>5. ~reported' /\ ~(copy'.manifest.length > 0)
    BY <2>1, <2>2, <2>4, NothingToOpen DEF BackupInv, CopyInv
  <2>6. BackupTypeOK'
    BY <2>1, <2>4 DEF BackupInv, BackupTypeOK, ToolSteps
  <2>7. CopyInv'
    BY <2>1, <2>3, <2>4, <2>5, Levels DEF CopyInv, Building
  <2> QED
    BY <2>1, <2>2, <2>6, <2>7, StillValidated DEF BackupInv
<1> QED
  BY <1>1, <1>2

(***************************************************************************)
(* The manifest that is read again is the one that was validated.          *)
(***************************************************************************)
LEMMA CopyManifestKeepsInv ==
    ASSUME BackupInv, IInv', CopyManifest PROVE BackupInv'
<1>1. /\ tool = "copymanifest" /\ tool' = "syncmanifest"
      /\ UNCHANGED <<vars, snapshot, origin, reported>>
      /\ copy' = [copy EXCEPT !.manifest = Settled(manifest)]
  BY DEF CopyManifest, ToolGoes
<1>2. Validated /\ Validated' /\ Building
  BY <1>1 DEF Validated, ToolSteps, Building
<1>3. /\ copy \in Copy /\ copy.exists /\ origin = snapshot
      /\ copy.log = snapshot /\ copy.synced >= LogBytes
  BY <1>1, <1>2 DEF BackupInv, BackupTypeOK, CopyInv
<1>4. /\ Settled(manifest) \in Manifest
      /\ Settled(manifest).length = manifest.length
      /\ Settled(manifest).valid
  BY <1>2 DEF BackupInv, IInv, TypeOK, Manifest, Settled
<1>5. /\ copy' \in Copy /\ copy'.exists /\ copy'.log = copy.log
      /\ copy'.synced = copy.synced /\ copy'.manifest = Settled(manifest)
  BY <1>1, <1>3, <1>4 DEF Copy
<1>6. Whole(copy)'
  BY <1>1, <1>2, <1>3, <1>4, <1>5, SnapshotFacts DEF Whole, ScanAccepts
<1>7. BackupTypeOK'
  BY <1>1, <1>5 DEF BackupInv, BackupTypeOK, ToolSteps
<1>8. ~reported'
  BY <1>1, <1>2 DEF BackupInv, CopyInv
<1>9. CopyInv'
  BY <1>1, <1>3, <1>5, <1>6, <1>8 DEF CopyInv, Building
<1> QED
  BY <1>1, <1>2, <1>7, <1>9, StillValidated DEF BackupInv

(***************************************************************************)
(* The syncs that follow only make more of the copy permanent.             *)
(***************************************************************************)
LEMMA SyncingKeepsInv ==
    ASSUME BackupInv, IInv', SyncCopiedManifest \/ SyncCopyDirectory \/ SyncCopyParent
    PROVE  BackupInv'
<1>1. PICK level \in LogBytes..Everything :
        /\ copy' = [copy EXCEPT !.synced = level]
        /\ SyncCopyParent /\ ParentNamed => level = Everything
  BY DEF SyncCopiedManifest, SyncCopyDirectory, SyncCopyParent, SyncUpTo,
         LogBytes, ManifestBytes, Entries, Everything
<1>2. /\ tool \in {"syncmanifest", "syncdir", "syncparent"}
      /\ tool' \in {"syncdir", "syncparent", "verify"}
      /\ tool' = "verify" => SyncCopyParent
      /\ UNCHANGED <<vars, snapshot, origin, reported>>
  BY DEF SyncCopiedManifest, SyncCopyDirectory, SyncCopyParent, SyncUpTo, ToolGoes
<1>3. Validated /\ Building /\ (Validated' \/ tool' = "verify")
  BY <1>2 DEF Validated, ToolSteps, Building
<1>4. copy \in Copy /\ Whole(copy) /\ copy.exists /\ origin = snapshot
  BY <1>2, <1>3 DEF BackupInv, BackupTypeOK, CopyInv
<1>5. /\ copy' \in Copy /\ copy'.exists = copy.exists /\ copy'.log = copy.log
      /\ copy'.manifest = copy.manifest /\ copy'.synced = level
      /\ level \in 0..4 /\ level >= LogBytes
  BY <1>1, <1>4, Levels DEF Copy
<1>6. Whole(copy)'
  BY <1>2, <1>4, <1>5 DEF Whole, ScanAccepts
<1>7. BackupTypeOK'
  BY <1>2, <1>5 DEF BackupInv, BackupTypeOK, ToolSteps
<1>8. ~reported'
  BY <1>2, <1>3 DEF BackupInv, CopyInv
<1>9. CopyInv'
  BY <1>1, <1>2, <1>4, <1>5, <1>6, <1>8 DEF CopyInv, Building
<1>10. ~Validated' => ~Sharing'
  BY <1>3 DEF Validated, Sharing
<1> QED
  BY <1>2, <1>3, <1>7, <1>9, <1>10, StillValidated DEF BackupInv, Sharing

(***************************************************************************)
(* Wherever the tool stops, what it leaves is whole or has no manifest     *)
(* that verifies.                                                          *)
(***************************************************************************)
LEMMA ReportKeepsInv ==
    ASSUME BackupInv, IInv', Report PROVE BackupInv'
<1>1. /\ tool = "verify" /\ tool' = "idle" /\ snapshot' = <<>> /\ reported'
      /\ UNCHANGED vars /\ UNCHANGED <<copy, origin>>
  BY DEF Report, ToolGoes
<1>2. Whole(copy) /\ (ParentNamed => copy.synced = Everything)
  BY <1>1 DEF BackupInv, CopyInv
<1>3. Whole(copy)'
  BY <1>1, <1>2 DEF Whole, ScanAccepts
<1>4. BackupTypeOK'
  BY <1>1, EmptySeq DEF BackupInv, BackupTypeOK, ToolSteps, Report
<1>5. CopyInv'
  BY <1>1, <1>2, <1>3 DEF CopyInv, Building
<1>6. ~Sharing' /\ ~Validated'
  BY <1>1 DEF Sharing, Validated
<1> QED
  BY <1>4, <1>5, <1>6 DEF BackupInv

LEMMA ToolEndsKeepsInv ==
    ASSUME BackupInv, IInv', ToolEnds PROVE BackupInv'
<1>1. /\ tool # "idle" /\ tool' = "idle" /\ snapshot' = <<>>
      /\ UNCHANGED <<vars, origin, reported>>
  BY DEF ToolEnds
<1>2. ~Sharing' /\ ~Validated' /\ ~Building'
  BY <1>1 DEF Sharing, Validated, Building
<1>3. CASE UNCHANGED copy
  <2>1. BackupTypeOK'
    BY <1>1, <1>3, EmptySeq DEF BackupInv, BackupTypeOK, ToolSteps
  <2>2. CopyInv'
    BY <1>1, <1>2, <1>3 DEF BackupInv, CopyInv, Whole, ScanAccepts
  <2> QED
    BY <1>2, <2>1, <2>2 DEF BackupInv
<1>4. ASSUME tool \in {"copylog", "copymanifest"}, copy' \in Copy,
             ~(copy'.manifest.length > 0 /\ copy'.manifest.valid)
      PROVE  BackupInv'
  <2>1. ~reported'
    BY <1>1, <1>4 DEF BackupInv, CopyInv, Building
  <2>2. BackupTypeOK'
    BY <1>1, <1>4, EmptySeq DEF BackupInv, BackupTypeOK, ToolSteps
  <2>3. CopyInv'
    BY <1>1, <1>2, <1>4, <2>1 DEF CopyInv
  <2> QED
    BY <1>2, <2>2, <2>3 DEF BackupInv
<1>5. copy \in Copy
  BY DEF BackupInv, BackupTypeOK
<1>6. CASE /\ tool = "copylog"
           /\ \E n \in 1..Len(snapshot) :
                 copy' = [copy EXCEPT !.log = SubSeq(log, 1, n - 1) \o <<TornEntry>>]
  <2>1. Validated
    BY <1>6 DEF Validated, ToolSteps
  <2>2. PICK n \in 1..Len(snapshot) :
          copy' = [copy EXCEPT !.log = SubSeq(log, 1, n - 1) \o <<TornEntry>>]
    BY <1>6
  <2>3. log \in Seq(Entry) /\ n \in Nat \ {0} /\ n <= Len(log)
    BY <2>1, <2>2, SnapshotFacts DEF BackupInv, IInv, TypeOK
  <2>4. SubSeq(log, 1, n - 1) \o <<TornEntry>> \in Seq(Entry)
    BY <2>3, EntryTypes
  <2>5. copy' \in Copy /\ copy'.manifest = copy.manifest
    BY <1>5, <2>2, <2>4 DEF Copy
  <2>6. copy.manifest = NoManifest
    BY <1>6 DEF BackupInv, CopyInv
  <2> QED
    BY <1>4, <1>6, <2>5, <2>6, NothingToOpen
<1>7. CASE tool = "copymanifest" /\ copy' = [copy EXCEPT !.manifest = TornManifest]
  <2>1. copy' \in Copy /\ copy'.manifest = TornManifest
    BY <1>5, <1>7, EntryTypes DEF Copy
  <2> QED
    BY <1>4, <1>7, <2>1, NothingToOpen
<1> QED
  BY <1>3, <1>6, <1>7 DEF ToolEnds

LEMMA RemoveCopyKeepsInv ==
    ASSUME BackupInv, IInv', RemoveCopy PROVE BackupInv'
<1>1. /\ tool = "idle" /\ tool' = "idle" /\ copy' = NoCopy /\ origin' = <<>>
      /\ ~reported' /\ reported' \in BOOLEAN /\ snapshot' = snapshot
  BY DEF RemoveCopy
<1>2. ~Sharing' /\ ~Validated' /\ ~Building'
  BY <1>1 DEF Sharing, Validated, Building
<1>3. BackupTypeOK'
  BY <1>1, EmptyCopy, EmptySeq DEF BackupInv, BackupTypeOK, ToolSteps
<1>4. ~(copy'.manifest.length > 0)
  BY <1>1, EmptyCopy, NothingToOpen
<1>5. CopyInv'
  BY <1>1, <1>2, <1>4 DEF CopyInv
<1> QED
  BY <1>2, <1>3, <1>5 DEF BackupInv

(***************************************************************************)
(* A power failure takes a log back only while no whole manifest names it. *)
(***************************************************************************)
LEMMA PowerKeepsInv ==
    ASSUME BackupInv, IInv', PowerFails PROVE BackupInv'
<1>1. tool = "idle" /\ UNCHANGED <<tool, snapshot, origin, reported>>
  BY DEF PowerFails
<1>2. ~Sharing' /\ ~Validated' /\ ~Building'
  BY <1>1 DEF Sharing, Validated, Building
<1>3. /\ copy \in Copy /\ copy.synced \in 0..4
      /\ copy.log \in Seq(Entry) /\ copy.manifest \in Manifest
  BY DEF BackupInv, BackupTypeOK, Copy
<1>4. ASSUME copy' \in Copy,
             \/ copy' = copy
             \/ /\ copy.synced # Everything
                /\ ~(copy'.manifest.length > 0 /\ copy'.manifest.valid)
      PROVE  BackupInv'
  <2>1. BackupTypeOK'
    BY <1>1, <1>4 DEF BackupInv, BackupTypeOK
  <2>2. CASE copy' = copy
    BY <1>1, <1>2, <2>1, <2>2 DEF BackupInv, CopyInv, Whole, ScanAccepts
  <2>3. CASE /\ copy.synced # Everything
             /\ ~(copy'.manifest.length > 0 /\ copy'.manifest.valid)
    <3>1. ~reported' \/ ~ParentNamed
      BY <1>1, <2>3 DEF BackupInv, CopyInv
    <3>2. CopyInv'
      BY <1>1, <1>2, <2>3, <3>1 DEF CopyInv
    <3> QED
      BY <1>2, <2>1, <3>2 DEF BackupInv
  <2> QED
    BY <1>4, <2>2, <2>3
<1>5. \A file \in CopiedLogs : file \in Seq(Entry)
  BY <1>3, EmptySeq, ImageKeepsSynced DEF CopiedLogs
<1>6. CASE CopySurvives
  <2>1. PICK file \in CopiedLogs, m \in CopiedManifests :
          copy' = [copy EXCEPT !.log = file, !.manifest = m]
    BY <1>6 DEF CopySurvives
  <2>2. m \in Manifest
    BY <1>3, <2>1, EntryTypes DEF CopiedManifests
  <2>3. /\ copy' \in Copy /\ copy'.exists = copy.exists /\ copy'.log = file
        /\ copy'.manifest = m /\ copy'.synced = copy.synced
    BY <1>3, <1>5, <2>1, <2>2 DEF Copy
  <2>4. CASE m.length > 0 /\ m.valid
    <3>1. m = copy.manifest
      BY <2>1, <2>4, NothingToOpen DEF CopiedManifests
    <3>2. copy.synced >= LogBytes
      BY <2>4, <3>1 DEF BackupInv, CopyInv, Whole
    <3>3. file = copy.log
      BY <2>1, <3>2 DEF CopiedLogs
    <3>4. copy' = copy
      BY <1>3, <2>1, <3>1, <3>3 DEF Copy
    <3> QED
      BY <1>3, <1>4, <3>4
  <2>5. CASE ~(m.length > 0 /\ m.valid)
    <3>1. CASE copy.synced = Everything
      <4>1. m = copy.manifest /\ file = copy.log
        BY <2>1, <3>1 DEF CopiedManifests, CopiedLogs, Everything, ManifestBytes, LogBytes
      <4>2. copy' = copy
        BY <1>3, <2>1, <4>1 DEF Copy
      <4> QED
        BY <1>3, <1>4, <4>2
    <3>2. CASE copy.synced # Everything
      BY <1>4, <2>3, <2>5, <3>2
    <3> QED
      BY <3>1, <3>2
  <2> QED
    BY <2>4, <2>5
<1>7. CASE CopyLosesEntries
  <2>1. copy.synced # Everything
    <3>1. copy.synced < 3
      BY <1>7 DEF CopyLosesEntries, Entries
    <3> QED
      BY <1>3, <3>1 DEF Everything
  <2>2. copy' \in Copy /\ copy'.manifest = NoManifest
    <3>1. CASE copy' = [NoCopy EXCEPT !.exists = TRUE]
      BY <3>1, EmptyCopy DEF Copy
    <3>2. CASE \E file \in CopiedLogs :
                 copy' = [copy EXCEPT !.log = file, !.manifest = NoManifest]
      <4>1. PICK file \in CopiedLogs :
              copy' = [copy EXCEPT !.log = file, !.manifest = NoManifest]
        BY <3>2
      <4> QED
        BY <1>3, <1>5, <4>1, EntryTypes DEF Copy
    <3> QED
      BY <1>7, <3>1, <3>2 DEF CopyLosesEntries
  <2> QED
    BY <1>4, <2>1, <2>2, NothingToOpen
<1>8. CASE CopyVanishes
  <2>1. copy.synced # Everything /\ copy' = NoCopy
    BY <1>8 DEF CopyVanishes, Everything
  <2> QED
    BY <1>4, <2>1, EmptyCopy, NothingToOpen
<1> QED
  BY <1>6, <1>7, <1>8 DEF PowerFails

-----------------------------------------------------------------------------
LEMMA BackupStepKeepsInv == BackupInv /\ [BackupNext]_allVars => BackupInv'
<1> SUFFICES ASSUME BackupInv, [BackupNext]_allVars PROVE BackupInv'
  OBVIOUS
<1>1. IInv'
  BY StoreStep, StepKeepsIInv DEF BackupInv
<1>2. CASE ProcessStep
  BY <1>1, <1>2, WriterKeepsInv
<1>3. CASE ToolStep
  BY <1>1, <1>3, OpeningKeepsInv, CreatingKeepsInv, CopyingKeepsInv,
     CopyManifestKeepsInv, SyncingKeepsInv, ReportKeepsInv, ToolEndsKeepsInv,
     RemoveCopyKeepsInv DEF ToolStep
<1>4. CASE PowerFails
  BY <1>1, <1>4, PowerKeepsInv
<1>5. CASE UNCHANGED allVars
  BY <1>1, <1>5 DEF allVars, vars, files, backupVars, BackupInv, BackupTypeOK, Sharing,
                    Validated, CopyInv, Building, Whole, ScanAccepts
<1> QED
  BY <1>2, <1>3, <1>4, <1>5 DEF BackupNext

(***************************************************************************)
(* Every state of every behavior satisfies the inductive invariant.        *)
(***************************************************************************)
THEOREM BackupInvariant == BackupSpec => []BackupInv
  BY BackupInitEstablishesInv, BackupStepKeepsInv, PTL DEF BackupSpec

(***************************************************************************)
(* A destination whose manifest verifies opens, and holds what the         *)
(* snapshot had, wherever the backup or the machine was stopped.           *)
(***************************************************************************)
THEOREM CopiesAlwaysWhole == BackupSpec => []CopiesAreWhole
<1>1. BackupInv => CopiesAreWhole
  <2> SUFFICES ASSUME BackupInv, copy.manifest.length > 0, copy.manifest.valid
               PROVE  /\ Opens(copy)
                      /\ SubSeq(copy.log, 1, copy.manifest.length) = origin
    BY DEF CopiesAreWhole
  <2>1. Whole(copy)
    BY DEF BackupInv, CopyInv
  <2>2. SubSeq(origin, 1, Len(origin)) = origin
    BY DEF BackupInv, BackupTypeOK
  <2> QED
    BY <2>1, <2>2 DEF Whole, Opens
<1> QED
  BY <1>1, BackupInvariant, PTL

(***************************************************************************)
(* A backup that backup_store reported survives a power failure.           *)
(***************************************************************************)
THEOREM ReportedAlwaysSurvives == BackupSpec => []ReportedBackupSurvives
<1>1. BackupInv => ReportedBackupSurvives
  <2> SUFFICES ASSUME BackupInv, reported, ParentNamed
               PROVE  /\ copy.manifest.length > 0 /\ copy.manifest.valid
                      /\ copy.log = origin
    BY DEF ReportedBackupSurvives
  <2>1. Whole(copy)
    BY DEF BackupInv, CopyInv
  <2> QED
    BY <2>1 DEF Whole, ScanAccepts
<1> QED
  BY <1>1, BackupInvariant, PTL

(***************************************************************************)
(* What a snapshot validated stays what the store holds while the lock is  *)
(* shared, and has every acknowledged batch.                               *)
(***************************************************************************)
THEOREM SnapshotAlwaysStable ==
    ASSUME DirectoryPreexists PROVE BackupSpec => []SnapshotIsStable
<1>1. BackupInv /\ AcknowledgedIsDurable => SnapshotIsStable
  <2> SUFFICES ASSUME BackupInv, AcknowledgedIsDurable, Validated
               PROVE  /\ owner = NoOwner
                      /\ manifest.length \in 1..Len(log)
                      /\ SubSeq(log, 1, manifest.length) = snapshot
                      /\ acked \subseteq Range(snapshot)
    BY DEF SnapshotIsStable
  <2>1. owner = NoOwner
    BY DEF BackupInv, Validated, Sharing
  <2>2. /\ ScanAccepts(log, manifest.length)
        /\ SubSeq(log, 1, manifest.length) = snapshot
    BY DEF BackupInv
  <2>3. ASSUME NEW b \in acked PROVE b \in Range(snapshot)
    <3>1. /\ log \in Seq(Entry) /\ diskLog \in Seq(Entry)
          /\ manifest.length \in Nat /\ diskManifest.length \in Nat
          /\ diskManifest.length <= manifest.length
          /\ manifest.length > 0
          /\ manifest.length <= Len(diskLog) /\ manifest.length <= Len(log)
          /\ \A i \in 1..manifest.length : diskLog[i] = log[i]
      BY DEF BackupInv, IInv, TypeOK, Manifest, ManifestsAreWhole, CommittedIsSynced,
             ScanAccepts
    <3>2. b \in Range(Durable)
      BY DEF AcknowledgedIsDurable
    <3>3. CASE diskManifest.length = 0
      BY <3>2, <3>3 DEF Durable, Batches, Range
    <3>4. CASE diskManifest.length > 0
      <4> DEFINE n == diskManifest.length
                 d == SubSeq(diskLog, 2, n)
      <4>1. /\ Len(d) = n - 1
            /\ \A i \in 1..(n - 1) : d[i] = diskLog[i + 1]
        BY <3>1, <3>4
      <4>2. DOMAIN d = 1..(n - 1)
        BY <3>1, <3>4
      <4>3. PICK i \in DOMAIN d : b = d[i]
        <5>1. Durable = d
          BY <3>1, <3>4 DEF Durable, Batches
        <5> QED
          BY <3>2, <5>1 DEF Range
      <4>4. i + 1 \in 1..manifest.length /\ b = log[i + 1]
        <5>1. i \in 1..(n - 1)
          BY <4>2, <4>3
        <5> HIDE DEF d
        <5>2. b = diskLog[i + 1]
          BY <4>1, <4>3, <5>1
        <5>3. i + 1 \in 1..manifest.length
          BY <3>1, <5>1
        <5> QED
          BY <3>1, <5>2, <5>3
      <4>5. /\ DOMAIN snapshot = 1..manifest.length
            /\ snapshot[i + 1] = log[i + 1]
        BY <2>2, <3>1, <4>4
      <4> QED
        BY <4>4, <4>5 DEF Range
    <3> QED
      BY <3>1, <3>3, <3>4
  <2> QED
    BY <2>1, <2>2, <2>3 DEF ScanAccepts
<1> QED
  BY <1>1, BackupInvariant, ToolsAreInvisible, AcknowledgedAlwaysDurable, PTL
=============================================================================
