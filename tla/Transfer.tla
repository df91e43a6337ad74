------------------------------ MODULE Transfer ------------------------------
(***************************************************************************)
(* Logical export and import: export_store and import_store of             *)
(* src/maintenance.rs.                                                     *)
(*                                                                         *)
(* An export is a file of lines, one for each role and posit of a store.   *)
(* An import reads such a file, gives every identity a new local number,   *)
(* writes the renamed records into a new store (DurableLog), batch after   *)
(* batch, verifies them, and writes the identity-remap file last.  Either  *)
(* may be stopped anywhere; the operator moves away what it leaves.        *)
(***************************************************************************)
EXTENDS LogicalReplay

CONSTANTS
    Stores,         \* source stores: sets of records
    OtherFiles,     \* files that no export_store wrote
    Unnormalized,   \* role names that are not in Unicode form NFC
    BatchSize,      \* IMPORT_BATCH_SIZE
    MaxThing        \* u64::MAX

(***************************************************************************)
(* The lines of an export file that are not records; "bad" stands for      *)
(* every line that read_export refuses by itself.                          *)
(***************************************************************************)
HeaderLine == [kind |-> "header"]
BadLine == [kind |-> "bad"]

Builtin == 1..Len(BuiltinNames)

FirstFree == Len(BuiltinNames) + 1

Record ==
    [kind: {"role"}, id: Nat, name: STRING]
        \cup [kind: {"posit"}, id: Nat, appearances: SUBSET (Nat \X Nat), value: STRING]

ASSUME TransferAssumption ==
    /\ \A store \in Stores :
          IsFiniteSet(store) /\ store \subseteq Record /\ Consistent(store)
    /\ BatchSize \in Nat \ {0}
    /\ MaxThing \in Nat
    /\ MaxThing >= FirstFree

VARIABLES
    export,         \* the export file: lines, the store it is of, completed
    pc,             \* where import_store is
    imported,       \* ImportedStore: the records of the file, in its order
    foreign,        \* the identities of the file that have no number yet
    next,           \* the next local number
    remap,          \* identity_map
    named,          \* which of the paths given to import_store name a parent
    made,           \* the destination directory
    anchored,       \* the entry of that directory is on the medium
    history, served, acked,     \* the destination's durable log
    artifact,       \* the identity-remap file
    reported        \* history: import_store returned Ok

log == <<history, served, acked>>
mapping == <<foreign, next, remap>>
place == <<named, made, anchored>>
vars == <<export, pc, imported, mapping, place, log, artifact, reported>>

Destination == INSTANCE DurableLog WITH Batch <- Seq(Record)

NoExport == [lines |-> <<>>, store |-> {}, done |-> FALSE]

Builtins == [b \in Builtin |-> b]

NoArtifact == [state |-> "absent", map |-> Builtins]

Steps == {"idle", "open", "remap", "append", "published", "persisted",
          "verify", "inspect", "write", "sync"}

Init ==
    /\ export = NoExport
    /\ pc = "idle"
    /\ imported = <<>>
    /\ foreign = {}
    /\ next = FirstFree
    /\ remap = Builtins
    /\ named = {}
    /\ made = "absent"
    /\ anchored = FALSE
    /\ Destination!DLInit
    /\ artifact = NoArtifact
    /\ reported = FALSE

-----------------------------------------------------------------------------
(***************************************************************************)
(* export_store: the header, the roles by identity, the posits by          *)
(* identity.  The snapshot holds the store's shared lock meanwhile         *)
(* (Backup), so what is written is one state of the store.                 *)
(***************************************************************************)
ById(records) ==
    LET ids == Ascending({r.id : r \in records})
    IN  [k \in DOMAIN ids |-> CHOOSE r \in records : r.id = ids[k]]

ExportOf(store) ==
    <<HeaderLine>> \o ById(RolesOf(store)) \o ById(PositsOf(store))

ExportStore ==
    /\ export = NoExport
    /\ \E store \in Stores :
          export' = [lines |-> ExportOf(store), store |-> store, done |-> TRUE]
    /\ UNCHANGED <<pc, imported, mapping, place, log, artifact, reported>>

(***************************************************************************)
(* An export that is stopped leaves some of its lines, the last perhaps in *)
(* part.  A file may also come from elsewhere.                             *)
(***************************************************************************)
ExportStops ==
    /\ export = NoExport
    /\ \E store \in Stores : \E n \in 0..Len(ExportOf(store)) :
          LET lines == SubSeq(ExportOf(store), 1, n) IN
          \/ export' = [lines |-> lines, store |-> store, done |-> FALSE]
          \/ export' = [lines |-> Append(lines, BadLine), store |-> store, done |-> FALSE]
    /\ UNCHANGED <<pc, imported, mapping, place, log, artifact, reported>>

ReceiveFile ==
    /\ export = NoExport
    /\ \E file \in OtherFiles :
          export' = [lines |-> file, store |-> {}, done |-> FALSE]
    /\ UNCHANGED <<pc, imported, mapping, place, log, artifact, reported>>

-----------------------------------------------------------------------------
(***************************************************************************)
(* read_export: every line parses; one header, which comes first, then     *)
(* roles, then posits.                                                     *)
(***************************************************************************)
InOrder(lines) ==
    /\ lines \in Seq({HeaderLine} \cup Record)
    /\ lines # <<>>
    /\ \A i \in DOMAIN lines :
          /\ lines[i].kind = "header" <=> i = 1
          /\ \A j \in 1..i : lines[i].kind = "role" => lines[j].kind # "posit"

\* Mutant: two posits of the file may state the same.
ValidateWithoutPropositions(records) ==
    /\ \A i, j \in DOMAIN records : i < j =>
          /\ records[i].id # records[j].id
          /\ records[i].kind = "role" /\ records[j].kind = "role" =>
                records[i].name # records[j].name
    /\ Range(Bootstrap) \subseteq Range(records)
    /\ \A p \in PositsOf(Range(records)) : \A a \in p.appearances :
          \E r \in RolesOf(Range(records)) : r.id = a[1]

(***************************************************************************)
(* validate_imported.                                                      *)
(***************************************************************************)
Validate(records) ==
    /\ \A i, j \in DOMAIN records : i < j => ~Conflict(records[i], records[j])
    /\ \A i \in DOMAIN records : records[i].id # 0
    /\ Range(Bootstrap) \subseteq Range(records)
    /\ \A p \in PositsOf(Range(records)) :
          /\ p.appearances # {}
          /\ \A a, b \in p.appearances : a[1] = b[1] => a = b
          /\ \A a \in p.appearances :
                /\ a[2] # 0
                /\ \E r \in RolesOf(Range(records)) : r.id = a[1]

Identities(records) ==
    Things(records) \cup {a[1] : a \in UNION {p.appearances : p \in PositsOf(records)}}

(***************************************************************************)
(* import_store: the destination and the remap file must not exist, and    *)
(* the file must be an export; then build_identity_remap collects what is  *)
(* to be renamed.  A path without a parent component is legal: for it      *)
(* sync_parent_directory does nothing.                                     *)
(***************************************************************************)
StartImport ==
    /\ pc = "idle"
    /\ made = "absent"
    /\ artifact = NoArtifact
    /\ InOrder(export.lines)
    /\ Validate(Tail(export.lines))
    /\ imported' = Tail(export.lines)
    /\ foreign' = Identities(Range(imported')) \ Builtin
    /\ next' = FirstFree
    /\ remap' = Builtins
    /\ pc' = "open"
    /\ named' \in SUBSET {"destination", "remap"}
    /\ reported' = FALSE
    /\ UNCHANGED <<export, made, anchored, log, artifact>>

(***************************************************************************)
(* LogStore::open makes the directory, an empty log and a manifest, and    *)
(* syncs the parent of the directory if its path names one.                *)
(***************************************************************************)
OpenDestination ==
    /\ pc = "open"
    /\ made' = "store"
    /\ anchored' = ("destination" \in named)
    /\ pc' = "remap"
    /\ UNCHANGED <<export, imported, mapping, named, log, artifact, reported>>

-----------------------------------------------------------------------------
(***************************************************************************)
(* build_identity_remap.                                                   *)
(***************************************************************************)
Smallest(source) == \A t \in foreign : source <= t

Taken(source) == next \in Range(remap) \/ next = source

SkipNumber ==
    /\ pc = "remap"
    /\ \E source \in foreign : Smallest(source) /\ Taken(source)
    /\ next < MaxThing
    /\ next' = next + 1
    /\ UNCHANGED <<export, pc, imported, foreign, remap, place, log, artifact, reported>>

Assign(source) ==
    /\ next < MaxThing
    /\ remap' = [t \in DOMAIN remap \cup {source} |->
                    IF t = source THEN next ELSE remap[t]]
    /\ foreign' = foreign \ {source}
    /\ next' = next + 1

\* Mutant: an identity may keep its own number.
AssignAnyNumber ==
    /\ pc = "remap"
    /\ \E source \in foreign : Smallest(source) /\ Assign(source)
    /\ UNCHANGED <<export, pc, imported, place, log, artifact, reported>>

AssignNumber ==
    /\ pc = "remap"
    /\ \E source \in foreign : Smallest(source) /\ ~Taken(source) /\ Assign(source)
    /\ UNCHANGED <<export, pc, imported, place, log, artifact, reported>>

FinishRemap ==
    /\ pc = "remap"
    /\ foreign = {}
    /\ pc' = "append"
    /\ UNCHANGED <<export, imported, mapping, place, log, artifact, reported>>

-----------------------------------------------------------------------------
\* Mutant: the things of a posit's appearances keep their identities.
RenamedConstruct(r) ==
    IF r.kind = "role"
      THEN NewRole(remap[r.id], r.name)
      ELSE NewPosit(remap[r.id],
                    <<{<<remap[a[1]], a[2]>> : a \in r.appearances}, r.value>>)

(***************************************************************************)
(* A record with every identity in it renamed.                             *)
(***************************************************************************)
Renamed(r) ==
    IF r.kind = "role"
      THEN NewRole(remap[r.id], r.name)
      ELSE NewPosit(remap[r.id],
                    <<{<<remap[a[1]], remap[a[2]]>> : a \in r.appearances}, r.value>>)

Transformed == [i \in DOMAIN imported |-> Renamed(imported[i])]

(***************************************************************************)
(* The roles are one batch; the posits follow in the order of the file, at *)
(* most BatchSize of them in a batch.                                      *)
(***************************************************************************)
RoleCount == Cardinality({i \in DOMAIN imported : imported[i].kind = "role"})

Appended == Cardinality(Positions(served))

NextBatch ==
    SubSeq(Transformed, Appended + 1,
           IF Appended = 0 THEN RoleCount
           ELSE IF Appended + BatchSize < Len(imported) THEN Appended + BatchSize
           ELSE Len(imported))

PublishBatch ==
    /\ pc = "append"
    /\ Appended < Len(imported)
    /\ Destination!Publish(NextBatch)
    /\ pc' = "published"
    /\ UNCHANGED <<export, imported, mapping, place, artifact, reported>>

PersistBatch ==
    /\ pc = "published"
    /\ Destination!Persist
    /\ pc' = "persisted"
    /\ UNCHANGED <<export, imported, mapping, place, artifact, reported>>

AppendReturns ==
    /\ pc = "persisted"
    /\ Destination!Acknowledge(served[Len(served)])
    /\ pc' = IF Appended < Len(imported) THEN "append" ELSE "verify"
    /\ UNCHANGED <<export, imported, mapping, place, artifact, reported>>

-----------------------------------------------------------------------------
(***************************************************************************)
(* What opening a store accepts; decode_role insists on normalized names.  *)
(***************************************************************************)
Loads(batches) ==
    /\ ReplayAccepts(batches)
    /\ \A r \in RolesOf(Records(batches)) : r.name \notin Unnormalized

(***************************************************************************)
(* The store is replayed and compared with what was to be written; then it *)
(* is inspected as any store.                                              *)
(***************************************************************************)
Verify ==
    /\ pc = "verify"
    /\ Loads(served)
    /\ Records(served) = Range(Transformed)
    /\ pc' = "inspect"
    /\ UNCHANGED <<export, imported, mapping, place, log, artifact, reported>>

Inspect ==
    /\ pc = "inspect"
    /\ Loads(served)
    /\ Cardinality(Records(served)) = Len(imported)
    /\ pc' = "write"
    /\ UNCHANGED <<export, imported, mapping, place, log, artifact, reported>>

\* Mutant: the remap file is written as soon as the map is known.
WriteRemapEarly ==
    /\ pc \in {"append", "write"}
    /\ artifact = NoArtifact
    /\ artifact' = [state |-> "written", map |-> remap]
    /\ pc' = IF pc = "append" THEN pc ELSE "sync"
    /\ UNCHANGED <<export, imported, mapping, place, log, reported>>

(***************************************************************************)
(* write_remap: the file is created, written, and synced, and its entry    *)
(* with it if its path names a parent.                                     *)
(***************************************************************************)
WriteRemap ==
    /\ pc = "write"
    /\ artifact' = [state |-> "written", map |-> remap]
    /\ pc' = "sync"
    /\ UNCHANGED <<export, imported, mapping, place, log, reported>>

SyncRemap ==
    /\ pc = "sync"
    /\ artifact' = [artifact EXCEPT !.state =
                       IF "remap" \in named THEN "durable" ELSE "synced"]
    /\ reported' = TRUE
    /\ pc' = "idle"
    /\ UNCHANGED <<export, imported, mapping, place, log>>

-----------------------------------------------------------------------------
Torn == [state |-> "torn", map |-> Builtins]

(***************************************************************************)
(* import_store ends where it is: an error of any call, a check that       *)
(* fails, numbers that run out, or the end of the process.  A directory    *)
(* that LogStore::open was making is unfinished and perhaps no store       *)
(* (LogStore); a file that was being written may be incomplete.            *)
(***************************************************************************)
ImportStops ==
    /\ pc # "idle"
    /\ pc' = "idle"
    /\ \/ UNCHANGED <<made, artifact>>
       \/ pc = "open" /\ made' = "unfinished" /\ UNCHANGED artifact
       \/ pc = "write" /\ artifact' = Torn /\ UNCHANGED made
    /\ UNCHANGED <<export, imported, mapping, named, anchored, log, reported>>

-----------------------------------------------------------------------------
(***************************************************************************)
(* Power fails.  A destination that is found again has what is durable in  *)
(* its log; one whose entry was not synced may be gone.                    *)
(***************************************************************************)
DestinationSurvives ==
    /\ Destination!Revert \/ Destination!Persist
    /\ anchored' = (made # "absent")
    /\ UNCHANGED made

DestinationVanishes ==
    /\ ~anchored
    /\ made' = "absent"
    /\ history' = <<>>
    /\ served' = <<>>
    /\ acked' = {}
    /\ UNCHANGED anchored

(***************************************************************************)
(* A remap file whose entry was not synced may be gone too, and one that   *)
(* was not synced at all may be incomplete.                                *)
(***************************************************************************)
RemapSurvives ==
    artifact' = IF artifact.state \in {"written", "synced"}
                  THEN [artifact EXCEPT !.state = "durable"] ELSE artifact

RemapSuffers ==
    \/ artifact.state \in {"torn", "written", "synced"} /\ artifact' = NoArtifact
    \/ artifact.state = "written" /\ artifact' = Torn

PowerLoss ==
    /\ pc' = "idle"
    /\ DestinationSurvives \/ DestinationVanishes
    /\ RemapSurvives \/ RemapSuffers
    /\ UNCHANGED <<export, imported, mapping, named, reported>>

(***************************************************************************)
(* The operator moves the export, or what an import left, away.            *)
(***************************************************************************)
RemoveExport ==
    /\ export # NoExport
    /\ export' = NoExport
    /\ UNCHANGED <<pc, imported, mapping, place, log, artifact, reported>>

RemoveDestination ==
    /\ pc = "idle"
    /\ imported' = <<>>
    /\ foreign' = {}
    /\ next' = FirstFree
    /\ remap' = Builtins
    /\ named' = {}
    /\ made' = "absent"
    /\ anchored' = FALSE
    /\ history' = <<>>
    /\ served' = <<>>
    /\ acked' = {}
    /\ artifact' = NoArtifact
    /\ reported' = FALSE
    /\ UNCHANGED <<export, pc>>

Next ==
    \/ ExportStore \/ ExportStops \/ ReceiveFile
    \/ StartImport \/ OpenDestination
    \/ SkipNumber \/ AssignNumber \/ FinishRemap
    \/ PublishBatch \/ PersistBatch \/ AppendReturns
    \/ Verify \/ Inspect \/ WriteRemap \/ SyncRemap
    \/ ImportStops \/ PowerLoss
    \/ RemoveExport \/ RemoveDestination

Spec == Init /\ [][Next]_vars

-----------------------------------------------------------------------------
(***************************************************************************)
(* However far the map has come, and in the file that is written: no two   *)
(* identities get the same number, the built-in roles keep theirs, and     *)
(* every other identity gets one that differs from its own (TRANSFER.md,   *)
(* import).                                                                *)
(***************************************************************************)
Faithful(map) ==
    /\ Builtin \subseteq DOMAIN map
    /\ \A b \in Builtin : map[b] = b
    /\ \A t \in DOMAIN map \ Builtin : map[t] # t
    /\ \A t, u \in DOMAIN map : map[t] = map[u] => t = u

RemapIsFaithful == Faithful(remap) /\ Faithful(artifact.map)

(***************************************************************************)
(* Two stores that differ only in identities, as map says.                 *)
(***************************************************************************)
SameUnder(map, store, copy) ==
    /\ Identities(store) \subseteq DOMAIN map
    /\ {<<r.id, r.name>> : r \in RolesOf(copy)}
          = {<<map[r.id], r.name>> : r \in RolesOf(store)}
    /\ {<<p.id, p.appearances, p.value>> : p \in PositsOf(copy)}
          = {<<map[p.id], {<<map[a[1]], map[a[2]]>> : a \in p.appearances}, p.value>> :
                p \in PositsOf(store)}

(***************************************************************************)
(* The remap file is written last: where it is complete and the            *)
(* destination is there, the destination durably holds the whole file that *)
(* was read, renamed by that map, and opens (TRANSFER.md: "only then       *)
(* writes the identity-remap artifact").  The destination is there unless  *)
(* its path names no parent, so that its entry was never synced.           *)
(***************************************************************************)
RemapFileMeansComplete ==
    artifact.state \in {"written", "synced", "durable"} =>
        /\ made = "store" =>
              /\ SameUnder(artifact.map, Range(imported), Records(history))
              /\ Loads(history)
        /\ "destination" \in named => made = "store" /\ anchored

(***************************************************************************)
(* What an export writes to its end an import accepts, and an import of it *)
(* that was reported, to paths that both name a parent, has durably        *)
(* reproduced the store that was exported, up to the renaming that is in   *)
(* the remap file.                                                         *)
(***************************************************************************)
RoundTrip ==
    export.done =>
        /\ InOrder(export.lines)
        /\ Validate(Tail(export.lines))
        /\ reported /\ named = {"destination", "remap"} /\ imported = Tail(export.lines) =>
              /\ artifact.state = "durable"
              /\ made = "store" /\ anchored
              /\ SameUnder(artifact.map, export.store, Records(history))

(***************************************************************************)
(* Wherever an import was stopped after LogStore::open had finished: a     *)
(* destination that is still there opens, with a part of the records,      *)
(* provided that the names in the file are normalized; and an envelope of  *)
(* the exported store that came after the posit it is about, as those of   *)
(* `and assert` do (PositStore), is not among these records without it.    *)
(***************************************************************************)
PartialDestinationLoads ==
    made = "store" =>
        \A batches \in {history, served} :
            /\ (\A r \in RolesOf(Range(imported)) : r.name \notin Unnormalized) =>
                  Loads(batches)
            /\ export.done /\ imported = Tail(export.lines) /\ batches # <<>> =>
                  \A p \in PositsOf(export.store) :
                      FollowsTargets(p, export.store) /\ Renamed(p) \in Records(batches)
                          => FollowsTargets(Renamed(p), Records(batches))
=============================================================================
