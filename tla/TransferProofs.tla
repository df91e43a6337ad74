--------------------------- MODULE TransferProofs ---------------------------
(***************************************************************************)
(* Proofs about Transfer: the numbers an import gives are faithful for     *)
(* every file, a complete remap file means a complete destination, an      *)
(* interrupted import leaves a store that opens, and an import reproduces  *)
(* the store that was exported.                                            *)
(***************************************************************************)
EXTENDS Transfer, LogicalReplayProofs

USE TransferAssumption

(***************************************************************************)
(* The map so far and the numbers that are left: every number given is     *)
(* below the next one, which is why none is given twice.                   *)
(***************************************************************************)
Numbering ==
    /\ next \in Nat
    /\ next >= FirstFree
    /\ foreign \subseteq Nat
    /\ foreign \cap DOMAIN remap = {}
    /\ Builtin \subseteq DOMAIN remap
    /\ \A b \in Builtin : remap[b] = b
    /\ \A t \in DOMAIN remap \ Builtin :
          remap[t] \in Nat /\ FirstFree <= remap[t] /\ remap[t] < next /\ remap[t] # t
    /\ \A t, u \in DOMAIN remap : remap[t] = remap[u] => t = u

(***************************************************************************)
(* Every identity of the file has a number or will get one.                *)
(***************************************************************************)
Naming ==
    /\ Range(imported) \subseteq Record
    /\ Identities(Range(imported)) \subseteq DOMAIN remap \cup foreign
    /\ pc \notin {"idle", "open", "remap"} => foreign = {}

(***************************************************************************)
(* The destination that the import has opened is there, and cannot vanish  *)
(* if its path names a parent.                                             *)
(***************************************************************************)
Placed ==
    /\ made = "store"
    /\ "destination" \in named => anchored

(***************************************************************************)
(* The destination holds the renamed file durably and opens.               *)
(***************************************************************************)
Complete ==
    /\ foreign = {}
    /\ history = served
    /\ Records(served) = Range(Transformed)
    /\ Loads(served)

Writing ==
    /\ pc \in Steps
    /\ pc \notin {"idle", "open"} => Placed
    /\ pc \in {"persisted", "verify"} => history = served
    /\ pc \in {"inspect", "write", "sync"} => Complete

WholeFile == {"written", "synced", "durable"}

Artifact ==
    /\ DOMAIN artifact = {"state", "map"}
    /\ artifact.state \in {"absent", "torn"} \cup WholeFile
    /\ artifact.state # "absent" => pc \in {"idle", "sync"}
    /\ pc = "sync" => artifact.state = "written"
    /\ IF artifact.state \in WholeFile
         THEN /\ artifact.map = remap
              /\ made = "store" => Complete
              /\ "destination" \in named => made = "store" /\ anchored
         ELSE artifact.map = Builtins

TransferInv == Numbering /\ Naming /\ Writing /\ Artifact

-----------------------------------------------------------------------------
LEMMA FiveBuiltins == Builtin = 1..5 /\ FirstFree = 6
  BY DEF Builtin, FirstFree, BuiltinNames

LEMMA BuiltinsFaithful ==
    /\ DOMAIN Builtins = Builtin
    /\ \A b \in Builtin : Builtins[b] = b
  BY DEF Builtins

LEMMA StartOfNumbering ==
    ASSUME next = FirstFree, remap = Builtins, foreign \subseteq Nat,
           foreign \cap Builtin = {}
    PROVE  Numbering
  BY FiveBuiltins, BuiltinsFaithful DEF Numbering

(***************************************************************************)
(* The identities of parsed records are numbers.                           *)
(***************************************************************************)
LEMMA IdentitiesAreNumbers ==
    ASSUME NEW records, records \subseteq Record
    PROVE  Identities(records) \subseteq Nat
  BY DEF Identities, Things, PositsOf, Record

LEMMA NothingToName == Range(<<>>) = {} /\ Identities({}) = {}
  BY DEF Range, Identities, Things, PositsOf

LEMMA SameTransformed ==
    ASSUME UNCHANGED <<imported, remap>>
    PROVE  Transformed' = Transformed
  BY DEF Transformed, Renamed

LEMMA SameComplete ==
    ASSUME Complete, UNCHANGED <<imported, remap, foreign, served, history>>
    PROVE  Complete'
  BY SameTransformed DEF Complete

-----------------------------------------------------------------------------
LEMMA InitEstablishesInv == Init => TransferInv
<1> SUFFICES ASSUME Init PROVE TransferInv
  OBVIOUS
<1>1. Numbering
  BY StartOfNumbering DEF Init
<1>2. Naming
  BY NothingToName DEF Init, Naming
<1>3. Writing
  BY DEF Init, Writing, Steps
<1>4. Artifact
  BY DEF Init, Artifact, NoArtifact, WholeFile
<1> QED
  BY <1>1, <1>2, <1>3, <1>4 DEF TransferInv

(***************************************************************************)
(* A number is given to an identity that had none, and it is the next one. *)
(***************************************************************************)
LEMMA AssignKeepsNumbering ==
    ASSUME TransferInv, AssignNumber
    PROVE  Numbering' /\ Naming'
<1>1. PICK source \in foreign : ~Taken(source) /\ Assign(source)
  BY DEF AssignNumber
<1>2. /\ source \in Nat /\ source \notin DOMAIN remap /\ next # source
      /\ next \in Nat /\ next >= FirstFree
  BY <1>1 DEF TransferInv, Numbering, Taken
<1>3. /\ DOMAIN remap' = DOMAIN remap \cup {source}
      /\ remap'[source] = next
      /\ \A t \in DOMAIN remap : remap'[t] = remap[t]
      /\ foreign' = foreign \ {source}
      /\ next' = next + 1
  BY <1>1, <1>2 DEF Assign
<1>4. source \notin Builtin /\ Builtin = 1..5 /\ FirstFree = 6
  BY <1>2, FiveBuiltins DEF TransferInv, Numbering
<1>5. \A t \in DOMAIN remap : remap[t] \in Nat /\ remap[t] < next
  BY <1>2, <1>4 DEF TransferInv, Numbering
<1>6. Numbering'
  <2>1. /\ next' \in Nat /\ next' >= FirstFree
        /\ foreign' \subseteq Nat /\ foreign' \cap DOMAIN remap' = {}
        /\ Builtin \subseteq DOMAIN remap'
        /\ \A b \in Builtin : remap'[b] = b
    BY <1>2, <1>3, <1>4 DEF TransferInv, Numbering
  <2>2. \A t \in DOMAIN remap' \ Builtin :
           remap'[t] \in Nat /\ FirstFree <= remap'[t] /\ remap'[t] < next' /\ remap'[t] # t
    BY <1>2, <1>3, <1>4 DEF TransferInv, Numbering
  <2>3. \A t, u \in DOMAIN remap' : remap'[t] = remap'[u] => t = u
    BY <1>2, <1>3, <1>5 DEF TransferInv, Numbering
  <2> QED
    BY <2>1, <2>2, <2>3 DEF Numbering
<1>7. Naming'
  <2>1. imported' = imported /\ pc' = "remap"
    BY DEF AssignNumber
  <2> QED
    BY <2>1, <1>3 DEF TransferInv, Naming
<1> QED
  BY <1>6, <1>7

(***************************************************************************)
(* What an import starts with: the records of a file that parses.          *)
(***************************************************************************)
LEMMA FileIsRecords ==
    ASSUME NEW lines, InOrder(lines)
    PROVE  Range(Tail(lines)) \subseteq Record
<1>1. lines \in Seq({HeaderLine} \cup Record) /\ lines # <<>>
  BY DEF InOrder
<1>2. HeaderLine.kind = "header"
  BY DEF HeaderLine
<1>3. \A i \in 2..Len(lines) : lines[i] \in Record
  <2> SUFFICES ASSUME NEW i \in 2..Len(lines) PROVE lines[i] \in Record
    OBVIOUS
  <2>1. i \in DOMAIN lines /\ i # 1
    BY <1>1
  <2>2. lines[i].kind # "header"
    BY <2>1 DEF InOrder
  <2> QED
    BY <1>1, <1>2, <2>1, <2>2
<1>4. \A i \in DOMAIN Tail(lines) : Tail(lines)[i] = lines[i + 1] /\ i + 1 \in 2..Len(lines)
  BY <1>1
<1> QED
  BY <1>3, <1>4 DEF Range

LEMMA StartKeepsInv ==
    ASSUME TransferInv, StartImport
    PROVE  TransferInv'
<1>1. /\ pc' = "open" /\ next' = FirstFree /\ remap' = Builtins
      /\ artifact = NoArtifact /\ artifact' = artifact
      /\ imported' = Tail(export.lines)
      /\ foreign' = Identities(Range(imported')) \ Builtin
  BY DEF StartImport
<1>2. Range(imported') \subseteq Record
  BY <1>1, FileIsRecords DEF StartImport
<1>3. foreign' \subseteq Nat /\ foreign' \cap Builtin = {}
  BY <1>1, <1>2, IdentitiesAreNumbers
<1>4. Numbering'
  BY <1>1, <1>3, FiveBuiltins, BuiltinsFaithful DEF Numbering
<1>5. Naming'
  BY <1>1, <1>2, BuiltinsFaithful DEF Naming
<1>6. Writing'
  BY <1>1 DEF Writing, Steps
<1>7. Artifact'
  BY <1>1 DEF Artifact, NoArtifact, WholeFile
<1> QED
  BY <1>4, <1>5, <1>6, <1>7 DEF TransferInv

-----------------------------------------------------------------------------
(***************************************************************************)
(* While numbers are given there is neither a remap file nor a batch.      *)
(***************************************************************************)
LEMMA NumbersKeepInv ==
    ASSUME TransferInv, SkipNumber \/ AssignNumber \/ FinishRemap
    PROVE  TransferInv'
<1>1. /\ pc = "remap" /\ pc' \in {"remap", "append"}
      /\ UNCHANGED <<imported, artifact, made, named, anchored>>
  BY DEF SkipNumber, AssignNumber, FinishRemap, place
<1>2. artifact.state = "absent" /\ artifact.map = Builtins
  BY <1>1 DEF TransferInv, Artifact, WholeFile
<1>3. Writing' /\ Artifact'
  BY <1>1, <1>2 DEF TransferInv, Writing, Artifact, Steps, WholeFile, Placed
<1>4. Numbering' /\ Naming'
  <2>1. CASE SkipNumber
    <3>1. next' = next + 1 /\ UNCHANGED <<foreign, remap, imported, pc>>
      BY <2>1 DEF SkipNumber
    <3> QED
      BY <3>1, FiveBuiltins DEF TransferInv, Numbering, Naming
  <2>2. CASE AssignNumber
    BY <2>2, AssignKeepsNumbering
  <2>3. CASE FinishRemap
    BY <2>3 DEF FinishRemap, mapping, TransferInv, Numbering, Naming
  <2> QED
    BY <2>1, <2>2, <2>3
<1> QED
  BY <1>3, <1>4 DEF TransferInv

(***************************************************************************)
(* The steps that leave the file that was read and its map alone, and the  *)
(* part of the invariant that is then left to show.                        *)
(***************************************************************************)
LEMMA SameNaming ==
    ASSUME TransferInv, UNCHANGED <<imported, mapping>>,
           pc' \in {"idle", "open", "remap"} \/ pc \notin {"idle", "open", "remap"}
    PROVE  Numbering' /\ Naming'
  BY DEF TransferInv, Numbering, Naming, mapping

LEMMA LogKeepsInv ==
    ASSUME TransferInv,
           OpenDestination \/ PublishBatch \/ PersistBatch \/ AppendReturns \/ Verify
    PROVE  TransferInv'
<1>1. UNCHANGED <<imported, mapping, artifact>>
  BY DEF OpenDestination, PublishBatch, PersistBatch, AppendReturns, Verify
<1>2. /\ pc \in {"open", "append", "published", "persisted", "verify"}
      /\ pc' \in {"remap", "published", "persisted", "append", "verify", "inspect"}
      /\ pc = "open" => pc' = "remap"
  BY DEF OpenDestination, PublishBatch, PersistBatch, AppendReturns, Verify
<1>3. Numbering' /\ Naming'
  BY <1>1, <1>2, SameNaming
<1>4. /\ DOMAIN artifact = {"state", "map"}
      /\ artifact.state = "absent" /\ artifact.map = Builtins
  BY <1>2 DEF TransferInv, Artifact, WholeFile
<1>5. Artifact'
  BY <1>1, <1>2, <1>4 DEF Artifact, WholeFile
<1>7. Placed'
  <2>1. CASE OpenDestination
    BY <2>1 DEF OpenDestination, Placed
  <2>2. CASE ~OpenDestination
    <3>1. pc # "open" /\ UNCHANGED <<made, named, anchored>>
      BY <2>2 DEF PublishBatch, PersistBatch, AppendReturns, Verify, place
    <3> QED
      BY <3>1, <1>2 DEF TransferInv, Writing, Placed
  <2> QED
    BY <2>1, <2>2
<1>6. Writing'
  <2>1. CASE OpenDestination \/ PublishBatch
    <3>1. pc' \in {"remap", "published"}
      BY <2>1 DEF OpenDestination, PublishBatch
    <3> QED
      BY <3>1, <1>7 DEF Writing, Steps
  <2>2. CASE PersistBatch
    <3>1. pc' = "persisted" /\ history' = served /\ served' = served
      BY <2>2 DEF PersistBatch, Destination!Persist
    <3> QED
      BY <3>1, <1>7 DEF Writing, Steps
  <2>3. CASE AppendReturns
    <3>1. /\ pc = "persisted" /\ pc' \in {"append", "verify"}
          /\ history' = history /\ served' = served
      BY <2>3 DEF AppendReturns, Destination!Acknowledge
    <3> QED
      BY <3>1, <1>7 DEF TransferInv, Writing, Steps
  <2>4. CASE Verify
    <3>1. /\ pc = "verify" /\ pc' = "inspect"
          /\ UNCHANGED <<history, served, imported, remap, foreign>>
          /\ Loads(served) /\ Records(served) = Range(Transformed)
      BY <2>4 DEF Verify, log, mapping
    <3>2. Complete
      BY <3>1 DEF TransferInv, Naming, Writing, Complete
    <3>3. Complete'
      BY <3>1, <3>2, SameComplete
    <3> QED
      BY <3>1, <3>3, <1>7 DEF Writing, Steps
  <2> QED
    BY <2>1, <2>2, <2>3, <2>4
<1> QED
  BY <1>3, <1>5, <1>6 DEF TransferInv

(***************************************************************************)
(* From the inspection on, the destination is complete and stays so.       *)
(***************************************************************************)
LEMMA RemapFileKeepsInv ==
    ASSUME TransferInv, Inspect \/ WriteRemap \/ SyncRemap
    PROVE  TransferInv'
<1>1. /\ UNCHANGED <<imported, mapping, log, place>>
      /\ pc \in {"inspect", "write", "sync"} /\ pc' \in {"write", "sync", "idle"}
  BY DEF Inspect, WriteRemap, SyncRemap
<1>2. Numbering' /\ Naming'
  BY <1>1, SameNaming
<1>3. Complete /\ Complete'
  BY <1>1, SameComplete DEF TransferInv, Writing, mapping, log
<1>6. Placed /\ Placed'
  BY <1>1 DEF TransferInv, Writing, Placed, place
<1>4. Writing'
  BY <1>1, <1>3, <1>6 DEF Writing, Steps
<1>7. DOMAIN artifact = {"state", "map"}
  BY DEF TransferInv, Artifact
<1>5. Artifact'
  <2>1. CASE Inspect
    <3>1. /\ artifact.state = "absent" /\ artifact.map = Builtins
          /\ artifact' = artifact /\ pc' = "write"
      BY <2>1 DEF Inspect, TransferInv, Artifact, WholeFile
    <3> QED
      BY <3>1, <1>7 DEF Artifact, WholeFile
  <2>2. CASE WriteRemap
    <3>1. /\ DOMAIN artifact' = {"state", "map"}
          /\ artifact'.state = "written" /\ artifact'.map = remap /\ remap' = remap
          /\ pc' = "sync"
      BY <2>2 DEF WriteRemap, mapping
    <3> QED
      BY <3>1, <1>3, <1>6 DEF Artifact, WholeFile, Placed
  <2>3. CASE SyncRemap
    <3>1. pc = "sync" /\ pc' = "idle" /\ remap' = remap
      BY <2>3 DEF SyncRemap, mapping
    <3>2. artifact.state = "written" /\ artifact.map = remap
      BY <3>1 DEF TransferInv, Artifact, WholeFile
    <3>3. /\ DOMAIN artifact' = {"state", "map"}
          /\ artifact'.map = remap /\ artifact'.state \in {"synced", "durable"}
      <4>1. artifact' = [artifact EXCEPT !.state =
                           IF "remap" \in named THEN "durable" ELSE "synced"]
        BY <2>3 DEF SyncRemap
      <4> QED
        BY <3>2, <4>1, <1>7
    <3> QED
      BY <3>1, <3>3, <1>3, <1>6 DEF Artifact, WholeFile, Placed
  <2> QED
    BY <2>1, <2>2, <2>3
<1> QED
  BY <1>2, <1>4, <1>5 DEF TransferInv

LEMMA StopKeepsInv ==
    ASSUME TransferInv, ImportStops \/ PowerLoss
    PROVE  TransferInv'
<1>1. UNCHANGED <<imported, mapping>> /\ pc' = "idle"
  BY DEF ImportStops, PowerLoss
<1>2. Numbering' /\ Naming'
  BY <1>1, SameNaming
<1>3. Writing'
  BY <1>1 DEF Writing, Steps
<1>4. Complete /\ made' = "store" => Complete'
  <2> SUFFICES ASSUME Complete, made' = "store" PROVE Complete'
    OBVIOUS
  <2>1. history = served
    BY DEF Complete
  <2>2. UNCHANGED <<history, served>>
    BY <2>1 DEF ImportStops, PowerLoss, DestinationSurvives, DestinationVanishes, log,
       Destination!Revert, Destination!Persist
  <2> QED
    BY <1>1, <2>2, SameComplete DEF mapping
<1>5. \/ artifact' \in {NoArtifact, Torn}
      \/ /\ DOMAIN artifact' = {"state", "map"} /\ artifact'.map = artifact.map
         /\ artifact'.state \in {"absent", "torn"} \cup WholeFile
         /\ artifact'.state \in WholeFile <=> artifact.state \in WholeFile
  <2>1. DOMAIN artifact = {"state", "map"}
        /\ artifact.state \in {"absent", "torn"} \cup WholeFile
    BY DEF TransferInv, Artifact
  <2>2. CASE artifact' \in {artifact, NoArtifact, Torn}
    BY <2>1, <2>2
  <2>3. CASE artifact' = [artifact EXCEPT !.state = "durable"]
             /\ artifact.state \in {"written", "synced"}
    BY <2>1, <2>3 DEF WholeFile
  <2> QED
    BY <2>2, <2>3 DEF ImportStops, PowerLoss, RemapSurvives, RemapSuffers
<1>6. /\ DOMAIN NoArtifact = {"state", "map"} /\ DOMAIN Torn = {"state", "map"}
      /\ NoArtifact.state = "absent" /\ NoArtifact.map = Builtins
      /\ Torn.state = "torn" /\ Torn.map = Builtins
  BY DEF NoArtifact, Torn
<1>8. ASSUME artifact.state \in WholeFile
      PROVE  /\ made' = "store" => made = "store"
             /\ "destination" \in named' => made' = "store" /\ anchored'
  <2>1. "destination" \in named => made = "store" /\ anchored
    BY <1>8 DEF TransferInv, Artifact
  <2>2. CASE ImportStops
    <3>1. pc # "open" /\ UNCHANGED <<made, named, anchored>>
      BY <1>8, <2>2 DEF ImportStops, TransferInv, Artifact, WholeFile
    <3> QED
      BY <2>1, <3>1
  <2>3. CASE PowerLoss
    BY <2>1, <2>3 DEF PowerLoss, DestinationSurvives, DestinationVanishes
  <2> QED
    BY <2>2, <2>3
<1>7. Artifact'
  <2>1. CASE artifact' \in {NoArtifact, Torn}
    BY <2>1, <1>1, <1>6 DEF Artifact, WholeFile, mapping
  <2>2. CASE artifact'.state \notin WholeFile /\ artifact' \notin {NoArtifact, Torn}
    BY <2>2, <1>1, <1>5 DEF TransferInv, Artifact, mapping
  <2>3. CASE artifact'.state \in WholeFile /\ artifact' \notin {NoArtifact, Torn}
    <3>1. /\ artifact.state \in WholeFile
          /\ DOMAIN artifact' = {"state", "map"} /\ artifact'.map = artifact.map
      BY <2>3, <1>5
    <3>2. artifact'.map = remap'
      BY <3>1, <1>1 DEF TransferInv, Artifact, mapping
    <3>3. made' = "store" => Complete'
      BY <3>1, <1>4, <1>8 DEF TransferInv, Artifact
    <3> QED
      BY <2>3, <3>1, <3>2, <3>3, <1>1, <1>8 DEF Artifact
  <2> QED
    BY <2>1, <2>2, <2>3
<1> QED
  BY <1>2, <1>3, <1>7 DEF TransferInv

LEMMA RestKeepsInv ==
    ASSUME TransferInv,
           \/ ExportStore \/ ExportStops \/ ReceiveFile \/ RemoveExport
           \/ RemoveDestination \/ UNCHANGED vars
    PROVE  TransferInv'
<1>1. CASE RemoveDestination
  <2>1. /\ pc = "idle" /\ pc' = "idle" /\ imported' = <<>> /\ foreign' = {}
        /\ next' = FirstFree /\ remap' = Builtins /\ artifact' = NoArtifact
    BY <1>1 DEF RemoveDestination
  <2>2. Numbering'
    BY <2>1, FiveBuiltins, BuiltinsFaithful DEF Numbering
  <2>3. Naming'
    BY <2>1, NothingToName DEF Naming
  <2>4. Writing' /\ Artifact'
    BY <2>1 DEF Writing, Artifact, Steps, NoArtifact, WholeFile
  <2> QED
    BY <2>2, <2>3, <2>4 DEF TransferInv
<1>2. CASE ~RemoveDestination
  <2>1. UNCHANGED <<pc, imported, mapping, log, artifact, place>>
    BY <1>2 DEF ExportStore, ExportStops, ReceiveFile, RemoveExport, vars
  <2>2. Numbering' /\ Naming'
    BY <2>1 DEF TransferInv, Numbering, Naming, mapping
  <2>3. Complete => Complete'
    BY <2>1, SameComplete DEF mapping, log
  <2>4. Writing' /\ Artifact'
    BY <2>1, <2>3 DEF TransferInv, Writing, Artifact, Placed, mapping, log, place
  <2> QED
    BY <2>2, <2>4 DEF TransferInv
<1> QED
  BY <1>1, <1>2

LEMMA TransferStep == TransferInv /\ [Next]_vars => TransferInv'
  BY StartKeepsInv, NumbersKeepInv, LogKeepsInv, RemapFileKeepsInv, StopKeepsInv,
     RestKeepsInv DEF Next

LEMMA TransferInvariant == Spec => []TransferInv
  BY InitEstablishesInv, TransferStep, PTL DEF Spec

-----------------------------------------------------------------------------
(***************************************************************************)
(* For every file and every store: no two identities get the same number,  *)
(* the built-in roles keep theirs, and no other identity keeps its own.    *)
(***************************************************************************)
THEOREM RemapAlwaysFaithful == Spec => []RemapIsFaithful
<1>1. TransferInv => RemapIsFaithful
  <2> SUFFICES ASSUME TransferInv PROVE RemapIsFaithful
    OBVIOUS
  <2>1. Faithful(remap)
    BY DEF TransferInv, Numbering, Faithful
  <2>2. Faithful(Builtins)
    BY BuiltinsFaithful DEF Faithful
  <2>3. artifact.map \in {remap, Builtins}
    BY DEF TransferInv, Artifact
  <2> QED
    BY <2>1, <2>2, <2>3 DEF RemapIsFaithful
<1> QED
  BY <1>1, TransferInvariant, PTL

(***************************************************************************)
(* Renaming changes identities only.                                       *)
(***************************************************************************)
LEMMA RenamingIsUnderMap ==
    ASSUME NEW copy, Range(imported) \subseteq Record,
           Identities(Range(imported)) \subseteq DOMAIN remap,
           copy = Range(Transformed)
    PROVE  SameUnder(remap, Range(imported), copy)
<1> DEFINE all == Range(imported)
<1>1. copy = {Renamed(r) : r \in all}
  BY DEF Range, Transformed
<1>2. \A r \in all : r.kind \in {"role", "posit"}
  BY DEF Record
<1>3. \A r \in all : r.kind = "role" =>
         Renamed(r).kind = "role" /\ Renamed(r).id = remap[r.id] /\ Renamed(r).name = r.name
  BY DEF Renamed, NewRole
<1>4. \A r \in all : r.kind = "posit" =>
         /\ Renamed(r).kind = "posit" /\ Renamed(r).id = remap[r.id]
         /\ Renamed(r).appearances = {<<remap[a[1]], remap[a[2]]>> : a \in r.appearances}
         /\ Renamed(r).value = r.value
  BY DEF Renamed, NewPosit
<1> HIDE DEF all
<1>5. RolesOf(copy) = {Renamed(r) : r \in RolesOf(all)}
  BY <1>1, <1>2, <1>3, <1>4 DEF RolesOf
<1>6. PositsOf(copy) = {Renamed(r) : r \in PositsOf(all)}
  BY <1>1, <1>2, <1>3, <1>4 DEF PositsOf
<1>7. {<<r.id, r.name>> : r \in RolesOf(copy)}
         = {<<remap[r.id], r.name>> : r \in RolesOf(all)}
  <2>1. \A r \in RolesOf(all) : <<Renamed(r).id, Renamed(r).name>> = <<remap[r.id], r.name>>
    BY <1>3 DEF RolesOf
  <2> QED
    BY <1>5, <2>1
<1>8. {<<p.id, p.appearances, p.value>> : p \in PositsOf(copy)}
         = {<<remap[p.id], {<<remap[a[1]], remap[a[2]]>> : a \in p.appearances}, p.value>> :
               p \in PositsOf(all)}
  <2>1. \A p \in PositsOf(all) :
           <<Renamed(p).id, Renamed(p).appearances, Renamed(p).value>>
             = <<remap[p.id], {<<remap[a[1]], remap[a[2]]>> : a \in p.appearances}, p.value>>
    BY <1>4 DEF PositsOf
  <2> DEFINE Shape(p) == <<p.id, p.appearances, p.value>>
             Wanted(p) == <<remap[p.id],
                            {<<remap[a[1]], remap[a[2]]>> : a \in p.appearances}, p.value>>
  <2>2. \A p \in PositsOf(all) : Shape(Renamed(p)) = Wanted(p)
    BY <2>1
  <2> HIDE DEF Shape, Wanted
  <2>3. {Shape(p) : p \in PositsOf(copy)} = {Wanted(p) : p \in PositsOf(all)}
    BY <1>6, <2>2
  <2> QED
    BY <2>3 DEF Shape, Wanted
<1> QED
  BY <1>7, <1>8 DEF SameUnder, all

LEMMA RemapFileIsComplete == TransferInv => RemapFileMeansComplete
<1> SUFFICES ASSUME TransferInv, artifact.state \in WholeFile
             PROVE  /\ made = "store" =>
                          /\ SameUnder(artifact.map, Range(imported), Records(history))
                          /\ Loads(history)
                    /\ "destination" \in named => made = "store" /\ anchored
  BY DEF RemapFileMeansComplete, WholeFile
<1>1. /\ artifact.map = remap
      /\ made = "store" => Complete
      /\ "destination" \in named => made = "store" /\ anchored
  BY DEF TransferInv, Artifact
<1>2. ASSUME made = "store"
      PROVE  /\ SameUnder(remap, Range(imported), Records(history))
             /\ Loads(history)
  <2>1. Complete
    BY <1>1, <1>2
  <2>2. /\ Range(imported) \subseteq Record
        /\ Identities(Range(imported)) \subseteq DOMAIN remap
    BY <2>1 DEF TransferInv, Naming, Complete
  <2> QED
    BY <2>1, <2>2, RenamingIsUnderMap DEF Complete
<1> QED
  BY <1>1, <1>2

(***************************************************************************)
(* Wherever an import, its errors or a power failure ended: where a remap  *)
(* file is complete, the destination, if it is there, holds the whole file *)
(* durably and opens; and it is there if its path names a parent.          *)
(***************************************************************************)
THEOREM RemapFileAlwaysMeansComplete == Spec => []RemapFileMeansComplete
  BY RemapFileIsComplete, TransferInvariant, PTL

-----------------------------------------------------------------------------
(***************************************************************************)
(* What an import has read is a file that validate_imported let through.   *)
(***************************************************************************)
RolesFirst(records) ==
    \A i \in DOMAIN records : records[i].kind = "role" =>
        \A j \in 1..i : records[j].kind = "role"

ImportInv ==
    /\ imported \in Seq(Record)
    /\ imported # <<>> => Validate(imported) /\ RolesFirst(imported)

(***************************************************************************)
(* The destination holds the first n records of the file, renamed, and all *)
(* roles of the file if it holds anything.                                 *)
(***************************************************************************)
Copied(batches, n) ==
    /\ batches \in Seq(Seq(Record))
    /\ IsFiniteSet(Positions(batches))
    /\ Cardinality(Positions(batches)) = n
    /\ Records(batches) = {Transformed[i] : i \in 1..n}
    /\ ReplayAccepts(batches)
    /\ batches # <<>> => RoleCount <= n

CopyInv ==
    \A batches \in {served, history} :
        /\ batches # <<>> => foreign = {}
        /\ \E n \in 0..Len(imported) : Copied(batches, n)

(***************************************************************************)
(* Nothing is written before the map is complete.                          *)
(***************************************************************************)
MadeInv ==
    /\ made = "absent" \/ pc \in {"open", "remap"} => served = <<>> /\ history = <<>>
    /\ pc \notin {"idle", "open"} => made # "absent"

(***************************************************************************)
(* Smaller identities are given smaller numbers, apart from the built-in   *)
(* roles, which keep theirs.                                               *)
(***************************************************************************)
OrderInv ==
    /\ DOMAIN remap \subseteq Nat
    /\ \A t, u \in DOMAIN remap \ Builtin : t < u => remap[t] < remap[u]
    /\ \A t \in DOMAIN remap \ Builtin : \A u \in foreign : t < u

ExportInv ==
    export.done => export.store \in Stores /\ export.lines = ExportOf(export.store)

ReportInv == reported /\ "remap" \in named => artifact.state = "durable"

-----------------------------------------------------------------------------
(***************************************************************************)
(* Renaming, once every identity has a number.                             *)
(***************************************************************************)
Named ==
    /\ Numbering
    /\ imported \in Seq(Record)
    /\ Identities(Range(imported)) \subseteq DOMAIN remap

LEMMA NumbersApart ==
    ASSUME Named
    PROVE  /\ \A t \in DOMAIN remap : remap[t] \in Nat /\ remap[t] # 0
           /\ \A t, u \in DOMAIN remap : remap[t] = remap[u] => t = u
           /\ \A r \in Range(imported) :
                 /\ r \in Record /\ r.id \in DOMAIN remap
                 /\ r.kind = "posit" => \A a \in r.appearances :
                       a \in Nat \X Nat /\ a[1] \in DOMAIN remap /\ a[2] \in DOMAIN remap
<1>1. \A t \in DOMAIN remap : remap[t] \in Nat /\ remap[t] # 0
  <2>1. \A t \in Builtin : remap[t] \in Nat /\ remap[t] # 0
    BY FiveBuiltins DEF Named, Numbering
  <2>2. \A t \in DOMAIN remap \ Builtin : remap[t] \in Nat /\ remap[t] # 0
    BY FiveBuiltins DEF Named, Numbering
  <2> QED
    BY <2>1, <2>2
<1>2. ASSUME NEW r \in Range(imported)
      PROVE  /\ r \in Record /\ r.id \in DOMAIN remap
             /\ r.kind = "posit" => \A a \in r.appearances :
                   a \in Nat \X Nat /\ a[1] \in DOMAIN remap /\ a[2] \in DOMAIN remap
  <2>1. r \in Record
    BY DEF Named, Range
  <2>2. r.id \in Identities(Range(imported))
    BY DEF Identities, Things
  <2>3. ASSUME r.kind = "posit", NEW a \in r.appearances
        PROVE  /\ a \in Nat \X Nat
               /\ a[1] \in Identities(Range(imported))
               /\ a[2] \in Identities(Range(imported))
    <3>1. r \in PositsOf(Range(imported))
      BY <2>3 DEF PositsOf
    <3>2. a[2] \in Things(Range(imported))
      BY <3>1, ThingsAre
    <3> QED
      BY <2>1, <2>3, <3>1, <3>2 DEF Identities, Record
  <2> QED
    BY <2>1, <2>2, <2>3 DEF Named
<1>3. \A t, u \in DOMAIN remap : remap[t] = remap[u] => t = u
  BY DEF Named, Numbering
<1> QED
  BY <1>1, <1>2, <1>3

LEMMA RenamedIs ==
    ASSUME Named, NEW r \in Range(imported)
    PROVE  LET s == Renamed(r) IN
           /\ s \in Record /\ s.kind = r.kind /\ s.id = remap[r.id]
           /\ r.kind \in {"role", "posit"}
           /\ r.kind = "role" => s.name = r.name
           /\ r.kind = "posit" =>
                 /\ s.appearances = {<<remap[a[1]], remap[a[2]]>> : a \in r.appearances}
                 /\ s.value = r.value
<1>1. /\ r \in Record /\ r.id \in DOMAIN remap /\ remap[r.id] \in Nat
      /\ r.kind = "posit" => \A a \in r.appearances :
            remap[a[1]] \in Nat /\ remap[a[2]] \in Nat
  BY NumbersApart
<1>2. CASE r \in [kind: {"role"}, id: Nat, name: STRING]
  <2>1. r.kind = "role" /\ r.name \in STRING
    BY <1>2
  <2>2. Renamed(r) = NewRole(remap[r.id], r.name)
    BY <2>1 DEF Renamed
  <2> QED
    BY <1>1, <2>1, <2>2 DEF NewRole, Record
<1>3. CASE r \in [kind: {"posit"}, id: Nat, appearances: SUBSET (Nat \X Nat), value: STRING]
  <2> DEFINE A == {<<remap[a[1]], remap[a[2]]>> : a \in r.appearances}
  <2>1. r.kind = "posit" /\ r.value \in STRING
    BY <1>3
  <2>2. Renamed(r) = NewPosit(remap[r.id], <<A, r.value>>)
    BY <2>1 DEF Renamed
  <2>3. A \subseteq Nat \X Nat
    BY <1>1, <2>1
  <2> HIDE DEF A
  <2>4. Renamed(r) = [kind |-> "posit", id |-> remap[r.id], appearances |-> A, value |-> r.value]
    BY <2>2 DEF NewPosit
  <2>5. Renamed(r) \in Record
    BY <2>1, <2>3, <2>4, <1>1 DEF Record
  <2> QED
    BY <2>1, <2>4, <2>5 DEF A
<1> QED
  BY <1>1, <1>2, <1>3 DEF Record

(***************************************************************************)
(* Records that do not conflict do not conflict under their new names.     *)
(***************************************************************************)
LEMMA RenamedApart ==
    ASSUME Named, NEW r \in Range(imported), NEW s \in Range(imported), ~Conflict(r, s)
    PROVE  ~Conflict(Renamed(r), Renamed(s))
<1> DEFINE A(q) == {<<remap[a[1]], remap[a[2]]>> : a \in q.appearances}
<1>1. Renamed(r).id # Renamed(s).id
  BY RenamedIs, NumbersApart DEF Conflict
<1>2. r.kind = "role" /\ s.kind = "role" => Renamed(r).name # Renamed(s).name
  BY RenamedIs DEF Conflict
<1>3. ASSUME NEW p \in Range(imported), NEW q \in Range(imported),
             p.kind = "posit", q.kind = "posit", A(p) = A(q)
      PROVE  p.appearances \subseteq q.appearances
  <2> SUFFICES ASSUME NEW a \in p.appearances PROVE a \in q.appearances
    OBVIOUS
  <2>1. <<remap[a[1]], remap[a[2]]>> \in A(q)
    BY <1>3
  <2>2. PICK b \in q.appearances : <<remap[a[1]], remap[a[2]]>> = <<remap[b[1]], remap[b[2]]>>
    BY <2>1
  <2>3. /\ a \in Nat \X Nat /\ a[1] \in DOMAIN remap /\ a[2] \in DOMAIN remap
        /\ b \in Nat \X Nat /\ b[1] \in DOMAIN remap /\ b[2] \in DOMAIN remap
    BY <1>3, NumbersApart
  <2>4. a[1] = b[1] /\ a[2] = b[2]
    BY <2>2, <2>3, NumbersApart
  <2>5. a = b
    BY <2>3, <2>4
  <2> QED
    BY <2>5
<1>4. ASSUME r.kind = "posit", s.kind = "posit"
      PROVE  Proposition(Renamed(r)) # Proposition(Renamed(s))
  <2>1. Proposition(r) # Proposition(s)
    BY <1>4 DEF Conflict
  <2>2. r.appearances # s.appearances \/ r.value # s.value
    BY <2>1 DEF Proposition
  <2>3. /\ Renamed(r).appearances = A(r) /\ Renamed(r).value = r.value
        /\ Renamed(s).appearances = A(s) /\ Renamed(s).value = s.value
    BY <1>4, RenamedIs
  <2>4. A(r) = A(s) => r.appearances = s.appearances
    BY <1>3, <1>4
  <2> HIDE DEF A
  <2> QED
    BY <2>2, <2>3, <2>4 DEF Proposition
<1>5. Renamed(r).kind = r.kind /\ Renamed(s).kind = s.kind
  BY RenamedIs
<1> QED
  BY <1>1, <1>2, <1>4, <1>5 DEF Conflict

LEMMA RenamedIsCanonical ==
    ASSUME Named, Validate(imported), NEW r \in Range(imported)
    PROVE  Canonical(Renamed(r))
<1>1. Renamed(r).id # 0
  BY RenamedIs, NumbersApart
<1>2. CASE r.kind = "posit"
  <2> DEFINE s == Renamed(r)
  <2>1. s.kind = "posit"
        /\ s.appearances = {<<remap[a[1]], remap[a[2]]>> : a \in r.appearances}
    BY <1>2, RenamedIs
  <2> HIDE DEF s
  <2>2. r.appearances # {} /\ \A a, b \in r.appearances : a[1] = b[1] => a = b
    BY <1>2 DEF Validate, PositsOf
  <2>3. \A a \in r.appearances :
            /\ a[1] \in DOMAIN remap /\ a[2] \in DOMAIN remap
            /\ remap[a[1]] # 0 /\ remap[a[2]] # 0
    BY <1>2, NumbersApart
  <2>4. \A c \in s.appearances : \E a \in r.appearances : c = <<remap[a[1]], remap[a[2]]>>
    BY <2>1
  <2>5. s.appearances # {}
    <3>1. PICK a : a \in r.appearances
      BY <2>2
    <3>2. <<remap[a[1]], remap[a[2]]>> \in s.appearances
      BY <2>1, <3>1
    <3> QED
      BY <3>2
  <2>6. \A c \in s.appearances : c[1] # 0 /\ c[2] # 0
    BY <2>3, <2>4
  <2>7. ASSUME NEW c \in s.appearances, NEW d \in s.appearances, c[1] = d[1] PROVE c = d
    <3>1. PICK a \in r.appearances : c = <<remap[a[1]], remap[a[2]]>>
      BY <2>4
    <3>2. PICK b \in r.appearances : d = <<remap[b[1]], remap[b[2]]>>
      BY <2>4
    <3>3. a[1] = b[1]
      BY <2>3, <2>7, <3>1, <3>2, NumbersApart
    <3> QED
      BY <2>2, <3>1, <3>2, <3>3
  <2> QED
    BY <1>1, <2>5, <2>6, <2>7 DEF Canonical, s
<1>3. CASE r.kind # "posit"
  BY <1>1, <1>3, RenamedIs DEF Canonical
<1> QED
  BY <1>2, <1>3

-----------------------------------------------------------------------------
(***************************************************************************)
(* The file, record by record: its roles come first, the built-in ones     *)
(* among them.                                                             *)
(***************************************************************************)
LEMMA FileIs ==
    ASSUME ImportInv, imported # <<>>
    PROVE  /\ Len(imported) \in Nat /\ DOMAIN imported = 1..Len(imported)
           /\ DOMAIN Transformed = 1..Len(imported)
           /\ \A i \in 1..Len(imported) :
                 /\ imported[i] \in Range(imported)
                 /\ Transformed[i] = Renamed(imported[i])
                 /\ imported[i].kind = "role" <=> i <= RoleCount
           /\ RoleCount \in 1..Len(imported)
           /\ \A i, j \in 1..Len(imported) : i < j => ~Conflict(imported[i], imported[j])
<1> DEFINE S == {i \in DOMAIN imported : imported[i].kind = "role"}
<1>1. Len(imported) \in Nat /\ DOMAIN imported = 1..Len(imported)
  BY DEF ImportInv
<1>2. /\ DOMAIN Transformed = 1..Len(imported)
      /\ \A i \in 1..Len(imported) : Transformed[i] = Renamed(imported[i])
  BY <1>1 DEF Transformed
<1>3. Cardinality(S) \in 0..Len(imported) /\ S = 1..Cardinality(S)
  <2>1. S \in SUBSET (1..Len(imported))
    BY <1>1
  <2>2. \A i \in S : \A j \in 1..i : j \in S
    BY <1>1 DEF ImportInv, RolesFirst
  <2> HIDE DEF S
  <2> QED
    BY <2>1, <2>2, <1>1, ClosedIsInterval
<1>4. RoleCount = Cardinality(S)
  BY DEF RoleCount
<1>5. S # {}
  <2>1. PICK r : r \in Range(Bootstrap)
    BY BootstrapFits
  <2>2. r \in Range(imported)
    BY <2>1 DEF ImportInv, Validate
  <2>3. PICK i \in DOMAIN imported : imported[i] = r
    BY <2>2 DEF Range
  <2>4. r.kind = "role"
    BY <2>1 DEF Bootstrap, NewRole, Range
  <2> QED
    BY <2>3, <2>4
<1>6. RoleCount \in 1..Len(imported)
  <2> HIDE DEF S
  <2> QED
    BY <1>1, <1>3, <1>4, <1>5
<1>7. ASSUME NEW i \in 1..Len(imported)
      PROVE  imported[i].kind = "role" <=> i <= RoleCount
  <2>1. imported[i].kind = "role" <=> i \in S
    BY <1>1
  <2> HIDE DEF S
  <2>2. i \in S <=> i <= RoleCount
    BY <1>1, <1>3, <1>4, <1>6
  <2> QED
    BY <2>1, <2>2
<1>8. \A i \in 1..Len(imported) : imported[i] \in Range(imported)
  BY <1>1 DEF Range
<1>9. \A i, j \in 1..Len(imported) : i < j => ~Conflict(imported[i], imported[j])
  BY <1>1 DEF ImportInv, Validate
<1> QED
  BY <1>1, <1>2, <1>6, <1>7, <1>8, <1>9

(***************************************************************************)
(* A part of the renamed file.                                             *)
(***************************************************************************)
LEMMA PartOfFile ==
    ASSUME Named, ImportInv, imported # <<>>,
           NEW n \in 0..Len(imported), NEW hi \in (n + 1)..Len(imported)
    PROVE  LET x == SubSeq(Transformed, n + 1, hi) IN
           /\ x \in Seq(Record) /\ Len(x) = hi - n /\ DOMAIN x = 1..(hi - n)
           /\ \A k \in DOMAIN x : x[k] = Transformed[n + k] /\ n + k \in (n + 1)..hi
           /\ Range(x) = {Transformed[i] : i \in (n + 1)..hi}
<1> DEFINE x == SubSeq(Transformed, n + 1, hi)
<1>1. Len(imported) \in Nat /\ n \in Nat /\ hi \in Nat /\ n < hi /\ hi <= Len(imported)
  BY DEF ImportInv
<1>2. Transformed \in [1..Len(imported) -> Record]
  <2>1. DOMAIN Transformed = 1..Len(imported)
        /\ \A i \in 1..Len(imported) : Transformed[i] \in Record
    BY FileIs, RenamedIs
  <2> QED
    BY <2>1 DEF Transformed
<1>3. Transformed \in Seq(Record) /\ Len(Transformed) = Len(imported)
  BY <1>1, <1>2
<1>4. /\ x \in Seq(Record) /\ Len(x) = hi - n /\ DOMAIN x = 1..(hi - n)
      /\ \A k \in 1..(hi - n) : x[k] = Transformed[n + k]
  BY <1>1, <1>3
<1> HIDE DEF x
<1>5. \A k \in DOMAIN x : x[k] = Transformed[n + k] /\ n + k \in (n + 1)..hi
  BY <1>1, <1>4
<1>6. \A i \in (n + 1)..hi : i - n \in DOMAIN x /\ x[i - n] = Transformed[i]
  BY <1>1, <1>4
<1>7. Range(x) = {Transformed[i] : i \in (n + 1)..hi}
  BY <1>5, <1>6 DEF Range
<1> QED
  BY <1>4, <1>5, <1>7 DEF x

(***************************************************************************)
(* The next part of the file fits behind the parts before it.              *)
(***************************************************************************)
LEMMA PartFits ==
    ASSUME Named, ImportInv, imported # <<>>, NEW batches,
           NEW n \in 0..Len(imported), Copied(batches, n),
           NEW hi \in (n + 1)..Len(imported),
           RoleCount <= hi,
           batches = <<>> => hi = RoleCount
    PROVE  Copied(Append(batches, SubSeq(Transformed, n + 1, hi)), hi)
<1> DEFINE x == SubSeq(Transformed, n + 1, hi)
           B == Append(batches, x)
           N == Len(imported)
<1>1. /\ N \in Nat /\ n \in Nat /\ hi \in Nat /\ n < hi /\ hi <= N
      /\ RoleCount \in 1..N
      /\ \A i \in 1..N :
            /\ imported[i] \in Range(imported)
            /\ Transformed[i] = Renamed(imported[i])
            /\ imported[i].kind = "role" <=> i <= RoleCount
      /\ \A i, j \in 1..N : i < j => ~Conflict(imported[i], imported[j])
  BY FileIs DEF ImportInv
<1>2. /\ x \in Seq(Record) /\ Len(x) = hi - n
      /\ \A k \in DOMAIN x : x[k] = Transformed[n + k] /\ n + k \in (n + 1)..hi /\ k \in 1..(hi - n)
      /\ Range(x) = {Transformed[i] : i \in (n + 1)..hi}
  BY PartOfFile
<1>3. /\ batches \in Seq(Seq(Record)) /\ ReplayAccepts(batches)
      /\ IsFiniteSet(Positions(batches)) /\ Cardinality(Positions(batches)) = n
      /\ Records(batches) = {Transformed[i] : i \in 1..n}
      /\ batches # <<>> => RoleCount <= n
  BY DEF Copied
<1>4. batches = <<>> => n = 0
  <2>1. Positions(<<>>) = {}
    BY DEF Positions
  <2> QED
    BY <2>1, <1>3, FS_EmptySet
<1> HIDE DEF x, N
<1>5. \A i, j \in 1..N : i < j => ~Conflict(Transformed[i], Transformed[j])
  BY <1>1, RenamedApart
<1>6. \A i \in 1..N : Canonical(Transformed[i])
  <2>1. Validate(imported)
    BY DEF ImportInv
  <2> QED
    BY <2>1, <1>1, RenamedIsCanonical
<1>7. \A i \in 1..n : i \in 1..N
  BY <1>1
<1>8. \A k \in DOMAIN x : n + k \in 1..N
  BY <1>1, <1>2
<1>9. Fits(batches, x)
  <2>1. \A k \in DOMAIN x : Canonical(x[k])
    BY <1>2, <1>6, <1>8
  <2>2. ASSUME NEW r \in Records(batches), NEW k \in DOMAIN x PROVE ~Conflict(r, x[k])
    <3>1. PICK i \in 1..n : r = Transformed[i]
      BY <1>3
    <3>2. i < n + k /\ i \in 1..N /\ n + k \in 1..N
      BY <1>1, <1>2, <1>7, <1>8
    <3> QED
      BY <3>1, <3>2, <1>2, <1>5
  <2>3. ASSUME NEW k \in DOMAIN x, NEW l \in DOMAIN x, k < l PROVE ~Conflict(x[k], x[l])
    <3>1. n + k < n + l
      BY <2>3, <1>1, <1>2
    <3> QED
      BY <3>1, <1>2, <1>5, <1>8
  <2>4. ASSUME NEW k \in DOMAIN x, x[k].kind = "posit", NEW a \in x[k].appearances
        PROVE  \E r \in RolesOf(Records(batches)) : r.id = a[1]
    <3> DEFINE p == imported[n + k]
    <3>1. p \in Range(imported) /\ x[k] = Renamed(p) /\ n + k \in 1..N
      BY <1>1, <1>2, <1>8
    <3>2. p.kind = "posit"
          /\ x[k].appearances = {<<remap[c[1]], remap[c[2]]>> : c \in p.appearances}
      BY <2>4, <3>1, RenamedIs
    <3>3. RoleCount < n + k
      BY <3>1, <3>2, <1>1
    <3>4. batches # <<>>
      BY <3>3, <1>1, <1>2, <1>4
    <3>5. RoleCount <= n
      BY <3>4, <1>3
    <3>6. PICK c \in p.appearances : a = <<remap[c[1]], remap[c[2]]>>
      BY <2>4, <3>2
    <3>7. p \in PositsOf(Range(imported))
      BY <3>1, <3>2 DEF PositsOf
    <3>8. PICK r \in RolesOf(Range(imported)) : r.id = c[1]
      BY <3>6, <3>7 DEF ImportInv, Validate
    <3>9. PICK i \in DOMAIN imported : imported[i] = r /\ r.kind = "role"
      BY <3>8 DEF RolesOf, Range
    <3>10. i \in 1..N /\ i <= RoleCount
      BY <3>9, FileIs DEF N
    <3>11. i \in 1..n
      BY <3>5, <3>10, <1>1
    <3>12. Transformed[i] = Renamed(r) /\ r \in Range(imported)
      BY <3>9, <3>10, <1>1
    <3>13. Transformed[i].kind = "role" /\ Transformed[i].id = remap[c[1]]
      BY <3>8, <3>9, <3>12, RenamedIs
    <3>14. Transformed[i] \in RolesOf(Records(batches))
      BY <3>11, <3>13, <1>3 DEF RolesOf
    <3> QED
      BY <3>6, <3>13, <3>14
  <2>5. ASSUME batches = <<>> PROVE Range(Bootstrap) \subseteq Range(x)
    <3>1. n = 0 /\ hi = RoleCount
      BY <2>5, <1>4
    <3> SUFFICES ASSUME NEW r \in Range(Bootstrap) PROVE r \in Range(x)
      OBVIOUS
    <3>2. PICK b \in DOMAIN BuiltinNames : r = NewRole(b, BuiltinNames[b])
      BY DEF Bootstrap, Range
    <3>3. b \in Builtin
      BY <3>2 DEF Builtin, BuiltinNames
    <3>4. r \in Range(imported)
      BY DEF ImportInv, Validate
    <3>5. PICK i \in DOMAIN imported : imported[i] = r
      BY <3>4 DEF Range
    <3>6. r.kind = "role" /\ r.id = b /\ r.name = BuiltinNames[b]
      BY <3>2 DEF NewRole
    <3>7. i \in 1..N /\ i <= RoleCount
      BY <3>5, <3>6, FileIs DEF N
    <3>8. remap[b] = b
      BY <3>3 DEF Named, Numbering
    <3>9. Renamed(r) = r
      BY <3>2, <3>6, <3>8 DEF Renamed
    <3>10. Transformed[i] = r /\ i \in (n + 1)..hi
      BY <3>1, <3>5, <3>7, <3>9, <1>1
    <3> QED
      BY <3>10, <1>2
  <2> QED
    BY <2>1, <2>2, <2>3, <2>4, <2>5 DEF Fits
<1>10. ReplayAccepts(B)
  BY <1>2, <1>3, <1>9, FittingBatchIsAccepted
<1>11. B \in Seq(Seq(Record))
  BY <1>2, <1>3
<1>12. IsFiniteSet(Positions(B)) /\ Cardinality(Positions(B)) = hi
  <2>1. /\ IsFiniteSet(Positions(B))
        /\ Cardinality(Positions(B)) = Cardinality(Positions(batches)) + Len(x)
    BY <1>2, <1>3, AppendedPositions
  <2> QED
    BY <2>1, <1>1, <1>2, <1>3
<1>13. Records(B) = {Transformed[i] : i \in 1..hi}
  <2>1. Records(B) = Records(batches) \cup Range(x)
    BY <1>2, <1>3, AppendedRecords
  <2>2. \A i : i \in 1..hi <=> i \in 1..n \/ i \in (n + 1)..hi
    BY <1>1
  <2> HIDE DEF B
  <2> QED
    BY <2>1, <2>2, <1>2, <1>3
<1> HIDE DEF B
<1>14. Copied(B, hi)
  BY <1>10, <1>11, <1>12, <1>13 DEF Copied
<1> QED
  BY <1>14 DEF B, x

-----------------------------------------------------------------------------
(***************************************************************************)
(* The invariant of a whole import, of which the theorems below are parts. *)
(***************************************************************************)
ImportingInv ==
    /\ TransferInv
    /\ ImportInv
    /\ CopyInv
    /\ MadeInv
    /\ OrderInv
    /\ ExportInv
    /\ ReportInv

LEMMA NothingCopied == Copied(<<>>, 0) /\ Copied(<<>>, 0)'
<1>1. <<>> \in Seq(Seq(Record))
  OBVIOUS
<1>2. Positions(<<>>) = {}
  BY DEF Positions
<1>3. IsFiniteSet(Positions(<<>>)) /\ Cardinality(Positions(<<>>)) = 0
  BY <1>2, FS_EmptySet
<1>4. \A i : i \notin 1..0
  OBVIOUS
<1>5. Records(<<>>) = {Transformed[i] : i \in 1..0}
      /\ Records(<<>>) = {Transformed'[i] : i \in 1..0}
  BY <1>4, NothingReplays
<1> QED
  BY <1>1, <1>3, <1>5, NothingReplays DEF Copied

LEMMA NothingIsCopy ==
    ASSUME served' = <<>>, history' = <<>>, imported' \in Seq(Record)
    PROVE  CopyInv'
<1>1. 0 \in 0..Len(imported')
  OBVIOUS
<1> QED
  BY <1>1, NothingCopied DEF CopyInv

(***************************************************************************)
(* What an import reads is a sequence of records, its roles first.         *)
(***************************************************************************)
LEMMA FileIsSequence ==
    ASSUME NEW lines, InOrder(lines)
    PROVE  Tail(lines) \in Seq(Record) /\ RolesFirst(Tail(lines))
<1> DEFINE t == Tail(lines)
           n == Len(lines) - 1
           L == {HeaderLine} \cup Record
<1>1. lines \in Seq(L) /\ lines # <<>>
  BY DEF InOrder
<1> HIDE DEF L
<1>2. /\ Len(lines) \in Nat /\ DOMAIN lines = 1..Len(lines) /\ Len(lines) # 0
      /\ t \in Seq(L) /\ DOMAIN t = 1..n
      /\ \A i \in 1..n : t[i] = lines[i + 1]
  BY <1>1, TailIs, Zenon
<1>3. \A i \in DOMAIN t : t[i] \in Record
  BY FileIsRecords DEF Range
<1> HIDE DEF t
<1>4. t \in Seq(Record)
  BY <1>2, <1>3, SequenceOfElements, Zenon
<1>5. ASSUME NEW i \in DOMAIN t, t[i].kind = "role", NEW j \in 1..i
      PROVE  t[j].kind = "role"
  <2>1. j \in DOMAIN t /\ j + 1 \in 1..(i + 1) /\ i + 1 \in DOMAIN lines
        /\ lines[i + 1].kind = "role" /\ t[j] = lines[j + 1]
    BY <1>2, <1>5
  <2>2. lines[j + 1].kind # "posit"
    BY <2>1 DEF InOrder
  <2>3. t[j] \in Record
    BY <1>3, <2>1
  <2> QED
    BY <2>1, <2>2, <2>3 DEF Record
<1> QED
  BY <1>4, <1>5 DEF RolesFirst, t

-----------------------------------------------------------------------------
LEMMA ImportStep ==
    ASSUME ImportInv, [Next]_vars
    PROVE  ImportInv'
<1>1. CASE StartImport
  BY <1>1, FileIsSequence DEF StartImport, ImportInv
<1>2. CASE RemoveDestination
  BY <1>2 DEF RemoveDestination, ImportInv
<1>3. CASE UNCHANGED imported
  BY <1>3 DEF ImportInv
<1> QED
  BY <1>1, <1>2, <1>3 DEF Next, vars, ExportStore, ExportStops, ReceiveFile,
     OpenDestination, SkipNumber, AssignNumber, FinishRemap, PublishBatch,
     PersistBatch, AppendReturns, Verify, Inspect, WriteRemap, SyncRemap,
     ImportStops, PowerLoss, RemoveExport

LEMMA MadeStep ==
    ASSUME MadeInv, [Next]_vars
    PROVE  MadeInv'
<1>1. CASE StartImport \/ OpenDestination \/ SkipNumber \/ AssignNumber \/ FinishRemap
  BY <1>1 DEF StartImport, OpenDestination, SkipNumber, AssignNumber, FinishRemap,
     MadeInv, log, place
<1>2. CASE PublishBatch \/ PersistBatch \/ AppendReturns
  BY <1>2 DEF PublishBatch, PersistBatch, AppendReturns, MadeInv, place
<1>3. CASE Verify \/ Inspect \/ WriteRemap \/ SyncRemap
  BY <1>3 DEF Verify, Inspect, WriteRemap, SyncRemap, MadeInv, log, place
<1>4. CASE ImportStops \/ PowerLoss
  BY <1>4 DEF ImportStops, PowerLoss, DestinationSurvives, DestinationVanishes,
     MadeInv, log, Destination!Revert, Destination!Persist
<1>5. CASE RemoveDestination
  BY <1>5 DEF RemoveDestination, MadeInv
<1>6. CASE ExportStore \/ ExportStops \/ ReceiveFile \/ RemoveExport \/ UNCHANGED vars
  BY <1>6 DEF ExportStore, ExportStops, ReceiveFile, RemoveExport, vars, MadeInv, log,
     place
<1> QED
  BY <1>1, <1>2, <1>3, <1>4, <1>5, <1>6 DEF Next

(***************************************************************************)
(* The smallest identity is the next one to be named, and it is larger     *)
(* than those that were.                                                   *)
(***************************************************************************)
LEMMA AssignKeepsOrder ==
    ASSUME Numbering, OrderInv, AssignNumber
    PROVE  OrderInv'
<1>1. PICK source \in foreign : Smallest(source) /\ Assign(source)
  BY DEF AssignNumber
<1>2. /\ source \in Nat /\ source \notin DOMAIN remap /\ foreign \subseteq Nat
      /\ \A u \in foreign : source <= u
  BY <1>1 DEF Numbering, Smallest
<1>3. /\ DOMAIN remap' = DOMAIN remap \cup {source}
      /\ remap'[source] = next
      /\ \A t \in DOMAIN remap : remap'[t] = remap[t]
      /\ foreign' = foreign \ {source}
  BY <1>1, <1>2 DEF Assign
<1>4. /\ DOMAIN remap \subseteq Nat
      /\ \A t, u \in DOMAIN remap \ Builtin : t < u => remap[t] < remap[u]
      /\ \A t \in DOMAIN remap \ Builtin : \A u \in foreign : t < u
      /\ \A t \in DOMAIN remap \ Builtin : remap[t] < next
  BY DEF OrderInv, Numbering
<1>5. ASSUME NEW t \in DOMAIN remap' \ Builtin, NEW u \in DOMAIN remap' \ Builtin, t < u
      PROVE  remap'[t] < remap'[u]
  <2>1. t \in Nat /\ u \in Nat
    BY <1>2, <1>3, <1>4
  <2>2. CASE t \in DOMAIN remap /\ u \in DOMAIN remap
    BY <2>2, <1>3, <1>4, <1>5
  <2>3. CASE u = source
    BY <2>1, <2>3, <1>3, <1>4, <1>5
  <2>4. CASE t = source /\ u \in DOMAIN remap
    BY <2>1, <2>4, <1>2, <1>4, <1>5
  <2> QED
    BY <2>2, <2>3, <2>4, <1>3
<1>6. ASSUME NEW t \in DOMAIN remap' \ Builtin, NEW u \in foreign'
      PROVE  t < u
  BY <1>2, <1>3, <1>4
<1>7. DOMAIN remap' \subseteq Nat
  BY <1>2, <1>3, <1>4
<1> QED
  BY <1>5, <1>6, <1>7 DEF OrderInv

LEMMA OrderStep ==
    ASSUME Numbering, OrderInv, [Next]_vars
    PROVE  OrderInv'
<1>1. CASE AssignNumber
  BY <1>1, AssignKeepsOrder
<1>2. CASE StartImport \/ RemoveDestination
  <2>1. remap' = Builtins
    BY <1>2 DEF StartImport, RemoveDestination
  <2>2. DOMAIN remap' = Builtin /\ Builtin \subseteq Nat
    BY <2>1, BuiltinsFaithful, FiveBuiltins
  <2> QED
    BY <2>2 DEF OrderInv
<1>3. CASE UNCHANGED <<remap, foreign>>
  BY <1>3 DEF OrderInv
<1> QED
  BY <1>1, <1>2, <1>3 DEF Next, vars, mapping, ExportStore, ExportStops, ReceiveFile,
     OpenDestination, SkipNumber, FinishRemap, PublishBatch,
     PersistBatch, AppendReturns, Verify, Inspect, WriteRemap, SyncRemap,
     ImportStops, PowerLoss, RemoveExport

LEMMA ExportStep ==
    ASSUME ExportInv, [Next]_vars
    PROVE  ExportInv'
<1>1. CASE ExportStore \/ ExportStops \/ ReceiveFile \/ RemoveExport
  BY <1>1 DEF ExportStore, ExportStops, ReceiveFile, RemoveExport, ExportInv, NoExport
<1>2. CASE UNCHANGED export
  BY <1>2 DEF ExportInv
<1> QED
  BY <1>1, <1>2 DEF Next, vars, StartImport,
     OpenDestination, SkipNumber, AssignNumber, FinishRemap, PublishBatch,
     PersistBatch, AppendReturns, Verify, Inspect, WriteRemap, SyncRemap,
     ImportStops, PowerLoss, RemoveDestination

LEMMA ReportStep ==
    ASSUME Artifact, ReportInv, [Next]_vars
    PROVE  ReportInv'
<1>1. CASE SyncRemap
  <2>1. /\ DOMAIN artifact = {"state", "map"} /\ named' = named
        /\ artifact' = [artifact EXCEPT !.state =
                           IF "remap" \in named THEN "durable" ELSE "synced"]
    BY <1>1 DEF SyncRemap, Artifact, place
  <2> QED
    BY <2>1 DEF ReportInv
<1>2. CASE RemoveDestination \/ StartImport
  BY <1>2 DEF RemoveDestination, StartImport, ReportInv
<1>3. CASE WriteRemap
  BY <1>3 DEF WriteRemap, Artifact, ReportInv, WholeFile, place
<1>4. CASE ImportStops \/ PowerLoss
  <2>1. ASSUME artifact.state = "durable" PROVE artifact' = artifact
    BY <1>4, <2>1 DEF ImportStops, PowerLoss, RemapSurvives, RemapSuffers, Artifact
  <2> QED
    BY <1>4, <2>1 DEF ImportStops, PowerLoss, ReportInv
<1>5. CASE UNCHANGED <<artifact, reported, named>>
  BY <1>5 DEF ReportInv
<1> QED
  BY <1>1, <1>2, <1>3, <1>4, <1>5 DEF Next, vars, place, ExportStore, ExportStops,
     ReceiveFile, OpenDestination, SkipNumber, AssignNumber, FinishRemap, PublishBatch,
     PersistBatch, AppendReturns, Verify, Inspect, RemoveExport

(***************************************************************************)
(* What the destination holds is renamed as what is written to it.         *)
(***************************************************************************)
LEMMA SameCopied ==
    ASSUME UNCHANGED <<imported, remap>>, NEW batches, NEW n, Copied(batches, n)
    PROVE  Copied(batches, n)'
<1>1. Transformed' = Transformed /\ RoleCount' = RoleCount
  BY SameTransformed DEF RoleCount
<1> QED
  BY <1>1 DEF Copied

LEMMA SameLogIsCopy ==
    ASSUME CopyInv, UNCHANGED <<imported, remap, foreign>>,
           served' \in {served, history}, history' \in {served, history}
    PROVE  CopyInv'
<1> SUFFICES ASSUME NEW batches \in {served, history}
             PROVE  /\ batches # <<>> => foreign' = {}
                    /\ \E n \in 0..Len(imported') : Copied(batches, n)'
  BY DEF CopyInv
<1>1. PICK n \in 0..Len(imported) : Copied(batches, n)
  BY DEF CopyInv
<1>2. Copied(batches, n)'
  BY <1>1, SameCopied
<1> QED
  BY <1>1, <1>2 DEF CopyInv

(***************************************************************************)
(* The batch that is published is the next part of the file: the roles,    *)
(* then some posits.                                                       *)
(***************************************************************************)
LEMMA PublishKeepsCopy ==
    ASSUME ImportingInv, PublishBatch
    PROVE  CopyInv'
<1>1. /\ pc = "append" /\ Appended < Len(imported)
      /\ served' = Append(served, NextBatch) /\ history' = history
      /\ UNCHANGED <<imported, remap, foreign>>
  BY DEF PublishBatch, Destination!Publish, mapping
<1>2. foreign = {} /\ Named
  BY <1>1 DEF ImportingInv, TransferInv, Naming, ImportInv, Named
<1>3. PICK n \in 0..Len(imported) : Copied(served, n)
  BY DEF ImportingInv, CopyInv
<1>4. Appended = n
  BY <1>3 DEF Appended, Copied
<1>5. ImportInv /\ Len(imported) \in Nat
  BY DEF ImportingInv, ImportInv
<1>6. imported # <<>>
  <2>1. 0 < Len(imported)
    BY <1>1, <1>3, <1>4, <1>5
  <2> QED
    BY <2>1
<1>7. RoleCount \in 1..Len(imported)
  BY <1>5, <1>6, FileIs, Zenon
<1>8. served = <<>> <=> n = 0
  <2>1. served = <<>> => n = 0
    <3>1. Positions(<<>>) = {}
      BY DEF Positions
    <3> QED
      BY <3>1, <1>3, FS_EmptySet DEF Copied
  <2>2. served # <<>> => RoleCount <= n
    BY <1>3 DEF Copied
  <2> QED
    BY <2>1, <2>2, <1>5, <1>7
<1> DEFINE hi == IF n = 0 THEN RoleCount
                 ELSE IF n + BatchSize < Len(imported) THEN n + BatchSize
                 ELSE Len(imported)
<1>9. NextBatch = SubSeq(Transformed, n + 1, hi)
  BY <1>4 DEF NextBatch
<1>10. n \in Nat /\ n < Len(imported)
  BY <1>1, <1>4, <1>5
<1>11. hi \in (n + 1)..Len(imported)
  BY <1>5, <1>7, <1>10
<1>12. RoleCount <= hi
  <2>1. n # 0 => RoleCount <= n
    BY <1>3, <1>8 DEF Copied
  <2> QED
    BY <2>1, <1>5, <1>7, <1>10
<1>13. served = <<>> => hi = RoleCount
  BY <1>8
<1> HIDE DEF hi
<1>14. Copied(Append(served, SubSeq(Transformed, n + 1, hi)), hi)
  BY <1>2, <1>3, <1>5, <1>6, <1>11, <1>12, <1>13, PartFits
<1>15. PICK new, h : new = served' /\ h = hi
  OBVIOUS
<1>16. Copied(new, h) /\ h \in 0..Len(imported)
  <2>1. new = Append(served, SubSeq(Transformed, n + 1, hi)) /\ h = hi
    BY <1>1, <1>9, <1>15, Zenon
  <2>2. hi \in 0..Len(imported)
    BY <1>5, <1>10, <1>11
  <2> QED
    BY <2>1, <2>2, <1>14, Zenon
<1>17. Copied(new, h)' /\ h \in 0..Len(imported')
  BY <1>1, <1>16, SameCopied
<1>18. PICK old : old = history
  OBVIOUS
<1>19. PICK m \in 0..Len(imported) : Copied(old, m)
  BY <1>18 DEF ImportingInv, CopyInv
<1>20. Copied(old, m)' /\ m \in 0..Len(imported')
  BY <1>1, <1>19, SameCopied
<1>21. \A batches \in {new, old} : \E k \in 0..Len(imported') : Copied(batches, k)'
  BY <1>17, <1>20
<1>22. served' = new /\ history' = old /\ foreign' = {}
  BY <1>1, <1>2, <1>15, <1>18
<1> QED
  BY <1>21, <1>22 DEF CopyInv

LEMMA CopyStep ==
    ASSUME ImportingInv, [Next]_vars
    PROVE  CopyInv'
<1>0. imported' \in Seq(Record)
  BY ImportStep DEF ImportingInv, ImportInv
<1>1. CASE StartImport \/ SkipNumber \/ AssignNumber
  <2>1. served = <<>> /\ history = <<>> /\ UNCHANGED log
    BY <1>1 DEF StartImport, SkipNumber, AssignNumber, ImportingInv, MadeInv
  <2> QED
    BY <2>1, <1>0, NothingIsCopy DEF log
<1>2. CASE RemoveDestination
  BY <1>0, <1>2, NothingIsCopy DEF RemoveDestination
<1>3. CASE PublishBatch
  BY <1>3, PublishKeepsCopy
<1>4. CASE /\ UNCHANGED <<imported, remap, foreign>>
           /\ served' \in {served, history} /\ history' \in {served, history}
  BY <1>4, SameLogIsCopy DEF ImportingInv
<1>5. CASE OpenDestination \/ FinishRemap \/ Verify \/ Inspect \/ WriteRemap \/ SyncRemap
  BY <1>4, <1>5 DEF OpenDestination, FinishRemap, Verify, Inspect, WriteRemap, SyncRemap,
     mapping, log
<1>8. CASE PowerLoss /\ DestinationVanishes
  BY <1>0, <1>8, NothingIsCopy DEF DestinationVanishes
<1>9. CASE PowerLoss /\ DestinationSurvives
  BY <1>4, <1>9 DEF PowerLoss, DestinationSurvives, mapping, Destination!Persist,
     Destination!Revert
<1>6. CASE PersistBatch \/ AppendReturns \/ ImportStops \/ PowerLoss
  BY <1>4, <1>6, <1>8, <1>9 DEF PersistBatch, AppendReturns, ImportStops, PowerLoss,
     mapping, log, Destination!Persist, Destination!Acknowledge
<1>7. CASE ExportStore \/ ExportStops \/ ReceiveFile \/ RemoveExport \/ UNCHANGED vars
  BY <1>4, <1>7 DEF ExportStore, ExportStops, ReceiveFile, RemoveExport, vars,
     mapping, log
<1> QED
  BY <1>1, <1>2, <1>3, <1>5, <1>6, <1>7 DEF Next

(***************************************************************************)
(* Where an import is: its destination holds the first records of the file *)
(* under their new identities, with every role in the first batch, and the *)
(* renaming keeps the order of the identities, at every step of            *)
(* import_store and after every crash and power failure.                   *)
(***************************************************************************)
THEOREM ImportingInvariant == Spec => []ImportingInv
<1>1. Init => ImportingInv
  <2> SUFFICES ASSUME Init PROVE ImportingInv
    OBVIOUS
  <2>1. TransferInv
    BY InitEstablishesInv
  <2>2. ImportInv /\ MadeInv /\ ExportInv /\ ReportInv
    BY DEF Init, ImportInv, MadeInv, ExportInv, ReportInv, NoExport, Destination!DLInit
  <2>3. CopyInv
    <3>1. served = <<>> /\ history = <<>> /\ 0 \in 0..Len(imported)
      BY DEF Init, Destination!DLInit
    <3> QED
      BY <3>1, NothingCopied DEF CopyInv
  <2>4. OrderInv
    <3>1. DOMAIN remap = Builtin /\ Builtin \subseteq Nat
      BY BuiltinsFaithful, FiveBuiltins DEF Init
    <3> QED
      BY <3>1 DEF OrderInv
  <2> QED
    BY <2>1, <2>2, <2>3, <2>4 DEF ImportingInv
<1>2. ImportingInv /\ [Next]_vars => ImportingInv'
  <2> SUFFICES ASSUME ImportingInv, [Next]_vars PROVE ImportingInv'
    OBVIOUS
  <2>1. TransferInv'
    BY TransferStep DEF ImportingInv
  <2>2. ImportInv' /\ MadeInv' /\ ExportInv'
    BY ImportStep, MadeStep, ExportStep DEF ImportingInv
  <2>3. CopyInv'
    BY CopyStep
  <2>4. OrderInv' /\ ReportInv'
    BY OrderStep, ReportStep DEF ImportingInv, TransferInv
  <2> QED
    BY <2>1, <2>2, <2>3, <2>4 DEF ImportingInv
<1> QED
  BY <1>1, <1>2, PTL DEF Spec

-----------------------------------------------------------------------------
(***************************************************************************)
(* The file that export_store writes: the records of one kind, by          *)
(* identity, each once.                                                    *)
(***************************************************************************)
LEMMA ByIdIs ==
    ASSUME NEW S, S \subseteq Record, IsFiniteSet(S),
           \A r, s \in S : r # s => r.id # s.id
    PROVE  /\ ById(S) \in Seq(S)
           /\ Range(ById(S)) = S
           /\ \A i, j \in DOMAIN ById(S) : i < j => ById(S)[i].id < ById(S)[j].id
<1> DEFINE ids == {r.id : r \in S}
           a == Ascending(ids)
           b == ById(S)
<1>1. ids \in SUBSET Nat
  BY DEF Record
<1>2. IsFiniteSet(ids)
  <2> DEFINE f == [r \in S |-> r.id]
  <2>1. f \in [S -> ids] /\ \A n \in ids : \E r \in S : f[r] = n
    OBVIOUS
  <2>2. f \in Surjection(S, ids)
    BY <2>1 DEF Surjection
  <2> QED
    BY <2>2, FS_Surjection
<1>3. \A n \in ids : \E r \in S : r.id = n
  OBVIOUS
<1>4. \A r \in S : r.id \in ids
  OBVIOUS
<1>5. b = [k \in DOMAIN a |-> CHOOSE r \in S : r.id = a[k]]
  BY DEF ById
<1> HIDE DEF ids, b
<1>6. /\ a \in Seq(ids)
      /\ \A i, j \in DOMAIN a : i < j => a[i] < a[j]
      /\ Range(a) = ids
  BY <1>1, <1>2, AscendingOrders
<1> HIDE DEF a
<1>7. /\ Len(a) \in Nat /\ DOMAIN a = 1..Len(a)
      /\ \A k \in DOMAIN a : a[k] \in ids
  BY <1>6, ElementsOf, Zenon
<1>8. \A k \in DOMAIN a : b[k] \in S /\ b[k].id = a[k]
  <2> SUFFICES ASSUME NEW k \in DOMAIN a PROVE b[k] \in S /\ b[k].id = a[k]
    OBVIOUS
  <2>1. \E r \in S : r.id = a[k]
    BY <1>3, <1>7
  <2>2. b[k] = CHOOSE r \in S : r.id = a[k]
    BY <1>5
  <2> QED
    BY <2>1, <2>2, Zenon
<1>9. DOMAIN b = 1..Len(a) /\ b \in [1..Len(a) -> S]
  BY <1>5, <1>7, <1>8
<1>10. b \in Seq(S)
  BY <1>7, <1>9, SequenceOf, Zenon
<1>11. \A i, j \in DOMAIN b : i < j => b[i].id < b[j].id
  BY <1>6, <1>7, <1>8, <1>9
<1>12. Range(b) = S
  <2>1. ASSUME NEW r \in S PROVE r \in Range(b)
    <3>1. PICK k \in DOMAIN a : a[k] = r.id
      BY <1>4, <1>6 DEF Range
    <3>2. b[k] = r /\ k \in DOMAIN b
      BY <3>1, <1>7, <1>8, <1>9
    <3> QED
      BY <3>2 DEF Range
  <2>2. Range(b) \subseteq S
    BY <1>7, <1>8, <1>9 DEF Range
  <2> QED
    BY <2>1, <2>2
<1> QED
  BY <1>10, <1>11, <1>12 DEF b

LEMMA StoreIs ==
    ASSUME NEW store \in Stores
    PROVE  /\ store \subseteq Record /\ Consistent(store)
           /\ store = RolesOf(store) \cup PositsOf(store)
           /\ ById(RolesOf(store)) \in Seq(RolesOf(store))
           /\ Range(ById(RolesOf(store))) = RolesOf(store)
           /\ \A i, j \in DOMAIN ById(RolesOf(store)) :
                 i < j => ById(RolesOf(store))[i].id < ById(RolesOf(store))[j].id
           /\ ById(PositsOf(store)) \in Seq(PositsOf(store))
           /\ Range(ById(PositsOf(store))) = PositsOf(store)
           /\ \A i, j \in DOMAIN ById(PositsOf(store)) :
                 i < j => ById(PositsOf(store))[i].id < ById(PositsOf(store))[j].id
<1>1. IsFiniteSet(store) /\ store \subseteq Record /\ Consistent(store)
  BY DEF TransferAssumption
<1>2. \A r, s \in store : r # s => r.id # s.id
  BY <1>1 DEF Consistent, Conflict
<1>3. RolesOf(store) \subseteq store /\ PositsOf(store) \subseteq store
  BY DEF RolesOf, PositsOf
<1>4. store = RolesOf(store) \cup PositsOf(store)
  BY <1>1 DEF RolesOf, PositsOf, Record
<1>5. \A S : S \subseteq store =>
         /\ S \subseteq Record /\ IsFiniteSet(S)
         /\ \A r, s \in S : r # s => r.id # s.id
  BY <1>1, <1>2, FS_Subset
<1>6. \A S : S \subseteq store =>
         /\ ById(S) \in Seq(S)
         /\ Range(ById(S)) = S
         /\ \A i, j \in DOMAIN ById(S) : i < j => ById(S)[i].id < ById(S)[j].id
  BY <1>5, ByIdIs
<1> QED
  BY <1>1, <1>3, <1>4, <1>6, Zenon

(***************************************************************************)
(* What an import reads of it: the roles, then the posits, each by         *)
(* identity, and all records of the store.                                 *)
(***************************************************************************)
LEMMA ExportIs ==
    ASSUME NEW store \in Stores
    PROVE  LET lines == ExportOf(store)
               t == Tail(lines)
           IN  /\ lines \in Seq({HeaderLine} \cup Record) /\ lines # <<>>
               /\ lines[1] = HeaderLine
               /\ Len(lines) \in Nat /\ DOMAIN lines = 1..Len(lines)
               /\ DOMAIN t = 1..(Len(lines) - 1)
               /\ \A i \in DOMAIN t : t[i] = lines[i + 1] /\ t[i] \in store
               /\ Range(t) = store
               /\ \A i, j \in DOMAIN t : i < j =>
                     \/ t[i].kind = "role" /\ t[j].kind = "posit"
                     \/ t[i].kind = t[j].kind /\ t[i].id < t[j].id
<1> DEFINE Rs == RolesOf(store)
           Ps == PositsOf(store)
           R == ById(Rs)
           P == ById(Ps)
           L == {HeaderLine} \cup Record
           h == <<HeaderLine>>
           hR == h \o R
           lines == hR \o P
           t == Tail(lines)
<1>1. ExportOf(store) = lines
  BY DEF ExportOf
<1>2. /\ Rs \subseteq L /\ Ps \subseteq L /\ HeaderLine \in L
      /\ store = Rs \cup Ps
      /\ \A r \in Rs : r.kind = "role"
      /\ \A p \in Ps : p.kind = "posit"
  BY StoreIs DEF RolesOf, PositsOf
<1>3. /\ R \in Seq(Rs) /\ Range(R) = Rs
      /\ \A i, j \in DOMAIN R : i < j => R[i].id < R[j].id
      /\ P \in Seq(Ps) /\ Range(P) = Ps
      /\ \A i, j \in DOMAIN P : i < j => P[i].id < P[j].id
  BY StoreIs, Zenon
<1> HIDE DEF Rs, Ps, R, P, L
<1>4. h \in Seq(L) /\ Len(h) = 1 /\ h[1] = HeaderLine
  BY <1>2
<1> HIDE DEF h
<1>5. /\ Len(R) \in Nat /\ DOMAIN R = 1..Len(R) /\ \A i \in 1..Len(R) : R[i] \in Rs
      /\ Len(P) \in Nat /\ DOMAIN P = 1..Len(P) /\ \A i \in 1..Len(P) : P[i] \in Ps
  BY <1>3, ElementsOf, Zenon
<1>6. R \in Seq(L) /\ P \in Seq(L)
  BY <1>2, <1>3, <1>5, SequenceOfElements
<1>7. hR \in Seq(L) /\ lines \in Seq(L)
  BY <1>4, <1>6
<1>8. /\ Len(hR) = 1 + Len(R)
      /\ hR[1] = HeaderLine
      /\ \A i \in 1..Len(R) : hR[i + 1] = R[i]
  <2>1. /\ Len(hR) = Len(h) + Len(R)
        /\ DOMAIN hR = 1..(Len(h) + Len(R))
        /\ \A i \in 1..Len(h) : hR[i] = h[i]
        /\ \A i \in (Len(h) + 1)..(Len(h) + Len(R)) :
              i - Len(h) \in DOMAIN R /\ hR[i] = R[i - Len(h)]
    <3>1. h \in Seq(L) /\ R \in Seq(L)
      BY <1>4, <1>6
    <3> QED
      BY <3>1, Joined
  <2> QED
    BY <2>1, <1>4, <1>5
<1>9. /\ Len(lines) = 1 + Len(R) + Len(P)
      /\ lines[1] = HeaderLine
      /\ \A i \in 1..Len(R) : lines[i + 1] = R[i]
      /\ \A i \in (Len(R) + 1)..(Len(R) + Len(P)) : lines[i + 1] = P[i - Len(R)]
  <2>1. /\ Len(lines) = Len(hR) + Len(P)
        /\ DOMAIN lines = 1..(Len(hR) + Len(P))
        /\ \A i \in 1..Len(hR) : lines[i] = hR[i]
        /\ \A i \in (Len(hR) + 1)..(Len(hR) + Len(P)) :
              i - Len(hR) \in DOMAIN P /\ lines[i] = P[i - Len(hR)]
    <3>1. hR \in Seq(L) /\ P \in Seq(L)
      BY <1>6, <1>7
    <3> HIDE DEF hR
    <3> QED
      BY <3>1, Joined
  <2> HIDE DEF hR, lines
  <2> QED
    BY <2>1, <1>5, <1>8
<1> HIDE DEF hR, lines
<1>10. lines # <<>>
  <2>1. Len(lines) # 0
    BY <1>5, <1>9
  <2> QED
    BY <2>1
<1>11. /\ Len(lines) \in Nat /\ DOMAIN lines = 1..Len(lines)
       /\ DOMAIN t = 1..(Len(lines) - 1)
       /\ \A i \in 1..(Len(lines) - 1) : t[i] = lines[i + 1]
  BY <1>7, <1>10, TailIs, Zenon
<1> HIDE DEF t
<1>12. /\ DOMAIN t = 1..(Len(R) + Len(P))
       /\ \A i \in 1..Len(R) : t[i] = R[i]
       /\ \A i \in (Len(R) + 1)..(Len(R) + Len(P)) : t[i] = P[i - Len(R)]
  BY <1>5, <1>9, <1>11
<1>13. \A i \in DOMAIN t :
          \/ i \in 1..Len(R) /\ t[i] = R[i] /\ t[i] \in Rs /\ t[i].kind = "role"
          \/ i - Len(R) \in 1..Len(P) /\ t[i] = P[i - Len(R)] /\ t[i] \in Ps
                /\ t[i].kind = "posit"
  <2> SUFFICES ASSUME NEW i \in DOMAIN t
               PROVE  \/ i \in 1..Len(R) /\ t[i] = R[i] /\ t[i] \in Rs /\ t[i].kind = "role"
                      \/ i - Len(R) \in 1..Len(P) /\ t[i] = P[i - Len(R)] /\ t[i] \in Ps
                            /\ t[i].kind = "posit"
    OBVIOUS
  <2>1. CASE i \in 1..Len(R)
    BY <2>1, <1>2, <1>5, <1>12
  <2>2. CASE i \in (Len(R) + 1)..(Len(R) + Len(P))
    <3>1. i - Len(R) \in 1..Len(P)
      BY <2>2, <1>5
    <3> QED
      BY <2>2, <3>1, <1>2, <1>5, <1>12
  <2> QED
    BY <2>1, <2>2, <1>5, <1>12
<1>14. \A i \in DOMAIN t : t[i] = lines[i + 1] /\ t[i] \in store
  BY <1>2, <1>11, <1>13
<1>15. ASSUME NEW i \in DOMAIN t, NEW j \in DOMAIN t, i < j
       PROVE  \/ t[i].kind = "role" /\ t[j].kind = "posit"
              \/ t[i].kind = t[j].kind /\ t[i].id < t[j].id
  <2>1. i \in Nat /\ j \in Nat
    BY <1>5, <1>12
  <2>2. CASE j \in 1..Len(R)
    <3>1. i \in 1..Len(R)
      BY <2>1, <2>2, <1>5, <1>12, <1>15
    <3> QED
      BY <2>2, <3>1, <1>2, <1>3, <1>5, <1>12, <1>15
  <2>3. CASE i - Len(R) \in 1..Len(P) /\ j - Len(R) \in 1..Len(P)
    <3>1. i - Len(R) < j - Len(R)
      BY <2>1, <1>5, <1>15
    <3>2. t[i] = P[i - Len(R)] /\ t[j] = P[j - Len(R)]
      BY <2>1, <2>3, <1>5, <1>12
    <3> QED
      BY <2>3, <3>1, <3>2, <1>2, <1>3, <1>5
  <2>4. CASE i \in 1..Len(R) /\ j - Len(R) \in 1..Len(P)
    <3>1. t[i].kind = "role"
      BY <2>4, <1>2, <1>5, <1>12
    <3>2. j \in (Len(R) + 1)..(Len(R) + Len(P))
      BY <2>1, <2>4, <1>5
    <3>3. t[j].kind = "posit"
      BY <2>4, <3>2, <1>2, <1>5, <1>12
    <3> QED
      BY <3>1, <3>3
  <2> QED
    BY <2>2, <2>3, <2>4, <1>13
<1>16. Range(t) = store
  <2>1. \A r \in Rs : \E i \in DOMAIN t : t[i] = r
    <3> SUFFICES ASSUME NEW r \in Rs PROVE \E i \in DOMAIN t : t[i] = r
      OBVIOUS
    <3>1. PICK k \in 1..Len(R) : R[k] = r
      BY <1>3, <1>5 DEF Range
    <3> QED
      BY <3>1, <1>5, <1>12
  <2>2. \A r \in Ps : \E i \in DOMAIN t : t[i] = r
    <3> SUFFICES ASSUME NEW r \in Ps PROVE \E i \in DOMAIN t : t[i] = r
      OBVIOUS
    <3>1. PICK k \in 1..Len(P) : P[k] = r
      BY <1>3, <1>5 DEF Range
    <3>2. Len(R) + k \in (Len(R) + 1)..(Len(R) + Len(P)) /\ (Len(R) + k) - Len(R) = k
      BY <1>5
    <3>3. t[Len(R) + k] = r /\ Len(R) + k \in DOMAIN t
      BY <3>1, <3>2, <1>5, <1>12
    <3> QED
      BY <3>3
  <2>3. \A r \in store : \E i \in DOMAIN t : t[i] = r
    BY <2>1, <2>2, <1>2
  <2> QED
    BY <2>3, <1>14 DEF Range
<1> HIDE DEF L
<1>17. lines \in Seq({HeaderLine} \cup Record)
  BY <1>7 DEF L
<1> QED
  BY <1>1, <1>9, <1>10, <1>11, <1>14, <1>15, <1>16, <1>17 DEF t

-----------------------------------------------------------------------------
(***************************************************************************)
(* read_export and validate_imported let every export that was completed   *)
(* through.                                                                *)
(***************************************************************************)
LEMMA ExportIsInOrder ==
    ASSUME NEW store \in Stores
    PROVE  InOrder(ExportOf(store))
<1> DEFINE lines == ExportOf(store)
           t == Tail(lines)
<1>1. /\ lines \in Seq({HeaderLine} \cup Record) /\ lines # <<>>
      /\ lines[1] = HeaderLine
      /\ Len(lines) \in Nat /\ DOMAIN lines = 1..Len(lines)
      /\ DOMAIN t = 1..(Len(lines) - 1)
      /\ \A i \in DOMAIN t : t[i] = lines[i + 1] /\ t[i] \in store
      /\ \A i, j \in DOMAIN t : i < j =>
            \/ t[i].kind = "role" /\ t[j].kind = "posit"
            \/ t[i].kind = t[j].kind /\ t[i].id < t[j].id
  BY ExportIs, Zenon
<1> HIDE DEF lines, t
<1>2. HeaderLine.kind = "header"
  BY DEF HeaderLine
<1>3. \A i \in DOMAIN t : t[i].kind \in {"role", "posit"}
  BY <1>1, StoreIs DEF Record
<1>4. \A i \in DOMAIN lines : i # 1 =>
         i - 1 \in DOMAIN t /\ lines[i] = t[i - 1]
  <2> SUFFICES ASSUME NEW i \in DOMAIN lines, i # 1
               PROVE  i - 1 \in DOMAIN t /\ lines[i] = t[i - 1]
    OBVIOUS
  <2>1. i \in Nat /\ i - 1 \in DOMAIN t /\ (i - 1) + 1 = i
    BY <1>1
  <2>2. t[i - 1] = lines[(i - 1) + 1]
    BY <1>1, <2>1
  <2> QED
    BY <2>1, <2>2
<1>5. \A i \in DOMAIN lines : lines[i].kind = "header" <=> i = 1
  BY <1>1, <1>2, <1>3, <1>4
<1>6. ASSUME NEW i \in DOMAIN lines, NEW j \in 1..i, lines[i].kind = "role"
      PROVE  lines[j].kind # "posit"
  <2>1. i \in Nat /\ i # 1 /\ j \in DOMAIN lines
    BY <1>1, <1>2, <1>6
  <2>2. CASE j = 1
    BY <2>2, <1>1, <1>2
  <2>3. CASE j = i
    BY <2>3, <1>6
  <2>4. CASE j # 1 /\ j # i
    <3>1. i - 1 \in DOMAIN t /\ j - 1 \in DOMAIN t /\ j - 1 < i - 1
      BY <1>4, <2>1, <2>4, <1>1
    <3>2. lines[i] = t[i - 1] /\ lines[j] = t[j - 1]
      BY <1>4, <2>1, <2>4
    <3>3. t[j - 1].kind = t[i - 1].kind
      BY <1>1, <1>6, <3>1, <3>2
    <3> QED
      BY <1>6, <3>2, <3>3
  <2> QED
    BY <2>2, <2>3, <2>4
<1>7. InOrder(lines)
  BY <1>1, <1>5, <1>6 DEF InOrder
<1> QED
  BY <1>7 DEF lines

LEMMA ExportIsValid ==
    ASSUME NEW store \in Stores
    PROVE  Validate(Tail(ExportOf(store))) /\ Range(Tail(ExportOf(store))) = store
<1> DEFINE lines == ExportOf(store)
           t == Tail(lines)
<1>1. /\ \A i \in DOMAIN t : t[i] = lines[i + 1] /\ t[i] \in store
      /\ Range(t) = store
      /\ \A i, j \in DOMAIN t : i < j =>
            \/ t[i].kind = "role" /\ t[j].kind = "posit"
            \/ t[i].kind = t[j].kind /\ t[i].id < t[j].id
  BY ExportIs, Zenon
<1> HIDE DEF t
<1>2. store \subseteq Record /\ Consistent(store)
  BY StoreIs, Zenon
<1>3. \A i, j \in DOMAIN t : i < j => ~Conflict(t[i], t[j])
  <2> SUFFICES ASSUME NEW i \in DOMAIN t, NEW j \in DOMAIN t, i < j
               PROVE  ~Conflict(t[i], t[j])
    OBVIOUS
  <2>1. t[i] \in store /\ t[j] \in store
    BY <1>1
  <2>2. t[i].id \in Nat /\ t[j].id \in Nat
    BY <2>1, <1>2 DEF Record
  <2>3. t[i].kind # t[j].kind \/ t[i].id < t[j].id
    BY <1>1
  <2>4. t[i] # t[j]
    BY <2>2, <2>3
  <2> QED
    BY <2>1, <2>4, <1>2 DEF Consistent
<1>4. \A i \in DOMAIN t : t[i].id # 0
  BY <1>1, <1>2 DEF Consistent, Canonical
<1>5. \A p \in PositsOf(store) :
         /\ p.appearances # {}
         /\ \A a, b \in p.appearances : a[1] = b[1] => a = b
         /\ \A a \in p.appearances :
               /\ a[2] # 0
               /\ \E r \in RolesOf(store) : r.id = a[1]
  <2> SUFFICES ASSUME NEW p \in PositsOf(store)
               PROVE  /\ p.appearances # {}
                      /\ \A a, b \in p.appearances : a[1] = b[1] => a = b
                      /\ \A a \in p.appearances :
                            /\ a[2] # 0
                            /\ \E r \in RolesOf(store) : r.id = a[1]
    OBVIOUS
  <2>1. Canonical(p) /\ p.kind = "posit"
    BY <1>2 DEF Consistent, PositsOf
  <2>2. \A a \in p.appearances : \E r \in RolesOf(store) : r.id = a[1]
    BY <1>2 DEF Consistent
  <2> QED
    BY <2>1, <2>2 DEF Canonical
<1>6. Range(Bootstrap) \subseteq store
  BY <1>2 DEF Consistent
<1>7. Validate(t)
  BY <1>1, <1>3, <1>4, <1>5, <1>6 DEF Validate
<1> QED
  BY <1>1, <1>7 DEF t

(***************************************************************************)
(* For every store that replays: an import accepts what an export writes   *)
(* of it, and an import of it that was reported, to paths that both name a *)
(* parent, has durably reproduced the store, up to the renaming in the     *)
(* remap file.                                                             *)
(***************************************************************************)
THEOREM TransferRoundTrip == Spec => []RoundTrip
<1>1. ImportingInv => RoundTrip
  <2> SUFFICES ASSUME ImportingInv, export.done
               PROVE  /\ InOrder(export.lines)
                      /\ Validate(Tail(export.lines))
                      /\ reported /\ named = {"destination", "remap"}
                            /\ imported = Tail(export.lines) =>
                            /\ artifact.state = "durable"
                            /\ made = "store" /\ anchored
                            /\ SameUnder(artifact.map, export.store, Records(history))
    BY DEF RoundTrip
  <2>1. export.store \in Stores /\ export.lines = ExportOf(export.store)
    BY DEF ImportingInv, ExportInv
  <2>2. /\ InOrder(export.lines) /\ Validate(Tail(export.lines))
        /\ Range(Tail(export.lines)) = export.store
    BY <2>1, ExportIsInOrder, ExportIsValid
  <2>3. ASSUME reported, named = {"destination", "remap"}, imported = Tail(export.lines)
        PROVE  /\ artifact.state = "durable"
               /\ made = "store" /\ anchored
               /\ SameUnder(artifact.map, export.store, Records(history))
    <3>1. artifact.state = "durable"
      BY <2>3 DEF ImportingInv, ReportInv
    <3>2. RemapFileMeansComplete
      BY RemapFileIsComplete DEF ImportingInv
    <3> QED
      BY <2>2, <2>3, <3>1, <3>2 DEF RemapFileMeansComplete
  <2> QED
    BY <2>2, <2>3
<1> QED
  BY <1>1, ImportingInvariant, PTL

-----------------------------------------------------------------------------
(***************************************************************************)
(* What the destination holds, if anything, is renamed by a map that names *)
(* everything.                                                             *)
(***************************************************************************)
LEMMA WhatIsCopied ==
    ASSUME ImportingInv, NEW batches \in {history, served}
    PROVE  \E n \in 0..Len(imported) :
              /\ Copied(batches, n)
              /\ n # 0 => Named /\ imported # <<>>
<1>1. PICK n \in 0..Len(imported) : Copied(batches, n)
  BY DEF ImportingInv, CopyInv
<1>2. ImportInv /\ Len(imported) \in Nat
  BY DEF ImportingInv, ImportInv
<1>3. n # 0 => batches # <<>>
  <2>1. Positions(<<>>) = {}
    BY DEF Positions
  <2> QED
    BY <2>1, <1>1, FS_EmptySet DEF Copied
<1>4. n # 0 => Named
  <2> SUFFICES ASSUME n # 0 PROVE Named
    OBVIOUS
  <2>1. foreign = {}
    BY <1>3 DEF ImportingInv, CopyInv
  <2> QED
    BY <2>1 DEF ImportingInv, TransferInv, Naming, ImportInv, Named
<1>5. n # 0 => imported # <<>>
  <2>1. 1..Len(<<>>) = {} /\ Len(<<>>) = 0
    OBVIOUS
  <2> QED
    BY <2>1, <1>1
<1> QED
  BY <1>1, <1>4, <1>5

LEMMA CopyLoads ==
    ASSUME ImportingInv, NEW batches \in {history, served},
           \A r \in RolesOf(Range(imported)) : r.name \notin Unnormalized
    PROVE  Loads(batches)
<1>1. PICK n \in 0..Len(imported) :
         Copied(batches, n) /\ (n # 0 => Named /\ imported # <<>>)
  BY WhatIsCopied
<1>2. ReplayAccepts(batches) /\ Records(batches) = {Transformed[i] : i \in 1..n}
  BY <1>1 DEF Copied
<1>3. ImportInv /\ Len(imported) \in Nat
  BY DEF ImportingInv, ImportInv
<1>4. ASSUME NEW r \in RolesOf(Records(batches)) PROVE r.name \notin Unnormalized
  <2>1. PICK i \in 1..n : r = Transformed[i]
    BY <1>2 DEF RolesOf
  <2>2. n # 0 /\ i \in 1..Len(imported)
    BY <1>3, <2>1
  <2>3. Named /\ imported # <<>>
    BY <1>1, <2>2
  <2>4. imported[i] \in Range(imported) /\ Transformed[i] = Renamed(imported[i])
    BY <1>3, <2>2, <2>3, FileIs
  <2>5. r.kind = "role"
    BY DEF RolesOf
  <2>6. imported[i].kind = "role" /\ r.name = imported[i].name
    BY <2>1, <2>3, <2>4, <2>5, RenamedIs
  <2> QED
    BY <2>4, <2>6 DEF RolesOf
<1> QED
  BY <1>2, <1>4 DEF Loads

LEMMA ExportRead ==
    ASSUME NEW store \in Stores, NEW t, t = Tail(ExportOf(store))
    PROVE  /\ \A i \in DOMAIN t : t[i] \in store
           /\ Range(t) = store
           /\ \A i, j \in DOMAIN t : i < j =>
                 \/ t[i].kind = "role" /\ t[j].kind = "posit"
                 \/ t[i].kind = t[j].kind /\ t[i].id < t[j].id
<1> DEFINE u == Tail(ExportOf(store))
<1>1. /\ \A i \in DOMAIN u : u[i] \in store
      /\ Range(u) = store
      /\ \A i, j \in DOMAIN u : i < j =>
            \/ u[i].kind = "role" /\ u[j].kind = "posit"
            \/ u[i].kind = u[j].kind /\ u[i].id < u[j].id
  BY ExportIs, Zenon
<1>2. t = u
  OBVIOUS
<1> HIDE DEF u
<1> QED
  BY <1>1, <1>2

(***************************************************************************)
(* Posits are written in the order of their identities, and their numbers  *)
(* are in that order too; so the posit that an envelope is about, if it    *)
(* had the smaller identity, comes before it and keeps the smaller one.    *)
(***************************************************************************)
LEMMA CopyFollowsTargets ==
    ASSUME ImportingInv, NEW batches \in {history, served},
           export.done, imported = Tail(export.lines),
           NEW r \in PositsOf(export.store), FollowsTargets(r, export.store),
           Renamed(r) \in Records(batches)
    PROVE  FollowsTargets(Renamed(r), Records(batches))
<1> DEFINE store == export.store
<1>1. PICK n \in 0..Len(imported) :
         Copied(batches, n) /\ (n # 0 => Named /\ imported # <<>>)
  BY WhatIsCopied
<1>2. Records(batches) = {Transformed[i] : i \in 1..n}
  BY <1>1 DEF Copied
<1>3. ImportInv /\ Len(imported) \in Nat /\ n \in Nat
  BY DEF ImportingInv, ImportInv
<1>4. store \in Stores /\ imported = Tail(ExportOf(store))
  BY DEF ImportingInv, ExportInv
<1>5. /\ \A i \in DOMAIN imported : imported[i] \in store
      /\ Range(imported) = store
      /\ \A i, j \in DOMAIN imported : i < j =>
            \/ imported[i].kind = "role" /\ imported[j].kind = "posit"
            \/ imported[i].kind = imported[j].kind /\ imported[i].id < imported[j].id
  BY <1>4, ExportRead
<1>6. store \subseteq Record /\ Consistent(store)
  BY <1>4, StoreIs
<1> HIDE DEF store
<1>7. \A p \in PositsOf(store) : p.id \in Nat /\ p.id \notin Builtin
  <2> SUFFICES ASSUME NEW p \in PositsOf(store) PROVE p.id \in Nat /\ p.id \notin Builtin
    OBVIOUS
  <2>1. p \in store /\ p.kind = "posit" /\ p.id \in Nat
    BY <1>6 DEF PositsOf, Record
  <2>2. ASSUME p.id \in Builtin PROVE FALSE
    <3> DEFINE built == NewRole(p.id, BuiltinNames[p.id])
    <3>1. p.id \in DOMAIN BuiltinNames
      BY <2>2 DEF Builtin, BuiltinNames
    <3>2. Bootstrap[p.id] = built /\ p.id \in DOMAIN Bootstrap
      BY <3>1 DEF Bootstrap
    <3>3. built \in store
      BY <3>2, <1>6 DEF Consistent, Range
    <3>4. built.kind = "role" /\ built.id = p.id
      BY DEF NewRole
    <3>5. built # p
      BY <2>1, <3>4
    <3> QED
      BY <2>1, <3>3, <3>4, <3>5, <1>6 DEF Consistent, Conflict
  <2> QED
    BY <2>1, <2>2
<1> DEFINE p == Renamed(r)
<1> SUFFICES ASSUME NEW x \in Targets(p)
             PROVE  \E q \in PositsOf(Records(batches)) : q.id = x /\ q.id < p.id
  BY DEF FollowsTargets
<1>8. PICK i \in 1..n : p = Transformed[i]
  BY <1>2
<1>9. Named /\ imported # <<>>
  BY <1>1, <1>3, <1>8
<1>10. /\ DOMAIN imported = 1..Len(imported)
       /\ \A k \in 1..Len(imported) :
             imported[k] \in Range(imported) /\ Transformed[k] = Renamed(imported[k])
  BY <1>3, <1>9, FileIs
<1>11. i \in DOMAIN imported
  BY <1>3, <1>10
<1>12. /\ r \in Range(imported) /\ r.kind = "posit" /\ r \in PositsOf(store)
       /\ p.id = remap[r.id] /\ p.value = r.value
       /\ p.appearances = {<<remap[a[1]], remap[a[2]]>> : a \in r.appearances}
  <2>1. r \in PositsOf(store) /\ r \in Range(imported) /\ r.kind = "posit"
    BY <1>5 DEF PositsOf, store
  <2> QED
    BY <1>9, <2>1, RenamedIs
<1>26. imported[i] = r
  <2> SUFFICES ASSUME imported[i] # r PROVE FALSE
    OBVIOUS
  <2>1. imported[i] \in store /\ r \in store
    BY <1>5, <1>11, <1>12
  <2>2. ~Conflict(imported[i], r)
    BY <1>6, <2>1 DEF Consistent
  <2>3. imported[i] \in Range(imported) /\ Transformed[i] = Renamed(imported[i])
    BY <1>10, <1>11
  <2>4. ~Conflict(Renamed(imported[i]), p)
    BY <1>9, <1>12, <2>2, <2>3, RenamedApart
  <2> QED
    BY <1>8, <2>3, <2>4 DEF Conflict
<1> HIDE DEF p
<1>13. PICK c \in p.appearances : c[1] = PositRole /\ c[2] = x /\ p.value = Certainty
  BY DEF Targets
<1>14. PICK a \in r.appearances : c = <<remap[a[1]], remap[a[2]]>>
  BY <1>12, <1>13
<1>15. a[1] = PositRole
  <2>1. PositRole = 1 /\ PositRole \in Builtin
    BY FiveBuiltins DEF PositRole
  <2>2. PositRole \in DOMAIN remap /\ remap[PositRole] = PositRole
    BY <1>9, <2>1 DEF Named, Numbering
  <2>3. a[1] \in DOMAIN remap /\ remap[a[1]] = PositRole
    BY <1>9, <1>12, <1>13, <1>14, NumbersApart
  <2> QED
    BY <1>9, <2>2, <2>3, NumbersApart
<1>16. a[2] \in Targets(r) /\ x = remap[a[2]]
  BY <1>12, <1>13, <1>14, <1>15 DEF Targets
<1>17. PICK q \in PositsOf(store) : q.id = a[2] /\ q.id < r.id
  BY <1>12, <1>16 DEF FollowsTargets, store
<1>18. q.kind = "posit" /\ q \in Range(imported)
  BY <1>5 DEF PositsOf
<1>19. PICK j \in DOMAIN imported : imported[j] = q
  BY <1>18 DEF Range
<1>20. q.id \in Nat /\ r.id \in Nat /\ q.id \notin Builtin /\ r.id \notin Builtin
  BY <1>7, <1>12
<1>21. j \in 1..n
  <2>1. ~(i < j)
    <3> SUFFICES ASSUME i < j PROVE FALSE
      OBVIOUS
    <3>1. \/ r.kind = "role" /\ q.kind = "posit"
          \/ r.kind = q.kind /\ r.id < q.id
      <4>1. imported[i] = r /\ imported[j] = q
        BY <1>19, <1>26
      <4>2. \/ imported[i].kind = "role" /\ imported[j].kind = "posit"
            \/ imported[i].kind = imported[j].kind /\ imported[i].id < imported[j].id
        BY <1>5, <1>11, <1>19, Zenon
      <4> QED
        BY <4>1, <4>2
    <3>2. r.id < q.id
      BY <3>1, <1>12
    <3> QED
      BY <3>2, <1>17, <1>20
  <2> QED
    BY <2>1, <1>3, <1>8, <1>10, <1>11, <1>19
<1>22. Transformed[j] = Renamed(q)
  BY <1>10, <1>19
<1>23. Renamed(q).kind = "posit" /\ Renamed(q).id = remap[q.id]
  BY <1>9, <1>18, RenamedIs
<1>24. Renamed(q) \in PositsOf(Records(batches))
  BY <1>2, <1>21, <1>22, <1>23 DEF PositsOf
<1>25. remap[q.id] < remap[r.id]
  <2>1. q.id \in DOMAIN remap /\ r.id \in DOMAIN remap
    BY <1>9, <1>12, <1>18, NumbersApart
  <2> QED
    BY <2>1, <1>17, <1>20 DEF ImportingInv, OrderInv
<1> QED
  BY <1>12, <1>16, <1>17, <1>23, <1>24, <1>25

(***************************************************************************)
(* For every store and every file with normalized names: wherever an       *)
(* import was stopped, a destination that LogStore::open had finished      *)
(* opens, and an envelope of the exported store that came after the posit  *)
(* it is about is not there without it.                                    *)
(***************************************************************************)
THEOREM PartialDestinationsLoad == Spec => []PartialDestinationLoads
<1>1. ImportingInv => PartialDestinationLoads
  BY CopyLoads, CopyFollowsTargets DEF PartialDestinationLoads
<1> QED
  BY <1>1, ImportingInvariant, PTL
=============================================================================
