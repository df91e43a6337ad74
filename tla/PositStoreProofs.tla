--------------------------- MODULE PositStoreProofs ---------------------------
(***************************************************************************)
(* What PositStore writes is replayed, whatever the names, values,         *)
(* commands and bounds, and wherever commands fail, processes end and the  *)
(* power fails.                                                            *)
(***************************************************************************)
EXTENDS PositStore, LogicalReplayProofs

(***************************************************************************)
(* A store that replays, and whose identities have a largest one.          *)
(***************************************************************************)
Bounded(records) == \E n \in Nat : \A t \in Things(records) : t <= n

Sound(batches) == ReplayAccepts(batches) /\ Bounded(Records(batches))

(***************************************************************************)
(* A posit has a larger identity than every posit that it mentions; what   *)
(* came later was not mentioned before; envelopes are there with what they *)
(* are about.                                                              *)
(***************************************************************************)
Ordered(records) ==
    \A p, q \in PositsOf(records) : \A a \in p.appearances : a[2] = q.id => q.id < p.id

Extends(records, older) ==
    /\ older \subseteq records
    /\ \A r \in records \ older : r.id \notin Things(older)

Follow(envelopes, records) ==
    /\ envelopes \subseteq records
    /\ \A p \in envelopes : FollowsTargets(p, records)

LogInv ==
    /\ Sound(served) /\ Sound(history)
    /\ Ordered(Records(served))
    /\ Extends(Records(served), Records(history))
    /\ Follow(asserted, Records(served))

(***************************************************************************)
(* What is staged or kept in each phase of a command.  A process that has  *)
(* no roles yet is bootstrapping.                                          *)
(***************************************************************************)
PhaseInv ==
    /\ pc = "down" => roles = {} /\ posits = {} /\ lowerBound = 0 /\ ~poisoned
    /\ pc \in {"down", "idle", "bound"} => command.prepared = <<>>
    /\ pc \in {"idle", "bound"} => ~Bootstrapping
    /\ pc \in {"published", "persisted"} => ~poisoned
    /\ pc # "down" /\ Bootstrapping =>
          /\ ~poisoned
          /\ posits = {}
          /\ command.prepared = Bootstrap
          /\ pc = "append" => served = <<>>

Indexed(records) ==
    \A p \in PositsOf(records) : p.appearances \in sets /\ p.appearances \subseteq appearances

(***************************************************************************)
(* The keepers against the log.  A batch that was published is the last    *)
(* one, and is all that the keepers lack.                                  *)
(***************************************************************************)
MemoryInv ==
    /\ roles \cup posits \subseteq Records(served)
    /\ pc \in {"idle", "bound", "append"} /\ ~poisoned =>
          roles \cup posits = Records(served)
    /\ pc \in {"published", "persisted"} =>
          /\ command.prepared \in Range(served)
          /\ Records(served) = roles \cup posits \cup Range(command.prepared)
    /\ pc = "persisted" => history = served
    /\ Indexed(posits \cup Range(command.prepared))

(***************************************************************************)
(* What `add posit` has bound: canonical appearance sets of roles that are *)
(* kept and of identities that the generator has passed.                   *)
(***************************************************************************)
BoundSet(set) ==
    /\ set # {}
    /\ \A a \in set : a[2] \in 1..lowerBound /\ \E r \in roles : r.id = a[1]
    /\ \A a, b \in set : a[1] = b[1] => a = b

BoundInv ==
    pc = "bound" =>
        /\ \A i \in DOMAIN command.targets : BoundSet(command.targets[i][1])
        /\ \A i \in DOMAIN command.assertions :
              /\ command.assertions[i].target \in DOMAIN command.targets
              /\ command.assertions[i].positor \in 1..lowerBound

(***************************************************************************)
(* A batch that is going to be published fits.                             *)
(***************************************************************************)
With(batch) == Records(served) \cup Range(batch)

StagedInv ==
    pc = "append" /\ ~poisoned =>
        /\ Fits(served, command.prepared)
        /\ Ordered(With(command.prepared))
        /\ Extends(With(command.prepared), Records(served))
        /\ Follow(command.envelopes, With(command.prepared))

IInv ==
    /\ TypeOK
    /\ LogInv
    /\ PhaseInv
    /\ MemoryInv
    /\ GeneratorAbove
    /\ BoundInv
    /\ StagedInv

-----------------------------------------------------------------------------
(***************************************************************************)
(* Records by kind.                                                        *)
(***************************************************************************)
LEMMA KindsOfRecords ==
    ASSUME NEW S \in SUBSET Record
    PROVE  /\ RolesOf(S) \subseteq RoleRecord
           /\ PositsOf(S) \subseteq PositRecord
           /\ RolesOf(S) \cup PositsOf(S) = S
           /\ Things(S) \subseteq Nat
<1>1. \A r \in RoleRecord : r.kind = "role" /\ r.id \in Nat
  BY DEF RoleRecord, Thing
<1>2. \A r \in PositRecord : /\ r.kind = "posit" /\ r.id \in Nat
                             /\ r.appearances \subseteq Nat \X Nat
  BY DEF PositRecord, Thing, AppearanceSet
<1>3. \A r \in S : r \in RoleRecord \/ r \in PositRecord
  BY DEF Record
<1>4. RolesOf(S) \subseteq RoleRecord /\ PositsOf(S) \subseteq PositRecord
  BY <1>1, <1>2, <1>3 DEF RolesOf, PositsOf
<1>5. RolesOf(S) \cup PositsOf(S) = S
  BY <1>1, <1>2, <1>3 DEF RolesOf, PositsOf
<1>6. ASSUME NEW t \in Things(S) PROVE t \in Nat
  <2>1. CASE \E r \in S : t = r.id
    BY <2>1, <1>1, <1>2, <1>3
  <2>2. CASE \E p \in PositsOf(S) : \E a \in p.appearances : t = a[2]
    BY <2>2, <1>2, <1>4
  <2> QED
    BY <2>1, <2>2, ThingsAre
<1> QED
  BY <1>4, <1>5, <1>6

LEMMA KindsOfKeepers ==
    ASSUME NEW A \in SUBSET RoleRecord, NEW B \in SUBSET PositRecord
    PROVE  RolesOf(A \cup B) = A /\ PositsOf(A \cup B) = B
<1>1. \A r \in A : r.kind = "role"
  BY DEF RoleRecord
<1>2. \A r \in B : r.kind = "posit"
  BY DEF PositRecord
<1> QED
  BY <1>1, <1>2 DEF RolesOf, PositsOf

LEMMA TypeFacts ==
    ASSUME TypeOK
    PROVE  /\ served \in Seq(Seq(Record)) /\ history \in Seq(Seq(Record))
           /\ Records(served) \subseteq Record
           /\ lowerBound \in Nat
           /\ roles \subseteq RoleRecord /\ posits \subseteq PositRecord
           /\ command.prepared \in Seq(Record)
           /\ Range(command.prepared) \subseteq Record
<1>1. served \in Seq(Seq(Record)) /\ history \in Seq(Seq(Record))
  BY DEF TypeOK, Store!DLTypeOK, Batches
<1>2. Records(served) \subseteq Record
  BY <1>1, RecordsArePointwise
<1>3. command.prepared \in Seq(Record)
  BY DEF TypeOK, Batches
<1>4. Range(command.prepared) \subseteq Record
  BY <1>3 DEF Range
<1> QED
  BY <1>1, <1>2, <1>3, <1>4 DEF TypeOK

(***************************************************************************)
(* Nothing bound, nothing staged.                                          *)
(***************************************************************************)
LEMMA IdleIsTyped ==
    /\ Idle.targets \in Seq(AppearanceSet \X Values)
    /\ Idle.assertions \in Seq([target: Nat, positor: Thing])
    /\ Idle.prepared = <<>> /\ Idle.prepared \in Batches
    /\ Idle.answers \subseteq Record
    /\ Idle.envelopes = {}
    /\ Range(<<>>) = {}
  BY DEF Idle, Batches, Range

(***************************************************************************)
(* What is left of the envelopes in an older state of the store still      *)
(* follows its targets.                                                    *)
(***************************************************************************)
LEMMA OlderFollow ==
    ASSUME NEW A, NEW B, NEW E, Extends(B, A), Follow(E, B),
           \A p \in E : p.kind = "posit"
    PROVE  Follow(E \cap A, A)
<1> SUFFICES ASSUME NEW p \in E \cap A, NEW t \in Targets(p)
             PROVE  \E q \in PositsOf(A) : q.id = t /\ q.id < p.id
  BY DEF Follow, FollowsTargets
<1>1. PICK q \in PositsOf(B) : q.id = t /\ q.id < p.id
  BY DEF Follow, FollowsTargets
<1>2. \E a \in p.appearances : t = a[2]
  BY DEF Targets
<1>3. t \in Things(A)
  <2>1. p \in PositsOf(A)
    BY DEF PositsOf
  <2> QED
    BY <2>1, <1>2, ThingsAre
<1>4. q \in A
  BY <1>1, <1>3 DEF Extends, PositsOf
<1> QED
  BY <1>1, <1>4 DEF PositsOf

LEMMA ExtendsTwice ==
    ASSUME NEW A, NEW B, NEW C, Extends(B, A), Extends(C, B)
    PROVE  Extends(C, A)
<1>1. Things(A) \subseteq Things(B)
  <2>1. A \cup B = B
    BY DEF Extends
  <2> QED
    BY <2>1, ThingsOfUnion
<1> QED
  BY <1>1 DEF Extends

LEMMA InitEstablishes == Init => IInv
<1> SUFFICES ASSUME Init PROVE IInv
  OBVIOUS
<1> USE DEF Init
<1>1. served = <<>> /\ history = <<>> /\ acked = {}
  BY DEF Store!DLInit
<1>2. TypeOK
  <2>1. 0 \in 0..MaxFaults
    BY PositStoreAssumption
  <2>2. Store!DLTypeOK
    BY <1>1 DEF Store!DLTypeOK
  <2> QED
    BY <2>1, <2>2, IdleIsTyped DEF TypeOK, AppearanceSet
<1>3. LogInv
  BY <1>1, NothingReplays
     DEF LogInv, Sound, Bounded, Ordered, Extends, Follow, PositsOf
<1>4. PhaseInv
  BY IdleIsTyped DEF PhaseInv, Bootstrapping
<1>5. MemoryInv
  <2>1. Range(command.prepared) = {} /\ PositsOf({}) = {}
    BY IdleIsTyped DEF PositsOf
  <2> QED
    BY <2>1 DEF MemoryInv, Indexed
<1>6. GeneratorAbove /\ BoundInv /\ StagedInv
  BY DEF GeneratorAbove, BoundInv, StagedInv
<1> QED
  BY <1>2, <1>3, <1>4, <1>5, <1>6 DEF IInv

-----------------------------------------------------------------------------
(***************************************************************************)
(* A process that ends leaves only the log.                                *)
(***************************************************************************)
LEMMA StopKeeps ==
    ASSUME IInv, Stop, faults' \in 0..MaxFaults, Store!DLTypeOK', LogInv',
           asserted' \subseteq PositRecord
    PROVE  IInv'
<1> USE DEF Stop
<1>1. TypeOK'
  BY IdleIsTyped DEF IInv, TypeOK, AppearanceSet
<1>2. PhaseInv'
  BY IdleIsTyped DEF PhaseInv, Bootstrapping
<1>3. MemoryInv'
  <2>1. Range(command'.prepared) = {} /\ PositsOf({}) = {}
    BY IdleIsTyped DEF PositsOf
  <2> QED
    BY <2>1 DEF MemoryInv, Indexed
<1>4. GeneratorAbove' /\ BoundInv' /\ StagedInv'
  BY DEF GeneratorAbove, BoundInv, StagedInv
<1> QED
  BY <1>1, <1>2, <1>3, <1>4 DEF IInv

LEMMA CloseKeeps ==
    ASSUME IInv, faults' \in 0..MaxFaults, Stop, UNCHANGED <<log, asserted>>
    PROVE  IInv'
<1>1. Store!DLTypeOK' /\ LogInv' /\ asserted' \subseteq PositRecord
  BY DEF log, IInv, TypeOK, Store!DLTypeOK, LogInv
<1> QED
  BY <1>1, StopKeeps

LEMMA PowerLossKeeps ==
    ASSUME IInv, faults' \in 0..MaxFaults, PowerLoss
    PROVE  IInv'
<1>1. /\ \/ served' = history /\ history' = history
         \/ served' = served /\ history' = served
      /\ acked' = acked /\ asserted' = asserted \cap Records(served')
  BY DEF PowerLoss, Store!Revert, Store!Persist
<1>2. Store!DLTypeOK' /\ asserted' \subseteq PositRecord
  BY <1>1 DEF IInv, TypeOK, Store!DLTypeOK
<1>3. /\ Sound(served) /\ Sound(history) /\ Ordered(Records(served))
      /\ Extends(Records(served), Records(history)) /\ Follow(asserted, Records(served))
      /\ \A p \in asserted : p.kind = "posit"
  BY DEF IInv, LogInv, TypeOK, PositRecord
<1>4. Follow(asserted', Records(served'))
  BY <1>1, <1>3, OlderFollow DEF Follow
<1>5. Ordered(Records(served'))
  BY <1>1, <1>3 DEF Ordered, Extends, PositsOf
<1>6. Extends(Records(served'), Records(history'))
  BY <1>1, <1>3 DEF Extends
<1>7. LogInv'
  BY <1>1, <1>3, <1>4, <1>5, <1>6 DEF LogInv
<1> QED
  BY <1>2, <1>7, StopKeeps DEF PowerLoss

-----------------------------------------------------------------------------
(***************************************************************************)
(* A new process keeps what the log holds.                                 *)
(***************************************************************************)
LEMMA OpenKeeps ==
    ASSUME IInv, faults' \in 0..MaxFaults, Open
    PROVE  IInv'
<1> DEFINE R == Records(served)
<1>1. /\ TypeOK /\ LogInv /\ PhaseInv /\ pc = "down" /\ served # <<>>
      /\ roles' = RolesOf(R) /\ posits' = PositsOf(R)
      /\ appearances' = UNION {p.appearances : p \in posits'}
      /\ sets' = {p.appearances : p \in posits'}
      /\ lowerBound' = Largest(Things(R))
      /\ pc' = "idle"
      /\ served' = served /\ history' = history /\ acked' = acked
      /\ poisoned' = poisoned /\ command' = command /\ answered' = answered
      /\ asserted' = asserted
  BY DEF Open, IInv, log
<1>2. R \subseteq Record /\ served \in Seq(Seq(Record))
  BY <1>1, TypeFacts
<1>3. /\ roles' \subseteq RoleRecord /\ posits' \subseteq PositRecord
      /\ roles' \cup posits' = R /\ Things(R) \subseteq Nat
  BY <1>1, <1>2, KindsOfRecords
<1>4. /\ lowerBound' \in Nat
      /\ \A t \in Things(R) : t <= lowerBound'
  <2>1. PICK n \in Nat : \A t \in Things(R) : t <= n
    BY <1>1 DEF LogInv, Sound, Bounded
  <2> QED
    BY <2>1, <1>1, <1>3, LargestBounds
<1>5. appearances' \in AppearanceSet /\ sets' \subseteq AppearanceSet
  <2>1. \A p \in posits' : p.appearances \subseteq Thing \X Thing
    BY <1>3 DEF PositRecord, AppearanceSet
  <2> QED
    BY <2>1, <1>1 DEF AppearanceSet
<1>6. TypeOK'
  BY <1>1, <1>3, <1>4, <1>5 DEF TypeOK, Store!DLTypeOK
<1>7. LogInv'
  BY <1>1 DEF LogInv
<1>8. command'.prepared = <<>> /\ Range(command'.prepared) = {} /\ ~poisoned'
  BY <1>1, IdleIsTyped DEF PhaseInv
<1>9. roles' # {}
  <2>1. Range(Bootstrap) \subseteq R
    BY <1>1, <1>2, AcceptsPointwise DEF LogInv, Sound
  <2>2. PICK r : r \in Range(Bootstrap)
    BY BootstrapFits
  <2>3. r \notin PositsOf(R)
    BY <2>2, BootstrapFits DEF PositsOf
  <2> QED
    BY <2>1, <2>2, <2>3, <1>1, <1>3
<1>10. PhaseInv'
  BY <1>1, <1>8, <1>9 DEF PhaseInv, Bootstrapping
<1>11. MemoryInv'
  <2>1. PositsOf(posits' \cup {}) = posits'
    BY <1>1 DEF PositsOf
  <2>2. Indexed(posits \cup Range(command.prepared))'
    BY <2>1, <1>1, <1>8 DEF Indexed
  <2> QED
    BY <1>1, <1>3, <2>2 DEF MemoryInv
<1>12. GeneratorAbove'
  <2>1. Records(served') \cup Range(command'.prepared) = R
    BY <1>1, <1>8
  <2> QED
    BY <2>1, <1>4 DEF GeneratorAbove
<1>13. BoundInv' /\ StagedInv'
  BY <1>1 DEF BoundInv, StagedInv
<1> QED
  BY <1>6, <1>7, <1>10, <1>11, <1>12, <1>13 DEF IInv

LEMMA OpenEmptyKeeps ==
    ASSUME IInv, faults' \in 0..MaxFaults, OpenEmpty
    PROVE  IInv'
<1>1. /\ TypeOK /\ LogInv /\ PhaseInv /\ MemoryInv /\ pc = "down" /\ served = <<>>
      /\ command' = [Idle EXCEPT !.prepared = Bootstrap]
      /\ pc' = "append" /\ served' = served /\ history' = history /\ acked' = acked
      /\ lowerBound' = lowerBound /\ roles' = roles /\ posits' = posits
      /\ appearances' = appearances /\ sets' = sets
      /\ poisoned' = poisoned /\ answered' = answered /\ asserted' = asserted
  BY DEF OpenEmpty, IInv, log, keepers, indexes
<1>2. /\ command'.prepared = Bootstrap /\ command'.targets = Idle.targets
      /\ command'.assertions = Idle.assertions /\ command'.answers = Idle.answers
      /\ command'.envelopes = Idle.envelopes
  BY <1>1 DEF Idle
<1>3. Bootstrap \in Batches
  <2>1. DOMAIN BuiltinNames = 1..5 /\ \A i \in 1..5 : BuiltinNames[i] \in Range(BuiltinNames)
    BY DEF BuiltinNames, Range
  <2>2. \A i \in 1..5 : NewRole(i, BuiltinNames[i]) \in Record
    BY <2>1 DEF NewRole, Record, RoleRecord, Thing
  <2> QED
    BY <2>1, <2>2 DEF Bootstrap, Batches
<1>4. TypeOK'
  BY <1>1, <1>2, <1>3, IdleIsTyped DEF TypeOK, Store!DLTypeOK
<1>5. LogInv'
  BY <1>1 DEF LogInv
<1>6. roles = {} /\ posits = {} /\ ~poisoned
  BY <1>1 DEF PhaseInv
<1>7. PhaseInv'
  BY <1>1, <1>2, <1>6 DEF PhaseInv, Bootstrapping
<1>8. MemoryInv'
  <2>1. PositsOf({} \cup Range(Bootstrap)) = {}
    BY BootstrapFits DEF PositsOf
  <2>2. Indexed(posits \cup Range(command.prepared))'
    BY <2>1, <1>1, <1>2, <1>6 DEF Indexed
  <2> QED
    BY <2>2, <1>1, <1>6, NothingReplays DEF MemoryInv
<1>9. StagedInv'
  <2>1. With(command.prepared)' = Range(Bootstrap) /\ Records(served') = {}
    BY <1>1, <1>2, NothingReplays DEF With
  <2>2. Ordered(Range(Bootstrap))
    BY BootstrapFits DEF Ordered
  <2>3. Extends(Range(Bootstrap), {})
    BY NothingReplays DEF Extends
  <2>4. Follow(command'.envelopes, Range(Bootstrap))
    BY <1>2, IdleIsTyped DEF Follow
  <2> QED
    BY <2>1, <2>2, <2>3, <2>4, <1>1, <1>2, BootstrapFits DEF StagedInv
<1>10. GeneratorAbove' /\ BoundInv'
  BY <1>1, <1>6 DEF GeneratorAbove, BoundInv, Bootstrapping
<1> QED
  BY <1>4, <1>5, <1>7, <1>8, <1>9, <1>10 DEF IInv

-----------------------------------------------------------------------------
(***************************************************************************)
(* A command that ends without having published leaves no more than        *)
(* before.                                                                 *)
(***************************************************************************)
LEMMA FailKeeps ==
    ASSUME IInv, faults' \in 0..MaxFaults, UNCHANGED <<log, asserted>>,
           NEW poison \in BOOLEAN, Fail(poison),
           pc \in {"append", "published", "persisted"},
           pc = "append" \/ poison, ~poison => ~poisoned
    PROVE  IInv'
<1>1. CASE Bootstrapping
  BY <1>1, CloseKeeps DEF Fail
<1>2. CASE ~Bootstrapping
  <2>1. /\ pc' = "idle" /\ poisoned' = poison /\ command' = Idle
        /\ served' = served /\ history' = history /\ acked' = acked
        /\ lowerBound' = lowerBound /\ roles' = roles /\ posits' = posits
        /\ appearances' = appearances /\ sets' = sets /\ answered' = answered
        /\ asserted' = asserted
    BY <1>2 DEF Fail, log, keepers, indexes
  <2>2. TypeOK'
    BY <2>1, IdleIsTyped DEF IInv, TypeOK, Store!DLTypeOK
  <2>3. LogInv'
    BY <2>1 DEF IInv, LogInv
  <2>4. PhaseInv'
    BY <1>2, <2>1, IdleIsTyped DEF PhaseInv, Bootstrapping
  <2>5. Range(command'.prepared) = {}
    BY <2>1, IdleIsTyped
  <2>6. MemoryInv'
    <3>1. Indexed(posits \cup Range(command.prepared))'
      BY <2>1, <2>5 DEF IInv, MemoryInv, Indexed, PositsOf
    <3> QED
      BY <2>1, <3>1 DEF IInv, MemoryInv
  <2>7. GeneratorAbove'
    <3>1. \A t \in Things(Records(served)) : t <= lowerBound
      BY <1>2, ThingsOfUnion DEF IInv, GeneratorAbove
    <3> QED
      BY <2>1, <2>5, <3>1 DEF GeneratorAbove
  <2>8. BoundInv' /\ StagedInv'
    BY <2>1 DEF BoundInv, StagedInv
  <2> QED
    BY <2>2, <2>3, <2>4, <2>6, <2>7, <2>8 DEF IInv
<1> QED
  BY <1>1, <1>2

(***************************************************************************)
(* The batch that is published fits, so that the log stays sound.          *)
(***************************************************************************)
LEMMA PublishKeeps ==
    ASSUME IInv, faults' \in 0..MaxFaults, Publish
    PROVE  IInv' /\ command.prepared \in Range(served') \cap Batches
<1> DEFINE x == command.prepared
<1>1. /\ pc = "append" /\ ~poisoned
      /\ served' = Append(served, x) /\ history' = history /\ acked' = acked
      /\ pc' = "published" /\ lowerBound' = lowerBound
      /\ roles' = roles /\ posits' = posits /\ appearances' = appearances
      /\ sets' = sets /\ poisoned' = poisoned /\ command' = command /\ answered' = answered
      /\ asserted' = asserted \cup command.envelopes
  BY DEF Publish, Store!Publish, keepers, indexes
<1>2. /\ served \in Seq(Seq(Record)) /\ x \in Seq(Record)
      /\ Records(served) \subseteq Record /\ Range(x) \subseteq Record
  BY TypeFacts DEF IInv
<1>3. /\ served' \in Seq(Seq(Record)) /\ x \in Range(served')
  <2>1. Len(served') = Len(served) + 1 /\ served'[Len(served) + 1] = x
        /\ Len(served) + 1 \in DOMAIN served'
    BY <1>1, <1>2
  <2> QED
    BY <2>1, <1>1, <1>2 DEF Range
<1>4. TypeOK'
  BY <1>1, <1>3 DEF IInv, TypeOK, Store!DLTypeOK, Batches
<1>5. Records(served') = Records(served) \cup Range(x)
  BY <1>1, <1>2, AppendedRecords
<1>6. Bounded(Records(served'))
  <2>1. CASE Bootstrapping
    <3>1. x = Bootstrap /\ served = <<>>
      BY <1>1, <2>1 DEF IInv, PhaseInv
    <3>2. Things(Records(served')) \subseteq 1..Len(BuiltinNames)
      BY <1>5, <3>1, NothingReplays, BootstrapFits
    <3>3. Len(BuiltinNames) = 5
      BY DEF BuiltinNames
    <3> QED
      BY <3>2, <3>3 DEF Bounded
  <2>2. CASE ~Bootstrapping
    BY <1>1, <1>2, <1>5, <2>2, TypeFacts DEF IInv, GeneratorAbove, Bounded
  <2> QED
    BY <2>1, <2>2
<1>7. ReplayAccepts(served')
  BY <1>1, <1>2, FittingBatchIsAccepted DEF IInv, LogInv, Sound, StagedInv
<1>8. /\ Ordered(Records(served'))
      /\ Extends(Records(served'), Records(history))
      /\ Follow(asserted', Records(served'))
  <2>1. /\ Ordered(Records(served')) /\ Extends(Records(served'), Records(served))
        /\ Follow(command.envelopes, Records(served'))
    BY <1>1, <1>5 DEF IInv, StagedInv, With
  <2>2. Follow(asserted, Records(served)) /\ Extends(Records(served), Records(history))
    BY DEF IInv, LogInv
  <2>3. Follow(asserted, Records(served'))
    BY <2>2, <1>5, FollowsTargetsAmongMore DEF Follow
  <2> QED
    BY <1>1, <2>1, <2>2, <2>3, ExtendsTwice DEF Follow
<1>9. LogInv'
  BY <1>1, <1>6, <1>7, <1>8 DEF IInv, LogInv, Sound
<1>10. PhaseInv'
  BY <1>1 DEF IInv, PhaseInv, Bootstrapping
<1>11. MemoryInv'
  <2>1. roles \cup posits = Records(served)
    BY <1>1 DEF IInv, MemoryInv
  <2>2. Indexed(posits \cup Range(command.prepared))'
    BY <1>1 DEF IInv, MemoryInv, Indexed
  <2> QED
    BY <1>1, <1>3, <1>5, <2>1, <2>2 DEF MemoryInv
<1>12. GeneratorAbove'
  <2>1. Records(served') \cup Range(x) = Records(served) \cup Range(x)
    BY <1>5
  <2> QED
    BY <1>1, <2>1 DEF IInv, GeneratorAbove, Bootstrapping
<1>13. BoundInv' /\ StagedInv'
  BY <1>1 DEF BoundInv, StagedInv
<1> QED
  BY <1>2, <1>3, <1>4, <1>9, <1>10, <1>11, <1>12, <1>13 DEF IInv, Batches

LEMMA PersistKeeps ==
    ASSUME IInv, faults' \in 0..MaxFaults, Persist
    PROVE  IInv'
<1>1. /\ pc = "published"
      /\ served' = served /\ history' = served /\ acked' = acked
      /\ pc' = "persisted" /\ lowerBound' = lowerBound
      /\ roles' = roles /\ posits' = posits /\ appearances' = appearances
      /\ sets' = sets /\ poisoned' = poisoned /\ command' = command /\ answered' = answered
      /\ asserted' = asserted
  BY DEF Persist, Store!Persist, keepers, indexes
<1>2. TypeOK'
  BY <1>1 DEF IInv, TypeOK, Store!DLTypeOK
<1>3. LogInv'
  BY <1>1 DEF IInv, LogInv, Extends
<1>4. PhaseInv'
  BY <1>1 DEF IInv, PhaseInv, Bootstrapping
<1>5. MemoryInv'
  BY <1>1 DEF IInv, MemoryInv, Indexed
<1>6. GeneratorAbove'
  BY <1>1 DEF IInv, GeneratorAbove, Bootstrapping
<1>7. BoundInv' /\ StagedInv'
  BY <1>1 DEF BoundInv, StagedInv
<1> QED
  BY <1>2, <1>3, <1>4, <1>5, <1>6, <1>7 DEF IInv

(***************************************************************************)
(* The keepers take the batch that the log has already.                    *)
(***************************************************************************)
LEMMA KeepKeeps ==
    ASSUME IInv, faults' \in 0..MaxFaults, Keep
    PROVE  IInv' /\ command.prepared \in Range(history)
<1> DEFINE X == Range(command.prepared)
<1>1. /\ pc = "persisted"
      /\ served' = served /\ history' = history
      /\ acked' = acked \cup {command.prepared}
      /\ roles' = roles \cup RolesOf(X) /\ posits' = posits \cup PositsOf(X)
      /\ lowerBound' = Largest({lowerBound} \cup {r.id : r \in X})
      /\ answered' = answered \cup command.answers
      /\ command' = Idle /\ pc' = "idle"
      /\ appearances' = appearances /\ sets' = sets /\ poisoned' = poisoned
      /\ asserted' = asserted
  BY DEF Keep, Store!Acknowledge, AnswerKept, indexes
<1>2. /\ TypeOK /\ command.prepared \in Batches /\ command.answers \subseteq Record
      /\ X \subseteq Record /\ lowerBound \in Nat
      /\ roles \subseteq RoleRecord /\ posits \subseteq PositRecord
  BY TypeFacts DEF IInv, TypeOK
<1>3. /\ command.prepared \in Range(served) /\ history = served
      /\ Records(served) = roles \cup posits \cup X
  BY <1>1 DEF IInv, MemoryInv
<1>4. /\ RolesOf(X) \subseteq RoleRecord /\ PositsOf(X) \subseteq PositRecord
      /\ RolesOf(X) \cup PositsOf(X) = X /\ Things(X) \subseteq Nat
      /\ Things(Records(served)) \subseteq Nat
  BY <1>2, TypeFacts, KindsOfRecords
<1>5. /\ lowerBound' \in Nat /\ lowerBound <= lowerBound'
      /\ \A r \in X : r.id <= lowerBound'
  <2>1. PICK n \in Nat : \A t \in Things(Records(served)) : t <= n
    BY DEF IInv, LogInv, Sound, Bounded
  <2>2. \A r \in X : r.id \in Things(Records(served))
    BY <1>3 DEF Things
  <2> DEFINE S == {lowerBound} \cup {r.id : r \in X}
             top == IF n <= lowerBound THEN lowerBound ELSE n
  <2>3. S \in SUBSET Nat /\ top \in Nat /\ \A t \in S : t <= top
    BY <1>2, <1>4, <2>1, <2>2
  <2>4. Largest(S) \in Nat /\ \A t \in S : t <= Largest(S)
    BY <2>3, LargestBounds
  <2> QED
    BY <2>4, <1>1
<1>6. TypeOK'
  BY <1>1, <1>2, <1>4, <1>5, IdleIsTyped DEF TypeOK, Store!DLTypeOK
<1>7. LogInv'
  BY <1>1 DEF IInv, LogInv
<1>8. Range(command'.prepared) = {}
  BY <1>1, IdleIsTyped
<1>9. roles' # {}
  <2>1. CASE Bootstrapping
    <3>1. X = Range(Bootstrap)
      BY <1>1, <2>1 DEF IInv, PhaseInv
    <3>2. RolesOf(X) # {}
      BY <1>4, <3>1, BootstrapFits
    <3> QED
      BY <1>1, <3>2
  <2>2. CASE ~Bootstrapping
    BY <1>1, <2>2 DEF Bootstrapping
  <2> QED
    BY <2>1, <2>2
<1>10. PhaseInv'
  BY <1>1, <1>9, IdleIsTyped DEF PhaseInv, Bootstrapping
<1>11. MemoryInv'
  <2>1. roles' \cup posits' = Records(served')
    BY <1>1, <1>3, <1>4
  <2>2. PositsOf(posits' \cup {}) = posits'
    BY <1>1, <1>2, <1>4, KindsOfKeepers DEF PositsOf
  <2>3. posits' \subseteq PositsOf(posits \cup X)
    BY <2>2, <1>1 DEF PositsOf
  <2>4. Indexed(posits \cup Range(command.prepared))'
    BY <1>1, <1>8, <2>2, <2>3 DEF IInv, MemoryInv, Indexed
  <2> QED
    BY <1>1, <2>1, <2>4 DEF MemoryInv
<1>12. GeneratorAbove'
  <2>1. \A t \in Things(Records(served)) : t <= lowerBound'
    <3>1. CASE Bootstrapping
      <4>1. X = Range(Bootstrap) /\ posits = {} /\ roles = {}
        BY <1>1, <3>1 DEF IInv, PhaseInv, Bootstrapping
      <4>2. Records(served) = X /\ PositsOf(X) = {}
        BY <1>3, <4>1, BootstrapFits
      <4> QED
        BY <4>2, <1>5, ThingsAre
    <3>2. CASE ~Bootstrapping
      <4>1. Records(served) \cup X = Records(served)
        BY <1>3
      <4>2. \A t \in Things(Records(served)) : t <= lowerBound
        BY <1>1, <3>2, <4>1 DEF IInv, GeneratorAbove
      <4> QED
        BY <4>2, <1>2, <1>4, <1>5
    <3> QED
      BY <3>1, <3>2
  <2> QED
    BY <2>1, <1>1, <1>8 DEF GeneratorAbove
<1>13. BoundInv' /\ StagedInv'
  BY <1>1 DEF BoundInv, StagedInv
<1> QED
  BY <1>3, <1>6, <1>7, <1>10, <1>11, <1>12, <1>13 DEF IInv

-----------------------------------------------------------------------------
(***************************************************************************)
(* A command that stages a batch, or finds that it has nothing to store.   *)
(***************************************************************************)
Staged(c, batch, envelopes, answers) ==
    /\ c.targets = Idle.targets /\ c.assertions = Idle.assertions
    /\ c.prepared = batch
    /\ c.envelopes = envelopes
    /\ c.answers = answers

LEMMA StagingKeeps ==
    ASSUME IInv, faults' \in 0..MaxFaults, pc \in {"idle", "bound"},
           UNCHANGED <<log, roles, posits, poisoned>>,
           NEW batch \in Seq(Record), NEW answers \in SUBSET Record,
           NEW envelopes \in SUBSET PositRecord,
           lowerBound' \in Nat, lowerBound <= lowerBound',
           appearances' \in AppearanceSet, appearances \subseteq appearances',
           sets' \subseteq AppearanceSet, sets \subseteq sets',
           \A p \in PositsOf(Range(batch)) :
               p.appearances \in sets' /\ p.appearances \subseteq appearances',
           \A t \in Things(Range(batch)) : t <= lowerBound',
           ~poisoned => Fits(served, batch),
           Ordered(With(batch)), Extends(With(batch), Records(served)),
           Follow(envelopes, With(batch)),
           \/ /\ batch = <<>>
              /\ AnswerKept(answers)
              /\ asserted' = asserted \cup envelopes
           \/ /\ Staged(command', batch, envelopes, answers)
              /\ pc' = "append"
              /\ UNCHANGED <<answered, asserted>>
    PROVE  IInv'
<1>1. /\ served' = served /\ history' = history /\ acked' = acked
      /\ roles' = roles /\ posits' = posits /\ poisoned' = poisoned
  BY DEF log
<1>2. /\ ~Bootstrapping /\ roles # {} /\ posits \subseteq PositRecord
      /\ roles \subseteq RoleRecord /\ Records(served) \subseteq Record
  BY TypeFacts DEF IInv, PhaseInv, Bootstrapping
<1>3. \A t \in Things(Records(served)) : t <= lowerBound
  BY <1>2, ThingsOfUnion DEF IInv, GeneratorAbove
<1>4. Things(Records(served)) \subseteq Nat /\ lowerBound \in Nat
  BY <1>2, KindsOfRecords DEF IInv, TypeOK
<1>5. \A t \in Things(Records(served)) : t <= lowerBound'
  BY <1>3, <1>4
<1>6. \A p \in posits : p.appearances \in sets' /\ p.appearances \subseteq appearances'
  <2>1. posits \subseteq PositsOf(posits \cup Range(command.prepared))
    BY <1>2 DEF PositsOf, PositRecord
  <2> QED
    BY <2>1 DEF IInv, MemoryInv, Indexed
<1>7. Follow(asserted', Records(served)) => LogInv'
  BY <1>1 DEF IInv, LogInv
<1>8. Range(batch) \subseteq Record
  BY DEF Range
<1>9. roles \cup posits \subseteq Records(served)
      /\ (~poisoned => roles \cup posits = Records(served))
  BY DEF IInv, MemoryInv
<1>10. CASE /\ batch = <<>>
            /\ AnswerKept(answers)
            /\ asserted' = asserted \cup envelopes
  <2>1. /\ command' = Idle /\ pc' = "idle" /\ answered' = answered \cup answers
        /\ Range(command'.prepared) = {} /\ asserted' = asserted \cup envelopes
    BY <1>10, IdleIsTyped DEF AnswerKept
  <2>2. TypeOK'
    BY <2>1, <1>1, <1>2, IdleIsTyped DEF IInv, TypeOK, Store!DLTypeOK
  <2>3. PhaseInv'
    BY <2>1, <1>1, <1>2, IdleIsTyped DEF PhaseInv, Bootstrapping
  <2>4. MemoryInv'
    <3>1. PositsOf(posits \cup {}) \subseteq posits
      BY DEF PositsOf
    <3>2. Indexed(posits \cup Range(command.prepared))'
      BY <3>1, <2>1, <1>1, <1>6 DEF Indexed
    <3> QED
      BY <3>2, <2>1, <1>1, <1>9 DEF MemoryInv
  <2>5. GeneratorAbove'
    <3>1. Records(served') \cup Range(command'.prepared) = Records(served)
      BY <2>1, <1>1
    <3> QED
      BY <3>1, <1>5 DEF GeneratorAbove
  <2>6. BoundInv' /\ StagedInv'
    BY <2>1 DEF BoundInv, StagedInv
  <2>7. Follow(asserted', Records(served))
    <3>1. With(batch) = Records(served)
      BY <1>10, IdleIsTyped DEF With
    <3> QED
      BY <3>1, <2>1 DEF Follow, IInv, LogInv
  <2> QED
    BY <2>2, <2>3, <2>4, <2>5, <2>6, <2>7, <1>7 DEF IInv
<1>11. CASE /\ Staged(command', batch, envelopes, answers)
            /\ pc' = "append"
            /\ UNCHANGED <<answered, asserted>>
  <2>1. /\ command'.prepared = batch /\ command'.answers = answers
        /\ command'.envelopes = envelopes
        /\ command'.targets = Idle.targets /\ command'.assertions = Idle.assertions
        /\ pc' = "append" /\ answered' = answered /\ asserted' = asserted
    BY <1>11 DEF Staged
  <2>2. TypeOK'
    BY <2>1, <1>1, <1>2, IdleIsTyped DEF IInv, TypeOK, Store!DLTypeOK, Batches
  <2>3. PhaseInv'
    BY <2>1, <1>1, <1>2 DEF PhaseInv, Bootstrapping
  <2>4. MemoryInv'
    <3>1. PositsOf(posits \cup Range(batch)) \subseteq posits \cup PositsOf(Range(batch))
      BY DEF PositsOf
    <3>2. Indexed(posits \cup Range(command.prepared))'
      BY <3>1, <2>1, <1>1, <1>6 DEF Indexed
    <3> QED
      BY <3>2, <2>1, <1>1, <1>9 DEF MemoryInv
  <2>5. GeneratorAbove'
    BY <2>1, <1>1, <1>5, ThingsOfUnion DEF GeneratorAbove
  <2>6. BoundInv' /\ StagedInv'
    BY <2>1, <1>1 DEF BoundInv, StagedInv, With
  <2>7. Follow(asserted', Records(served))
    BY <2>1 DEF IInv, LogInv
  <2> QED
    BY <2>2, <2>3, <2>4, <2>5, <2>6, <2>7, <1>7 DEF IInv
<1> QED
  BY <1>10, <1>11

(***************************************************************************)
(* `add role` stages a new role for every name that no role has yet.       *)
(***************************************************************************)
LEMMA NewRolesFit ==
    ASSUME IInv, pc = "idle", NEW names \in Seq(Names)
    PROVE  /\ NewRoles(names) \in Seq(Record)
           /\ PositsOf(Range(NewRoles(names))) = {}
           /\ \A r \in Range(NewRoles(names)) :
                 r.id > lowerBound /\ r.id <= lowerBound + Len(NewRoles(names))
           /\ ~poisoned => Fits(served, NewRoles(names))
<1> DEFINE F == FirstUses(names)
           uses == Ascending(F)
           x == NewRoles(names)
<1>1. DOMAIN names = 1..Len(names) /\ Len(names) \in Nat /\ \A i \in 1..Len(names) : names[i] \in Names
  OBVIOUS
<1>2. F \subseteq 1..Len(names) /\ F \in SUBSET Nat
  BY <1>1 DEF FirstUses
<1>3. IsFiniteSet(F)
  <2>1. IsFiniteSet(1..Len(names))
    BY <1>1, FS_Interval
  <2> HIDE DEF F
  <2> QED
    BY <2>1, <1>2, FS_Subset
<1>4. /\ uses \in Seq(F)
      /\ \A i, j \in DOMAIN uses : i < j => uses[i] < uses[j]
  BY <1>2, <1>3, AscendingOrders
<1>5. DOMAIN uses = 1..Len(uses) /\ Len(uses) \in Nat /\ \A k \in 1..Len(uses) : uses[k] \in F
  BY <1>4
<1>6. x = [k \in 1..Len(uses) |-> NewRole(lowerBound + k, names[uses[k]])]
  BY <1>5 DEF NewRoles
<1> HIDE DEF x, F, uses
<1>7. lowerBound \in Nat
  BY DEF IInv, TypeOK
<1>8. ASSUME NEW k \in 1..Len(uses)
      PROVE  /\ x[k].kind = "role" /\ x[k].id = lowerBound + k /\ x[k].name = names[uses[k]]
             /\ names[uses[k]] \in Names /\ names[uses[k]] \notin RoleNames
             /\ x[k] \in Record
  <2>1. x[k] = NewRole(lowerBound + k, names[uses[k]]) /\ uses[k] \in F
    BY <1>5, <1>6
  <2>2. names[uses[k]] \in Names /\ names[uses[k]] \notin RoleNames
    BY <2>1, <1>1, <1>2 DEF FirstUses, F
  <2> QED
    BY <2>1, <2>2, <1>7 DEF NewRole, Record, RoleRecord, Thing
<1>9. DOMAIN x = 1..Len(uses) /\ x \in Seq(Record) /\ Len(x) = Len(uses)
  BY <1>5, <1>6, <1>8
<1>10. \A r \in Range(x) : \E k \in 1..Len(uses) : r = x[k]
  BY <1>9 DEF Range
<1>11. PositsOf(Range(x)) = {}
  <2>1. \A k \in 1..Len(uses) : x[k].kind # "posit"
    BY <1>8
  <2> QED
    BY <1>10, <2>1 DEF PositsOf
<1>12. \A r \in Range(x) : r.id > lowerBound /\ r.id <= lowerBound + Len(x)
  <2>1. \A k \in 1..Len(uses) : x[k].id > lowerBound /\ x[k].id <= lowerBound + Len(x)
    BY <1>5, <1>7, <1>8, <1>9
  <2> QED
    BY <2>1, <1>10
<1>13. ASSUME ~poisoned PROVE Fits(served, x)
  <2>1. Records(served) = roles \cup posits /\ ~Bootstrapping
    BY <1>13 DEF IInv, MemoryInv, PhaseInv
  <2>2. ASSUME NEW r \in Records(served), NEW k \in DOMAIN x PROVE ~Conflict(r, x[k])
    <3>1. r.id \in Things(Records(served))
      BY DEF Things
    <3>2. r.id <= lowerBound
      BY <3>1, <2>1, ThingsOfUnion DEF IInv, GeneratorAbove
    <3>3. r.id \in Nat
      BY <3>1, TypeFacts, KindsOfRecords DEF IInv
    <3>4. r.id # x[k].id /\ x[k].kind = "role" /\ x[k].name \notin RoleNames
      BY <3>2, <3>3, <1>5, <1>7, <1>8, <1>9
    <3>5. r.kind = "role" => r \in roles
      BY <2>1, TypeFacts DEF IInv, PositRecord
    <3>6. r.kind = "role" => r.name # x[k].name
      BY <3>4, <3>5 DEF RoleNames
    <3> QED
      BY <3>4, <3>6 DEF Conflict
  <2>3. ASSUME NEW k \in DOMAIN x, NEW l \in DOMAIN x, k < l PROVE ~Conflict(x[k], x[l])
    <3>1. uses[k] < uses[l] /\ uses[k] \in F /\ uses[l] \in F
      BY <2>3, <1>4, <1>5, <1>9
    <3>2. uses[k] \in 1..(uses[l] - 1)
      <4>1. uses[k] \in 1..Len(names) /\ uses[l] \in 1..Len(names)
        BY <3>1, <1>2
      <4> QED
        BY <4>1, <3>1, <1>1
    <3>3. names[uses[k]] # names[uses[l]]
      BY <3>1, <3>2 DEF FirstUses, F
    <3>4. x[k].id # x[l].id
      BY <2>3, <1>5, <1>7, <1>8, <1>9
    <3> QED
      BY <3>3, <3>4, <1>8, <1>9 DEF Conflict
  <2>4. \A k \in DOMAIN x : Canonical(x[k]) /\ x[k].kind # "posit"
    <3>1. ASSUME NEW k \in DOMAIN x PROVE x[k].kind = "role" /\ x[k].id # 0
      <4>1. k \in 1..Len(uses) /\ k \in Nat /\ k >= 1
        BY <1>5, <1>9
      <4> QED
        BY <4>1, <1>7, <1>8
    <3> QED
      BY <3>1 DEF Canonical
  <2>5. served # <<>>
    BY <2>1, NothingReplays DEF Bootstrapping
  <2> QED
    BY <2>2, <2>3, <2>4, <2>5 DEF Fits
<1> QED
  BY <1>9, <1>11, <1>12, <1>13 DEF x

LEMMA CreateRolesKeeps ==
    ASSUME IInv, faults' \in 0..MaxFaults, CreateRoles
    PROVE  IInv'
<1>1. /\ pc = "idle" /\ UNCHANGED <<log, keepers, poisoned, asserted>>
  BY DEF CreateRoles
<1>2. PICK names \in RoleCommands :
          LET prepared == NewRoles(names)
              kept == {r \in roles : r.name \in Range(names)}
          IN  /\ lowerBound' = lowerBound + Len(prepared)
              /\ IF prepared = <<>>
                    THEN AnswerKept(kept)
                    ELSE /\ command' = [Idle EXCEPT !.prepared = prepared,
                                                   !.answers = kept \cup Range(prepared)]
                         /\ pc' = "append"
                         /\ UNCHANGED answered
  BY DEF CreateRoles
<1> DEFINE x == NewRoles(names)
           kept == {r \in roles : r.name \in Range(names)}
           answers == IF x = <<>> THEN kept ELSE kept \cup Range(x)
<1>3. names \in Seq(Names)
  BY PositStoreAssumption
<1>4. /\ x \in Seq(Record) /\ PositsOf(Range(x)) = {}
      /\ \A r \in Range(x) : r.id <= lowerBound + Len(x)
      /\ ~poisoned => Fits(served, x)
  BY <1>1, <1>3, NewRolesFit
<1> HIDE DEF x
<1>5. answers \in SUBSET Record
  <2>1. kept \subseteq Record
    BY TypeFacts DEF IInv, Record
  <2>2. Range(x) \subseteq Record
    BY <1>4 DEF Range
  <2> QED
    BY <2>1, <2>2
<1>6. lowerBound' \in Nat /\ lowerBound <= lowerBound' /\ lowerBound' = lowerBound + Len(x)
  <2>1. lowerBound' = lowerBound + Len(x)
    BY <1>2 DEF x
  <2> QED
    BY <2>1, <1>4 DEF IInv, TypeOK
<1>7. \A t \in Things(Range(x)) : t <= lowerBound'
  BY <1>4, <1>6, ThingsAre
<1>8. /\ Ordered(With(x)) /\ Extends(With(x), Records(served))
      /\ Follow({}, With(x)) /\ {} \in SUBSET PositRecord
  <2>1. PositsOf(With(x)) = PositsOf(Records(served))
    BY <1>4 DEF With, PositsOf
  <2>2. Ordered(With(x))
    BY <2>1 DEF IInv, LogInv, Ordered
  <2>3. \A t \in Things(Records(served)) : t <= lowerBound
    BY <1>1, ThingsOfUnion DEF IInv, GeneratorAbove, PhaseInv
  <2>4. \A r \in Range(x) : r.id > lowerBound
    BY <1>1, <1>3, NewRolesFit DEF x
  <2>5. lowerBound \in Nat /\ Things(Records(served)) \subseteq Nat
    BY TypeFacts, KindsOfRecords DEF IInv
  <2>6. \A r \in Range(x) : r.id \in Nat
    BY <1>4 DEF Range, Record, RoleRecord, PositRecord, Thing
  <2>7. \A r \in Range(x) : r.id \notin Things(Records(served))
    BY <2>3, <2>4, <2>5, <2>6
  <2> QED
    BY <2>2, <2>7 DEF With, Extends, Follow
<1>9. /\ UNCHANGED <<log, roles, posits, poisoned>>
      /\ appearances' = appearances /\ sets' = sets
  BY <1>1 DEF keepers, indexes
<1>10. \/ /\ x = <<>>
          /\ AnswerKept(answers)
          /\ asserted' = asserted \cup {}
       \/ /\ Staged(command', x, {}, answers)
          /\ pc' = "append"
          /\ UNCHANGED <<answered, asserted>>
  <2>1. CASE x = <<>>
    BY <2>1, <1>1, <1>2 DEF x
  <2>2. CASE x # <<>>
    <3>1. /\ command' = [Idle EXCEPT !.prepared = x, !.answers = answers]
          /\ pc' = "append" /\ UNCHANGED answered
      BY <2>2, <1>2 DEF x
    <3>2. Staged(command', x, {}, answers)
      BY <3>1 DEF Staged, Idle
    <3> QED
      BY <3>1, <3>2, <1>1
  <2> QED
    BY <2>1, <2>2
<1>11. appearances \in AppearanceSet /\ sets \subseteq AppearanceSet
  BY DEF IInv, TypeOK
<1> HIDE DEF answers
<1> QED
  BY <1>1, <1>4, <1>5, <1>6, <1>7, <1>8, <1>9, <1>10, <1>11, StagingKeeps

-----------------------------------------------------------------------------
(***************************************************************************)
(* The identity of a role name is that of a kept role, and two names have  *)
(* two identities.                                                         *)
(***************************************************************************)
LEMMA NamesHaveRoles ==
    ASSUME IInv, NEW name \in RoleNames
    PROVE  /\ RoleNamed(name) \in Nat
           /\ \E r \in roles : r.id = RoleNamed(name)
           /\ \A other \in RoleNames : RoleNamed(other) = RoleNamed(name) => other = name
<1> DEFINE Role(n) == CHOOSE r \in roles : r.name = n
<1>1. \A n \in RoleNames : Role(n) \in roles /\ Role(n).name = n /\ RoleNamed(n) = Role(n).id
  BY DEF RoleNames, RoleNamed
<1> HIDE DEF Role
<1>2. roles \subseteq RoleRecord /\ roles \subseteq Records(served)
      /\ ReplayAccepts(served) /\ served \in Seq(Seq(Record))
  BY TypeFacts DEF IInv, MemoryInv, LogInv, Sound
<1>3. \A r, s \in roles : r.id = s.id => r = s
  <2> SUFFICES ASSUME NEW r \in roles, NEW s \in roles, r # s PROVE r.id # s.id
    OBVIOUS
  <2>1. ~Conflict(r, s)
    BY <1>2, NoTwoConflict
  <2> QED
    BY <2>1 DEF Conflict
<1> QED
  BY <1>1, <1>2, <1>3 DEF RoleRecord, Thing

(***************************************************************************)
(* What the grammar guarantees of a command.                               *)
(***************************************************************************)
LEMMA CommandsAreTyped ==
    ASSUME NEW c \in PositCommands
    PROVE  /\ c.inserts \in Nat
           /\ Len(c.targets) \in Nat /\ DOMAIN c.targets = 1..Len(c.targets)
           /\ Len(c.assertions) \in Nat /\ DOMAIN c.assertions = 1..Len(c.assertions)
           /\ \A i \in DOMAIN c.targets :
                 /\ c.targets[i].appearances \subseteq Names \X Int
                 /\ c.targets[i].appearances # {}
                 /\ \A a \in c.targets[i].appearances : a[2] <= c.inserts
                 /\ c.targets[i].value \in Values
           /\ \A i \in DOMAIN c.assertions :
                 /\ c.assertions[i] \in [target: Nat, positor: Int]
                 /\ c.assertions[i].target \in DOMAIN c.targets
                 /\ c.assertions[i].positor <= c.inserts
<1>1. c \in PositCommand
  BY PositStoreAssumption
<1>2. /\ c.inserts \in Nat
      /\ c.targets \in Seq([appearances: SUBSET (Names \X Int), value: Values])
      /\ c.assertions \in Seq([target: Nat, positor: Int])
  BY <1>1 DEF PositCommand
<1>3. \A i \in DOMAIN c.targets : c.targets[i] \in [appearances: SUBSET (Names \X Int), value: Values]
  BY <1>2, ElementsOf, Zenon
<1>4. \A i \in DOMAIN c.assertions : c.assertions[i] \in [target: Nat, positor: Int]
  BY <1>2, ElementsOf, Zenon
<1>5. \A i \in DOMAIN c.targets : /\ c.targets[i].appearances # {}
                                  /\ \A a \in c.targets[i].appearances : a[2] <= c.inserts
  BY PositStoreAssumption
<1>6. \A i \in DOMAIN c.assertions : /\ c.assertions[i].target \in DOMAIN c.targets
                                     /\ c.assertions[i].positor <= c.inserts
  BY PositStoreAssumption
<1>7. /\ Len(c.targets) \in Nat /\ DOMAIN c.targets = 1..Len(c.targets)
      /\ Len(c.assertions) \in Nat /\ DOMAIN c.assertions = 1..Len(c.assertions)
  BY <1>2, ElementsOf, Zenon
<1>8. \A i \in DOMAIN c.targets : /\ c.targets[i].appearances \subseteq Names \X Int
                                  /\ c.targets[i].value \in Values
  BY <1>3
<1> QED
  BY <1>2, <1>4, <1>5, <1>6, <1>7, <1>8

(***************************************************************************)
(* Every variable of a command stands for an identity that the generator   *)
(* passes with the command.                                                *)
(***************************************************************************)
LEMMA VariablesAreBound ==
    ASSUME IInv, pc = "idle", NEW c \in PositCommands, NEW recalled \in RecallFor(c)
    PROVE  /\ c.inserts \in Nat
           /\ \A slot \in Slots(c) : slot \in Int /\ slot <= c.inserts =>
                  Bound(slot, recalled) \in 1..(lowerBound + c.inserts)
<1>1. c.inserts \in Nat /\ lowerBound \in Nat
  BY PositStoreAssumption DEF PositCommand, IInv, TypeOK
<1>2. ASSUME NEW t \in Things(posits) PROVE t \in Nat /\ t # 0 /\ t <= lowerBound
  <2>1. posits \subseteq Records(served) /\ posits \subseteq PositRecord
    BY TypeFacts DEF IInv, MemoryInv
  <2>2. t \in Things(Records(served))
    <3>1. posits \cup Records(served) = Records(served)
      BY <2>1
    <3> QED
      BY <3>1, ThingsOfUnion
  <2>3. t <= lowerBound
    BY <2>2, ThingsOfUnion DEF IInv, GeneratorAbove, PhaseInv
  <2>4. \A r \in Records(served) : Canonical(r)
    BY TypeFacts, AcceptsPointwise DEF IInv, LogInv, Sound
  <2>5. t \in Nat
    BY <2>2, TypeFacts, KindsOfRecords DEF IInv
  <2>6. t # 0
    <3>1. CASE \E r \in posits : t = r.id
      BY <3>1, <2>1, <2>4 DEF Canonical
    <3>2. CASE \E p \in PositsOf(posits) : \E a \in p.appearances : t = a[2]
      BY <3>2, <2>1, <2>4 DEF Canonical, PositsOf
    <3> QED
      BY <3>1, <3>2, ThingsAre
  <2> QED
    BY <2>3, <2>5, <2>6
<1>3. ASSUME NEW slot \in Slots(c), slot \in Int, slot <= c.inserts
      PROVE  Bound(slot, recalled) \in 1..(lowerBound + c.inserts)
  <2>1. CASE Recalled(slot)
    <3>1. recalled[slot] \in Things(posits)
      BY <2>1 DEF RecallFor, Recallable
    <3>2. recalled[slot] \in Nat /\ recalled[slot] # 0 /\ recalled[slot] <= lowerBound
      BY <3>1, <1>2
    <3> QED
      BY <2>1, <3>2, <1>1 DEF Bound
  <2>2. CASE ~Recalled(slot)
    BY <2>2, <1>1, <1>3 DEF Bound, Recalled
  <2> QED
    BY <2>1, <2>2
<1> QED
  BY <1>1, <1>3

LEMMA TargetsAreBound ==
    ASSUME IInv, pc = "idle", NEW c \in PositCommands, NEW recalled \in RecallFor(c),
           NEW i \in DOMAIN c.targets
    PROVE  LET set == Appearances(c.targets[i], recalled) IN
           /\ c.targets[i].value \in Values
           /\ set \in AppearanceSet
           /\ \A a \in set : /\ a[2] \in 1..(lowerBound + c.inserts)
                             /\ \E r \in roles : r.id = a[1]
           /\ WellFormed(c.targets[i]) =>
                 /\ set # {}
                 /\ \A a, b \in set : a[1] = b[1] => a = b
<1> DEFINE target == c.targets[i]
           set == Appearances(target, recalled)
           In(b) == <<RoleNamed(b[1]), Bound(b[2], recalled)>>
<1>1. /\ target.appearances \subseteq Names \X Int
      /\ target.value \in Values
      /\ target \in Range(c.targets)
      /\ target.appearances # {}
      /\ \A b \in target.appearances : b[2] <= c.inserts
  <2>1. target \in Range(c.targets)
    BY DEF Range
  <2> QED
    BY <2>1, CommandsAreTyped
<1>2. \A b \in target.appearances : b \in Names \X Int /\ b[2] \in Int /\ b[2] <= c.inserts
                                    /\ b[2] \in Slots(c)
  BY <1>1 DEF Slots
<1> HIDE DEF target
<1>3. set = {In(b) : b \in {d \in target.appearances : d[1] \in RoleNames}}
  BY DEF Appearances
<1>4. \A b \in target.appearances : b[1] \in RoleNames =>
          /\ Bound(b[2], recalled) \in 1..(lowerBound + c.inserts)
          /\ RoleNamed(b[1]) \in Nat
          /\ \E r \in roles : r.id = RoleNamed(b[1])
  BY <1>2, VariablesAreBound, NamesHaveRoles
<1>5. lowerBound \in Nat /\ c.inserts \in Nat
  BY PositStoreAssumption DEF PositCommand, IInv, TypeOK
<1>6. \A a \in set : \E b \in target.appearances : b[1] \in RoleNames /\ a = In(b)
  BY <1>3
<1>7. \A b \in target.appearances : b[1] \in RoleNames =>
          In(b)[1] = RoleNamed(b[1]) /\ In(b)[2] = Bound(b[2], recalled)
          /\ In(b) \in Nat \X Nat
  BY <1>4, <1>5
<1> HIDE DEF In
<1>8. \A a \in set : /\ a \in Nat \X Nat
                     /\ a[2] \in 1..(lowerBound + c.inserts)
                     /\ \E r \in roles : r.id = a[1]
  <2> SUFFICES ASSUME NEW a \in set
               PROVE  /\ a \in Nat \X Nat
                      /\ a[2] \in 1..(lowerBound + c.inserts)
                      /\ \E r \in roles : r.id = a[1]
    OBVIOUS
  <2>1. PICK b \in target.appearances : b[1] \in RoleNames /\ a = In(b)
    BY <1>6
  <2> QED
    BY <2>1, <1>4, <1>7
<1>9. ASSUME WellFormed(target)
      PROVE  /\ set # {}
             /\ \A a, b \in set : a[1] = b[1] => a = b
  <2>1. \A b \in target.appearances : b[1] \in RoleNames
    BY <1>9 DEF WellFormed
  <2>2. set # {}
    BY <2>1, <1>1, <1>3 DEF target
  <2>3. ASSUME NEW a \in set, NEW b \in set, a[1] = b[1] PROVE a = b
    <3>1. PICK d \in target.appearances : d[1] \in RoleNames /\ a = In(d)
      BY <1>6
    <3>2. PICK e \in target.appearances : e[1] \in RoleNames /\ b = In(e)
      BY <1>6
    <3>3. RoleNamed(d[1]) = RoleNamed(e[1])
      BY <2>3, <3>1, <3>2, <1>7
    <3>4. d[1] = e[1]
      BY <3>1, <3>2, <3>3, NamesHaveRoles
    <3>5. d = e
      BY <3>4, <1>9 DEF WellFormed
    <3> QED
      BY <3>1, <3>2, <3>5
  <2> QED
    BY <2>2, <2>3
<1>10. set \in AppearanceSet
  BY <1>8 DEF AppearanceSet, Thing
<1> QED
  BY <1>1, <1>8, <1>9, <1>10 DEF target

LEMMA BindKeeps ==
    ASSUME IInv, faults' \in 0..MaxFaults, Bind
    PROVE  IInv'
<1>1. /\ pc = "idle" /\ pc' = "bound"
      /\ served' = served /\ history' = history /\ acked' = acked
      /\ roles' = roles /\ posits' = posits /\ poisoned' = poisoned /\ answered' = answered
      /\ asserted' = asserted
  BY DEF Bind, log
<1>2. PICK c \in PositCommands : \E recalled \in RecallFor(c) : BindWith(c, recalled)
  BY DEF Bind
<1>3. PICK recalled \in RecallFor(c) : BindWith(c, recalled)
  BY <1>2
<1> DEFINE Set(i) == Appearances(c.targets[i], recalled)
           bound == [i \in DOMAIN c.targets |-> <<Set(i), c.targets[i].value>>]
           claims == [i \in DOMAIN c.assertions |->
                          [c.assertions[i] EXCEPT !.positor = Bound(@, recalled)]]
           built == {bound[i][1] : i \in DOMAIN bound}
           max == lowerBound + c.inserts
<1>4. /\ \A i \in DOMAIN c.targets : WellFormed(c.targets[i])
      /\ lowerBound' = lowerBound + c.inserts
      /\ Index(built)
      /\ command' = [Idle EXCEPT !.targets = bound, !.assertions = claims]
  BY <1>3 DEF BindWith
<1>5. /\ c.inserts \in Nat
      /\ Len(c.targets) \in Nat /\ DOMAIN c.targets = 1..Len(c.targets)
      /\ Len(c.assertions) \in Nat /\ DOMAIN c.assertions = 1..Len(c.assertions)
      /\ \A i \in DOMAIN c.assertions :
            /\ c.assertions[i] \in [target: Nat, positor: Int]
            /\ c.assertions[i].target \in DOMAIN c.targets
            /\ c.assertions[i].positor <= c.inserts
  BY CommandsAreTyped
<1>6. lowerBound \in Nat /\ max \in Nat /\ lowerBound <= max /\ lowerBound' = max
  BY <1>4, <1>5 DEF IInv, TypeOK
<1>7. \A i \in DOMAIN c.targets :
          /\ c.targets[i].value \in Values
          /\ Set(i) \in AppearanceSet
          /\ \A a \in Set(i) : a[2] \in 1..max /\ \E r \in roles : r.id = a[1]
          /\ Set(i) # {}
          /\ \A a, b \in Set(i) : a[1] = b[1] => a = b
  BY <1>1, <1>4, TargetsAreBound
<1> HIDE DEF Set, max
<1>8. /\ bound \in Seq(AppearanceSet \X Values)
      /\ DOMAIN bound = DOMAIN c.targets
      /\ \A i \in DOMAIN bound : bound[i][1] = Set(i)
      /\ built \subseteq AppearanceSet
  <2>1. DOMAIN bound = DOMAIN c.targets /\ \A i \in DOMAIN bound : bound[i][1] = Set(i)
    OBVIOUS
  <2>2. bound \in [1..Len(c.targets) -> AppearanceSet \X Values]
    BY <1>5, <1>7
  <2>3. bound \in Seq(AppearanceSet \X Values)
    BY <2>2, <1>5, SequenceOf
  <2> HIDE DEF bound
  <2> QED
    BY <2>1, <2>3, <1>7
<1>9. /\ claims \in Seq([target: Nat, positor: Thing])
      /\ \A i \in DOMAIN claims :
            /\ claims[i].target \in DOMAIN c.targets
            /\ claims[i].positor \in 1..max
  <2>1. ASSUME NEW i \in DOMAIN c.assertions
        PROVE  /\ Bound(c.assertions[i].positor, recalled) \in 1..max
               /\ c.assertions[i] \in [target: Nat, positor: Int]
    <3>1. c.assertions[i] \in [target: Nat, positor: Int] /\ c.assertions[i].positor <= c.inserts
      BY <1>5
    <3>2. c.assertions[i].positor \in Slots(c)
      BY DEF Slots, Range
    <3> QED
      BY <3>1, <3>2, <1>1, VariablesAreBound DEF max
  <2>2. \A i \in DOMAIN claims :
            /\ claims[i] \in [target: Nat, positor: Thing]
            /\ claims[i].target = c.assertions[i].target
            /\ claims[i].positor = Bound(c.assertions[i].positor, recalled)
    <3> SUFFICES ASSUME NEW i \in DOMAIN c.assertions
                 PROVE  /\ claims[i] \in [target: Nat, positor: Thing]
                        /\ claims[i].target = c.assertions[i].target
                        /\ claims[i].positor = Bound(c.assertions[i].positor, recalled)
      OBVIOUS
    <3>1. claims[i] = [c.assertions[i] EXCEPT !.positor = Bound(@, recalled)]
      OBVIOUS
    <3>2. Bound(c.assertions[i].positor, recalled) \in Thing
      BY <2>1, <1>6 DEF Thing
    <3> HIDE DEF claims
    <3> QED
      BY <2>1, <3>1, <3>2
  <2>3. DOMAIN claims = DOMAIN c.assertions
    OBVIOUS
  <2> HIDE DEF claims
  <2>4. DOMAIN claims = 1..Len(c.assertions) /\ Len(c.assertions) \in Nat
    BY <2>3, <1>5
  <2>5. claims \in [1..Len(c.assertions) -> [target: Nat, positor: Thing]]
    <3>1. claims = [i \in DOMAIN c.assertions |-> claims[i]]
      BY DEF claims
    <3> QED
      BY <2>2, <2>4, <3>1, <2>3
  <2>6. claims \in Seq([target: Nat, positor: Thing])
    BY <2>4, <2>5, SequenceOf, Zenon
  <2>7. \A i \in DOMAIN claims :
            /\ claims[i].target \in DOMAIN c.targets
            /\ claims[i].positor \in 1..max
    BY <2>1, <2>2, <2>3, <1>5
  <2> QED
    BY <2>6, <2>7
<1> HIDE DEF bound, claims
<1>10. /\ command'.targets = bound /\ command'.assertions = claims
       /\ command'.prepared = <<>> /\ command'.answers = {} /\ command'.envelopes = {}
  BY <1>4 DEF Idle
<1>11. /\ appearances' = appearances \cup UNION built
       /\ sets' = sets \cup built
  BY <1>4 DEF Index
<1>12. appearances' \in AppearanceSet /\ sets' \subseteq AppearanceSet
  BY <1>8, <1>11 DEF IInv, TypeOK, AppearanceSet
<1>13. TypeOK'
  <2>1. command'.prepared \in Batches /\ command'.answers \subseteq Record
    BY <1>10, IdleIsTyped
  <2> QED
    BY <2>1, <1>1, <1>6, <1>8, <1>9, <1>10, <1>12 DEF IInv, TypeOK, Store!DLTypeOK
<1>14. LogInv'
  BY <1>1 DEF IInv, LogInv
<1>15. ~Bootstrapping /\ command.prepared = <<>>
  BY <1>1 DEF IInv, PhaseInv
<1>16. PhaseInv'
  BY <1>1, <1>10, <1>15 DEF PhaseInv, Bootstrapping
<1>17. MemoryInv'
  <2>1. Indexed(posits \cup Range(command.prepared))'
    BY <1>1, <1>10, <1>11, <1>15 DEF IInv, MemoryInv, Indexed
  <2>2. roles \cup posits \subseteq Records(served)
        /\ (~poisoned => roles \cup posits = Records(served))
    BY <1>1 DEF IInv, MemoryInv
  <2> QED
    BY <1>1, <2>1, <2>2 DEF MemoryInv
<1>18. GeneratorAbove'
  <2>1. Things(Records(served) \cup Range(command.prepared)) \subseteq Nat
    BY TypeFacts, KindsOfRecords DEF IInv
  <2>2. \A t \in Things(Records(served) \cup Range(command.prepared)) : t <= lowerBound
    BY <1>1, <1>15 DEF IInv, GeneratorAbove
  <2>3. \A t \in Things(Records(served) \cup Range(command.prepared)) : t <= lowerBound'
    <3>1. \A t \in Nat : t <= lowerBound => t <= lowerBound'
      BY <1>6
    <3> QED
      BY <2>1, <2>2, <3>1, Zenon
  <2>4. Records(served') \cup Range(command'.prepared)
            = Records(served) \cup Range(command.prepared)
    BY <1>1, <1>10, <1>15
  <2> QED
    BY <2>3, <2>4 DEF GeneratorAbove
<1>19. BoundInv'
  <2>1. \A i \in DOMAIN command'.targets : BoundSet(command.targets[i][1])'
    BY <1>1, <1>6, <1>7, <1>8, <1>10 DEF BoundSet
  <2>2. \A i \in DOMAIN command'.assertions :
            /\ command'.assertions[i].target \in DOMAIN command'.targets
            /\ command'.assertions[i].positor \in 1..lowerBound'
    BY <1>6, <1>8, <1>9, <1>10
  <2> QED
    BY <2>1, <2>2 DEF BoundInv
<1>20. StagedInv'
  BY <1>1 DEF StagedInv
<1> QED
  BY <1>13, <1>14, <1>16, <1>17, <1>18, <1>19, <1>20 DEF IInv

LEMMA BindFailsKeeps ==
    ASSUME IInv, faults' \in 0..MaxFaults, BindFails
    PROVE  IInv'
<1>1. /\ pc = "idle" /\ pc' = "idle"
      /\ served' = served /\ history' = history /\ acked' = acked
      /\ roles' = roles /\ posits' = posits /\ poisoned' = poisoned /\ answered' = answered
      /\ command' = command /\ asserted' = asserted
  BY DEF BindFails, log
<1>2. PICK c \in PositCommands : \E recalled \in RecallFor(c) :
          \E n \in 1..(Len(c.targets) + 1) :
              /\ lowerBound' = lowerBound + c.inserts
              /\ sets' = sets \cup {Appearances(c.targets[i], recalled) : i \in 1..(n - 1)}
              /\ appearances' =
                    appearances
                        \cup UNION {Appearances(c.targets[i], recalled) :
                                       i \in DOMAIN c.targets \cap 1..n}
  BY DEF BindFails
<1>3. PICK recalled \in RecallFor(c) :
          \E n \in 1..(Len(c.targets) + 1) :
              /\ lowerBound' = lowerBound + c.inserts
              /\ sets' = sets \cup {Appearances(c.targets[i], recalled) : i \in 1..(n - 1)}
              /\ appearances' =
                    appearances
                        \cup UNION {Appearances(c.targets[i], recalled) :
                                       i \in DOMAIN c.targets \cap 1..n}
  BY <1>2
<1> DEFINE Set(i) == Appearances(c.targets[i], recalled)
<1>4. PICK n \in 1..(Len(c.targets) + 1) :
          /\ lowerBound' = lowerBound + c.inserts
          /\ sets' = sets \cup {Set(i) : i \in 1..(n - 1)}
          /\ appearances' = appearances \cup UNION {Set(i) : i \in DOMAIN c.targets \cap 1..n}
  BY <1>3
<1>5. c.inserts \in Nat
  BY CommandsAreTyped
<1>6. DOMAIN c.targets = 1..Len(c.targets) /\ Len(c.targets) \in Nat
  BY CommandsAreTyped
<1>7. \A i \in DOMAIN c.targets : Set(i) \in AppearanceSet
  BY <1>1, TargetsAreBound
<1> HIDE DEF Set
<1>8. /\ lowerBound \in Nat /\ lowerBound' \in Nat /\ lowerBound <= lowerBound'
  BY <1>4, <1>5 DEF IInv, TypeOK
<1>9. /\ appearances \subseteq appearances' /\ sets \subseteq sets'
      /\ appearances' \in AppearanceSet /\ sets' \subseteq AppearanceSet
  <2>1. 1..(n - 1) \subseteq DOMAIN c.targets
    BY <1>6
  <2>2. {Set(i) : i \in 1..(n - 1)} \subseteq AppearanceSet
    BY <2>1, <1>7
  <2>3. {Set(i) : i \in DOMAIN c.targets \cap 1..n} \subseteq AppearanceSet
    BY <1>7
  <2> QED
    BY <2>2, <2>3, <1>4 DEF IInv, TypeOK, AppearanceSet
<1>10. TypeOK'
  BY <1>1, <1>8, <1>9 DEF IInv, TypeOK, Store!DLTypeOK
<1>11. LogInv' /\ PhaseInv'
  BY <1>1 DEF IInv, LogInv, PhaseInv, Bootstrapping
<1>12. MemoryInv'
  <2>1. Indexed(posits \cup Range(command.prepared))'
    BY <1>1, <1>9 DEF IInv, MemoryInv, Indexed
  <2> QED
    BY <1>1, <2>1 DEF IInv, MemoryInv
<1>13. GeneratorAbove'
  <2>1. Things(Records(served) \cup Range(command.prepared)) \subseteq Nat
    BY TypeFacts, KindsOfRecords DEF IInv
  <2>2. \A t \in Things(Records(served) \cup Range(command.prepared)) : t <= lowerBound
    BY <1>1 DEF IInv, GeneratorAbove, PhaseInv
  <2>3. \A t \in Things(Records(served) \cup Range(command.prepared)) : t <= lowerBound'
    <3> DEFINE T == Things(Records(served) \cup Range(command.prepared))
    <3> HIDE DEF T
    <3> SUFFICES ASSUME NEW t \in T PROVE t <= lowerBound'
      BY DEF T
    <3>1. t \in Nat /\ t <= lowerBound
      BY <2>1, <2>2 DEF T
    <3> QED
      BY <3>1, <1>8
  <2> QED
    BY <2>3, <1>1 DEF GeneratorAbove
<1>14. BoundInv' /\ StagedInv'
  BY <1>1 DEF BoundInv, StagedInv
<1> QED
  BY <1>10, <1>11, <1>12, <1>13, <1>14 DEF IInv

-----------------------------------------------------------------------------
(***************************************************************************)
(* Proposition i takes an identity of its own.                             *)
(***************************************************************************)
Fresh(propositions, i) ==
    /\ \A p \in posits : Proposition(p) # propositions[i]
    /\ \A k \in 1..(i - 1) : propositions[k] # propositions[i]

LEMMA KeptIdentities ==
    ASSUME IInv, pc \in {"idle", "bound"}
    PROVE  /\ lowerBound \in Nat
           /\ \A r \in Records(served) :
                 /\ Canonical(r)
                 /\ r.id \in 1..lowerBound
           /\ \A p \in posits : p.id \in 1..lowerBound
           /\ \A r \in roles : r.id \in 1..lowerBound
<1>1. lowerBound \in Nat /\ roles \cup posits \subseteq Records(served)
  BY DEF IInv, TypeOK, MemoryInv
<1>2. \A r \in Records(served) : Canonical(r)
  BY TypeFacts, AcceptsPointwise DEF IInv, LogInv, Sound
<1>3. ASSUME NEW r \in Records(served) PROVE r.id \in 1..lowerBound
  <2>1. r.id \in Things(Records(served))
    BY DEF Things
  <2>2. r.id <= lowerBound
    BY <2>1, ThingsOfUnion DEF IInv, GeneratorAbove, PhaseInv
  <2>3. r.id \in Nat
    BY <2>1, TypeFacts, KindsOfRecords DEF IInv
  <2>4. r.id # 0
    BY <1>2 DEF Canonical
  <2> QED
    BY <2>2, <2>3, <2>4, <1>1
<1> QED
  BY <1>1, <1>2, <1>3

(***************************************************************************)
(* A proposition resolves to the identity of the posit that is kept for    *)
(* it, or to the one that its first occurrence takes.                      *)
(***************************************************************************)
LEMMA ResolveFinds ==
    ASSUME IInv, pc = "bound", NEW n \in Nat, NEW x, DOMAIN x = 1..n
    PROVE  /\ DOMAIN Resolve(x) = 1..n
           /\ \A i \in 1..n :
                 /\ \/ \E p \in posits : Proposition(p) = x[i] /\ p.id = Resolve(x)[i]
                    \/ \E j \in 1..i :
                          Fresh(x, j) /\ x[j] = x[i] /\ Resolve(x)[i] = lowerBound + j
                 /\ Resolve(x)[i] = lowerBound + i <=> Fresh(x, i)
<1>1. lowerBound \in Nat /\ \A p \in posits : p.id \in 1..lowerBound
  BY KeptIdentities
<1>2. ASSUME NEW i \in 1..n
      PROVE  /\ \/ \E p \in posits : Proposition(p) = x[i] /\ p.id = Resolve(x)[i]
                \/ \E j \in 1..i :
                      Fresh(x, j) /\ x[j] = x[i] /\ Resolve(x)[i] = lowerBound + j
             /\ Resolve(x)[i] = lowerBound + i <=> Fresh(x, i)
  <2> DEFINE kept == {p \in posits : Proposition(p) = x[i]}
             First(j) == x[j] = x[i] /\ \A k \in 1..(j - 1) : x[k] # x[i]
  <2>1. Resolve(x)[i] = IF kept # {} THEN (CHOOSE p \in kept : TRUE).id
                                     ELSE lowerBound + CHOOSE j \in 1..i : First(j)
    BY DEF Resolve
  <2>2. CASE kept # {}
    <3>1. PICK p \in posits : Proposition(p) = x[i] /\ Resolve(x)[i] = p.id
      BY <2>1, <2>2
    <3>2. ~Fresh(x, i)
      BY <3>1 DEF Fresh
    <3>3. p.id # lowerBound + i
      BY <1>1
    <3> QED
      BY <3>1, <3>2, <3>3
  <2>3. CASE kept = {}
    <3>1. PICK j \in {l \in 1..i : x[l] = x[i]} : \A k \in {l \in 1..i : x[l] = x[i]} : j <= k
      <4>1. i \in {l \in 1..i : x[l] = x[i]} /\ {l \in 1..i : x[l] = x[i]} \in SUBSET Nat
        OBVIOUS
      <4> QED
        BY <4>1, LeastExists
    <3>2. j \in 1..i /\ First(j)
      <4>1. \A k \in 1..(j - 1) : k \in 1..i /\ ~(j <= k)
        BY <3>1
      <4> QED
        BY <3>1, <4>1
    <3>3. PICK f \in 1..i : First(f) /\ Resolve(x)[i] = lowerBound + f
      <4>1. (CHOOSE l \in 1..i : First(l)) \in 1..i /\ First(CHOOSE l \in 1..i : First(l))
        BY <3>2, Zenon
      <4> HIDE DEF First
      <4> QED
        BY <4>1, <2>1, <2>3
    <3>4. Fresh(x, f)
      BY <3>3, <2>3 DEF Fresh
    <3>5. Resolve(x)[i] = lowerBound + i => Fresh(x, i)
      <4>1. Resolve(x)[i] = lowerBound + i => f = i
        BY <3>3, <1>1
      <4> QED
        BY <4>1, <3>4
    <3>6. Fresh(x, i) => Resolve(x)[i] = lowerBound + i
      <4>1. Fresh(x, i) => f \notin 1..(i - 1)
        BY <3>3 DEF Fresh
      <4>2. Fresh(x, i) => f = i
        BY <4>1
      <4> QED
        BY <4>2, <3>3
    <3>7. x[f] = x[i]
      BY <3>3
    <3> HIDE DEF First, kept
    <3> QED
      BY <3>3, <3>4, <3>5, <3>6, <3>7
  <2> QED
    BY <2>2, <2>3
<1> QED
  BY <1>2 DEF Resolve

(***************************************************************************)
(* What `add posit` is about to stage: its targets, which are bound, and   *)
(* after them the assertions, each about a posit that is kept or about a   *)
(* target that takes an identity of its own.                               *)
(***************************************************************************)
LEMMA CandidatesAre ==
    ASSUME IInv, pc = "bound"
    PROVE  LET n == Len(command.targets)
               m == Len(command.targets) + Len(command.assertions)
               x == Candidates
           IN  /\ n \in Nat /\ m \in Nat /\ n <= m /\ Len(x) = m /\ DOMAIN x = 1..m
               /\ \A i \in 1..m :
                     /\ x[i] \in AppearanceSet \X (Values \cup {Certainty})
                     /\ x[i][1] # {}
                     /\ \A a \in x[i][1] : a[1] # 0 /\ a[2] \in 1..(lowerBound + n)
                     /\ \A a, b \in x[i][1] : a[1] = b[1] => a = b
                     /\ \A a \in x[i][1] :
                           ~poisoned => \E r \in roles : r.id = a[1]
                     /\ \A a \in x[i][1] : a[2] < lowerBound + i
                     /\ n < i => \A a \in x[i][1] : a[1] = PositRole =>
                           \/ \E p \in posits : p.id = a[2]
                           \/ \E j \in 1..n : Fresh(x, j) /\ a[2] = lowerBound + j
<1> DEFINE n == Len(command.targets)
           m == Len(command.targets) + Len(command.assertions)
           targets == Resolve(command.targets)
           claims == [i \in DOMAIN command.assertions |->
                        AssertionOf(command.assertions[i], targets)]
           x == command.targets \o claims
<1>1. /\ command.targets \in Seq(AppearanceSet \X Values)
      /\ command.assertions \in Seq([target: Nat, positor: Thing])
  BY DEF IInv, TypeOK
<1>2. /\ n \in Nat /\ DOMAIN command.targets = 1..n
      /\ \A i \in 1..n : command.targets[i] \in AppearanceSet \X Values
      /\ Len(command.assertions) \in Nat
      /\ DOMAIN command.assertions = 1..Len(command.assertions)
  <2>1. /\ Len(command.targets) \in Nat /\ DOMAIN command.targets = 1..Len(command.targets)
        /\ \A i \in 1..Len(command.targets) : command.targets[i] \in AppearanceSet \X Values
    BY <1>1, ElementsOf, Zenon
  <2>2. /\ Len(command.assertions) \in Nat
        /\ DOMAIN command.assertions = 1..Len(command.assertions)
    BY <1>1, ElementsOf, Zenon
  <2> QED
    BY <2>1, <2>2, Zenon
<1>3. m \in Nat /\ n <= m
  <2>1. Len(command.targets) \in Nat
    BY <1>1, ElementsOf, Zenon
  <2>2. Len(command.assertions) \in Nat
    BY <1>1, ElementsOf, Zenon
  <2>3. \A a, b \in Nat : a + b \in Nat /\ a <= a + b
    OBVIOUS
  <2> QED
    BY <2>1, <2>2, <2>3, Zenon
<1>4. /\ Len(x) = m /\ DOMAIN x = 1..m
      /\ \A i \in 1..n : x[i] = command.targets[i]
      /\ \A i \in (n + 1)..m :
            /\ x[i] = AssertionOf(command.assertions[i - n], targets)
            /\ i - n \in DOMAIN command.assertions
  <2>1. /\ DOMAIN claims = DOMAIN command.assertions
        /\ \A k \in DOMAIN command.assertions :
              claims[k] = AssertionOf(command.assertions[k], targets)
    OBVIOUS
  <2>2. claims \in [1..Len(command.assertions) -> {claims[i] : i \in DOMAIN claims}]
    BY <1>2
  <2> HIDE DEF claims
  <2>3. claims \in Seq({claims[i] : i \in DOMAIN claims})
        /\ Len(claims) = Len(command.assertions)
    BY <2>2, <1>2, SequenceOf
  <2>4. /\ Len(x) = Len(command.targets) + Len(claims)
        /\ DOMAIN x = 1..(Len(command.targets) + Len(claims))
        /\ \A i \in 1..Len(command.targets) : x[i] = command.targets[i]
        /\ \A i \in (Len(command.targets) + 1)..(Len(command.targets) + Len(claims)) :
              i - Len(command.targets) \in DOMAIN claims
              /\ x[i] = claims[i - Len(command.targets)]
    <3> DEFINE S == AppearanceSet \X Values
               T == {claims[i] : i \in DOMAIN claims}
    <3>1. command.targets \in Seq(S) /\ claims \in Seq(T)
      BY <1>1, <2>3
    <3> HIDE DEF S, T
    <3> QED
      BY <3>1, Joined
  <2> HIDE DEF x
  <2> QED
    BY <2>1, <2>3, <2>4
<1>5. x = Candidates
  BY DEF Candidates
<1> HIDE DEF x, claims
<1>6. /\ lowerBound \in Nat
      /\ \A p \in posits : p.id \in 1..lowerBound
      /\ \A r \in roles : r.id \in 1..lowerBound
  BY KeptIdentities
<1>7. ASSUME NEW j \in 1..n, Fresh(command.targets, j) PROVE Fresh(x, j)
  <2>1. \A k \in 1..(j - 1) : k \in 1..n
    BY <1>2
  <2> QED
    BY <1>7, <2>1, <1>4 DEF Fresh
<1>8. ASSUME NEW i \in 1..n
      PROVE  /\ \/ \E p \in posits : p.id = targets[i]
                \/ \E j \in 1..n : Fresh(x, j) /\ targets[i] = lowerBound + j
             /\ targets[i] \in 1..(lowerBound + n)
  <2>1. \/ \E p \in posits : p.id = targets[i]
        \/ \E j \in 1..i : Fresh(command.targets, j) /\ targets[i] = lowerBound + j
    BY <1>2, ResolveFinds
  <2>2. \A j \in 1..i : j \in 1..n /\ lowerBound + j \in 1..(lowerBound + n)
    BY <1>2, <1>6
  <2>3. \A p \in posits : p.id \in 1..(lowerBound + n)
    BY <1>2, <1>6
  <2> QED
    BY <2>1, <2>2, <2>3, <1>7
<1> HIDE DEF targets
<1>9. /\ \A i \in 1..n : BoundSet(command.targets[i][1])
      /\ \A i \in DOMAIN command.assertions :
            /\ command.assertions[i].target \in 1..n
            /\ command.assertions[i].positor \in 1..lowerBound
  BY <1>2 DEF IInv, BoundInv
<1>10. ASSUME NEW i \in 1..n
       PROVE  /\ x[i] \in AppearanceSet \X (Values \cup {Certainty})
              /\ x[i][1] # {}
              /\ \A a \in x[i][1] : a[1] # 0 /\ a[2] \in 1..(lowerBound + n)
              /\ \A a, b \in x[i][1] : a[1] = b[1] => a = b
              /\ \A a \in x[i][1] : \E r \in roles : r.id = a[1]
              /\ \A a \in x[i][1] : a[2] < lowerBound + i
  <2>1. x[i] = command.targets[i] /\ BoundSet(x[i][1]) /\ x[i] \in AppearanceSet \X Values
    BY <1>2, <1>4, <1>9
  <2>2. \A a \in x[i][1] : a[2] < lowerBound + i
    BY <2>1, <1>2, <1>6 DEF BoundSet
  <2>3. \A a \in x[i][1] : a[1] # 0 /\ a[2] \in 1..(lowerBound + n)
    <3> SUFFICES ASSUME NEW a \in x[i][1] PROVE a[1] # 0 /\ a[2] \in 1..(lowerBound + n)
      OBVIOUS
    <3>1. PICK r \in roles : r.id = a[1]
      BY <2>1 DEF BoundSet
    <3>2. a[2] \in 1..lowerBound
      BY <2>1 DEF BoundSet
    <3> QED
      BY <3>1, <3>2, <1>2, <1>6
  <2>4. x[i] \in AppearanceSet \X (Values \cup {Certainty})
    BY <2>1
  <2> QED
    BY <2>1, <2>2, <2>3, <2>4 DEF BoundSet
<1>11. ASSUME NEW i \in (n + 1)..m
       PROVE  \E t \in 1..n : \E w \in 1..lowerBound :
                  /\ x[i][1] = {<<1, targets[t]>>, <<2, w>>}
                  /\ x[i][2] = Certainty
                  /\ x[i] = <<x[i][1], x[i][2]>>
  <2> DEFINE assertion == command.assertions[i - n]
  <2>1. x[i] = AssertionOf(assertion, targets)
        /\ assertion.target \in 1..n /\ assertion.positor \in 1..lowerBound
    BY <1>4, <1>9
  <2> HIDE DEF assertion
  <2> QED
    BY <2>1 DEF AssertionOf, PositRole, AscertainsRole
<1>12. ~poisoned => \A k \in {1, 2} : \E r \in roles : r.id = k
  <2> SUFFICES ASSUME ~poisoned, NEW k \in {1, 2} PROVE \E r \in roles : r.id = k
    OBVIOUS
  <2>1. roles \cup posits = Records(served) /\ served # <<>>
    BY NothingReplays DEF IInv, MemoryInv, PhaseInv, Bootstrapping
  <2>2. Range(Bootstrap) \subseteq Records(served)
    BY <2>1, TypeFacts, AcceptsPointwise DEF IInv, LogInv, Sound
  <2>3. Bootstrap[k] \in Range(Bootstrap) /\ Bootstrap[k].kind = "role" /\ Bootstrap[k].id = k
    BY DEF Bootstrap, BuiltinNames, NewRole, Range
  <2>4. Bootstrap[k] \in roles
    BY <2>1, <2>2, <2>3, TypeFacts DEF IInv, PositRecord
  <2> QED
    BY <2>3, <2>4
<1>13. ASSUME NEW i \in (n + 1)..m
       PROVE  /\ x[i] \in AppearanceSet \X (Values \cup {Certainty})
              /\ x[i][1] # {}
              /\ \A a \in x[i][1] : a[1] # 0 /\ a[2] \in 1..(lowerBound + n)
              /\ \A a, b \in x[i][1] : a[1] = b[1] => a = b
              /\ \A a \in x[i][1] : ~poisoned => \E r \in roles : r.id = a[1]
              /\ \A a \in x[i][1] : a[1] = PositRole =>
                    \/ \E p \in posits : p.id = a[2]
                    \/ \E j \in 1..n : Fresh(x, j) /\ a[2] = lowerBound + j
  <2>1. PICK t \in 1..n : \E w \in 1..lowerBound :
            /\ x[i][1] = {<<1, targets[t]>>, <<2, w>>}
            /\ x[i][2] = Certainty
            /\ x[i] = <<x[i][1], x[i][2]>>
    BY <1>11
  <2>2. PICK w \in 1..lowerBound :
            /\ x[i][1] = {<<1, targets[t]>>, <<2, w>>}
            /\ x[i][2] = Certainty
            /\ x[i] = <<x[i][1], x[i][2]>>
    BY <2>1
  <2>3. \A a \in x[i][1] : a = <<1, targets[t]>> \/ a = <<2, w>>
    BY <2>2
  <2>4. targets[t] \in 1..(lowerBound + n) /\ w \in 1..(lowerBound + n)
    BY <1>2, <1>6, <1>8
  <2>5. x[i][1] \in AppearanceSet
    <3>1. targets[t] \in Nat /\ w \in Nat
      BY <2>4
    <3>2. \A a \in x[i][1] : a \in Nat \X Nat
      BY <2>3, <3>1
    <3> QED
      BY <3>2 DEF AppearanceSet, Thing
  <2>6. \A a \in x[i][1] : a[1] = PositRole => a[2] = targets[t]
    BY <2>3 DEF PositRole
  <2>7. x[i][1] # {}
    BY <2>2
  <2>8. \A a, b \in x[i][1] : a[1] = b[1] => a = b
    BY <2>3
  <2>9. \A a \in x[i][1] : a[1] \in {1, 2} /\ a[2] \in 1..(lowerBound + n)
    BY <2>3, <2>4
  <2>10. x[i] \in AppearanceSet \X (Values \cup {Certainty})
    BY <2>2, <2>5
  <2>11. \A a \in x[i][1] : ~poisoned => \E r \in roles : r.id = a[1]
    BY <2>9, <1>12
  <2>12. \A a \in x[i][1] : a[1] = PositRole =>
            \/ \E p \in posits : p.id = a[2]
            \/ \E j \in 1..n : Fresh(x, j) /\ a[2] = lowerBound + j
    <3>1. \/ \E p \in posits : p.id = targets[t]
          \/ \E j \in 1..n : Fresh(x, j) /\ targets[t] = lowerBound + j
      BY <1>8
    <3> QED
      BY <2>6, <3>1
  <2>13. \A a \in x[i][1] : a[1] # 0
    BY <2>9
  <2> QED
    BY <2>7, <2>8, <2>9, <2>10, <2>11, <2>12, <2>13
<1> HIDE DEF n, m
<1>14. ASSUME NEW i \in 1..m
       PROVE  /\ x[i] \in AppearanceSet \X (Values \cup {Certainty})
              /\ x[i][1] # {}
              /\ \A a \in x[i][1] : a[1] # 0 /\ a[2] \in 1..(lowerBound + n)
              /\ \A a, b \in x[i][1] : a[1] = b[1] => a = b
              /\ \A a \in x[i][1] : ~poisoned => \E r \in roles : r.id = a[1]
              /\ \A a \in x[i][1] : a[2] < lowerBound + i
              /\ n < i => \A a \in x[i][1] : a[1] = PositRole =>
                    \/ \E p \in posits : p.id = a[2]
                    \/ \E j \in 1..n : Fresh(x, j) /\ a[2] = lowerBound + j
  <2>1. CASE i \in 1..n
    <3>1. ~(n < i)
      BY <2>1, <1>2
    <3> QED
      BY <2>1, <3>1, <1>10
  <2>2. CASE i \in (n + 1)..m
    <3>1. n < i
      BY <2>2, <1>2, <1>3
    <3>2. \A k \in 1..(lowerBound + n) : k < lowerBound + i
      BY <3>1, <1>2, <1>6
    <3> QED
      BY <2>2, <3>1, <3>2, <1>13
  <2>3. i \in 1..n \/ i \in (n + 1)..m
    BY <1>2, <1>3
  <2> QED
    BY <2>1, <2>2, <2>3
<1> DEFINE Described(y, k, l) ==
              /\ k \in Nat /\ l \in Nat /\ k <= l /\ Len(y) = l /\ DOMAIN y = 1..l
              /\ \A i \in 1..l :
                    /\ y[i] \in AppearanceSet \X (Values \cup {Certainty})
                    /\ y[i][1] # {}
                    /\ \A a \in y[i][1] : a[1] # 0 /\ a[2] \in 1..(lowerBound + k)
                    /\ \A a, b \in y[i][1] : a[1] = b[1] => a = b
                    /\ \A a \in y[i][1] :
                          ~poisoned => \E r \in roles : r.id = a[1]
                    /\ \A a \in y[i][1] : a[2] < lowerBound + i
                    /\ k < i => \A a \in y[i][1] : a[1] = PositRole =>
                          \/ \E p \in posits : p.id = a[2]
                          \/ \E j \in 1..k : Fresh(y, j) /\ a[2] = lowerBound + j
<1>15. Described(x, n, m)
  BY <1>2, <1>3, <1>4, <1>14
<1> HIDE DEF Described, x
<1>16. Described(Candidates, n, m)
  BY <1>5, <1>15
<1> QED
  BY <1>16 DEF Described, n, m

(***************************************************************************)
(* The candidates that keep their identities become posits of one batch,   *)
(* in the order of those identities.                                       *)
(***************************************************************************)
StagedBatch(x) ==
    LET fresh == Ascending({i \in DOMAIN x : Resolve(x)[i] = lowerBound + i})
    IN  [k \in DOMAIN fresh |-> NewPosit(lowerBound + fresh[k], x[fresh[k]])]

LEMMA StagedBatchIs ==
    ASSUME IInv, pc = "bound"
    PROVE  LET x == Candidates
               batch == StagedBatch(x)
           IN  /\ \A k \in DOMAIN batch : \E i \in DOMAIN x :
                     Fresh(x, i) /\ batch[k] = NewPosit(lowerBound + i, x[i])
               /\ \A i \in DOMAIN x : Fresh(x, i) =>
                     NewPosit(lowerBound + i, x[i]) \in Range(batch)
               /\ \A k, l \in DOMAIN batch : k < l =>
                     \E i, j \in DOMAIN x :
                         /\ i < j /\ Fresh(x, j)
                         /\ batch[k] = NewPosit(lowerBound + i, x[i])
                         /\ batch[l] = NewPosit(lowerBound + j, x[j])
               /\ batch \in Seq(Record)
               /\ Range(batch) \subseteq PositRecord
<1> DEFINE x == Candidates
           m == Len(command.targets) + Len(command.assertions)
           F == {i \in DOMAIN x : Resolve(x)[i] = lowerBound + i}
           fresh == Ascending(F)
           batch == [k \in DOMAIN fresh |-> NewPosit(lowerBound + fresh[k], x[fresh[k]])]
<1>1. m \in Nat /\ DOMAIN x = 1..m
  BY CandidatesAre
<1>2. \A i \in DOMAIN x : x[i] \in AppearanceSet \X (Values \cup {Certainty})
  BY <1>1, CandidatesAre
<1>3. batch = StagedBatch(x)
  BY DEF StagedBatch
<1>4. lowerBound \in Nat
  BY KeptIdentities
<1> HIDE DEF x, m
<1>5. \A i \in DOMAIN x : Resolve(x)[i] = lowerBound + i <=> Fresh(x, i)
  BY <1>1, ResolveFinds
<1>6. F \in SUBSET Nat /\ F \subseteq 1..m /\ \A i : i \in F <=> i \in DOMAIN x /\ Fresh(x, i)
  BY <1>1, <1>5
<1> HIDE DEF F
<1>7. IsFiniteSet(F)
  <2>1. IsFiniteSet(1..m)
    BY <1>1, FS_Interval
  <2> QED
    BY <2>1, <1>6, FS_Subset
<1>8. /\ fresh \in Seq(F)
      /\ \A k, l \in DOMAIN fresh : k < l => fresh[k] < fresh[l]
      /\ Range(fresh) = F
  BY <1>6, <1>7, AscendingOrders
<1> HIDE DEF fresh
<1>9. /\ Len(fresh) \in Nat /\ DOMAIN fresh = 1..Len(fresh)
      /\ \A k \in DOMAIN fresh : fresh[k] \in F
  BY <1>8, ElementsOf
<1>10. /\ DOMAIN batch = DOMAIN fresh
       /\ \A k \in DOMAIN batch : batch[k] = NewPosit(lowerBound + fresh[k], x[fresh[k]])
  OBVIOUS
<1>11. \A i \in DOMAIN x : NewPosit(lowerBound + i, x[i]) \in PositRecord
  <2> SUFFICES ASSUME NEW i \in DOMAIN x PROVE NewPosit(lowerBound + i, x[i]) \in PositRecord
    OBVIOUS
  <2>1. lowerBound + i \in Thing
    BY <1>1, <1>4 DEF Thing
  <2>2. x[i][1] \in AppearanceSet /\ x[i][2] \in Values \cup {Certainty}
    BY <1>2
  <2> QED
    BY <2>1, <2>2 DEF NewPosit, PositRecord
<1>12. \A k \in DOMAIN batch : \E i \in DOMAIN x :
           Fresh(x, i) /\ batch[k] = NewPosit(lowerBound + i, x[i])
  BY <1>6, <1>9, <1>10
<1>13. ASSUME NEW i \in DOMAIN x, Fresh(x, i)
       PROVE  NewPosit(lowerBound + i, x[i]) \in Range(batch)
  <2>1. PICK k \in DOMAIN fresh : fresh[k] = i
    BY <1>6, <1>8, <1>13 DEF Range
  <2>2. batch[k] = NewPosit(lowerBound + i, x[i]) /\ k \in DOMAIN batch
    BY <2>1, <1>10
  <2> HIDE DEF batch
  <2> QED
    BY <2>2 DEF Range
<1>14. ASSUME NEW k \in DOMAIN batch, NEW l \in DOMAIN batch, k < l
       PROVE  \E i, j \in DOMAIN x :
                  /\ i < j /\ Fresh(x, j)
                  /\ batch[k] = NewPosit(lowerBound + i, x[i])
                  /\ batch[l] = NewPosit(lowerBound + j, x[j])
  <2>1. fresh[k] < fresh[l] /\ fresh[k] \in F /\ fresh[l] \in F
    BY <1>8, <1>9, <1>10, <1>14
  <2>2. /\ batch[k] = NewPosit(lowerBound + fresh[k], x[fresh[k]])
        /\ batch[l] = NewPosit(lowerBound + fresh[l], x[fresh[l]])
    BY <1>10
  <2> HIDE DEF batch
  <2> QED
    BY <2>1, <2>2, <1>6
<1> HIDE DEF batch
<1>15. \A k \in DOMAIN batch : batch[k] \in PositRecord
  BY <1>11, <1>12
<1>16. batch \in Seq(Record)
  <2>1. batch \in [1..Len(fresh) -> Record]
    <3>1. \A k \in 1..Len(fresh) : batch[k] \in Record
      BY <1>9, <1>10, <1>15 DEF Record
    <3>2. batch = [k \in 1..Len(fresh) |-> batch[k]]
      BY <1>9 DEF batch
    <3> QED
      BY <3>1, <3>2
  <2> QED
    BY <2>1, <1>9, SequenceOf
<1>17. Range(batch) \subseteq PositRecord
  BY <1>15 DEF Range
<1> QED
  BY <1>3, <1>12, <1>13, <1>14, <1>16, <1>17 DEF x

LEMMA StagedBatchFits ==
    ASSUME IInv, pc = "bound", ~poisoned
    PROVE  Fits(served, StagedBatch(Candidates))
<1> DEFINE x == Candidates
           n == Len(command.targets)
           m == Len(command.targets) + Len(command.assertions)
           batch == StagedBatch(x)
           New(i) == NewPosit(lowerBound + i, x[i])
<1>1. n \in Nat /\ m \in Nat /\ n <= m /\ DOMAIN x = 1..m
  BY CandidatesAre
<1>2. \A i \in 1..m :
          /\ x[i] \in AppearanceSet \X (Values \cup {Certainty})
          /\ x[i][1] # {}
          /\ \A a \in x[i][1] : a[1] # 0 /\ a[2] \in 1..(lowerBound + n)
          /\ \A a, b \in x[i][1] : a[1] = b[1] => a = b
          /\ \A a \in x[i][1] : \E r \in roles : r.id = a[1]
  BY CandidatesAre
<1>3. /\ \A k \in DOMAIN batch : \E i \in 1..m : Fresh(x, i) /\ batch[k] = New(i)
      /\ \A i \in 1..m : Fresh(x, i) => New(i) \in Range(batch)
      /\ \A k, l \in DOMAIN batch : k < l =>
            \E i, j \in 1..m :
                i < j /\ Fresh(x, j) /\ batch[k] = New(i) /\ batch[l] = New(j)
      /\ Range(batch) \subseteq PositRecord
  <2>1. /\ \A k \in DOMAIN batch : \E i \in DOMAIN x : Fresh(x, i) /\ batch[k] = New(i)
        /\ \A i \in DOMAIN x : Fresh(x, i) => New(i) \in Range(batch)
        /\ \A k, l \in DOMAIN batch : k < l =>
              \E i, j \in DOMAIN x :
                  i < j /\ Fresh(x, j) /\ batch[k] = New(i) /\ batch[l] = New(j)
        /\ Range(batch) \subseteq PositRecord
    BY StagedBatchIs, Zenon
  <2>2. DOMAIN x = 1..m
    BY <1>1
  <2> HIDE DEF x, m, batch, New
  <2> QED
    BY <2>1, <2>2
<1>4. /\ lowerBound \in Nat
      /\ \A r \in Records(served) : r.id \in 1..lowerBound
      /\ \A p \in posits : p.id \in 1..lowerBound
  BY KeptIdentities
<1>5. roles \cup posits = Records(served) /\ roles # {}
  BY DEF IInv, MemoryInv, PhaseInv, Bootstrapping
<1>6. RolesOf(Records(served)) = roles /\ PositsOf(Records(served)) = posits
  BY <1>5, TypeFacts, KindsOfKeepers DEF IInv
<1> HIDE DEF x, n, m, batch
<1>7. ASSUME NEW i \in 1..m
      PROVE  /\ New(i).kind = "posit" /\ New(i).id = lowerBound + i
             /\ New(i).appearances = x[i][1] /\ New(i).value = x[i][2]
             /\ Proposition(New(i)) = x[i]
  <2>1. x[i] = <<x[i][1], x[i][2]>>
    BY <1>2
  <2> QED
    BY <2>1 DEF NewPosit, Proposition
<1>8. \A i \in 1..m : Canonical(New(i))
  <2> SUFFICES ASSUME NEW i \in 1..m PROVE Canonical(New(i))
    OBVIOUS
  <2>1. lowerBound + i # 0
    BY <1>1, <1>4
  <2>2. \A a \in x[i][1] : a[1] # 0 /\ a[2] # 0
    BY <1>2
  <2>3. x[i][1] # {} /\ \A a, b \in x[i][1] : a[1] = b[1] => a = b
    BY <1>2
  <2> HIDE DEF New
  <2> QED
    BY <2>1, <2>2, <2>3, <1>7 DEF Canonical
<1>9. ASSUME NEW r \in Records(served), NEW i \in 1..m, Fresh(x, i)
      PROVE  ~Conflict(r, New(i))
  <2>1. r.id # lowerBound + i
    BY <1>1, <1>4
  <2>2. r.kind = "posit" => Proposition(r) # x[i]
    <3>1. r.kind = "posit" => r \in posits
      BY <1>6 DEF PositsOf
    <3> QED
      BY <3>1, <1>9 DEF Fresh
  <2> HIDE DEF New
  <2> QED
    BY <2>1, <2>2, <1>7 DEF Conflict
<1>10. ASSUME NEW i \in 1..m, NEW j \in 1..m, i < j, Fresh(x, j)
       PROVE  ~Conflict(New(i), New(j))
  <2>1. i \in 1..(j - 1)
    BY <1>1, <1>10
  <2>2. x[i] # x[j]
    BY <2>1, <1>10 DEF Fresh
  <2>3. lowerBound + i # lowerBound + j
    BY <1>1, <1>4, <1>10
  <2> HIDE DEF New
  <2> QED
    BY <2>2, <2>3, <1>7 DEF Conflict
<1>11. \A i \in 1..m : \A a \in New(i).appearances :
           \E r \in RolesOf(Records(served)) : r.id = a[1]
  <2> HIDE DEF New
  <2> QED
    BY <1>2, <1>6, <1>7
<1>12. Fits(served, batch)
  <2>1. \A k \in DOMAIN batch : Canonical(batch[k])
    BY <1>3, <1>8
  <2>2. \A r \in Records(served) : \A k \in DOMAIN batch : ~Conflict(r, batch[k])
    BY <1>3, <1>9
  <2>3. \A k, l \in DOMAIN batch : k < l => ~Conflict(batch[k], batch[l])
    BY <1>3, <1>10
  <2>4. \A k \in DOMAIN batch : \A a \in batch[k].appearances :
            \E r \in RolesOf(Records(served)) : r.id = a[1]
    BY <1>3, <1>11
  <2>5. served # <<>>
    BY <1>5, NothingReplays
  <2> QED
    BY <2>1, <2>2, <2>3, <2>4, <2>5 DEF Fits
<1> QED
  BY <1>12 DEF batch, x

(***************************************************************************)
(* What is staged mentions only what has an identity already, or takes a   *)
(* smaller one in the same batch.                                          *)
(***************************************************************************)
LEMMA StagedBatchComesLater ==
    ASSUME IInv, pc = "bound"
    PROVE  LET batch == StagedBatch(Candidates) IN
           /\ Ordered(With(batch))
           /\ Extends(With(batch), Records(served))
<1> DEFINE x == Candidates
           m == Len(command.targets) + Len(command.assertions)
           batch == StagedBatch(x)
           New(i) == NewPosit(lowerBound + i, x[i])
<1>1. /\ m \in Nat /\ DOMAIN x = 1..m
      /\ \A i \in 1..m : \A a \in x[i][1] : a[2] < lowerBound + i
  BY CandidatesAre
<1>2. \A k \in DOMAIN batch : \E i \in 1..m : batch[k] = New(i)
  BY <1>1, StagedBatchIs
<1>3. /\ lowerBound \in Nat
      /\ \A r \in Records(served) : r.id \in 1..lowerBound
  BY KeptIdentities
<1>4. Things(Records(served)) \subseteq Nat
  BY TypeFacts, KindsOfRecords DEF IInv
<1>5. \A t \in Things(Records(served)) : t <= lowerBound
  BY ThingsOfUnion DEF IInv, GeneratorAbove, PhaseInv
<1> HIDE DEF x, m, batch
<1>6. ASSUME NEW p \in Range(batch)
      PROVE  /\ p.id \in Nat /\ p.id > lowerBound
             /\ \A a \in p.appearances : a[2] < p.id
  <2>1. PICK i \in 1..m : p = New(i)
    BY <1>2 DEF Range
  <2>2. p.id = lowerBound + i /\ p.appearances = x[i][1]
    BY <2>1 DEF NewPosit
  <2> QED
    BY <2>2, <1>1, <1>3
<1>7. Extends(With(batch), Records(served))
  <2>1. \A r \in Range(batch) : r.id \notin Things(Records(served))
    BY <1>3, <1>4, <1>5, <1>6
  <2> QED
    BY <2>1 DEF Extends, With
<1>8. ASSUME NEW p \in PositsOf(With(batch)), NEW q \in PositsOf(With(batch)),
             NEW a \in p.appearances, a[2] = q.id
      PROVE  q.id < p.id
  <2>1. CASE p \in Range(batch)
    BY <2>1, <1>6, <1>8
  <2>2. CASE p \in Records(served)
    <3>1. p \in PositsOf(Records(served))
      BY <2>2 DEF PositsOf
    <3>2. a[2] \in Things(Records(served))
      BY <3>1, ThingsAre
    <3>3. q \in Records(served)
      BY <3>2, <1>7, <1>8 DEF Extends, PositsOf
    <3> QED
      BY <3>1, <3>3, <1>8 DEF IInv, LogInv, Ordered, PositsOf
  <2> QED
    BY <2>1, <2>2 DEF With, PositsOf
<1>9. Ordered(With(batch))
  BY <1>8 DEF Ordered
<1> QED
  BY <1>7, <1>9 DEF batch, x

(***************************************************************************)
(* What an `and assert` clause comes to, kept or staged, is an envelope    *)
(* about a posit that is kept or staged.                                   *)
(***************************************************************************)
LEMMA ClaimsAreKept ==
    ASSUME IInv, pc = "bound",
           NEW p \in posits \cup Range(StagedBatch(Candidates)),
           NEW i \in DOMAIN Candidates, p.id = Resolve(Candidates)[i]
    PROVE  Proposition(p) = Candidates[i]
<1> DEFINE x == Candidates
           m == Len(command.targets) + Len(command.assertions)
           batch == StagedBatch(x)
           New(k) == NewPosit(lowerBound + k, x[k])
<1>1. /\ m \in Nat /\ DOMAIN x = 1..m /\ i \in 1..m
      /\ \A k \in 1..m : x[k] \in AppearanceSet \X (Values \cup {Certainty})
  BY CandidatesAre
<1>2. \A k \in DOMAIN batch : \E l \in 1..m : batch[k] = New(l)
  BY <1>1, StagedBatchIs
<1>3. /\ lowerBound \in Nat
      /\ \A q \in posits : q.id \in 1..lowerBound
  BY KeptIdentities
<1>4. \A q, r \in posits : q.id = r.id => q = r
  <2> SUFFICES ASSUME NEW q \in posits, NEW r \in posits, q # r PROVE q.id # r.id
    OBVIOUS
  <2>1. /\ posits \subseteq Records(served) /\ ReplayAccepts(served)
        /\ served \in Seq(Seq(Record))
    BY TypeFacts DEF IInv, MemoryInv, LogInv, Sound
  <2>2. ~Conflict(q, r)
    BY <2>1, NoTwoConflict
  <2> QED
    BY <2>2 DEF Conflict
<1>5. p \in posits \cup Range(batch) /\ p.id = Resolve(x)[i]
  OBVIOUS
<1> HIDE DEF x, m, batch
<1>6. \/ \E q \in posits : Proposition(q) = x[i] /\ q.id = Resolve(x)[i]
      \/ \E j \in 1..i : Fresh(x, j) /\ x[j] = x[i] /\ Resolve(x)[i] = lowerBound + j
  BY <1>1, ResolveFinds
<1>7. ASSUME NEW q \in Range(batch)
      PROVE  \E l \in 1..m : q.id = lowerBound + l /\ Proposition(q) = x[l]
  <2>1. PICK l \in 1..m : q = New(l)
    BY <1>2 DEF Range
  <2>2. x[l] = <<x[l][1], x[l][2]>>
    BY <1>1
  <2>3. q.id = lowerBound + l /\ Proposition(q) = x[l]
    BY <2>1, <2>2 DEF NewPosit, Proposition
  <2> QED
    BY <2>3
<1>8. CASE p \in posits
  <2>1. p.id \in 1..lowerBound
    BY <1>8, <1>3
  <2>2. \A j \in 1..i : p.id # lowerBound + j
    BY <2>1, <1>1, <1>3
  <2>3. PICK q \in posits : Proposition(q) = x[i] /\ q.id = Resolve(x)[i]
    BY <2>2, <1>6, <1>5
  <2>4. p = q
    BY <2>3, <1>4, <1>5, <1>8
  <2> QED
    BY <2>3, <2>4 DEF x
<1>9. CASE p \in Range(batch)
  <2>1. PICK l \in 1..m : p.id = lowerBound + l /\ Proposition(p) = x[l]
    BY <1>7, <1>9
  <2>2. \A q \in posits : q.id # p.id
    BY <2>1, <1>1, <1>3
  <2>3. PICK j \in 1..i : x[j] = x[i] /\ Resolve(x)[i] = lowerBound + j
    BY <2>2, <1>6, <1>5
  <2>4. l = j
    BY <2>1, <2>3, <1>1, <1>3, <1>5
  <2> QED
    BY <2>1, <2>3, <2>4 DEF x
<1> QED
  BY <1>5, <1>8, <1>9

LEMMA StagedEnvelopesFollow ==
    ASSUME IInv, pc = "bound"
    PROVE  LET x == Candidates
               batch == StagedBatch(x)
               claims == {Resolve(x)[Len(command.targets) + i] : i \in DOMAIN command.assertions}
               answers == {p \in posits \cup Range(batch) : p.id \in Range(Resolve(x))}
           IN  Follow({p \in answers : p.id \in claims}, With(batch))
<1> DEFINE x == Candidates
           n == Len(command.targets)
           m == Len(command.targets) + Len(command.assertions)
           batch == StagedBatch(x)
           ids == Resolve(x)
           claims == {ids[Len(command.targets) + i] : i \in DOMAIN command.assertions}
           New(k) == NewPosit(lowerBound + k, x[k])
<1>1. /\ n \in Nat /\ m \in Nat /\ n <= m /\ DOMAIN x = 1..m
      /\ \A i \in 1..m :
            /\ x[i] \in AppearanceSet \X (Values \cup {Certainty})
            /\ n < i => \A a \in x[i][1] : a[1] = PositRole =>
                  \/ \E p \in posits : p.id = a[2]
                  \/ \E j \in 1..n : Fresh(x, j) /\ a[2] = lowerBound + j
  BY CandidatesAre
<1>2. \A i \in 1..m : Fresh(x, i) => New(i) \in Range(batch)
  BY <1>1, StagedBatchIs
<1>3. \A i \in DOMAIN command.assertions : n + i \in 1..m /\ n < n + i
  <2>1. command.assertions \in Seq([target: Nat, positor: Thing])
    BY DEF IInv, TypeOK
  <2>2. /\ Len(command.assertions) \in Nat
        /\ DOMAIN command.assertions = 1..Len(command.assertions)
    BY <2>1, ElementsOf, Zenon
  <2>3. \A k, l \in Nat : \A i \in 1..l : k + i \in 1..(k + l) /\ k < k + i
    OBVIOUS
  <2> QED
    BY <2>2, <2>3, <1>1, Zenon
<1>4. posits \subseteq Records(served) /\ posits \subseteq PositRecord
  BY TypeFacts DEF IInv, MemoryInv
<1>5. Ordered(With(batch))
  BY StagedBatchComesLater
<1>6. \A p \in posits \cup Range(batch) : \A i \in 1..m :
          p.id = ids[i] => Proposition(p) = x[i]
  BY <1>1, ClaimsAreKept
<1>7. Range(batch) \subseteq PositRecord
  BY StagedBatchIs
<1> HIDE DEF x, n, m, batch, ids
<1>8. ASSUME NEW p \in posits \cup Range(batch), p.id \in claims, NEW t \in Targets(p)
      PROVE  \E q \in PositsOf(With(batch)) : q.id = t /\ q.id < p.id
  <2>1. PICK i \in 1..m : n < i /\ p.id = ids[i]
    BY <1>3, <1>8 DEF n
  <2>2. Proposition(p) = x[i]
    BY <2>1, <1>6
  <2>3. p.appearances = x[i][1]
    BY <2>2 DEF Proposition
  <2>4. PICK a \in p.appearances : a[1] = PositRole /\ t = a[2]
    BY DEF Targets
  <2>5. p \in PositsOf(With(batch))
    BY <1>4, <1>7 DEF With, PositsOf, PositRecord
  <2>6. \E q \in PositsOf(With(batch)) : q.id = t
    <3>1. CASE \E q \in posits : q.id = t
      BY <3>1, <1>4 DEF With, PositsOf, PositRecord
    <3>2. CASE \E j \in 1..n : Fresh(x, j) /\ t = lowerBound + j
      <4>1. PICK j \in 1..n : Fresh(x, j) /\ t = lowerBound + j
        BY <3>2
      <4>2. New(j) \in Range(batch)
        BY <4>1, <1>1, <1>2
      <4>3. New(j).id = t /\ New(j).kind = "posit"
        BY <4>1 DEF NewPosit
      <4> HIDE DEF New
      <4> QED
        BY <4>2, <4>3 DEF With, PositsOf
    <3> QED
      BY <2>1, <2>3, <2>4, <1>1, <3>1, <3>2
  <2>7. PICK q \in PositsOf(With(batch)) : q.id = t
    BY <2>6
  <2>8. q.id < p.id
    BY <2>4, <2>5, <2>7, <1>5 DEF Ordered
  <2> QED
    BY <2>7, <2>8
<1>9. posits \cup Range(batch) \subseteq With(batch)
  BY <1>4 DEF With
<1> HIDE DEF claims
<1>10. Follow({p \in posits \cup Range(batch) : p.id \in Range(ids) /\ p.id \in claims},
              With(batch))
  BY <1>8, <1>9 DEF Follow, FollowsTargets
<1>11. {p \in {q \in posits \cup Range(batch) : q.id \in Range(ids)} : p.id \in claims}
          = {p \in posits \cup Range(batch) : p.id \in Range(ids) /\ p.id \in claims}
  OBVIOUS
<1> QED
  BY <1>10, <1>11 DEF claims, batch, ids, x

LEMMA StageKeeps ==
    ASSUME IInv, faults' \in 0..MaxFaults, Stage
    PROVE  IInv'
<1> DEFINE x == Candidates
           n == Len(command.targets)
           m == Len(command.targets) + Len(command.assertions)
           batch == StagedBatch(x)
           answers == {p \in posits \cup Range(batch) : p.id \in Range(Resolve(x))}
           claims == {Resolve(x)[Len(command.targets) + i] : i \in DOMAIN command.assertions}
           envelopes == {p \in answers : p.id \in claims}
           built == {x[i][1] : i \in DOMAIN x}
<1>1. /\ pc = "bound" /\ UNCHANGED <<log, roles, posits, poisoned>>
      /\ lowerBound' = lowerBound + Len(x)
      /\ Index(built)
      /\ IF batch = <<>>
            THEN AnswerKept(answers) /\ asserted' = asserted \cup envelopes
            ELSE /\ command' = [Idle EXCEPT !.prepared = batch, !.envelopes = envelopes,
                                           !.answers = answers]
                 /\ pc' = "append"
                 /\ UNCHANGED <<answered, asserted>>
  BY Zenon DEF Stage, StagedBatch
<1>2. /\ n \in Nat /\ m \in Nat /\ n <= m /\ Len(x) = m /\ DOMAIN x = 1..m
      /\ \A i \in 1..m :
            /\ x[i] \in AppearanceSet \X (Values \cup {Certainty})
            /\ \A a \in x[i][1] : a[2] \in 1..(lowerBound + n)
  BY <1>1, CandidatesAre
<1>3. /\ \A k \in DOMAIN batch : \E i \in 1..m : batch[k] = NewPosit(lowerBound + i, x[i])
      /\ batch \in Seq(Record)
      /\ Range(batch) \subseteq PositRecord
  BY <1>1, <1>2, StagedBatchIs
<1>4. /\ ~poisoned => Fits(served, batch)
      /\ Ordered(With(batch)) /\ Extends(With(batch), Records(served))
      /\ Follow(envelopes, With(batch))
  BY <1>1, StagedBatchFits, StagedBatchComesLater, StagedEnvelopesFollow
<1>5. lowerBound \in Nat
  BY <1>1, KeptIdentities
<1> HIDE DEF x, n, m, batch
<1>6. lowerBound' \in Nat /\ lowerBound <= lowerBound' /\ lowerBound' = lowerBound + m
  BY <1>1, <1>2, <1>5
<1>7. /\ appearances' = appearances \cup UNION built
      /\ sets' = sets \cup built
  BY <1>1 DEF Index
<1>8. built \subseteq AppearanceSet /\ \A i \in 1..m : x[i][1] \in built
  BY <1>2
<1>9. appearances' \in AppearanceSet /\ appearances \subseteq appearances'
      /\ sets' \subseteq AppearanceSet /\ sets \subseteq sets'
  BY <1>7, <1>8 DEF IInv, TypeOK, AppearanceSet
<1>10. \A p \in Range(batch) : \E i \in 1..m : p = NewPosit(lowerBound + i, x[i])
  BY <1>3 DEF Range
<1>11. \A p \in PositsOf(Range(batch)) :
           p.appearances \in sets' /\ p.appearances \subseteq appearances'
  <2> SUFFICES ASSUME NEW p \in Range(batch)
               PROVE  p.appearances \in sets' /\ p.appearances \subseteq appearances'
    BY DEF PositsOf
  <2>1. PICK i \in 1..m : p = NewPosit(lowerBound + i, x[i])
    BY <1>10
  <2>2. p.appearances = x[i][1]
    BY <2>1 DEF NewPosit
  <2>3. x[i][1] \in built
    BY <1>8
  <2> HIDE DEF built
  <2> QED
    BY <2>2, <2>3, <1>7
<1>12. \A t \in Things(Range(batch)) : t <= lowerBound'
  <2>1. ASSUME NEW i \in 1..m
        PROVE  /\ lowerBound + i <= lowerBound'
               /\ \A a \in x[i][1] : a[2] <= lowerBound'
    <3>1. \A k \in 1..(lowerBound + n) : k <= lowerBound'
      BY <1>2, <1>5, <1>6
    <3> QED
      BY <3>1, <1>2, <1>5, <1>6
  <2>2. ASSUME NEW p \in Range(batch)
        PROVE  p.id <= lowerBound' /\ \A a \in p.appearances : a[2] <= lowerBound'
    <3>1. PICK i \in 1..m : p = NewPosit(lowerBound + i, x[i])
      BY <1>10
    <3>2. p.id = lowerBound + i /\ p.appearances = x[i][1]
      BY <3>1 DEF NewPosit
    <3> QED
      BY <3>2, <2>1
  <2>3. PositsOf(Range(batch)) \subseteq Range(batch)
    BY DEF PositsOf
  <2> QED
    BY <2>2, <2>3, ThingsAre
<1>13. answers \in SUBSET Record
  BY <1>3, TypeFacts DEF IInv, Record
<1>14. \/ /\ batch = <<>>
          /\ AnswerKept(answers)
          /\ asserted' = asserted \cup envelopes
       \/ /\ Staged(command', batch, envelopes, answers)
          /\ pc' = "append"
          /\ UNCHANGED <<answered, asserted>>
  <2> HIDE DEF answers, envelopes
  <2>1. CASE batch = <<>>
    BY <2>1, <1>1
  <2>2. CASE batch # <<>>
    <3>1. /\ command' = [Idle EXCEPT !.prepared = batch, !.envelopes = envelopes,
                                     !.answers = answers]
          /\ pc' = "append" /\ UNCHANGED <<answered, asserted>>
      BY <2>2, <1>1
    <3>2. Staged(command', batch, envelopes, answers)
      BY <3>1 DEF Staged, Idle
    <3> QED
      BY <3>1, <3>2
  <2> QED
    BY <2>1, <2>2
<1>15. envelopes \in SUBSET PositRecord
  <2>1. answers \subseteq PositRecord
    BY <1>3, TypeFacts DEF IInv
  <2> HIDE DEF answers, claims
  <2> QED
    BY <2>1
<1> HIDE DEF answers, envelopes
<1> QED
  BY <1>1, <1>3, <1>4, <1>6, <1>9, <1>11, <1>12, <1>13, <1>14, <1>15, StagingKeeps

-----------------------------------------------------------------------------
(***************************************************************************)
(* Every step keeps the invariant, and is a step of the durable log or     *)
(* leaves the log alone.                                                   *)
(***************************************************************************)
LEMMA ActionKeeps ==
    ASSUME IInv, faults' \in 0..MaxFaults, ProcessStep \/ Fault
    PROVE  IInv' /\ [Store!DLNext]_(Store!dlVars)
<1> USE DEF Store!dlVars
<1>1. CASE Open
  BY <1>1, OpenKeeps DEF Open, log
<1>2. CASE OpenEmpty
  BY <1>2, OpenEmptyKeeps DEF OpenEmpty, log
<1>3. CASE Close
  BY <1>3, CloseKeeps DEF Close, log
<1>4. CASE CreateRoles
  BY <1>4, CreateRolesKeeps DEF CreateRoles, log
<1>5. CASE Bind
  BY <1>5, BindKeeps DEF Bind, log
<1>6. CASE BindFails
  BY <1>6, BindFailsKeeps DEF BindFails, log
<1>7. CASE Stage
  <2>1. UNCHANGED log
    BY <1>7, Zenon DEF Stage
  <2> QED
    BY <1>7, <2>1, StageKeeps DEF log
<1>8. CASE RefuseAppend
  <2>1. pc = "append" /\ Fail(TRUE) /\ UNCHANGED <<log, asserted>>
    BY <1>8 DEF RefuseAppend
  <2>2. IInv'
    BY <2>1, FailKeeps
  <2> QED
    BY <2>1, <2>2 DEF log
<1>9. CASE Publish
  <2>1. IInv' /\ command.prepared \in Range(served') \cap Batches
    BY <1>9, PublishKeeps
  <2>2. Store!Publish(command.prepared)
    BY <1>9 DEF Publish
  <2> QED
    BY <2>1, <2>2 DEF Store!DLNext, Store!Range, Range
<1>10. CASE Persist
  BY <1>10, PersistKeeps DEF Persist, Store!DLNext
<1>11. CASE Keep
  <2>1. IInv' /\ command.prepared \in Range(history)
    BY <1>11, KeepKeeps
  <2>2. Store!Acknowledge(command.prepared)
    BY <1>11 DEF Keep
  <2> QED
    BY <2>1, <2>2 DEF Store!DLNext, Store!Range, Range
<1>12. CASE FailAppend
  <2>1. pc = "append" /\ Fail(TRUE) /\ UNCHANGED <<log, asserted>>
    BY <1>12 DEF FailAppend
  <2>2. IInv'
    BY <2>1, FailKeeps
  <2> QED
    BY <2>1, <2>2 DEF log
<1>13. CASE FailPersist
  <2>1. pc = "published" /\ Fail(TRUE) /\ UNCHANGED <<log, asserted>>
    BY <1>13 DEF FailPersist
  <2>2. IInv'
    BY <2>1, FailKeeps
  <2> QED
    BY <2>1, <2>2 DEF log
<1>14. CASE RefuseRecord
  <2>1. pc = "append" /\ ~poisoned /\ Fail(FALSE) /\ UNCHANGED <<log, asserted>>
    BY <1>14 DEF RefuseRecord
  <2>2. IInv'
    BY <2>1, FailKeeps
  <2> QED
    BY <2>1, <2>2 DEF log
<1>15. CASE ProcessExit
  BY <1>15, CloseKeeps DEF ProcessExit, log
<1>16. CASE PowerLoss
  BY <1>16, PowerLossKeeps DEF PowerLoss, Store!DLNext
<1> QED
  BY <1>1, <1>2, <1>3, <1>4, <1>5, <1>6, <1>7, <1>8, <1>9, <1>10, <1>11, <1>12,
     <1>13, <1>14, <1>15, <1>16 DEF ProcessStep, Fault

LEMMA StepKeeps ==
    ASSUME IInv, [Next]_vars
    PROVE  IInv' /\ [Store!DLNext]_(Store!dlVars)
<1>1. CASE Next
  <2>1. faults \in 0..MaxFaults /\ MaxFaults \in Nat
    BY PositStoreAssumption DEF IInv, TypeOK
  <2>2. faults' \in 0..MaxFaults /\ (ProcessStep \/ Fault)
    BY <1>1, <2>1 DEF Next
  <2> QED
    BY <2>2, ActionKeeps
<1>2. CASE UNCHANGED vars
  <2>1. /\ served' = served /\ history' = history /\ acked' = acked
        /\ lowerBound' = lowerBound /\ roles' = roles /\ posits' = posits
        /\ appearances' = appearances /\ sets' = sets /\ pc' = pc
        /\ poisoned' = poisoned /\ command' = command /\ answered' = answered
        /\ asserted' = asserted /\ faults' = faults
    BY <1>2 DEF vars, log, keepers, indexes
  <2>2. TypeOK' /\ LogInv' /\ PhaseInv'
    BY <2>1 DEF IInv, TypeOK, Store!DLTypeOK, LogInv, PhaseInv, Bootstrapping
  <2>3. MemoryInv' /\ GeneratorAbove'
    BY <2>1 DEF IInv, MemoryInv, Indexed, GeneratorAbove, Bootstrapping
  <2>4. BoundInv' /\ StagedInv'
    BY <2>1 DEF IInv, BoundInv, BoundSet, StagedInv, With
  <2> QED
    BY <2>1, <2>2, <2>3, <2>4 DEF IInv, Store!dlVars
<1> QED
  BY <1>1, <1>2

(***************************************************************************)
(* Names, values, commands and bounds are arbitrary in what follows.       *)
(***************************************************************************)
THEOREM PositStoreInvariant == Spec => []IInv
<1>1. Init => IInv
  BY InitEstablishes
<1>2. IInv /\ [Next]_vars => IInv'
  BY StepKeeps
<1> QED
  BY <1>1, <1>2, PTL DEF Spec

(***************************************************************************)
(* The variables keep their types.                                         *)
(***************************************************************************)
THEOREM PositStoreTypes == Spec => []TypeOK
<1>1. IInv => TypeOK
  BY DEF IInv
<1> QED
  BY <1>1, PositStoreInvariant, PTL

(***************************************************************************)
(* What a restart reads never stops it: every batch that create_roles,     *)
(* add_posit and bootstrap_append_store append is one that LogicalReplay   *)
(* accepts behind the others, after any interruption.                      *)
(***************************************************************************)
THEOREM ReplayIsAccepted == Spec => []ReplayAccepted
<1>1. IInv => ReplayAccepted
  BY DEF IInv, LogInv, Sound, ReplayAccepted
<1> QED
  BY <1>1, PositStoreInvariant, PTL

(***************************************************************************)
(* The keepers are what restore_append_store would rebuild, and never hold *)
(* a construct that the store lacks.                                       *)
(***************************************************************************)
THEOREM MemoryIsWhatReplays == Spec => []MemoryIsReplay
<1>1. IInv => MemoryIsReplay
  <2> SUFFICES ASSUME IInv PROVE MemoryIsReplay
    OBVIOUS
  <2>1. posits \subseteq PositsOf(posits \cup Range(command.prepared))
    BY TypeFacts DEF IInv, PositsOf, PositRecord
  <2> QED
    BY <2>1 DEF IInv, MemoryInv, Indexed, MemoryIsReplay
<1> QED
  BY <1>1, PositStoreInvariant, PTL

(***************************************************************************)
(* ThingGenerator never hands out an identity that the store mentions or   *)
(* is about to mention.                                                    *)
(***************************************************************************)
THEOREM GeneratorStaysAbove == Spec => []GeneratorAbove
<1>1. IInv => GeneratorAbove
  BY DEF IInv
<1> QED
  BY <1>1, PositStoreInvariant, PTL

(***************************************************************************)
(* An envelope that `and assert` wrote or found is in no log without the   *)
(* posit it is about, which has the smaller identity, whatever envelopes   *)
(* clients write as posits.                                                *)
(***************************************************************************)
THEOREM AssertionsKeepTargets == Spec => []AssertionsHaveTargets
<1>1. IInv => AssertionsHaveTargets
  <2> SUFFICES ASSUME IInv PROVE AssertionsHaveTargets
    OBVIOUS
  <2>1. Follow(asserted, Records(served)) /\ Extends(Records(served), Records(history))
    BY DEF IInv, LogInv
  <2>2. \A p \in asserted : p.kind = "posit"
    BY DEF IInv, TypeOK, PositRecord
  <2>3. Follow(asserted \cap Records(history), Records(history))
    BY <2>1, <2>2, OlderFollow
  <2> QED
    BY <2>1, <2>3 DEF Follow, AssertionsHaveTargets
<1> QED
  BY <1>1, PositStoreInvariant, PTL

(***************************************************************************)
(* The commands use the log as DurableLog allows: every step publishes,    *)
(* persists, acknowledges or reverts as DurableLog does, or leaves the log *)
(* alone.                                                                  *)
(***************************************************************************)
THEOREM PositStoreUsesDurableLog == Spec => UsesDurableLog
<1>1. Init => Store!DLInit
  BY DEF Init
<1>2. IInv /\ [Next]_vars => [Store!DLNext]_(Store!dlVars)
  BY StepKeeps
<1> QED
  BY <1>1, <1>2, PositStoreInvariant, PTL DEF Spec, UsesDurableLog, Store!DLSpec
=============================================================================
