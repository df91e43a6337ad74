----------------------------- MODULE PositStore -----------------------------
(***************************************************************************)
(* Roles and posits: what src/construct.rs keeps in memory, what it makes  *)
(* durable, and how the first is rebuilt from the second.                  *)
(*                                                                         *)
(* One process at a time serves the store (LogStore).  It runs one command *)
(* at a time: `add role` and `add posit ... and assert`.  A command        *)
(* allocates identities, stages records, appends them as one batch of the  *)
(* durable log (DurableLog), and only then adds them to the keepers.       *)
(*                                                                         *)
(* A proposition is a set of appearances and a value; the value stands for *)
(* the pair of a value and a time.  Codec records, which every store       *)
(* carries in its first batch, are left out; so is the set of retained     *)
(* identities, which nothing consults.                                     *)
(***************************************************************************)
EXTENDS LogicalReplay

CONSTANTS
    Names,          \* role names clients use
    Values,         \* values (with their times) clients use
    RoleCommands,   \* `add role` commands: sequences of names
    PositCommands,  \* `add posit` commands, see PositCommand below
    MaxThing,       \* bound: identities allocated
    MaxFaults       \* bound: commands cut short, refused or failed writes,
                    \* process exits, power failures

(***************************************************************************)
(* The slots of a command: 1, 2, ... are identities that it inserts, 0 and *)
(* below are bound to identities found earlier.  A structure whose         *)
(* variables hold several identities is one target for each combination of *)
(* them, with slots of their own.  Names may be the built-in ones and      *)
(* values Certainty: nothing keeps a client from writing an assertion      *)
(* envelope as a posit like any other.                                     *)
(***************************************************************************)
Recalled(slot) == slot <= 0

PositCommand ==
    [inserts: Nat,
     targets: Seq([appearances: SUBSET (Names \X Int), value: Values]),
     assertions: Seq([target: Nat, positor: Int])]

ASSUME PositStoreAssumption ==
    /\ RoleCommands \subseteq Seq(Names)
    /\ PositCommands \subseteq PositCommand
    /\ \A c \in PositCommands :
          /\ \A i \in DOMAIN c.targets :
                /\ c.targets[i].appearances # {}
                /\ \A a \in c.targets[i].appearances : a[2] <= c.inserts
          /\ \A i \in DOMAIN c.assertions :
                /\ c.assertions[i].target \in DOMAIN c.targets
                /\ c.assertions[i].positor <= c.inserts
    /\ MaxThing \in Nat
    /\ MaxFaults \in Nat

VARIABLES
    history, served, acked,     \* the durable log
    lowerBound,     \* ThingGenerator.lower_bound
    roles,          \* RoleKeeper
    posits,         \* PositKeeper
    appearances,    \* AppearanceKeeper and the lookups keyed by Thing and Role
    sets,           \* AppearanceSetKeeper and the lookup keyed by Appearance
    pc,             \* where the process is in a command
    poisoned,       \* LogStore.poisoned
    command,        \* what the command has bound and staged
    answered,       \* history: records reported to clients as stored
    asserted,       \* history: the store's envelopes that `and assert` wrote or found
    faults          \* counts towards MaxFaults

log == <<history, served, acked>>
indexes == <<appearances, sets>>
keepers == <<roles, posits, indexes>>
vars == <<log, lowerBound, keepers, pc, poisoned, command, answered, asserted, faults>>

-----------------------------------------------------------------------------
Thing == Nat

AppearanceSet == SUBSET (Thing \X Thing)    \* pairs of a role and a thing

RoleRecord == [kind: {"role"}, id: Thing, name: Names \cup Range(BuiltinNames)]

PositRecord == [kind: {"posit"}, id: Thing, appearances: AppearanceSet,
                value: Values \cup {Certainty}]

Record == RoleRecord \cup PositRecord

Batches == Seq(Record)

Store == INSTANCE DurableLog WITH Batch <- Batches

(***************************************************************************)
(* Nothing is bound and nothing staged: what `add posit` has bound, the    *)
(* records it has staged, and the envelopes that its `and assert` clauses  *)
(* come to, staged or kept.                                                *)
(***************************************************************************)
Idle == [targets |-> <<>>, assertions |-> <<>>, prepared |-> <<>>, envelopes |-> {},
         answers |-> {}]

TypeOK ==
    /\ Store!DLTypeOK
    /\ lowerBound \in Nat
    /\ roles \subseteq RoleRecord
    /\ posits \subseteq PositRecord
    /\ appearances \in AppearanceSet
    /\ sets \subseteq AppearanceSet
    /\ pc \in {"down", "idle", "bound", "append", "published", "persisted"}
    /\ poisoned \in BOOLEAN
    /\ command.targets \in Seq(AppearanceSet \X Values)
    /\ command.assertions \in Seq([target: Nat, positor: Thing])
    /\ command.prepared \in Batches
    /\ command.envelopes \subseteq PositRecord
    /\ command.answers \subseteq Record
    /\ answered \subseteq Record
    /\ asserted \subseteq PositRecord
    /\ faults \in 0..MaxFaults

Init ==
    /\ Store!DLInit
    /\ lowerBound = 0
    /\ roles = {}
    /\ posits = {}
    /\ appearances = {}
    /\ sets = {}
    /\ pc = "down"
    /\ poisoned = FALSE
    /\ command = Idle
    /\ answered = {}
    /\ asserted = {}
    /\ faults = 0

-----------------------------------------------------------------------------
Stop ==
    /\ pc' = "down"
    /\ lowerBound' = 0
    /\ roles' = {}
    /\ posits' = {}
    /\ appearances' = {}
    /\ sets' = {}
    /\ poisoned' = FALSE
    /\ command' = Idle
    /\ UNCHANGED answered

\* Mutant: the generator restarts at the number of constructs.
OpenCounting ==
    /\ pc = "down"
    /\ ReplayAccepts(served)
    /\ served # <<>>
    /\ roles' = RolesOf(Records(served))
    /\ posits' = PositsOf(Records(served))
    /\ appearances' = UNION {p.appearances : p \in posits'}
    /\ sets' = {p.appearances : p \in posits'}
    /\ lowerBound' = Cardinality(Records(served))
    /\ pc' = "idle"
    /\ UNCHANGED <<log, poisoned, command, answered, asserted>>

(***************************************************************************)
(* Database::new on a store that holds something: restore_append_store.    *)
(***************************************************************************)
Open ==
    /\ pc = "down"
    /\ ReplayAccepts(served)
    /\ served # <<>>
    /\ roles' = RolesOf(Records(served))
    /\ posits' = PositsOf(Records(served))
    /\ appearances' = UNION {p.appearances : p \in posits'}
    /\ sets' = {p.appearances : p \in posits'}
    /\ lowerBound' = Largest(Things(Records(served)))
    /\ pc' = "idle"
    /\ UNCHANGED <<log, poisoned, command, answered, asserted>>

(***************************************************************************)
(* Database::new on an empty store: bootstrap_append_store.                *)
(***************************************************************************)
OpenEmpty ==
    /\ pc = "down"
    /\ served = <<>>
    /\ command' = [Idle EXCEPT !.prepared = Bootstrap]
    /\ pc' = "append"
    /\ UNCHANGED <<log, lowerBound, keepers, poisoned, answered, asserted>>

-----------------------------------------------------------------------------
RoleNames == {r.name : r \in roles}

RoleNamed(name) == (CHOOSE r \in roles : r.name = name).id

(***************************************************************************)
(* The occurrences of names that create_roles turns into a new role.       *)
(***************************************************************************)
FirstUses(names) ==
    {i \in DOMAIN names :
        /\ names[i] \notin RoleNames
        /\ \A j \in 1..(i - 1) : names[j] # names[i]}

NewRoles(names) ==
    LET uses == Ascending(FirstUses(names))
    IN  [k \in DOMAIN uses |-> NewRole(lowerBound + k, names[uses[k]])]

(***************************************************************************)
(* Nothing to store: the command succeeds with what is already kept.       *)
(***************************************************************************)
AnswerKept(records) ==
    /\ answered' = answered \cup records
    /\ command' = Idle
    /\ pc' = "idle"

CreateRoles ==
    /\ pc = "idle"
    /\ \E names \in RoleCommands :
          LET prepared == NewRoles(names)
              kept == {r \in roles : r.name \in Range(names)}
          IN  /\ lowerBound' = lowerBound + Len(prepared)
              /\ lowerBound' <= MaxThing
              /\ IF prepared = <<>>
                    THEN AnswerKept(kept)
                    ELSE /\ command' = [Idle EXCEPT !.prepared = prepared,
                                                   !.answers = kept \cup Range(prepared)]
                         /\ pc' = "append"
                         /\ UNCHANGED answered
    /\ UNCHANGED <<log, keepers, poisoned, asserted>>

-----------------------------------------------------------------------------
(***************************************************************************)
(* add_posit, first part: each inserted variable gets a new identity, and  *)
(* the appearances and appearance sets of the targets are interned and     *)
(* indexed as they are built.                                              *)
(***************************************************************************)
Bound(slot, recalled) ==
    IF Recalled(slot) THEN recalled[slot] ELSE lowerBound + slot

Appearances(target, recalled) ==
    {<<RoleNamed(a[1]), Bound(a[2], recalled)>> :
        a \in {b \in target.appearances : b[1] \in RoleNames}}

(***************************************************************************)
(* AppearanceSet::new refuses two appearances of one role, add_posit a     *)
(* role that does not exist.                                               *)
(***************************************************************************)
WellFormed(target) ==
    /\ \A a, b \in target.appearances : a[1] = b[1] => a = b
    /\ \A a \in target.appearances : a[1] \in RoleNames

Index(built) ==
    /\ appearances' = appearances \cup UNION built
    /\ sets' = sets \cup built

BindWith(c, recalled) ==
    LET bound == [i \in DOMAIN c.targets |->
                    <<Appearances(c.targets[i], recalled), c.targets[i].value>>]
    IN  /\ \A i \in DOMAIN c.targets : WellFormed(c.targets[i])
        /\ lowerBound' = lowerBound + c.inserts
        /\ Index({bound[i][1] : i \in DOMAIN bound})
        /\ command' =
              [Idle EXCEPT
                  !.targets = bound,
                  !.assertions =
                      [i \in DOMAIN c.assertions |->
                          [c.assertions[i] EXCEPT !.positor = Bound(@, recalled)]]]

(***************************************************************************)
(* A recalled slot holds what a search found: posits, and things that      *)
(* appear in them, each slot its own.                                      *)
(***************************************************************************)
Recallable == Things(posits)

Slots(c) ==
    {a[2] : a \in UNION {t.appearances : t \in Range(c.targets)}}
        \cup {a.positor : a \in Range(c.assertions)}

RecallFor(c) == [{slot \in Slots(c) : Recalled(slot)} -> Recallable]

Bind ==
    /\ pc = "idle"
    /\ \E c \in PositCommands : \E recalled \in RecallFor(c) : BindWith(c, recalled)
    /\ lowerBound' + Len(command'.targets) + Len(command'.assertions) <= MaxThing
    /\ pc' = "bound"
    /\ UNCHANGED <<log, roles, posits, poisoned, answered, asserted>>

(***************************************************************************)
(* The same part cut short before target n is complete, or after the last  *)
(* one: because the target is not well formed, or because the execution    *)
(* was cancelled.  What was allocated and indexed by then stays.           *)
(***************************************************************************)
BindFails ==
    /\ pc = "idle"
    /\ \E c \in PositCommands : \E recalled \in RecallFor(c) :
          \E n \in 1..(Len(c.targets) + 1) :
              /\ \A i \in 1..(n - 1) : WellFormed(c.targets[i])
              /\ lowerBound' = lowerBound + c.inserts
              /\ sets' = sets \cup {Appearances(c.targets[i], recalled) : i \in 1..(n - 1)}
              /\ appearances' =
                    appearances
                        \cup UNION {Appearances(c.targets[i], recalled) :
                                       i \in DOMAIN c.targets \cap 1..n}
    /\ lowerBound' <= MaxThing
    /\ UNCHANGED <<log, roles, posits, pc, poisoned, command, answered, asserted>>

-----------------------------------------------------------------------------
\* Mutant: propositions staged by the same command are not looked up.
ResolveKept(propositions) ==
    [i \in DOMAIN propositions |->
        LET kept == {p \in posits : Proposition(p) = propositions[i]}
        IN  IF kept # {} THEN (CHOOSE p \in kept : TRUE).id ELSE lowerBound + i]

(***************************************************************************)
(* stage_literal_posits: candidate i takes the identity lowerBound + i,    *)
(* and gives it up if the proposition is kept already or was staged        *)
(* earlier by the same command.                                            *)
(***************************************************************************)
Resolve(propositions) ==
    [i \in DOMAIN propositions |->
        LET kept == {p \in posits : Proposition(p) = propositions[i]}
        IN  IF kept # {}
              THEN (CHOOSE p \in kept : TRUE).id
              ELSE lowerBound + CHOOSE j \in 1..i :
                      /\ propositions[j] = propositions[i]
                      /\ \A k \in 1..(j - 1) : propositions[k] # propositions[i]]

(***************************************************************************)
(* create_literal_posits_with_assertions: the targets are resolved first,  *)
(* so that an assertion names the identity its target really has; then     *)
(* the assertions are staged after them.                                   *)
(***************************************************************************)
AssertionOf(assertion, targets) ==
    <<{<<PositRole, targets[assertion.target]>>,
       <<AscertainsRole, assertion.positor>>}, Certainty>>

\* Mutant: an assertion names the identity its target was given at first.
CandidatesProvisional ==
    LET targets == [i \in DOMAIN command.targets |-> lowerBound + i]
    IN  command.targets
          \o [i \in DOMAIN command.assertions |->
                AssertionOf(command.assertions[i], targets)]

Candidates ==
    LET targets == Resolve(command.targets)
    IN  command.targets
          \o [i \in DOMAIN command.assertions |->
                AssertionOf(command.assertions[i], targets)]

Stage ==
    LET candidates == Candidates
        ids == Resolve(candidates)
        fresh == Ascending({i \in DOMAIN candidates : ids[i] = lowerBound + i})
        prepared == [k \in DOMAIN fresh |->
                        NewPosit(lowerBound + fresh[k], candidates[fresh[k]])]
        claims == {ids[Len(command.targets) + i] : i \in DOMAIN command.assertions}
        answers == {p \in posits \cup Range(prepared) : p.id \in Range(ids)}
        envelopes == {p \in answers : p.id \in claims}
    IN  /\ pc = "bound"
        /\ lowerBound' = lowerBound + Len(candidates)
        /\ Index({candidates[i][1] : i \in DOMAIN candidates})
        /\ IF prepared = <<>>
              THEN /\ AnswerKept(answers)
                   /\ asserted' = asserted \cup envelopes
              ELSE /\ command' = [Idle EXCEPT !.prepared = prepared,
                                             !.envelopes = envelopes,
                                             !.answers = answers]
                   /\ pc' = "append"
                   /\ UNCHANGED <<answered, asserted>>
        /\ UNCHANGED <<log, roles, posits, poisoned>>

-----------------------------------------------------------------------------
(***************************************************************************)
(* append_batch, as DurableLog has it.  Any failure ends the command, or   *)
(* the process if it is still bootstrapping.                               *)
(***************************************************************************)
Bootstrapping == roles = {}

Fail(poison) ==
    IF Bootstrapping
      THEN Stop
      ELSE /\ pc' = "idle"
           /\ poisoned' = poison
           /\ command' = Idle
           /\ UNCHANGED <<lowerBound, keepers, answered>>

(***************************************************************************)
(* A writer that failed before refuses; a record that does not fit a frame *)
(* is refused without poisoning the writer.                                *)
(***************************************************************************)
RefuseAppend ==
    /\ pc = "append"
    /\ poisoned
    /\ Fail(TRUE)
    /\ UNCHANGED <<log, asserted>>

RefuseRecord ==
    /\ pc = "append"
    /\ ~poisoned
    /\ Fail(FALSE)
    /\ UNCHANGED <<log, asserted>>

FailAppend ==
    /\ pc = "append"
    /\ ~poisoned
    /\ Fail(TRUE)
    /\ UNCHANGED <<log, asserted>>

\* Mutant: a batch counts as synced once it is visible.
PublishUnsynced ==
    /\ pc = "append"
    /\ ~poisoned
    /\ Store!Publish(command.prepared)
    /\ asserted' = asserted \cup command.envelopes
    /\ pc' = "persisted"
    /\ UNCHANGED <<lowerBound, keepers, poisoned, command, answered>>

Publish ==
    /\ pc = "append"
    /\ ~poisoned
    /\ Store!Publish(command.prepared)
    /\ asserted' = asserted \cup command.envelopes
    /\ pc' = "published"
    /\ UNCHANGED <<lowerBound, keepers, poisoned, command, answered>>

\* Mutant: a batch that could not be synced leaves the writer usable.
FailPersistUnpoisoned ==
    /\ pc = "published"
    /\ Fail(FALSE)
    /\ UNCHANGED <<log, asserted>>

FailPersist ==
    /\ pc = "published"
    /\ Fail(TRUE)
    /\ UNCHANGED <<log, asserted>>

Persist ==
    /\ pc = "published"
    /\ Store!Persist
    /\ pc' = "persisted"
    /\ UNCHANGED <<lowerBound, keepers, poisoned, command, answered, asserted>>

(***************************************************************************)
(* The batch is durable: the keepers take its records, and the client gets *)
(* its answer.                                                             *)
(***************************************************************************)
Keep ==
    LET prepared == Range(command.prepared) IN
    /\ pc = "persisted"
    /\ Store!Acknowledge(command.prepared)
    /\ roles' = roles \cup RolesOf(prepared)
    /\ posits' = posits \cup PositsOf(prepared)
    /\ lowerBound' = Largest({lowerBound} \cup {r.id : r \in prepared})
    /\ AnswerKept(command.answers)
    /\ UNCHANGED <<indexes, poisoned, asserted>>

-----------------------------------------------------------------------------
(***************************************************************************)
(* The process ends, between two commands or within one.                   *)
(***************************************************************************)
Close ==
    /\ pc = "idle"
    /\ Stop
    /\ UNCHANGED <<log, asserted>>

ProcessExit ==
    /\ pc \notin {"down", "idle"}
    /\ Stop
    /\ UNCHANGED <<log, asserted>>

PowerLoss ==
    /\ Stop
    /\ Store!Revert \/ Store!Persist
    /\ asserted' = asserted \cap Records(served')

ProcessStep ==
    \/ Open \/ OpenEmpty \/ Close
    \/ CreateRoles \/ Bind \/ Stage
    \/ RefuseAppend \/ Publish \/ Persist \/ Keep

Fault ==
    \/ BindFails \/ RefuseRecord \/ FailAppend \/ FailPersist
    \/ ProcessExit \/ PowerLoss

Next ==
    \/ ProcessStep /\ UNCHANGED faults
    \/ Fault /\ faults < MaxFaults /\ faults' = faults + 1

Spec == Init /\ [][Next]_vars

-----------------------------------------------------------------------------
(***************************************************************************)
(* Everything the commands write, LogicalReplay accepts: what a restart    *)
(* would read never stops it, whatever was interrupted or deduplicated.    *)
(***************************************************************************)
ReplayAccepted == ReplayAccepts(served) /\ ReplayAccepts(history)

(***************************************************************************)
(* The keepers hold exactly what a restart would rebuild, with an index    *)
(* entry for every posit; while a batch is on its way, or once its fate is *)
(* uncertain, they hold no more than that.                                 *)
(***************************************************************************)
MemoryIsReplay ==
    pc # "down" /\ ~Bootstrapping =>
        /\ roles \cup posits \subseteq Records(served)
        /\ pc \in {"idle", "bound", "append"} /\ ~poisoned =>
              roles \cup posits = Records(served)
        /\ \A p \in posits : p.appearances \in sets /\ p.appearances \subseteq appearances

(***************************************************************************)
(* The next identity the generator hands out is larger than every one the  *)
(* store mentions, as a construct or inside an appearance, so that no      *)
(* durable identity ever comes to mean something else.                     *)
(***************************************************************************)
GeneratorAbove ==
    pc # "down" /\ ~Bootstrapping =>
        \A t \in Things(Records(served) \cup Range(command.prepared)) : t <= lowerBound

(***************************************************************************)
(* What `and assert` has written, or found written already, perhaps by a   *)
(* client who wrote the envelope as a posit, is never in a store without   *)
(* the posit it is about: a command that creates both is one batch, an     *)
(* envelope about a posit that existed names the identity under which that *)
(* posit is stored, and the posit has the smaller identity, on which the   *)
(* order of exports relies (Transfer).  Nothing is said of other envelopes *)
(* that clients write: they may be about what is no posit.                 *)
(***************************************************************************)
AssertionsHaveTargets ==
    \A records \in {Records(served), Records(history)} :
        \A p \in asserted \cap records : FollowsTargets(p, records)

(***************************************************************************)
(* What a client was told is stored is stored, whether the command wrote   *)
(* it or found it (STORAGE.md, acknowledgement).                           *)
(***************************************************************************)
AnswersKept == answered \subseteq Records(served)

(***************************************************************************)
(* The commands use the log as DurableLog allows: whole batches, and       *)
(* acknowledged only when durable.                                         *)
(***************************************************************************)
UsesDurableLog == Store!DLSpec
=============================================================================
