------------------------------ MODULE Terrain -------------------------------
(***************************************************************************)
(* The Terrain report: src/terrain.rs.                                     *)
(*                                                                         *)
(* A report captures the posits of the database while it owns it, releases *)
(* it, and aggregates what it captured: frames over all posits (History)   *)
(* and over the latest ones up to a cutoff (Current), for every thing the  *)
(* roles it has (its profile), for every profile the number of things that *)
(* have all its roles (an isopleth), and for every combination of roles    *)
(* how its appearance sets are spread over the profiles.                   *)
(*                                                                         *)
(* A writer keeps the posits of its commands meanwhile (Database::         *)
(* keep_posit_arc), index after index, under the same owner.               *)
(*                                                                         *)
(* A posit is its identity, its appearance set and its time; a mask is the *)
(* set of its bits, and the identities of the report's parts are what they *)
(* identify.                                                               *)
(***************************************************************************)
EXTENDS Temporal, Sequences, FiniteSets, FiniteSetsExt, SequencesExt

CONSTANTS
    Databases,      \* sets of posits that are kept at the start
    Commands,       \* sequences of posits that the writer keeps
    Cutoffs,        \* resolved as_of
    NameRank,       \* the order of the names of roles
    RoleLimit,      \* TerrainOptions
    SignatureLimit,
    MaxPosits,      \* TerrainLimits
    MaxSets,
    MaxEndpoints,
    MaxComparisons,
    MaxArity,
    MaxAllocations

Role == DOMAIN NameRank

Posit == [posit: Nat, set: SUBSET (Role \X Nat), time: Time]

(***************************************************************************)
(* Sets are finite, and a command keeps posits of its own: their           *)
(* identities come from the generator.                                     *)
(***************************************************************************)
ASSUME TerrainAssumption ==
    /\ \A database \in Databases : database \subseteq Posit /\ IsFiniteSet(database)
    /\ Commands \subseteq Seq(Posit)
    /\ \A c \in Commands :
          /\ Range(c) \cap (UNION Databases) = {}
          /\ \A other \in Commands \ {c} : Range(c) \cap Range(other) = {}
    /\ \A p \in (UNION Databases) \cup (UNION {Range(c) : c \in Commands}) : IsFiniteSet(p.set)
    /\ Cutoffs \subseteq Time
    /\ NameRank \in [Role -> Nat]
    /\ {RoleLimit, SignatureLimit, MaxPosits, MaxSets, MaxEndpoints, MaxComparisons,
        MaxArity, MaxAllocations} \subseteq Nat

VARIABLES
    keeper,         \* PositKeeper
    bySet,          \* posit_thing_to_appearance_set_lookup
    byTime,         \* posit_time_lookup
    owner,          \* execution_owner: "none", "writer" or "terrain"
    command,        \* the posits of the writer's command that are left
    begun,          \* history: the commands that the writer has begun
    pc,             \* where terrain_with_options is
    cutoff,
    posits,         \* history: the size of PositKeeper when it was counted
    captured,       \* CapturedDatabase
    current,        \* current_records
    projected,      \* TerrainProjection.roles, by bit
    profiles,       \* profile_masks of both frames
    catalog,        \* the selected signatures
    scope,          \* the frame that is being finished
    sums,           \* support_sums
    bit,            \* the bits that support_sums is summed over so far
    allocated,      \* allocation_count
    report          \* the frames that are finished

database == <<keeper, bySet, byTime>>
writer == <<command, begun>>
frames == <<current, projected, profiles, catalog>>
finishing == <<scope, sums, bit, allocated>>
vars == <<database, owner, writer, pc, cutoff, posits, captured, frames,
          finishing, report>>

Scopes == {"history", "current"}

NoProfiles == [s \in Scopes |-> <<>>]

Init ==
    /\ keeper \in Databases
    /\ bySet = keeper
    /\ byTime = keeper
    /\ owner = "none"
    /\ command = <<>>
    /\ begun = {}
    /\ pc = "wait"
    /\ cutoff \in Cutoffs
    /\ posits = 0
    /\ captured = {}
    /\ current = {}
    /\ projected = <<>>
    /\ profiles = NoProfiles
    /\ catalog = <<>>
    /\ scope = "history"
    /\ sums = <<>>
    /\ bit = 0
    /\ allocated = 0
    /\ report = <<>>

-----------------------------------------------------------------------------
(***************************************************************************)
(* The writer: a command owns the database and keeps its posits one after  *)
(* the other, each in the keeper, by appearance set and by time.           *)
(***************************************************************************)
BeginCommand ==
    /\ owner = "none"
    /\ \E c \in Commands \ begun :
          /\ command' = c
          /\ begun' = begun \cup {c}
    /\ owner' = "writer"
    /\ UNCHANGED <<database, pc, cutoff, posits, captured, frames, finishing, report>>

KeepPosit ==
    /\ command # <<>>
    /\ Head(command) \notin keeper
    /\ keeper' = keeper \cup {Head(command)}
    /\ UNCHANGED <<bySet, byTime, owner, writer, pc, cutoff, posits, captured, frames,
                   finishing, report>>

IndexSet ==
    /\ command # <<>>
    /\ Head(command) \in keeper \ bySet
    /\ bySet' = bySet \cup {Head(command)}
    /\ UNCHANGED <<keeper, byTime, owner, writer, pc, cutoff, posits, captured, frames,
                   finishing, report>>

IndexTime ==
    /\ command # <<>>
    /\ Head(command) \in bySet \ byTime
    /\ byTime' = byTime \cup {Head(command)}
    /\ command' = Tail(command)
    /\ UNCHANGED <<keeper, bySet, owner, begun, pc, cutoff, posits, captured, frames,
                   finishing, report>>

EndCommand ==
    /\ owner = "writer"
    /\ command = <<>>
    /\ owner' = "none"
    /\ UNCHANGED <<database, writer, pc, cutoff, posits, captured, frames, finishing,
                   report>>

-----------------------------------------------------------------------------
\* Mutant: the capture does not wait for the owner.
AcquireNothing ==
    /\ pc = "wait"
    /\ pc' = "count"
    /\ UNCHANGED <<database, owner, writer, cutoff, posits, captured, frames, finishing,
                   report>>

(***************************************************************************)
(* acquire_owner                                                           *)
(***************************************************************************)
AcquireOwner ==
    /\ pc = "wait"
    /\ owner = "none"
    /\ owner' = "terrain"
    /\ pc' = "count"
    /\ UNCHANGED <<database, writer, cutoff, posits, captured, frames, finishing, report>>

ReleaseOwner == owner' = IF owner = "terrain" THEN "none" ELSE owner

(***************************************************************************)
(* A limit that is exceeded ends the report, and so does an internal       *)
(* error, an inconsistency that the code checks for.                       *)
(***************************************************************************)
End(outcome) ==
    /\ pc' = outcome
    /\ ReleaseOwner
    /\ UNCHANGED <<database, writer, cutoff, posits, captured, frames, finishing, report>>

(***************************************************************************)
(* capture_terrain: the keeper and the indexes are locked one after the    *)
(* other.  The other totals of the report are left out.                    *)
(***************************************************************************)
CountPosits ==
    /\ pc = "count"
    /\ Cardinality(keeper) <= MaxPosits
    /\ posits' = Cardinality(keeper)
    /\ pc' = "capture"
    /\ UNCHANGED <<database, owner, writer, cutoff, captured, frames, finishing, report>>

TooManyPosits ==
    /\ pc = "count"
    /\ Cardinality(keeper) > MaxPosits
    /\ End("limit")

Mismatched == Cardinality(bySet) # posits \/ bySet # byTime

Capture ==
    /\ pc = "capture"
    /\ captured' = IF Mismatched THEN captured ELSE bySet
    /\ pc' = IF Mismatched THEN "invariant" ELSE "group"
    /\ ReleaseOwner
    /\ UNCHANGED <<database, writer, cutoff, posits, frames, finishing, report>>

-----------------------------------------------------------------------------
ActiveSets(records) == {p.set : p \in records}

EligibleOf(set) ==
    {p \in captured : p.set = set /\ DefinitelyAtOrBefore(p.time, cutoff)}

(***************************************************************************)
(* retain_maximal, and what it costs (Reduction).                          *)
(***************************************************************************)
Maxima(records) ==
    {p \in records : ~ \E q \in records : DefinitelyBefore(p.time, q.time)}

Comparisons(set) ==
    LET eligible == Cardinality(EligibleOf(set))
    IN  Cardinality({p \in captured : p.set = set})
            + IF eligible = 0 THEN 0 ELSE 2 * (eligible - 1)

GroupingFits ==
    /\ Cardinality(ActiveSets(captured)) <= MaxSets
    /\ MapThenSumSet(Comparisons, ActiveSets(captured)) <= MaxComparisons

SelectCurrent ==
    /\ pc = "group"
    /\ GroupingFits
    /\ current' = UNION {Maxima(EligibleOf(set)) : set \in ActiveSets(captured)}
    /\ pc' = "frames"
    /\ UNCHANGED <<database, owner, writer, cutoff, posits, captured, projected,
                   profiles, catalog, finishing, report>>

TooMuchToGroup ==
    /\ pc = "group"
    /\ ~GroupingFits
    /\ End("limit")

-----------------------------------------------------------------------------
(***************************************************************************)
(* build_frame_work: what a frame is made of.                              *)
(***************************************************************************)
Records(s) == IF s = "history" THEN captured ELSE current

Endpoints(records) == {a[2] : a \in UNION ActiveSets(records)}

AttributeThings(records, role) == {t \in Endpoints(records) : {<<role, t>>} \in ActiveSets(records)}

Signature(set) == {a[1] : a \in set}

Relationships(records) == {set \in ActiveSets(records) : Cardinality(set) >= 2}

SetsOf(records, signature) ==
    {set \in Relationships(records) : Signature(set) = signature}

FrameFits(records) ==
    /\ Cardinality(ActiveSets(records)) <= MaxSets
    /\ \A set \in Relationships(records) : Cardinality(set) <= MaxArity
    /\ Cardinality(Endpoints(records)) <= MaxEndpoints

FramesFit == FrameFits(captured) /\ FrameFits(current)

AttributeRoles == {r \in Role : AttributeThings(captured \cup current, r) # {}}

Signatures == {Signature(set) : set \in Relationships(captured \cup current)}

(***************************************************************************)
(* The orders of build_projection and build_catalog: lexicographic, each   *)
(* by a tuple of numbers that ends with what it is the key of.             *)
(***************************************************************************)
LexBefore(s, t) ==
    \E i \in DOMAIN s \cap DOMAIN t :
        s[i] < t[i] /\ \A j \in 1..(i - 1) : s[j] = t[j]

InOrder(key) ==
    [i \in 1..Cardinality(DOMAIN key) |->
        CHOOSE x \in DOMAIN key :
            Cardinality({y \in DOMAIN key : LexBefore(key[y], key[x])}) = i - 1]

Support(records, role) == Cardinality(AttributeThings(records, role))

RoleKey ==
    [role \in AttributeRoles |->
        <<-Support(current, role), -Support(captured, role), NameRank[role], role>>]

SignatureKey ==
    [signature \in Signatures |->
        LET roles == SetToSortSeq(signature, <)
        IN  <<-Cardinality(SetsOf(current, signature)),
              -Cardinality(SetsOf(captured, signature)),
              -Cardinality(signature)>>
            \o [i \in DOMAIN roles |-> NameRank[roles[i]]] \o roles]

Truncated(s, limit) == SubSeq(s, 1, IF limit < Len(s) THEN limit ELSE Len(s))

\* Mutant: things without a projected role are forgotten.
ProfilesOfAttributes(records, roles) ==
    [t \in UNION {AttributeThings(records, r) : r \in Range(roles)} |->
        {i \in DOMAIN roles : t \in AttributeThings(records, roles[i])}]

(***************************************************************************)
(* assign_profiles                                                         *)
(***************************************************************************)
Profiles(records, roles) ==
    [t \in Endpoints(records) |->
        {i \in DOMAIN roles : t \in AttributeThings(records, roles[i])}]

BuildFrames ==
    /\ pc = "frames"
    /\ FramesFit
    /\ projected' = Truncated(InOrder(RoleKey), RoleLimit)
    /\ profiles' = [s \in Scopes |-> Profiles(Records(s), projected')]
    /\ catalog' = Truncated(InOrder(SignatureKey), SignatureLimit)
    /\ pc' = "populate"
    /\ UNCHANGED <<database, owner, writer, cutoff, posits, captured, current, finishing,
                   report>>

FramesTooLarge ==
    /\ pc = "frames"
    /\ ~FramesFit
    /\ End("limit")

-----------------------------------------------------------------------------
(***************************************************************************)
(* finish_frame, first History and then Current: the things with exactly a *)
(* mask, and then, bit by bit, with at least a mask.                       *)
(***************************************************************************)
Masks == SUBSET DOMAIN projected

WithMask(s, mask) == {t \in DOMAIN profiles[s] : profiles[s][t] = mask}

Population(s, mask) == Cardinality(WithMask(s, mask))

Populate ==
    /\ pc = "populate"
    /\ sums' = [mask \in Masks |-> Population(scope, mask)]
    /\ bit' = 0
    /\ pc' = "sum"
    /\ UNCHANGED <<database, owner, writer, cutoff, posits, captured, frames, scope,
                   allocated, report>>

\* Mutant: the sum runs over the masks with the bit.
SumOtherBit ==
    /\ pc = "sum"
    /\ bit < Len(projected)
    /\ bit' = bit + 1
    /\ sums' = [mask \in Masks |->
                  IF bit' \in mask THEN sums[mask] + sums[mask \ {bit'}] ELSE sums[mask]]
    /\ UNCHANGED <<database, owner, writer, pc, cutoff, posits, captured, frames, scope,
                   allocated, report>>

SumBit ==
    /\ pc = "sum"
    /\ bit < Len(projected)
    /\ bit' = bit + 1
    /\ sums' = [mask \in Masks |->
                  IF bit' \in mask THEN sums[mask] ELSE sums[mask] + sums[mask \cup {bit'}]]
    /\ UNCHANGED <<database, owner, writer, pc, cutoff, posits, captured, frames, scope,
                   allocated, report>>

(***************************************************************************)
(* build_relationships                                                     *)
(***************************************************************************)
Participants(s, signature, role) ==
    {t \in Endpoints(Records(s)) :
        \E set \in SetsOf(Records(s), signature) : <<role, t>> \in set}

Participations(s, signature, role) ==
    {p \in SetsOf(Records(s), signature) \X Endpoints(Records(s)) :
        <<role, p[2]>> \in p[1]}

Allocated(s, signature, role, mask) ==
    Participants(s, signature, role) \cap WithMask(s, mask)

Allocations(s) ==
    {a \in Range(catalog) \X Role \X Masks : Allocated(s, a[1], a[2], a[3]) # {}}

(***************************************************************************)
(* The code checks its own sums: that every thing has one profile, and     *)
(* that the allocations of a role add up to its totals.                    *)
(***************************************************************************)
Total(counts) == MapThenSumSet(LAMBDA mask : counts[mask], DOMAIN counts)

PopulationsAddUp(s) ==
    Total([mask \in Masks |-> Population(s, mask)]) = Cardinality(Endpoints(Records(s)))

AllocationsAddUp(s) ==
    \A signature \in Range(catalog) :
        /\ UNION SetsOf(Records(s), signature) \subseteq Role \X DOMAIN profiles[s]
        /\ \A role \in signature :
              /\ Total([mask \in Masks |->
                        Cardinality(Allocated(s, signature, role, mask))])
                    = Cardinality(Participants(s, signature, role))
              /\ Total([mask \in Masks |->
                        Cardinality({p \in Participations(s, signature, role) :
                            p[2] \in WithMask(s, mask)})])
                    = Cardinality(Participations(s, signature, role))

Reconciles(s) == PopulationsAddUp(s) /\ AllocationsAddUp(s)

AllocationsFit == allocated + Cardinality(Allocations(scope)) <= MaxAllocations

Frame ==
    [posits |-> Cardinality(Records(scope)),
     supports |-> [i \in DOMAIN projected |-> Support(Records(scope), projected[i])],
     isopleths |-> [mask \in {m \in Masks \ {{}} : Population(scope, m) # 0} |-> sums[mask]]]

AfterFrame ==
    CASE ~Reconciles(scope) -> "invariant"
      [] scope = "current" -> "done"
      [] OTHER -> "populate"

FinishFrame ==
    /\ pc = "sum"
    /\ bit = Len(projected)
    /\ PopulationsAddUp(scope) => AllocationsFit
    /\ allocated' = allocated + Cardinality(Allocations(scope))
    /\ report' = Append(report, Frame)
    /\ pc' = AfterFrame
    /\ scope' = "current"
    /\ UNCHANGED <<database, owner, writer, cutoff, posits, captured, frames, sums, bit>>

TooManyAllocations ==
    /\ pc = "sum"
    /\ bit = Len(projected)
    /\ PopulationsAddUp(scope)
    /\ ~AllocationsFit
    /\ End("limit")

(***************************************************************************)
(* A check finds the report cancelled or late.                             *)
(***************************************************************************)
Ended == pc \in {"done", "limit", "invariant", "interrupted"}

Interrupt ==
    /\ ~Ended
    /\ End("interrupted")

Finished == Ended /\ owner = "none" /\ Commands \subseteq begun /\ UNCHANGED vars

WriterStep == BeginCommand \/ KeepPosit \/ IndexSet \/ IndexTime \/ EndCommand

CaptureStep ==
    AcquireOwner \/ CountPosits \/ TooManyPosits \/ Capture

AggregateStep ==
    \/ SelectCurrent \/ TooMuchToGroup \/ BuildFrames \/ FramesTooLarge
    \/ Populate \/ SumBit \/ FinishFrame \/ TooManyAllocations

Next == WriterStep \/ CaptureStep \/ AggregateStep \/ Interrupt \/ Finished

Spec == Init /\ [][Next]_vars

-----------------------------------------------------------------------------
(***************************************************************************)
(* A report is about one state of the database between two commands: it    *)
(* has all posits of a command or none of them, and as many as it counted  *)
(* (TERRAIN.md: "one coherent Positorium database snapshot").              *)
(***************************************************************************)
CaptureIsCoherent ==
    pc \in {"group", "frames", "populate", "sum", "done"} =>
        /\ Cardinality(captured) = posits
        /\ \A c \in Commands : Range(c) \subseteq captured \/ Range(c) \cap captured = {}

(***************************************************************************)
(* The internal errors of the report never occur: the indexes that are     *)
(* read one after the other match, every thing has a profile, and what is  *)
(* allocated to the profiles adds up.                                      *)
(***************************************************************************)
NoInternalError == pc # "invariant"

HasRole(records, thing, role) == \E p \in records : p.set = {<<role, thing>>}

(***************************************************************************)
(* An isopleth counts the things that occur alone in every one of its      *)
(* roles, whatever other roles they have; so a further role never raises   *)
(* the support (TERRAIN.md, Role projection, profiles, and isopleths).     *)
(***************************************************************************)
SupportIsExact ==
    \A n \in DOMAIN report :
        LET records == IF n = 1 THEN captured ELSE current
            isopleths == report[n].isopleths
        IN  /\ \A mask \in DOMAIN isopleths :
                  isopleths[mask] = Cardinality({t \in Endpoints(records) :
                      \A i \in mask : HasRole(records, t, projected[i])})
            /\ \A mask, larger \in DOMAIN isopleths :
                  mask \subseteq larger => isopleths[larger] <= isopleths[mask]
=============================================================================
