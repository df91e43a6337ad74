------------------------------ MODULE Pattern -------------------------------
(***************************************************************************)
(* What a posit pattern of a search matches: src/traqula/query.rs.         *)
(*                                                                         *)
(* An appearance set has one thing in each of its roles, and is a function *)
(* from roles to things.  A role is its identity: named slots have already *)
(* been looked up, a name without a role is an identity no posit uses.  A  *)
(* bound value is a pair of a domain and a content, a binding a function   *)
(* from the variables it binds.                                            *)
(*                                                                         *)
(* The operators return sequences, in the order in which the code finds    *)
(* what they hold; an error is a Failed element, at the place in the       *)
(* sequence where the code returns it.                                     *)
(***************************************************************************)
EXTENDS Temporal, Sequences, FiniteSets, SequencesExt, FiniteSetsExt

CONSTANTS
    PositRole,      \* POSIT_ROLE_ID, ASCERTAINS_ROLE_ID
    AscertainsRole

VARIABLES
    posits          \* the posit keeper and the indexes: identity to posit

InOrder(S, Before(_, _)) ==
    [i \in 1..Cardinality(S) |->
        CHOOSE x \in S : Cardinality({y \in S : Before(y, x)}) = i - 1]

Ascending(S) == InOrder(S, <)

Chosen(found, positions) ==
    LET order == Ascending(positions) IN [i \in DOMAIN order |-> found[order[i]]]

(***************************************************************************)
(* Op repeated from the first element to the last.                         *)
(***************************************************************************)
Accumulate(Op(_, _), base, s) ==
    LET upTo[i \in 0..Len(s)] == IF i = 0 THEN base ELSE Op(upTo[i - 1], s[i])
    IN  upTo[Len(s)]

IdentityDomains == {"Thing", "Posit"}

Domain(value) == value[1]

Content(value) == value[2]

NoBinding == [name \in {} |-> <<"Thing", 0>>]

Failed(reason) == [failed |-> reason]

IsFailure(found) == "failed" \in DOMAIN found

(***************************************************************************)
(* Op of every element, and errors as they are.                            *)
(***************************************************************************)
Each(Op(_), found) ==
    FlattenSeq([i \in DOMAIN found |->
                    IF IsFailure(found[i]) THEN <<found[i]>> ELSE Op(found[i])])

(***************************************************************************)
(* A relation that is built as a whole is not built if one row fails.      *)
(***************************************************************************)
Whole(found) ==
    LET failures == {i \in DOMAIN found : IsFailure(found[i])}
    IN  IF failures = {} THEN found ELSE <<found[Min(failures)]>>

FirstOccurrences(found) ==
    Chosen(found, {i \in DOMAIN found : \A j \in 1..i - 1 : found[j] # found[i]})

-----------------------------------------------------------------------------
(***************************************************************************)
(* Literals: a number or a certainty has an amount, any other literal is   *)
(* compared by its meaning, which is an amount of its own.                 *)
(***************************************************************************)
Numeric == {"Integer", "Decimal"}

Comparable(v, w) == v.family = w.family \/ {v.family, w.family} \subseteq Numeric

Orderable(v) == v.family \in Numeric \cup {"Certainty"}

-----------------------------------------------------------------------------
(***************************************************************************)
(* Binding::bind: an identity once known to be a posit stays one.          *)
(***************************************************************************)
Bind(b, name, value) ==
    IF name \notin DOMAIN b
      THEN <<[n \in DOMAIN b \cup {name} |-> IF n = name THEN value ELSE b[n]]>>
      ELSE IF {Domain(b[name]), Domain(value)} = IdentityDomains
             THEN IF Content(b[name]) = Content(value)
                    THEN <<[b EXCEPT ![name] = <<"Posit", Content(value)>>]>>
                    ELSE <<>>
             ELSE IF Domain(b[name]) # Domain(value)
                    THEN <<Failed("VariableDomain")>>
                    ELSE IF b[name] = value THEN <<b>> ELSE <<>>

(***************************************************************************)
(* A slot matches anything, binds a variable, or restricts.                *)
(***************************************************************************)
Anything == [kind |-> "any"]
Variable(name) == [kind |-> "variable", name |-> name]
Exactly(content) == [kind |-> "exactly", content |-> content]
OneOf(names) == [kind |-> "one_of", names |-> names]

NoName == ""

IsVariable(slot) == slot.kind = "variable"

MatchOneOf(names, thing, b) ==
    CASE ~ names \subseteq DOMAIN b -> <<Failed("InvalidRecall")>>
      [] \E name \in names \cap DOMAIN b : Domain(b[name]) \notin IdentityDomains
            -> <<Failed("VariableDomain")>>
      [] OTHER -> IF \E name \in names : Content(b[name]) = thing THEN <<b>> ELSE <<>>

MatchAppearance(member, role, thing, b) ==
    LET MatchRole(c) ==
            CASE member.role.kind = "any"      -> <<c>>
              [] member.role.kind = "exactly"  ->
                    IF member.role.content = role THEN <<c>> ELSE <<>>
              [] member.role.kind = "variable" ->
                    Bind(c, member.role.name, <<"Role", role>>)
    IN  Each(MatchRole,
             CASE member.thing.kind = "any"      -> <<b>>
               [] member.thing.kind = "variable" ->
                     Bind(b, member.thing.name, <<"Thing", thing>>)
               [] member.thing.kind = "one_of"   ->
                     MatchOneOf(member.thing.names, thing, b))

(***************************************************************************)
(* Every way to give the members different appearances of a stored set, in *)
(* the order of the backtracking search.                                   *)
(***************************************************************************)
GiveRole(partial, member, role, set) ==
    IF role \in partial.used
      THEN <<>>
      ELSE Each(LAMBDA c : <<[binding |-> c, used |-> partial.used \cup {role}]>>,
                MatchAppearance(member, role, set[role], partial.binding))

GiveRoles(partial, member, set) ==
    LET roles == Ascending(DOMAIN set)
    IN  FlattenSeq([i \in DOMAIN roles |-> GiveRole(partial, member, roles[i], set)])

MatchMembers(members, set, b) ==
    Each(LAMBDA partial : <<partial.binding>>,
         Accumulate(LAMBDA found, member :
                        Each(LAMBDA partial : GiveRoles(partial, member, set), found),
                    <<[binding |-> b, used |-> {}]>>, members))

(***************************************************************************)
(* visit_appearance_set: members that match in several ways with the same  *)
(* binding are one match.                                                  *)
(***************************************************************************)
MatchAppearanceSet(pattern, set, b) ==
    LET size == Cardinality(DOMAIN set)
        wanted == Len(pattern.members)
        MatchAll(c) ==
            CASE pattern.any -> <<c>>
              [] ~pattern.any /\ (wanted > size \/ (~pattern.open /\ wanted # size)) -> <<>>
              [] OTHER -> FirstOccurrences(MatchMembers(pattern.members, set, c))
    IN  Each(MatchAll,
             IF pattern.binding = NoName
               THEN <<b>> ELSE Bind(b, pattern.binding, <<"AppearanceSet", set>>))

MatchFields(pattern, p, b) ==
    LET value == posits[p].value
        time == posits[p].time
        MatchValue(c) ==
            CASE pattern.value.kind = "any"      -> <<c>>
              [] pattern.value.kind = "variable" ->
                    Bind(c, pattern.value.name, <<"Literal", value>>)
              [] pattern.value.kind = "exactly"  ->
                    CASE ~Comparable(value, pattern.value.content) -> <<Failed("Comparison")>>
                      [] OTHER -> IF value.amount = pattern.value.content.amount
                                    THEN <<c>> ELSE <<>>
        MatchTime(c) ==
            CASE pattern.time.kind = "any"      -> <<c>>
              [] pattern.time.kind = "variable" -> Bind(c, pattern.time.name, <<"Time", time>>)
              [] pattern.time.kind = "exactly"  ->
                    IF time = pattern.time.content THEN <<c>> ELSE <<>>
    IN  Each(MatchTime,
             Each(MatchValue,
                  IF pattern.posit = NoName
                    THEN <<b>> ELSE Bind(b, pattern.posit, <<"Posit", p>>)))

-----------------------------------------------------------------------------
(***************************************************************************)
(* The variables of a pattern, those it must find bound, and the domains   *)
(* it gives to its own.                                                    *)
(***************************************************************************)
NoCutoff == Anything

HasCutoff(pattern) == pattern.cutoff # NoCutoff

Members(pattern) == {pattern.members[i] : i \in DOMAIN pattern.members}

MemberVariables(pattern) ==
    UNION {{slot.name : slot \in {s \in {m.thing, m.role} : IsVariable(s)}} :
               m \in Members(pattern)}

Named(names) == names \ {NoName}

FieldVariables(pattern) ==
    Named({pattern.posit}) \cup
    {slot.name : slot \in {s \in {pattern.value, pattern.time} : IsVariable(s)}}

OwnVariables(pattern) ==
    MemberVariables(pattern) \cup FieldVariables(pattern) \cup Named({pattern.binding})

Alternatives(pattern) ==
    UNION {IF m.thing.kind = "one_of" THEN m.thing.names ELSE {} : m \in Members(pattern)}

(***************************************************************************)
(* EffectPattern: two cuts, and perhaps a pattern of the assertion, which  *)
(* is plain and has the shape of one.                                      *)
(***************************************************************************)
InEffect(assertion, appearance, via) ==
    {[assertion |-> assertion, appearance |-> appearance, via |-> via]}

NotInEffect == {}

IsEffective(pattern) == pattern.effect # NotInEffect

Via(pattern) == UNION {e.via : e \in pattern.effect}

IsVia(pattern) ==
    /\ ~HasCutoff(pattern) /\ ~pattern.latest /\ ~IsEffective(pattern)
    /\ ~pattern.any /\ ~pattern.open /\ Len(pattern.members) = 2
    /\ \A role \in {PositRole, AscertainsRole} :
          \E m \in Members(pattern) : m.role = Exactly(role)

Cutoffs(pattern) ==
    {pattern.cutoff} \cup UNION {{e.assertion, e.appearance} : e \in pattern.effect}

CutoffVariables(pattern) == {slot.name : slot \in {s \in Cutoffs(pattern) : IsVariable(s)}}

Introduced(pattern) == UNION {OwnVariables(p) : p \in {pattern} \cup Via(pattern)}

Dependencies(pattern) ==
    CutoffVariables(pattern) \cup UNION {Alternatives(p) : p \in {pattern} \cup Via(pattern)}

(***************************************************************************)
(* deferred_temporal_fields: what a pattern with a cutoff must not know    *)
(* before its reduction.                                                   *)
(***************************************************************************)
\* Mutant: the posit variable is known to the reduction.
DeferredExceptPosit(pattern) ==
    IF HasCutoff(pattern)
      THEN (FieldVariables(pattern) \ {pattern.posit}) \
               (Dependencies(pattern) \cup MemberVariables(pattern)
                    \cup Named({pattern.binding}))
      ELSE {}

Deferred(pattern) ==
    IF HasCutoff(pattern)
      THEN FieldVariables(pattern) \
               (Dependencies(pattern) \cup MemberVariables(pattern)
                    \cup Named({pattern.binding}))
      ELSE {}

Without(b, names) == [name \in DOMAIN b \ names |-> b[name]]

-----------------------------------------------------------------------------
(***************************************************************************)
(* The indexes.                                                            *)
(***************************************************************************)
RolePosting(role) == {p \in DOMAIN posits : role \in DOMAIN posits[p].set}

SetPosting(set) == {p \in DOMAIN posits : posits[p].set = set}

(***************************************************************************)
(* posit_posting_for_things: from things to appearances, to sets, to       *)
(* posits; only appearances in the role, if one is known.                  *)
(***************************************************************************)
ThingsPosting(things, roles) ==
    {p \in DOMAIN posits :
        \E role \in DOMAIN posits[p].set :
            /\ posits[p].set[role] \in things
            /\ roles = {} \/ role \in roles}

\* indexed_role and indexed_things: empty if the slot restricts nothing.
IndexedRole(slot, b) ==
    CASE slot.kind = "exactly" -> {slot.content}
      [] IsVariable(slot) -> {Content(b[name]) : name \in {slot.name} \cap DOMAIN b}
      [] OTHER -> {}

IndexedThings(slot, b) ==
    CASE IsVariable(slot) -> {Content(b[name]) : name \in {slot.name} \cap DOMAIN b}
      [] slot.kind = "one_of" -> {Content(b[name]) : name \in slot.names \cap DOMAIN b}
      [] OTHER -> {}

MemberPostings(member, b) ==
    LET roles == IndexedRole(member.role, b)
        things == IndexedThings(member.thing, b)
    IN  {RolePosting(role) : role \in roles} \cup
        (IF things = {} THEN {} ELSE {ThingsPosting(things, roles)})

Postings(pattern, b) ==
    (IF ~HasCutoff(pattern) \/ pattern.latest
       THEN {{Content(b[name])} : name \in {pattern.posit} \cap DOMAIN b} ELSE {}) \cup
    {SetPosting(Content(b[name])) : name \in {pattern.binding} \cap DOMAIN b} \cup
    UNION {MemberPostings(m, b) : m \in Members(pattern)}

\* What indexed_candidate_identities checks once more of the bindings it uses.
LookupErrors(pattern, b) ==
    LET Wrong(names, domains) ==
            \E name \in names \cap DOMAIN b : Domain(b[name]) \notin domains
        wrong ==
            \/ (~HasCutoff(pattern) \/ pattern.latest)
                   /\ Wrong({pattern.posit}, IdentityDomains)
            \/ Wrong({pattern.binding}, {"AppearanceSet"})
            \/ \E m \in Members(pattern) :
                  \/ IsVariable(m.thing) /\ Wrong({m.thing.name}, IdentityDomains)
                  \/ m.thing.kind = "one_of" /\ Wrong(m.thing.names, IdentityDomains)
                  \/ IsVariable(m.role) /\ Wrong({m.role.name}, {"Role"})
        unbound == \E m \in Members(pattern) :
                      m.thing.kind = "one_of" /\ ~ m.thing.names \subseteq DOMAIN b
    IN  (IF wrong THEN {"VariableDomain"} ELSE {}) \cup
        (IF unbound THEN {"InvalidRecall"} ELSE {})

(***************************************************************************)
(* candidate_identities and the look-up of each: an identity in an index   *)
(* must be a posit.                                                        *)
(***************************************************************************)
Candidates(planned, b) ==
    LET postings == Postings(planned.pattern, b)
        ids == IF planned.access = "full_scan" \/ postings = {}
                 THEN DOMAIN posits
                 ELSE {p \in UNION postings : \A posting \in postings : p \in posting}
        errors == IF planned.access = "bitmap" THEN LookupErrors(planned.pattern, b) ELSE {}
    IN  IF errors # {}
          THEN <<Failed(CHOOSE reason \in errors : TRUE)>>
          ELSE LET sorted == Ascending(ids)
               IN  [i \in DOMAIN sorted |->
                       IF sorted[i] \in DOMAIN posits
                         THEN [posit |-> sorted[i]] ELSE Failed("Invariant")]

-----------------------------------------------------------------------------
(***************************************************************************)
(* reduce_matches: the temporal maxima of each appearance set.  That the   *)
(* algorithm of src/datatype/temporal.rs keeps exactly these is proved of  *)
(* module Reduction.                                                       *)
(***************************************************************************)
ReduceMatches(rows) ==
    LET Succeeds(later, row) ==
            /\ ~IsFailure(later)
            /\ posits[later.posit].set = posits[row.posit].set
            /\ DefinitelyBefore(posits[row.posit].time, posits[later.posit].time)
    IN  Chosen(rows, {i \in DOMAIN rows :
            IsFailure(rows[i]) \/ ~ \E j \in DOMAIN rows : Succeeds(rows[j], rows[i])})

(***************************************************************************)
(* resolve_cutoff                                                          *)
(***************************************************************************)
ResolveCutoff(cutoff, b) ==
    CASE cutoff.kind = "exactly" -> <<"Time", cutoff.content>>
      [] IsVariable(cutoff) -> b[cutoff.name]

Unresolved(cutoff, b) ==
    IF ~IsVariable(cutoff) THEN {}
    ELSE IF cutoff.name \notin DOMAIN b THEN {"InvalidRecall"}
    ELSE IF Domain(b[cutoff.name]) # "Time" THEN {"VariableDomain"} ELSE {}

(***************************************************************************)
(* What one candidate contributes to a pattern without a cutoff.           *)
(***************************************************************************)
MatchPosit(pattern, p, b) ==
    Each(LAMBDA c : MatchFields(pattern, p, c),
         MatchAppearanceSet(pattern, posits[p].set, b))

-----------------------------------------------------------------------------
(***************************************************************************)
(* resolve_budgeted of src/effect.rs, whose steps are those of module      *)
(* Effect: of the assertions up to one cut about targets up to the other,  *)
(* those not retracted, about the latest targets of a positor, and of      *)
(* these the latest for each value.                                        *)
(***************************************************************************)
TargetOf(a) == posits[a].set[PositRole]

PositorOf(a) == posits[a].set[AscertainsRole]

Assertions(time) ==
    {a \in RolePosting(PositRole) \cap RolePosting(AscertainsRole) :
        /\ DOMAIN posits[a].set = {PositRole, AscertainsRole}
        /\ DefinitelyAtOrBefore(posits[a].time, time)}

Malformed(a) == posits[a].value.family # "Certainty" \/ TargetOf(a) \notin DOMAIN posits

Maximal(S, key, time) ==
    {a \in S : ~ \E c \in S : key[a] = key[c] /\ DefinitelyBefore(time[a], time[c])}

EffectiveAssertions(assertions, time) ==
    LET eligible == {a \in assertions : DefinitelyAtOrBefore(posits[TargetOf(a)].time, time)}
        setKey == [a \in eligible |-> <<PositorOf(a), posits[TargetOf(a)].set>>]
        valueKey == [a \in eligible |-> <<setKey[a], posits[TargetOf(a)].value>>]
        targetTime == [a \in eligible |-> posits[TargetOf(a)].time]
        assertionTime == [a \in eligible |-> posits[a].time]
        Retracted(a) == \E r \in eligible :
            /\ posits[r].value.amount = 0
            /\ PositorOf(r) = PositorOf(a) /\ TargetOf(r) = TargetOf(a)
            /\ DefinitelyBefore(posits[a].time, posits[r].time)
        nonzero == {a \in eligible : posits[a].value.amount # 0 /\ ~Retracted(a)}
    IN  Maximal(Maximal(nonzero, setKey, targetTime), valueKey, assertionTime)

\* The rows of a slice have an order of their own, which is not modelled.
EffectiveSlice(assertionTime, appearanceTime) ==
    LET assertions == Assertions(assertionTime)
    IN  IF \E a \in assertions : Malformed(a)
          THEN <<Failed("Execution")>>
          ELSE LET slice == SetToSeq(EffectiveAssertions(assertions, appearanceTime))
               IN  [i \in DOMAIN slice |-> [assertion |-> slice[i]]]

(***************************************************************************)
(* evaluate_effect_pattern: a slice does not depend on what is bound, so   *)
(* the bindings may restrict its targets and its assertions at once.       *)
(***************************************************************************)
EvaluateEffect(pattern, b) ==
    LET effect == CHOOSE e \in pattern.effect : TRUE
        unresolved == Unresolved(effect.assertion, b) \cup Unresolved(effect.appearance, b)
        slice == EffectiveSlice(Content(ResolveCutoff(effect.assertion, b)),
                                Content(ResolveCutoff(effect.appearance, b)))
        MatchVia(assertion, c) ==
            IF effect.via = {}
              THEN <<c>> ELSE MatchPosit(CHOOSE via \in effect.via : TRUE, assertion, c)
        MatchEvidence(evidence) ==
            Each(LAMBDA c : MatchVia(evidence.assertion, c),
                 MatchPosit(pattern, TargetOf(evidence.assertion), b))
    IN  IF unresolved # {}
          THEN <<Failed(CHOOSE reason \in unresolved : TRUE)>>
          ELSE Whole(Each(MatchEvidence, slice))

(***************************************************************************)
(* The rows of one pattern that extend b, not in effect.  With a cutoff    *)
(* the posits up to it are matched and reduced before they are joined with *)
(* what b says of the deferred variables; `latest` matches the fields      *)
(* first.                                                                  *)
(***************************************************************************)
InTime(pattern, p, b) ==
    HasCutoff(pattern) =>
        DefinitelyAtOrBefore(posits[p].time, Content(ResolveCutoff(pattern.cutoff, b)))

RowsOf(p, found) == Each(LAMBDA c : <<[posit |-> p, binding |-> c]>>, found)

SetRows(planned, b, input) ==
    LET pattern == planned.pattern
        Match(c) == IF InTime(pattern, c.posit, b)
                      THEN RowsOf(c.posit, MatchAppearanceSet(pattern, posits[c.posit].set, input))
                      ELSE <<>>
    IN  Whole(Each(Match, Whole(Candidates(planned, input))))

FieldRows(pattern, rows) ==
    Whole(Each(LAMBDA row : RowsOf(row.posit, MatchFields(pattern, row.posit, row.binding)), rows))

\* The history is reduced before the fields are matched, or `latest` after.
ReducedFirst(pattern, rows) ==
    IF HasCutoff(pattern) /\ ~pattern.latest THEN ReduceMatches(rows) ELSE rows

ReducedLast(pattern, rows) ==
    IF HasCutoff(pattern) /\ pattern.latest THEN ReduceMatches(rows) ELSE rows

HistoryRows(pattern, rows) ==
    ReducedLast(pattern, FieldRows(pattern, ReducedFirst(pattern, rows)))

JoinRow(row, b) ==
    Accumulate(LAMBDA found, name : Each(LAMBDA c : Bind(c, name, b[name]), found),
               <<row.binding>>, SetToSeq(DOMAIN b))

EvaluateHistory(planned, b) ==
    LET unresolved == Unresolved(planned.pattern.cutoff, b)
        rows == HistoryRows(planned.pattern,
                            SetRows(planned, b, Without(b, Deferred(planned.pattern))))
    IN  IF unresolved # {}
          THEN <<Failed(CHOOSE reason \in unresolved : TRUE)>>
          ELSE Whole(Each(LAMBDA row : JoinRow(row, b), rows))

(***************************************************************************)
(* evaluate_pattern                                                        *)
(***************************************************************************)
EvaluatePattern(planned, b) ==
    IF IsEffective(planned.pattern)
      THEN EvaluateEffect(planned.pattern, b) ELSE EvaluateHistory(planned, b)
=============================================================================
