------------------------------- MODULE Query --------------------------------
(***************************************************************************)
(* Running one search: execute_prepared of src/traqula/query.rs, the       *)
(* incremental executor of src/traqula/query/pipeline.rs, and the sink     *)
(* with the row limit of src/traqula.rs.                                   *)
(*                                                                         *)
(* A search whose comparisons cannot fail runs incrementally: a depth      *)
(* first walk over candidates, matches and patterns that hands every row   *)
(* on at once, or keeps the first rows of the order in a heap.  Any other  *)
(* search builds one relation after the other.  The client may stop the    *)
(* walk at its schema or at any row, and the execution may be interrupted  *)
(* anywhere.  The store does not change meanwhile, the script owns it.     *)
(***************************************************************************)
EXTENDS QueryPlan, Naturals

CONSTANTS
    Databases,      \* stores to search
    Queries         \* searches to run

(***************************************************************************)
(* Identities are numbers, and a store is finite.  A literal is compared   *)
(* by an amount.                                                           *)
(***************************************************************************)
ASSUME DatabasesAssumption ==
    \A store \in Databases :
        /\ DOMAIN store \subseteq Nat /\ IsFiniteSet(DOMAIN store)
        /\ \A p \in DOMAIN store :
              /\ DOMAIN store[p].set \subseteq Nat /\ IsFiniteSet(DOMAIN store[p].set)
              /\ \A role \in DOMAIN store[p].set : store[p].set[role] \in Nat
              /\ store[p].value.amount \in Int /\ store[p].time \in Time

(***************************************************************************)
(* What the parser returns: something to search for, sequences of patterns *)
(* of the shape of a PositPattern, at most one EffectPattern in each, and  *)
(* plain envelopes of assertions.  A set pattern that matches every set    *)
(* has no members.  "failed" marks an error here, and is no name.          *)
(***************************************************************************)
IsSequence(s) == s \in Seq(Elements(s))

IsPattern(pattern) ==
    /\ IsSequence(pattern.members)
    /\ pattern.any => pattern.members = <<>>
    /\ \A m \in Members(pattern) :
          /\ m.thing.kind \in {"any", "variable", "one_of"}
          /\ m.role.kind \in {"any", "variable", "exactly"}
    /\ pattern.value.kind \in {"any", "variable", "exactly"}
    /\ pattern.time.kind \in {"any", "variable", "exactly"}
    /\ {NoName, "failed"} \cap OwnVariables(pattern) = {}

ASSUME QueriesAssumption ==
    \A q \in Queries :
        /\ IsSequence(q.branches) /\ IsSequence(q.absences)
        /\ q.branches # <<>>
        /\ IsSequence(q.predicates) /\ IsSequence(q.order) /\ IsSequence(q.returns)
        /\ \A limit, other \in q.limit : limit \in Nat /\ limit = other
        /\ \A patterns \in Elements(q.branches) \cup Elements(q.absences) : IsSequence(patterns)
        /\ \A patterns \in Elements(q.branches) : patterns # <<>>
        /\ \A pattern \in AllPatterns(q) :
              /\ IsPattern(pattern)
              /\ \A e, f \in pattern.effect : e = f
              /\ \A via, other \in Via(pattern) : IsPattern(via) /\ IsVia(via) /\ via = other
              /\ IsEffective(pattern) => ~HasCutoff(pattern) /\ ~pattern.latest

VARIABLES
    query,          \* what the parser returned, with the effective limit
    plan,           \* the physical plan, NoPlan before it is made
    phase,          \* how far the search is
    branch,         \* the branch that is walked
    frames,         \* the stack of visit_branch
    seen,           \* the rows that DISTINCT remembers
    ranked,         \* OrderedRows: the rows kept, with their ordinals
    families,       \* first_families: what each sort key was compared as
    ordinal,        \* how many rows were ranked
    relation,       \* the rows of the materialized executor, or in order
    matched,        \* matched_rows
    identities,     \* identity_bindings, for a fallback
    delivered,      \* the rows the client took
    limited,        \* CountingSink.limited
    stopped,        \* sink_stopped
    failure         \* the error, NoFailure if there is none

walk == <<branch, frames, seen, ranked, families, ordinal>>
result == <<matched, identities, delivered, limited, stopped, failure>>
vars == <<posits, query, plan, phase, walk, relation, result>>

NoPlan == [incremental |-> TRUE, branches |-> <<>>, absences |-> <<>>, names |-> {}]

NoFailure == "none"

Sorted == query.order # <<>>

HasReturn == query.returns # <<>>

Keys == DOMAIN query.order

Init ==
    /\ posits \in Databases
    /\ query \in Queries
    /\ plan = NoPlan
    /\ phase = "prepare"
    /\ branch = 1
    /\ frames = <<>>
    /\ seen = {}
    /\ ranked = {}
    /\ families = [k \in Keys |-> "none"]
    /\ ordinal = 0
    /\ relation = <<>>
    /\ matched = 0
    /\ identities = {}
    /\ delivered = <<>>
    /\ limited = FALSE
    /\ stopped = FALSE
    /\ failure = NoFailure

Fail(reason) ==
    /\ failure' = reason
    /\ phase' = "failed"
    /\ UNCHANGED <<posits, query, plan, walk, relation, matched, identities, delivered,
                   limited, stopped>>

(***************************************************************************)
(* prepare: validate_domains                                               *)
(***************************************************************************)
Prepare ==
    /\ phase = "prepare"
    /\ IF StaticErrors(query) # {}
         THEN \E reason \in StaticErrors(query) : Fail(reason)
         ELSE /\ phase' = "compile"
              /\ UNCHANGED <<posits, query, plan, walk, relation, result>>

CompilePlan ==
    /\ phase = "compile"
    /\ plan' = Compile(query)
    /\ phase' = "start"
    /\ UNCHANGED <<posits, query, walk, relation, result>>

-----------------------------------------------------------------------------
(***************************************************************************)
(* compare: two literals may have no answer; prepare has refused whatever  *)
(* else cannot be compared.                                                *)
(***************************************************************************)
Incomparable(v, operator, w) ==
    CASE operator = "===" -> FALSE
      [] operator \in {"=", "?="} -> ~Comparable(v, w)
      [] OTHER -> ~(Comparable(v, w) /\ Orderable(v))

LiteralsCompare(v, operator, w) ==
    CASE operator = "===" -> v = w
      [] operator \in {"=", "?="} -> v.amount = w.amount
      [] operator = "<"  -> v.amount < w.amount
      [] operator = "<=" -> v.amount <= w.amount
      [] operator = ">"  -> v.amount > w.amount
      [] operator = ">=" -> v.amount >= w.amount

TimesCompare(t, operator, u) ==
    CASE operator \in {"===", "="} -> t = u
      [] operator = "?=" -> Overlaps(t, u)
      [] operator = "<"  -> DefinitelyBefore(t, u)
      [] operator = "<=" -> DefinitelyAtOrBefore(t, u)
      [] operator = ">"  -> DefinitelyAfter(t, u)
      [] operator = ">=" -> DefinitelyAtOrAfter(t, u)

Compares(left, operator, right) ==
    CASE Domain(left) = "Literal" -> LiteralsCompare(Content(left), operator, Content(right))
      [] Domain(left) = "Time"    -> TimesCompare(Content(left), operator, Content(right))
      [] OTHER                    -> Content(left) = Content(right)

(***************************************************************************)
(* evaluate_predicate: b if it holds of b, an error, or nothing.           *)
(***************************************************************************)
Filter(predicate, b) ==
    LET left == b[predicate.left]
        right == IF IsVariable(predicate.right)
                   THEN b[predicate.right.name] ELSE predicate.right.content
    IN  CASE /\ Domain(left) = "Literal"
             /\ Incomparable(Content(left), predicate.operator, Content(right)) ->
                    <<Failed("Comparison")>>
          [] OTHER -> IF Compares(left, predicate.operator, right) THEN <<b>> ELSE <<>>

FilterAll(predicates, b) ==
    Accumulate(LAMBDA rows, predicate : Each(LAMBDA c : Filter(predicate, c), rows),
               <<b>>, predicates)

Exported(b) == [name \in DOMAIN b \cap plan.names |-> b[name]]

Projected(b) == [i \in DOMAIN query.returns |-> b[query.returns[i]]]

-----------------------------------------------------------------------------
(***************************************************************************)
(* order_value.  Times compare by the derived order of TimeType: by their  *)
(* kind, then within it.  Appearance sets are not ordered here.            *)
(***************************************************************************)
KindOrder == <<"BeginningOfTime", "EndOfTime", "Year", "YearMonth", "Date", "DateTime">>

ASSUME KindsAssumption == Kinds \subseteq Elements(KindOrder)

KindRank(t) == CHOOSE i \in DOMAIN KindOrder : KindOrder[i] = t.kind

ValueBefore(v, w) ==
    CASE Domain(v) = "Literal" -> Content(v).amount < Content(w).amount
      [] Domain(v) = "Time"    ->
            \/ KindRank(Content(v)) < KindRank(Content(w))
            \/ Content(v).kind = Content(w).kind /\ Content(v).unit < Content(w).unit
      [] Domain(v) \in IdentityDomains \cup {"Role"} -> Content(v) < Content(w)
      [] OTHER -> FALSE

\* compare_order: the first key that differs decides.
KeyBefore(k, b, c) ==
    LET name == query.order[k].variable
    IN  IF query.order[k].descending
          THEN ValueBefore(c[name], b[name]) ELSE ValueBefore(b[name], c[name])

OrderBefore(b, c) ==
    \E k \in Keys :
        /\ KeyBefore(k, b, c)
        /\ \A j \in 1..k - 1 : ~KeyBefore(j, b, c) /\ ~KeyBefore(j, c, b)

\* RankedRow::cmp: rows that compare equal stay in the order they came in.
RankBefore(r, s) ==
    \/ OrderBefore(r.binding, s.binding)
    \/ ~OrderBefore(s.binding, r.binding) /\ r.ordinal < s.ordinal

RowsInRank(ranks) == InOrder(ranks, RankBefore)

(***************************************************************************)
(* What a sort key is compared as; nothing else can be ordered.            *)
(***************************************************************************)
SortFamily(value) ==
    CASE Domain(value) # "Literal" -> "none"
      [] Domain(value) = "Literal" ->
            CASE Content(value).family \in Numeric -> "number"
              [] Content(value).family = "Certainty" -> "certainty"
              [] OTHER -> "unordered"

\* Whether literals already compared as f can be followed by one of family g.
MaySort(f, g) == g # "unordered" /\ (f = "none" \/ g = "none" \/ f = g)

-----------------------------------------------------------------------------
(***************************************************************************)
(* CountingSink: push.  The client's own sink answers Continue or Stop; a  *)
(* row it answers Stop to is not counted.                                  *)
(***************************************************************************)
AtLimit == \E limit \in query.limit : Len(delivered) >= limit

StopAt(phaseAfter) ==
    /\ stopped' = TRUE
    /\ phase' = phaseAfter

Push(row, phaseAfter) ==
    \/ /\ AtLimit
       /\ limited' = TRUE
       /\ StopAt("done")
       /\ UNCHANGED delivered
    \/ /\ ~AtLimit
       /\ delivered' = Append(delivered, row)
       /\ phase' = phaseAfter
       /\ UNCHANGED <<limited, stopped>>
    \/ /\ ~AtLimit
       /\ StopAt("done")
       /\ UNCHANGED <<delivered, limited>>

(***************************************************************************)
(* on_meta                                                                 *)
(***************************************************************************)
PushSchema(phaseAfter) ==
    /\ UNCHANGED <<delivered, limited>>
    /\ \/ StopAt("done")
       \/ /\ phase' = phaseAfter
          /\ UNCHANGED stopped

-----------------------------------------------------------------------------
(***************************************************************************)
(* The incremental executor.  A frame of visit_branch holds the candidates *)
(* and the matches it has not taken; a temporal pattern is evaluated as a  *)
(* whole when it is entered.                                               *)
(***************************************************************************)
Patterns == plan.branches[branch]

EnterAt(planned, b) ==
    IF HasCutoff(planned.pattern)
      THEN [input |-> b, candidates |-> <<>>, matches |-> EvaluatePattern(planned, b)]
      ELSE [input |-> b, candidates |-> Candidates(planned, b), matches |-> <<>>]

StartIncremental ==
    /\ phase = "start" /\ plan.incremental
    /\ IF HasReturn /\ ~Sorted
         THEN PushSchema("visit")
         ELSE phase' = "visit" /\ UNCHANGED <<delivered, limited, stopped>>
    /\ frames' = <<EnterAt(plan.branches[1][1], NoBinding)>>
    /\ UNCHANGED <<posits, query, plan, branch, seen, ranked, families, ordinal, relation,
                   matched, identities, failure>>

Top == frames[Len(frames)]

Planned == Patterns[Len(frames)]

TakeCandidate ==
    /\ phase = "visit"
    /\ Top.matches = <<>> /\ Top.candidates # <<>>
    /\ LET candidate == Head(Top.candidates)
       IN  IF IsFailure(candidate)
             THEN Fail(candidate.failed)
             ELSE /\ frames' = [frames EXCEPT ![Len(frames)] =
                        [Top EXCEPT !.candidates = Tail(Top.candidates),
                                    !.matches = MatchPosit(Planned.pattern, candidate.posit,
                                                           Top.input)]]
                  /\ UNCHANGED <<posits, query, plan, phase, branch, seen, ranked, families,
                                 ordinal, relation, result>>

WithoutMatch == [frames EXCEPT ![Len(frames)].matches = Tail(@)]

Surviving == FilterAll(Planned.predicates, Head(Top.matches))

TakesMatch == phase = "visit" /\ Top.matches # <<>>

IsLastPattern == Len(frames) = Len(Patterns)

MatchSurvives == TakesMatch /\ ~IsFailure(Head(Top.matches)) /\ Surviving = <<Head(Top.matches)>>

\* An error of the pattern or of a predicate ends the search, a predicate that
\* does not hold the match.
RefuseMatch ==
    /\ TakesMatch
    /\ LET found == IF IsFailure(Head(Top.matches)) THEN Top.matches ELSE Surviving
       IN  IF found # <<>>
             THEN IsFailure(Head(found)) /\ Fail(Head(found).failed)
             ELSE /\ frames' = WithoutMatch
                  /\ UNCHANGED <<posits, query, plan, phase, branch, seen, ranked, families,
                                 ordinal, relation, result>>

Descend ==
    /\ MatchSurvives /\ ~IsLastPattern
    /\ frames' = Append(WithoutMatch, EnterAt(Patterns[Len(frames) + 1], Head(Top.matches)))
    /\ UNCHANGED <<posits, query, plan, phase, branch, seen, ranked, families, ordinal,
                   relation, result>>

(***************************************************************************)
(* The absence blocks, each only up to the first row it has.               *)
(***************************************************************************)
VisitPattern(planned, b) ==
    IF HasCutoff(planned.pattern)
      THEN EvaluatePattern(planned, b)
      ELSE Each(LAMBDA c : MatchPosit(planned.pattern, c.posit, b), Candidates(planned, b))

VisitBlock(block, b) ==
    Accumulate(LAMBDA rows, planned : Each(LAMBDA c : VisitPattern(planned, c), rows), <<b>>, block)

Witnesses(b) ==
    FlattenSeq([i \in DOMAIN plan.absences |-> VisitBlock(plan.absences[i], b)])

\* Mutant: no lookahead row.
KeptExactly(rows) ==
    {row \in rows : \A limit \in query.limit :
        Cardinality({r \in rows : RankBefore(r, row)}) < limit}

\* OrderedRows::push: beyond limit + 1 rows, only one that displaces the last.
Kept(rows) ==
    {row \in rows : \A limit \in query.limit :
        Cardinality({r \in rows : RankBefore(r, row)}) <= limit}

KeyFamily(k, b) == SortFamily(b[query.order[k].variable])

Rank(b, row) ==
    IF \E k \in Keys : ~MaySort(families[k], KeyFamily(k, b))
      THEN Fail("Comparison")
      ELSE /\ ranked' = Kept(ranked \cup {[binding |-> b, row |-> row, ordinal |-> ordinal]})
           /\ families' = [k \in Keys |-> IF families[k] = "none"
                                           THEN KeyFamily(k, b) ELSE families[k]]
           /\ ordinal' = ordinal + 1
           /\ frames' = WithoutMatch
           /\ matched' = matched + 1
           /\ seen' = IF query.distinct THEN seen \cup {row} ELSE seen
           /\ UNCHANGED <<posits, query, plan, phase, branch, relation, identities, delivered,
                          limited, stopped, failure>>

(***************************************************************************)
(* emit: absence, projection, DISTINCT, and then the order or the sink.    *)
(***************************************************************************)
EmitRow(b, row) ==
    IF Sorted
      THEN Rank(b, row)
      ELSE /\ Push(row, "visit")
           /\ frames' = WithoutMatch
           /\ matched' = matched + 1
           /\ seen' = IF query.distinct THEN seen \cup {row} ELSE seen
           /\ UNCHANGED <<posits, query, plan, branch, ranked, families, ordinal, relation,
                          identities, failure>>

EmitUnless(witnesses, b, row) ==
    CASE witnesses # <<>> /\ IsFailure(Head(witnesses)) -> Fail(Head(witnesses).failed)
      [] witnesses # <<>> /\ ~IsFailure(Head(witnesses)) ->
            /\ frames' = WithoutMatch
            /\ UNCHANGED <<posits, query, plan, phase, branch, seen, ranked, families, ordinal,
                           relation, result>>
      [] witnesses = <<>> /\ (~HasReturn \/ (query.distinct /\ row \in seen)) ->
            /\ frames' = WithoutMatch
            /\ matched' = matched + 1
            /\ UNCHANGED <<posits, query, plan, phase, branch, seen, ranked, families, ordinal,
                           relation, identities, delivered, limited, stopped, failure>>
      [] OTHER -> EmitRow(b, row)

Emit ==
    /\ MatchSurvives /\ IsLastPattern
    /\ LET b == Exported(Head(Top.matches))
       IN  EmitUnless(Witnesses(b), b, Projected(b))

IsExhausted == phase = "visit" /\ Top.matches = <<>> /\ Top.candidates = <<>>

Return ==
    /\ IsExhausted /\ Len(frames) > 1
    /\ frames' = Front(frames)
    /\ UNCHANGED <<posits, query, plan, phase, branch, seen, ranked, families, ordinal,
                   relation, result>>

NextBranch ==
    /\ IsExhausted /\ Len(frames) = 1
    /\ branch < Len(plan.branches)
    /\ branch' = branch + 1
    /\ frames' = <<EnterAt(plan.branches[branch + 1][1], NoBinding)>>
    /\ UNCHANGED <<posits, query, plan, phase, seen, ranked, families, ordinal, relation, result>>

EndVisit ==
    /\ IsExhausted /\ Len(frames) = 1
    /\ branch = Len(plan.branches)
    /\ frames' = <<>>
    /\ phase' = IF Sorted THEN "announce" ELSE "done"
    /\ relation' = RowsInRank(ranked)
    /\ UNCHANGED <<posits, query, plan, branch, seen, ranked, families, ordinal, result>>

-----------------------------------------------------------------------------
(***************************************************************************)
(* execute_materialized: one relation after the other.                     *)
(***************************************************************************)
JoinBranch(planned, b) ==
    Accumulate(LAMBDA rows, p : Whole(Each(LAMBDA c : EvaluatePattern(p, c), rows)), <<b>>, planned)

JoinedRelation ==
    Whole(FlattenSeq([i \in DOMAIN plan.branches |->
        Each(LAMBDA b : <<Exported(b)>>, JoinBranch(plan.branches[i], NoBinding))]))

KeepIfAbsent(b, witnesses) ==
    CASE witnesses = <<>> -> <<b>>
      [] witnesses # <<>> /\ IsFailure(Head(witnesses)) -> witnesses
      [] OTHER -> <<>>

AbsentRelation(rows) ==
    Accumulate(LAMBDA kept, block :
                   Whole(Each(LAMBDA b : KeepIfAbsent(b, JoinBranch(block, b)), kept)),
               rows, plan.absences)

FilteredRelation(rows) ==
    Accumulate(LAMBDA kept, p : Whole(Each(LAMBDA b : Filter(p, b), kept)), rows, query.predicates)

(***************************************************************************)
(* Projection and DISTINCT keep the first of equal rows; all that is left  *)
(* must be sortable.                                                       *)
(***************************************************************************)
ProjectedRows(rows) ==
    LET all == {[binding |-> rows[i], row |-> Projected(rows[i]), ordinal |-> i] :
                   i \in DOMAIN rows}
    IN  {r \in all : query.distinct => \A s \in all : s.row = r.row => r.ordinal <= s.ordinal}

Sortable(ranks) ==
    \A k \in Keys : \A r, s \in ranks : MaySort(KeyFamily(k, r.binding), KeyFamily(k, s.binding))

Becomes(rows, phaseAfter) ==
    IF rows # <<>> /\ IsFailure(Head(rows))
      THEN Fail(Head(rows).failed)
      ELSE /\ relation' = rows
           /\ phase' = phaseAfter
           /\ UNCHANGED <<posits, query, plan, walk, result>>

MaterializeJoin ==
    phase = "start" /\ ~plan.incremental /\ Becomes(JoinedRelation, "absences")

MaterializeAbsences ==
    phase = "absences" /\ Becomes(AbsentRelation(relation), "predicates")

MaterializePredicates ==
    phase = "predicates" /\ Becomes(FilteredRelation(relation), "identities")

(***************************************************************************)
(* identity_bindings: what a fallback may promote.                         *)
(***************************************************************************)
BoundIdentities ==
    {x \in UNION {{<<name, relation[i][name]>> : name \in plan.names} : i \in DOMAIN relation} :
        Domain(x[2]) \in IdentityDomains}

CollectIdentities ==
    /\ phase = "identities"
    /\ IF \E x, y \in BoundIdentities : x[1] = y[1] /\ Domain(x[2]) # Domain(y[2])
         THEN Fail("VariableDomain")
         ELSE /\ identities' = BoundIdentities
              /\ matched' = Len(relation)
              /\ phase' = IF HasReturn THEN "project" ELSE "done"
              /\ UNCHANGED <<posits, query, plan, walk, relation, delivered, limited, stopped,
                             failure>>

MaterializeProjection ==
    /\ phase = "project"
    /\ LET ranks == ProjectedRows(relation)
       IN  IF ~Sortable(ranks)
             THEN Fail("Comparison")
             ELSE /\ relation' = RowsInRank(ranks)
                  /\ phase' = "announce"
                  /\ UNCHANGED <<posits, query, plan, walk, result>>

-----------------------------------------------------------------------------
(***************************************************************************)
(* The rows of a relation that is complete, in order.                      *)
(***************************************************************************)
Announce ==
    /\ phase = "announce"
    /\ PushSchema("deliver")
    /\ UNCHANGED <<posits, query, plan, walk, relation, matched, identities, failure>>

Deliver ==
    /\ phase = "deliver" /\ relation # <<>>
    /\ Push(Head(relation).row, "deliver")
    /\ relation' = Tail(relation)
    /\ UNCHANGED <<posits, query, plan, walk, matched, identities, failure>>

EndDelivery ==
    /\ phase = "deliver" /\ relation = <<>>
    /\ phase' = "done"
    /\ UNCHANGED <<posits, query, plan, walk, relation, result>>

(***************************************************************************)
(* execution.work and execution.check: cancelled, past the deadline, or    *)
(* over the budget.                                                        *)
(***************************************************************************)
Interrupt ==
    /\ phase \notin {"done", "failed"}
    /\ Fail("Interrupted")

Finished ==
    /\ phase \in {"done", "failed"}
    /\ UNCHANGED vars

Next ==
    \/ Prepare \/ CompilePlan
    \/ StartIncremental \/ TakeCandidate \/ RefuseMatch \/ Descend \/ Emit
    \/ Return \/ NextBranch \/ EndVisit
    \/ MaterializeJoin \/ MaterializeAbsences \/ MaterializePredicates
    \/ CollectIdentities \/ MaterializeProjection
    \/ Announce \/ Deliver \/ EndDelivery
    \/ Interrupt \/ Finished

Spec == Init /\ [][Next]_vars

-----------------------------------------------------------------------------
Reasons == {"VariableDomain", "InvalidRecall", "UnknownVariable", "Comparison",
            "Invariant", "Execution", "Interrupted"}

(***************************************************************************)
(* Types: the frames follow the plan, and a fallback is only promoted from *)
(* rows that exist.                                                        *)
(***************************************************************************)
TypeOK ==
    /\ phase \in {"prepare", "compile", "start", "visit", "absences", "predicates",
                  "identities", "project", "announce", "deliver", "done", "failed"}
    /\ phase = "visit" => Len(frames) \in 1..Len(Patterns)
    /\ families \in [Keys -> {"none", "number", "certainty"}]
    /\ \A r \in ranked : r.ordinal \in 0..ordinal - 1
    /\ matched \in Nat
    /\ identities # {} => matched > 0
    /\ \A i \in DOMAIN delivered : DOMAIN delivered[i] = DOMAIN query.returns
    /\ limited \in BOOLEAN /\ stopped \in BOOLEAN
    /\ failure \in Reasons \cup {NoFailure}
    /\ phase = "failed" <=> failure # NoFailure

(***************************************************************************)
(* The answer to a search, without a plan: one posit and one way to match  *)
(* it for every pattern, such that all of them agree on every variable.    *)
(* An equation is a name with the content it stands for.                   *)
(***************************************************************************)
Agree(equations) == \A e, f \in equations : e[1] = f[1] => e = f

TheContent(equations, name) == (CHOOSE e \in equations : e[1] = name)[2]

Injections(members, set) ==
    {f \in [DOMAIN members -> DOMAIN set] :
        \A i, j \in DOMAIN members : f[i] = f[j] => i = j}

Equations(pattern, p, roles) ==
    LET set == posits[p].set
        Name(slot, content) == IF IsVariable(slot) THEN {<<slot.name, content>>} ELSE {}
        At(name, content) == Named({name}) \X {content}
    IN  At(pattern.posit, p) \cup At(pattern.binding, set)
        \cup Name(pattern.value, posits[p].value) \cup Name(pattern.time, posits[p].time)
        \cup UNION {Name(pattern.members[i].thing, set[roles[i]])
                     \cup Name(pattern.members[i].role, roles[i]) : i \in DOMAIN roles}

FieldsHold(pattern, p) ==
    /\ pattern.value.kind = "exactly" =>
          /\ Comparable(posits[p].value, pattern.value.content)
          /\ posits[p].value.amount = pattern.value.content.amount
    /\ pattern.time.kind = "exactly" => posits[p].time = pattern.time.content

(***************************************************************************)
(* A match is a sequence of parts: a posit and, for a pattern in effect,   *)
(* an assertion about it, each with the roles its members were given.      *)
(***************************************************************************)
Parts(pattern, effect) ==
    UNION {{[pattern |-> pattern, posit |-> p, roles |-> roles, effect |-> effect] :
               roles \in Injections(pattern.members, posits[p].set)} :
           p \in {q \in DOMAIN posits :
                     \/ pattern.any \/ pattern.open
                     \/ Len(pattern.members) = Cardinality(DOMAIN posits[q].set)}}

RolesHold(part) ==
    \A i \in DOMAIN part.roles :
        part.pattern.members[i].role.kind = "exactly" =>
            part.roles[i] = part.pattern.members[i].role.content

PartsThatHold(pattern, effect) ==
    {part \in Parts(pattern, effect) : RolesHold(part) /\ FieldsHold(pattern, part.posit)}

AnyPosit ==
    [posit |-> NoName, binding |-> NoName, any |-> TRUE, open |-> FALSE, members |-> <<>>,
     value |-> Anything, time |-> Anything, cutoff |-> NoCutoff, latest |-> FALSE,
     effect |-> NotInEffect]

LocalMatches(pattern) ==
    IF ~IsEffective(pattern)
      THEN {<<part>> : part \in PartsThatHold(pattern, NotInEffect)}
      ELSE LET via == IF Via(pattern) = {} THEN {AnyPosit} ELSE Via(pattern)
           IN  {m \in PartsThatHold(pattern, NotInEffect)
                        \X UNION {PartsThatHold(p, pattern.effect) : p \in via} :
                   /\ DOMAIN posits[m[2].posit].set = {PositRole, AscertainsRole}
                   /\ TargetOf(m[2].posit) = m[1].posit}

(***************************************************************************)
(* At a cutoff a posit counts if it is in the history up to it and no      *)
(* posit of that history succeeds it; `latest` is about the matching part  *)
(* of the history.                                                         *)
(***************************************************************************)
IsCurrent(pattern, p, time) ==
    LET InHistory(q) == /\ DefinitelyAtOrBefore(posits[q].time, time)
                        /\ pattern.latest => FieldsHold(pattern, q)
    IN  /\ InHistory(p)
        /\ ~ \E q \in DOMAIN posits :
                /\ InHistory(q)
                /\ posits[q].set = posits[p].set
                /\ DefinitelyBefore(posits[p].time, posits[q].time)

TimeOf(slot, equations) ==
    IF IsVariable(slot) THEN TheContent(equations, slot.name) ELSE slot.content

DependenciesHold(part, equations) ==
    /\ HasCutoff(part.pattern) =>
          IsCurrent(part.pattern, part.posit, TimeOf(part.pattern.cutoff, equations))
    /\ \A e \in part.effect :
          part.posit \in EffectiveAssertions(Assertions(TimeOf(e.assertion, equations)),
                                             TimeOf(e.appearance, equations))
    /\ \A i \in DOMAIN part.roles :
          part.pattern.members[i].thing.kind = "one_of" =>
              \E name \in part.pattern.members[i].thing.names :
                  TheContent(equations, name) = posits[part.posit].set[part.roles[i]]

Solutions(patterns, outer) ==
    LET EquationsOf(m) ==
            UNION {Equations(m[i].pattern, m[i].posit, m[i].roles) : i \in DOMAIN m}
        Extend(partial, pattern) ==
            {x \in {<<s[1] \o m, s[2] \cup EquationsOf(m)>> :
                       s \in partial, m \in LocalMatches(pattern)} : Agree(x[2])}
        joined == FoldLeft(Extend, {<< <<>>, outer>>}, patterns)
    IN  {<<[i \in DOMAIN s[1] |-> s[1][i].posit], s[2]>> :
            s \in {x \in joined : \A i \in DOMAIN x[1] : DependenciesHold(x[1][i], x[2])}}

AsBinding(solution) ==
    [name \in plan.names |-> <<ExportedDomains(query)[name], TheContent(solution[2], name)>>]

ExportedEquations(solution) == {e \in solution[2] : e[1] \in plan.names}

\* The join of every branch, without what the absence blocks exclude.
Join ==
    {x \in UNION {{i} \X Solutions(query.branches[i], {}) : i \in DOMAIN query.branches} :
        \A j \in DOMAIN query.absences :
            Solutions(query.absences[j], ExportedEquations(x[2])) = {}}

Answer == {s \in Join : FilterAll(query.predicates, AsBinding(s[2])) = <<AsBinding(s[2])>>}

(***************************************************************************)
(* Whatever order the planner chose, whatever it pushed down, and however  *)
(* the search was executed: a search that was not stopped delivers the     *)
(* natural join of its patterns, each row as often as there are ways to    *)
(* match it, or once if it is distinct, and counts these matches.          *)
(***************************************************************************)
RowsAreTheJoin ==
    phase = "done" /\ ~stopped =>
        LET Row(s) == Projected(AsBinding(s[2]))
            answer == Answer
            Times(row) == Cardinality({i \in DOMAIN delivered : delivered[i] = row})
            Matches(row) == Cardinality({s \in answer : Row(s) = row})
        IN  /\ matched = Cardinality(answer)
            /\ HasReturn =>
                  \A row \in Elements(delivered) \cup {Row(s) : s \in answer} :
                      IF query.distinct
                        THEN Times(row) = 1 /\ Matches(row) > 0 ELSE Times(row) = Matches(row)

(***************************************************************************)
(* Both executors deliver the same rows in the same order, the materialized*)
(* one being the reference, and the same prefix of them under a limit;     *)
(* `limited` is said exactly when a row was left out because of the limit. *)
(***************************************************************************)
ReturnedRelation(rows) ==
    IF ~HasReturn THEN <<>>
    ELSE IF rows # <<>> /\ IsFailure(Head(rows)) THEN rows
    ELSE IF Sortable(ProjectedRows(rows))
           THEN RowsInRank(ProjectedRows(rows)) ELSE <<Failed("Comparison")>>

Reference == ReturnedRelation(FilteredRelation(AbsentRelation(JoinedRelation)))

AsMaterialized ==
    phase = "done" =>
        \E complete \in {Reference} :
            /\ complete # <<>> => ~IsFailure(Head(complete))
            /\ ~stopped => Len(delivered) = Len(complete)
            /\ IsPrefix(delivered, [i \in DOMAIN complete |-> complete[i].row])
            /\ \A limit \in query.limit : Len(delivered) <= limit
            /\ limited => Len(complete) > Len(delivered) /\ Len(delivered) \in query.limit

(***************************************************************************)
(* What `prepare` checks is enough: a search that passed it never meets an *)
(* unbound variable, or one of another domain, in any row of any store.    *)
(***************************************************************************)
StaticChecksSuffice ==
    plan # NoPlan => failure \notin {"VariableDomain", "InvalidRecall", "UnknownVariable"}

(***************************************************************************)
(* No plan hides a comparison that has no answer: if a search completes,   *)
(* even one that was stopped at its limit, every predicate could be        *)
(* evaluated on every row of the join that passed the predicates before.   *)
(***************************************************************************)
ErrorsAreNotHidden ==
    phase = "done" =>
        \A s \in Join :
            LET rows == FilterAll(query.predicates, AsBinding(s[2]))
            IN  rows # <<>> => ~IsFailure(Head(rows))

(***************************************************************************)
(* Rows leave the search before it is complete only if no later row can    *)
(* fail: once the client has one, the search is not refused any more for a *)
(* comparison without an answer, for evidence, or for a variable.          *)
(***************************************************************************)
DeliveredRowsStand ==
    delivered # <<>> => failure \in {NoFailure, "Interrupted", "Invariant"}

(***************************************************************************)
(* The estimate an explanation gives is an upper bound of the candidates   *)
(* that are left to visit, in every frame of the walk.                     *)
(***************************************************************************)
EstimatesAreBounds ==
    phase = "visit" =>
        \A i \in DOMAIN frames : Len(frames[i].candidates) <= Patterns[i].estimate

(***************************************************************************)
(* A thing that is no posit does not match a posit (ROADMAP.md: unequal    *)
(* identities are "a nonmatching join rather than a domain error"), so a   *)
(* search without comparisons cannot fail.                                 *)
(***************************************************************************)
TotalQueriesSucceed ==
    plan # NoPlan /\ plan.incremental /\ ~Sorted => failure \in {NoFailure, "Interrupted"}
=============================================================================
