----------------------------- MODULE QueryPlan ------------------------------
(***************************************************************************)
(* What a search is before it runs: the static checks of                   *)
(* src/traqula/query.rs and the physical plan of                           *)
(* src/traqula/query/plan.rs.                                              *)
(*                                                                         *)
(* A query is what the parser returns: branches and absence blocks are     *)
(* sequences of patterns.  Explanations of a plan are left out.            *)
(***************************************************************************)
EXTENDS Pattern

UnionOver(patterns, Op(_)) == UNION {Op(patterns[i]) : i \in DOMAIN patterns}

Elements(s) == {s[i] : i \in DOMAIN s}

-----------------------------------------------------------------------------
(***************************************************************************)
(* register_pattern: the domains at which a pattern uses its variables.    *)
(***************************************************************************)
NameUses(name, domain) == Named({name}) \X {domain}

SlotUses(slot, domain) == IF IsVariable(slot) THEN {<<slot.name, domain>>} ELSE {}

MemberUses(m) == SlotUses(m.thing, "Thing") \cup SlotUses(m.role, "Role")

SetUses(pattern) ==
    NameUses(pattern.binding, "AppearanceSet")
        \cup UNION {MemberUses(m) : m \in Members(pattern)}

FieldUses(pattern) ==
    NameUses(pattern.posit, "Posit") \cup SlotUses(pattern.value, "Literal")
        \cup SlotUses(pattern.time, "Time")

OwnUses(pattern) == SetUses(pattern) \cup FieldUses(pattern)

Uses(pattern) == UNION {OwnUses(p) : p \in {pattern} \cup Via(pattern)}

UsesOf(patterns) == UnionOver(patterns, Uses)

\* Mutant: an identity may share its name with anything.
ConflictOfContents(uses) ==
    \E u, w \in uses : /\ u[1] = w[1]
                       /\ u[2] # w[2]
                       /\ {u[2], w[2]} \cap IdentityDomains = {}

\* register_domain: a thing that is also a posit is a posit.
Conflict(uses) ==
    \E u, w \in uses : /\ u[1] = w[1]
                       /\ u[2] # w[2]
                       /\ {u[2], w[2]} # IdentityDomains

DomainsOf(uses) ==
    [name \in {u[1] : u \in uses} |->
        IF <<name, "Posit">> \in uses
          THEN "Posit" ELSE (CHOOSE u \in uses : u[1] = name)[2]]

UsesIn(domains) == {<<name, domains[name]>> : name \in DOMAIN domains}

(***************************************************************************)
(* validate_pattern_dependencies: cutoffs are times, alternatives are      *)
(* identities, and some order of the patterns binds them first.            *)
(***************************************************************************)
DependencyErrors(pattern, domains) ==
    LET cutoffs == CutoffVariables(pattern)
        alternatives == UNION {Alternatives(p) : p \in {pattern} \cup Via(pattern)}
    IN  {"UnknownVariable" : name \in Dependencies(pattern) \ DOMAIN domains} \cup
        {"VariableDomain" : name \in
            {n \in cutoffs \cap DOMAIN domains : domains[n] # "Time"} \cup
            {n \in alternatives \cap DOMAIN domains : domains[n] \notin IdentityDomains}}

NewlyKnown(patterns, known) ==
    UnionOver(patterns, LAMBDA p : IF Dependencies(p) \subseteq known THEN Introduced(p) ELSE {})

Resolved(patterns, available) ==
    Accumulate(LAMBDA known, p : known \cup NewlyKnown(patterns, known), available, patterns)

PatternErrors(patterns, domains, available) ==
    UnionOver(patterns, LAMBDA p : DependencyErrors(p, domains)) \cup
    (IF UnionOver(patterns, Dependencies) \subseteq Resolved(patterns, available)
       THEN {} ELSE {"InvalidRecall"})

(***************************************************************************)
(* validate_predicate_domains                                              *)
(***************************************************************************)
Operands(predicate) ==
    {predicate.left} \cup
    (IF IsVariable(predicate.right) THEN {predicate.right.name} ELSE {})

Equalities == {"===", "=", "?="}

PredicateErrors(predicate, domains) ==
    LET left == domains[predicate.left]
        right == IF IsVariable(predicate.right)
                   THEN domains[predicate.right.name] ELSE Domain(predicate.right.content)
    IN  IF ~ Operands(predicate) \subseteq DOMAIN domains
          THEN {"UnknownVariable"}
          ELSE IF /\ left = right \/ {left, right} = IdentityDomains
                  /\ predicate.operator \in Equalities \/ left \in {"Literal", "Time"}
                 THEN {} ELSE {"Comparison"}

(***************************************************************************)
(* validate_domains: only what every branch binds, at one domain, leaves   *)
(* the union.                                                              *)
(***************************************************************************)
CommonNames(q) ==
    {name \in DOMAIN DomainsOf(UsesOf(q.branches[1])) :
        \A i \in DOMAIN q.branches : name \in DOMAIN DomainsOf(UsesOf(q.branches[i]))}

ExportedDomains(q) ==
    [name \in CommonNames(q) |-> DomainsOf(UsesOf(q.branches[1]))[name]]

BranchErrors(branch) ==
    IF Conflict(UsesOf(branch))
      THEN {"VariableDomain"}
      ELSE PatternErrors(branch, DomainsOf(UsesOf(branch)), {})

BlockErrors(q, block) ==
    LET uses == UsesOf(block) \cup UsesIn(ExportedDomains(q))
        private == UnionOver(q.branches, LAMBDA branch : DOMAIN DomainsOf(UsesOf(branch)))
                       \ CommonNames(q)
        mentioned == UnionOver(block, LAMBDA p : Introduced(p) \cup Dependencies(p))
    IN  IF mentioned \cap private # {}
          THEN {"InvalidRecall"}
          ELSE IF Conflict(uses)
                 THEN {"VariableDomain"}
                 ELSE PatternErrors(block, DomainsOf(uses), DOMAIN ExportedDomains(q))

ResultErrors(q) ==
    LET ordered == {item.variable : item \in Elements(q.order)}
    IN  {"UnknownVariable" : name \in (Elements(q.returns) \cup ordered) \ CommonNames(q)}
        \cup {"InvalidRecall" : name \in ordered \ Elements(q.returns)}

(***************************************************************************)
(* All the errors `prepare` can answer with; it answers with the first.    *)
(***************************************************************************)
StaticErrors(q) ==
    LET branches == UnionOver(q.branches, BranchErrors)
        domains == ExportedDomains(q)
        schema == {"VariableDomain" : i \in
                      {j \in DOMAIN q.branches : \E name \in CommonNames(q) :
                          DomainsOf(UsesOf(q.branches[j]))[name] # domains[name]}}
    IN  IF branches # {} THEN branches
        ELSE IF schema # {} THEN schema
        ELSE UnionOver(q.absences, LAMBDA block : BlockErrors(q, block))
             \cup UnionOver(q.predicates, LAMBDA p : PredicateErrors(p, domains))
             \cup ResultErrors(q)

-----------------------------------------------------------------------------
(***************************************************************************)
(* estimated_candidate_count; without a named role it is "any number",     *)
(* which the plan reports as the number of posits.                         *)
(***************************************************************************)
NamedRoles(pattern) ==
    {m.role.content : m \in {n \in Members(pattern) : n.role.kind = "exactly"}}

Unbounded == Cardinality(DOMAIN posits) + 1

Estimate(pattern) ==
    IF NamedRoles(pattern) = {}
      THEN Unbounded
      ELSE Min({Cardinality(RolePosting(role)) : role \in NamedRoles(pattern)})

\* Mutant: a named role does not select the index.
AccessPathBound(pattern, available) ==
    IF ({pattern.binding} \cup MemberVariables(pattern)) \cap available = {}
      THEN "full_scan" ELSE "bitmap"

(***************************************************************************)
(* access_path: what is certainly bound, or fixed, when a pattern runs.    *)
(***************************************************************************)
AccessPath(pattern, available) ==
    LET indexed == (IF HasCutoff(pattern) THEN {} ELSE {pattern.posit})
                     \cup {pattern.binding} \cup MemberVariables(pattern)
                     \cup Alternatives(pattern)
    IN  CASE IsEffective(pattern) -> "effective_slice"
          [] ~IsEffective(pattern) /\ NamedRoles(pattern) = {} /\ indexed \cap available = {} ->
                "full_scan"
          [] OTHER -> "bitmap"

EstimatedCandidates(pattern) ==
    CASE IsEffective(pattern) ->
            Min({Cardinality(RolePosting(role)) : role \in {PositRole, AscertainsRole}})
      [] ~IsEffective(pattern) /\ Estimate(pattern) = Unbounded -> Cardinality(DOMAIN posits)
      [] OTHER -> Estimate(pattern)

Plan(pattern, available) ==
    [pattern |-> pattern,
     access |-> AccessPath(pattern, available),
     estimate |-> EstimatedCandidates(pattern),
     predicates |-> <<>>]

(***************************************************************************)
(* plan_patterns and compile_branch: of the patterns whose dependencies    *)
(* are bound, always the first with the smallest estimate.                 *)
(***************************************************************************)
NextPattern(patterns, pending, available) ==
    LET ready == {i \in pending : Dependencies(patterns[i]) \subseteq available}
        best == {i \in ready : \A j \in ready : Estimate(patterns[i]) <= Estimate(patterns[j])}
    IN  Min(best)

PlaceNext(patterns, sofar) ==
    LET i == NextPattern(patterns, sofar.pending, sofar.available)
    IN  [pending |-> sofar.pending \ {i},
         available |-> sofar.available \cup Introduced(patterns[i]),
         planned |-> Append(sofar.planned, Plan(patterns[i], sofar.available))]

CompileBranch(patterns, available) ==
    Accumulate(LAMBDA sofar, p : PlaceNext(patterns, sofar),
               [pending |-> DOMAIN patterns, available |-> available, planned |-> <<>>],
               patterns).planned

(***************************************************************************)
(* compile: a predicate that cannot fail is applied by the first pattern   *)
(* of the branch that completes its operands.                              *)
(***************************************************************************)
PushDown(planned, predicates) ==
    LET Bound(i) == UNION {Introduced(planned[j].pattern) : j \in 1..i}
        Completes(i, p) ==
            Operands(p) \subseteq Bound(i) /\ ~ Operands(p) \subseteq Bound(i - 1)
    IN  [i \in DOMAIN planned |->
            [planned[i] EXCEPT !.predicates =
                Chosen(predicates, {j \in DOMAIN predicates : Completes(i, predicates[j])})]]

AllPatterns(q) ==
    UNION {Elements(patterns) : patterns \in Elements(q.branches) \cup Elements(q.absences)}

\* Mutant: literal predicates do not keep a plan from running incrementally.
MustMaterializeSlots(q) ==
    \/ q.fallback
    \/ \E pattern \in AllPatterns(q) : IsEffective(pattern) \/ pattern.value.kind = "exactly"

(***************************************************************************)
(* materialization_reason                                                  *)
(***************************************************************************)
MustMaterialize(q) ==
    \/ q.fallback
    \/ \E pattern \in AllPatterns(q) : IsEffective(pattern) \/ pattern.value.kind = "exactly"
    \/ \E p \in Elements(q.predicates) :
          ExportedDomains(q)[p.left] = "Literal" /\ p.operator # "==="

Compile(q) ==
    LET materialize == MustMaterialize(q)
        Branch(patterns) ==
            LET planned == CompileBranch(patterns, {})
            IN  IF materialize THEN planned ELSE PushDown(planned, q.predicates)
    IN  [incremental |-> ~materialize,
         branches |-> [i \in DOMAIN q.branches |-> Branch(q.branches[i])],
         absences |-> [i \in DOMAIN q.absences |->
                          CompileBranch(q.absences[i], CommonNames(q))],
         names |-> CommonNames(q)]
=============================================================================
