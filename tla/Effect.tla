------------------------------- MODULE Effect -------------------------------
(***************************************************************************)
(* Information in effect: resolve_budgeted of src/effect.rs.               *)
(*                                                                         *)
(* An assertion is a posit with exactly the roles posit and ascertains; it *)
(* says with what certainty a positor ascertains a target posit.  Of the   *)
(* assertions up to one cut, about targets up to another, the code takes   *)
(* away the retracted ones, keeps for every positor and appearance set the *)
(* latest targets, and of those for every value the latest assertions.     *)
(* It holds the execution owner, so that no posit is added meanwhile.      *)
(*                                                                         *)
(* The final sort orders by the rows' own fields down to the identity of   *)
(* the assertion; the result is a set here.                                *)
(***************************************************************************)
EXTENDS Reduction

CONSTANTS
    Positors,
    Posits,         \* identities of targets
    AppearanceSets,
    Values,
    NoPosit,        \* a target identity that no posit has
    Bodies,         \* sequences of candidates, in order of identity
    Cuts,
    MaxCandidates,  \* EffectLimits
    MaxComparisons

Target == [posit: Posits, set: AppearanceSets, value: Values, time: Time]

(***************************************************************************)
(* A posit in both indexes.  It is an assertion if it has two appearances; *)
(* its value may be no certainty, and its target no posit.                 *)
(***************************************************************************)
Candidate ==
    [exact: BOOLEAN, positor: Positors, target: Target \cup {NoPosit},
     certainty: {"none", "zero", "nonzero"}, time: Time]

Cut == [assertion: Time, appearance: Time]

ASSUME EffectAssumption ==
    /\ NoPosit \notin Target
    /\ Bodies \subseteq Seq(Candidate)
    /\ Cuts \subseteq Cut
    /\ Positors \X AppearanceSets \subseteq Keys
    /\ Positors \X AppearanceSets \X Values \subseteq Keys
    /\ MaxCandidates \in Nat
    /\ MaxComparisons \in Nat

VARIABLES
    candidates,
    cut,
    stage,          \* where resolve_budgeted is
    next,           \* the row its loop is at
    eligible,       \* candidates that passed both cuts, by position
    retractions,    \* retractions_by_target
    kept,           \* nonzero, then target_maxima, then effective
    effective       \* the slice that is returned

vars == <<reduction, candidates, cut, stage, next, eligible, retractions, kept,
          effective>>

Init ==
    /\ ReductionInit
    /\ candidates \in Bodies
    /\ cut \in Cuts
    /\ stage = "begin"
    /\ next = 1
    /\ eligible = <<>>
    /\ retractions = NoFrontiers
    /\ kept = <<>>
    /\ effective = {}

-----------------------------------------------------------------------------
Begin ==
    /\ stage = "begin"
    /\ Len(candidates) <= MaxCandidates
    /\ stage' = "collect"
    /\ UNCHANGED <<reduction, candidates, cut, next, eligible, retractions, kept,
                   effective>>

(***************************************************************************)
(* Only an assertion up to the cut is looked at any further, and only      *)
(* there is it an error that it is malformed or has no target.             *)
(***************************************************************************)
Asserted(c) == c.exact /\ DefinitelyAtOrBefore(c.time, cut.assertion)

Malformed(c) == Asserted(c) /\ (c.certainty = "none" \/ c.target = NoPosit)

Eligible(c) ==
    /\ Asserted(c)
    /\ ~Malformed(c)
    /\ DefinitelyAtOrBefore(c.target.time, cut.appearance)

Collect ==
    LET c == candidates[next] IN
    /\ stage = "collect"
    /\ next <= Len(candidates)
    /\ ~Malformed(c)
    /\ eligible' = IF Eligible(c) THEN Append(eligible, next) ELSE eligible
    /\ next' = next + 1
    /\ UNCHANGED <<reduction, candidates, cut, stage, retractions, kept, effective>>

EndLoop(from, to) ==
    /\ stage = from
    /\ stage' = to
    /\ next' = 1
    /\ UNCHANGED <<reduction, candidates, cut, eligible, retractions, kept, effective>>

EndCollect == next > Len(candidates) /\ EndLoop("collect", "retract")

(***************************************************************************)
(* The witness of the retractions of a target by a positor.                *)
(***************************************************************************)
RetractionKey(c) == <<c.positor, c.target.posit>>

CanCompare == comparisons < MaxComparisons

Retract ==
    LET c == candidates[eligible[next]]
        key == RetractionKey(c)
    IN  /\ stage = "retract"
        /\ next <= Len(eligible)
        /\ \/ /\ c.certainty # "zero"
              /\ UNCHANGED <<retractions, comparisons>>
           \/ /\ c.certainty = "zero"
              /\ key \notin DOMAIN retractions
              /\ retractions' = SetFrontier(retractions, key, NewFrontier(c.time, next))
              /\ UNCHANGED comparisons
           \/ /\ c.certainty = "zero"
              /\ key \in DOMAIN retractions
              /\ CanCompare
              /\ retractions' = SetFrontier(retractions, key,
                                    Observed(retractions[key], c.time, next))
              /\ comparisons' = comparisons + 1
        /\ next' = next + 1
        /\ UNCHANGED <<rows, pass, position, frontiers, retained, base, candidates,
                       cut, stage, eligible, kept, effective>>

EndRetract == next > Len(eligible) /\ EndLoop("retract", "filter")

Retracted(c) ==
    /\ RetractionKey(c) \in DOMAIN retractions
    /\ Dominates(retractions[RetractionKey(c)], c.time)

Filter ==
    LET c == candidates[eligible[next]]
        compares == c.certainty # "zero" /\ RetractionKey(c) \in DOMAIN retractions
    IN  /\ stage = "filter"
        /\ next <= Len(eligible)
        /\ compares => CanCompare
        /\ kept' = IF c.certainty = "zero" \/ Retracted(c)
                     THEN kept ELSE Append(kept, eligible[next])
        /\ comparisons' = IF compares THEN comparisons + 1 ELSE comparisons
        /\ next' = next + 1
        /\ UNCHANGED <<rows, pass, position, frontiers, retained, base, candidates,
                       cut, stage, eligible, retractions, effective>>

-----------------------------------------------------------------------------
(***************************************************************************)
(* The two reductions: by the time of the target, for each positor and     *)
(* appearance set, and by the time of the assertion, for each value too.   *)
(***************************************************************************)
TargetRow(c) ==
    [key |-> <<c.positor, c.target.set>>, time |-> c.target.time]

\* Mutant: values are not told apart.
AssertionRowBySet(c) ==
    [key |-> <<c.positor, c.target.set>>, time |-> c.time]

AssertionRow(c) ==
    [key |-> <<c.positor, c.target.set, c.target.value>>, time |-> c.time]

BeginTargets ==
    /\ stage = "filter"
    /\ next > Len(eligible)
    /\ BeginReduction([n \in DOMAIN kept |-> TargetRow(candidates[kept[n]])])
    /\ stage' = "targets"
    /\ UNCHANGED <<candidates, cut, next, eligible, retractions, kept, effective>>

Reduce ==
    /\ stage \in {"targets", "assertions"}
    /\ ReductionStep
    /\ comparisons' <= MaxComparisons
    /\ UNCHANGED <<candidates, cut, stage, next, eligible, retractions, kept, effective>>

Survivors == [n \in DOMAIN retained |-> kept[retained[n]]]

BeginAssertions ==
    /\ stage = "targets"
    /\ pass = "done"
    /\ kept' = Survivors
    /\ BeginReduction([n \in DOMAIN Survivors |-> AssertionRow(candidates[Survivors[n]])])
    /\ stage' = "assertions"
    /\ UNCHANGED <<candidates, cut, next, eligible, retractions, effective>>

Return ==
    /\ stage = "assertions"
    /\ pass = "done"
    /\ kept' = Survivors
    /\ effective' = {Survivors[n] : n \in DOMAIN Survivors}
    /\ stage' = "done"
    /\ UNCHANGED <<reduction, candidates, cut, next, eligible, retractions>>

(***************************************************************************)
(* Any check may fail: a malformed candidate, a limit, the caller's budget *)
(* or a cancellation.  Nothing is returned then.                           *)
(***************************************************************************)
Fail ==
    /\ stage \notin {"done", "failed"}
    /\ stage' = "failed"
    /\ UNCHANGED <<reduction, candidates, cut, next, eligible, retractions, kept,
                   effective>>

Finished ==
    /\ stage \in {"done", "failed"}
    /\ UNCHANGED vars

Next ==
    \/ Begin \/ Collect \/ EndCollect \/ Retract \/ EndRetract \/ Filter
    \/ BeginTargets \/ Reduce \/ BeginAssertions \/ Return
    \/ Fail \/ Finished

Spec == Init /\ [][Next]_vars

-----------------------------------------------------------------------------
(***************************************************************************)
(* The definition in EXTEND_TRAQULA.md, "Desugaring target": A1 to A3 and  *)
(* the effective assertions.                                               *)
(***************************************************************************)
A1 ==
    {i \in DOMAIN candidates :
        /\ candidates[i].exact
        /\ DefinitelyAtOrBefore(candidates[i].time, cut.assertion)
        /\ DefinitelyAtOrBefore(candidates[i].target.time, cut.appearance)}

Retracts(j, i) ==
    /\ candidates[j].certainty = "zero"
    /\ candidates[j].positor = candidates[i].positor
    /\ candidates[j].target.posit = candidates[i].target.posit
    /\ DefinitelyBefore(candidates[i].time, candidates[j].time)

A2 == {i \in A1 : candidates[i].certainty # "zero" /\ ~ \E j \in A1 : Retracts(j, i)}

SameSet(i, j) ==
    /\ candidates[i].positor = candidates[j].positor
    /\ candidates[i].target.set = candidates[j].target.set

A3 ==
    {i \in A2 : ~ \E j \in A2 :
        /\ SameSet(i, j)
        /\ DefinitelyBefore(candidates[i].target.time, candidates[j].target.time)}

InEffect ==
    {i \in A3 : ~ \E j \in A3 :
        /\ SameSet(i, j)
        /\ candidates[i].target.value = candidates[j].target.value
        /\ DefinitelyBefore(candidates[i].time, candidates[j].time)}

(***************************************************************************)
(* The slice is the one that the definition gives, whatever the order of   *)
(* the candidates, with overlapping and with equal times; and malformed    *)
(* evidence up to the cut never yields a slice.                            *)
(***************************************************************************)
SliceIsDefined ==
    stage = "done" =>
        /\ effective = InEffect
        /\ \A i \in DOMAIN candidates : ~Malformed(candidates[i])
=============================================================================
