----------------------------- MODULE Reduction ------------------------------
(***************************************************************************)
(* The temporal maxima of groups of rows: Frontier and                     *)
(* retain_maximal_by_key of src/datatype/temporal.rs.                      *)
(*                                                                         *)
(* A row survives unless another row of its group is definitely after it.  *)
(* The code does not compare rows pairwise: a first pass finds in every    *)
(* group one witness, a row with the greatest start, and a second pass     *)
(* compares every other row with the witness of its group.                 *)
(*                                                                         *)
(* retain_maximal is the case of a single key.  Every visit of a row, and  *)
(* every comparison, first asks the caller's budget and may fail there;    *)
(* failing is an action of the module that uses this one.                  *)
(***************************************************************************)
EXTENDS Temporal, Naturals, Sequences, FiniteSets

CONSTANTS Keys

VARIABLES
    rows,           \* the input
    pass,           \* "none", "observe", "retain" or "done"
    position,       \* the row that the pass is at
    frontiers,      \* groups seen so far, with their Frontier and witness
    retained,       \* the rows pushed so far, by their position
    comparisons,    \* Work::Comparison, of this and earlier reductions
    base            \* history: comparisons when this reduction began

reduction == <<rows, pass, position, frontiers, retained, comparisons, base>>

Row == [key: Keys, time: Time]

Frontier == [time: Time, start: Int, witness: Nat \ {0}]

NewFrontier(time, i) ==
    [time |-> time, start |-> IntervalStart(time), witness |-> i]

NoFrontiers == [key \in {} |-> NewFrontier(BeginningOfTime, 1)]

SetFrontier(all, key, frontier) ==
    [k \in DOMAIN all \cup {key} |-> IF k = key THEN frontier ELSE all[k]]

(***************************************************************************)
(* Frontier::observe                                                       *)
(***************************************************************************)
Observed(frontier, time, i) ==
    IF IntervalStart(time) > frontier.start THEN NewFrontier(time, i) ELSE frontier

\* Mutant: a time that ends where the witness begins is not before it.
DominatesGap(frontier, time) ==
    time # frontier.time /\ IntervalEnd(time) < frontier.start

(***************************************************************************)
(* Frontier::dominates                                                     *)
(***************************************************************************)
Dominates(frontier, time) ==
    time # frontier.time /\ IntervalEnd(time) <= frontier.start

-----------------------------------------------------------------------------
ReductionInit ==
    /\ rows = <<>>
    /\ pass = "none"
    /\ position = 1
    /\ frontiers = NoFrontiers
    /\ retained = <<>>
    /\ comparisons = 0
    /\ base = 0

BeginReduction(input) ==
    /\ pass \in {"none", "done"}
    /\ rows' = input
    /\ pass' = "observe"
    /\ position' = 1
    /\ frontiers' = NoFrontiers
    /\ retained' = <<>>
    /\ base' = comparisons
    /\ UNCHANGED comparisons

(***************************************************************************)
(* The first pass: a row opens its group or is shown to its frontier.      *)
(***************************************************************************)
ObserveRow ==
    LET row == rows[position] IN
    /\ pass = "observe"
    /\ position <= Len(rows)
    /\ IF row.key \in DOMAIN frontiers
          THEN /\ frontiers' = SetFrontier(frontiers, row.key,
                                    Observed(frontiers[row.key], row.time, position))
               /\ comparisons' = comparisons + 1
          ELSE /\ frontiers' = SetFrontier(frontiers, row.key,
                                    NewFrontier(row.time, position))
               /\ UNCHANGED comparisons
    /\ position' = position + 1
    /\ UNCHANGED <<rows, pass, retained, base>>

EndObserving ==
    /\ pass = "observe"
    /\ position > Len(rows)
    /\ pass' = "retain"
    /\ position' = 1
    /\ UNCHANGED <<rows, frontiers, retained, comparisons, base>>

\* Mutant: the witness is compared with itself.
RetainComparing ==
    LET row == rows[position] IN
    /\ pass = "retain"
    /\ position <= Len(rows)
    /\ retained' = IF Dominates(frontiers[row.key], row.time)
                     THEN retained ELSE Append(retained, position)
    /\ comparisons' = comparisons + 1
    /\ position' = position + 1
    /\ UNCHANGED <<rows, pass, frontiers, base>>

(***************************************************************************)
(* The second pass: the witness survives without a comparison, another row *)
(* if the witness does not dominate it.                                    *)
(***************************************************************************)
RetainRow ==
    LET row == rows[position]
        isWitness == position = frontiers[row.key].witness
    IN  /\ pass = "retain"
        /\ position <= Len(rows)
        /\ retained' = IF ~isWitness /\ Dominates(frontiers[row.key], row.time)
                         THEN retained ELSE Append(retained, position)
        /\ comparisons' = IF isWitness THEN comparisons ELSE comparisons + 1
        /\ position' = position + 1
        /\ UNCHANGED <<rows, pass, frontiers, base>>

EndRetaining ==
    /\ pass = "retain"
    /\ position > Len(rows)
    /\ pass' = "done"
    /\ UNCHANGED <<rows, position, frontiers, retained, comparisons, base>>

ReductionStep == ObserveRow \/ EndObserving \/ RetainRow \/ EndRetaining

ReductionNext == ReductionStep \/ \E input \in Seq(Row) : BeginReduction(input)

ReductionSpec == ReductionInit /\ [][ReductionNext]_reduction

-----------------------------------------------------------------------------
ReductionTypeOK ==
    /\ rows \in Seq(Row)
    /\ pass \in {"none", "observe", "retain", "done"}
    /\ position \in 1..(Len(rows) + 1)
    /\ DOMAIN frontiers \subseteq Keys
    /\ \A key \in DOMAIN frontiers : frontiers[key] \in Frontier
    /\ retained \in Seq(DOMAIN rows)
    /\ comparisons \in Nat
    /\ base \in Nat

(***************************************************************************)
(* The pairwise definition, `oracle` of the tests: every equal or          *)
(* incomparable maximum survives.                                          *)
(***************************************************************************)
Maximal(i) ==
    ~ \E j \in DOMAIN rows :
        rows[j].key = rows[i].key /\ DefinitelyBefore(rows[i].time, rows[j].time)

(***************************************************************************)
(* Comparing with one witness is the same as comparing with every row of   *)
(* the group, and the survivors keep their order.                          *)
(***************************************************************************)
MaximaAreRetained ==
    pass = "done" =>
        /\ {retained[n] : n \in DOMAIN retained} = {i \in DOMAIN rows : Maximal(i)}
        /\ \A m, n \in DOMAIN retained : m < n => retained[m] < retained[n]

(***************************************************************************)
(* Work that the comment promises: "exactly 2(n - groups) temporal         *)
(* ordering comparisons".                                                  *)
(***************************************************************************)
ComparisonsAreExact ==
    pass = "done" =>
        comparisons - base = 2 * (Len(rows) - Cardinality(DOMAIN frontiers))
=============================================================================
