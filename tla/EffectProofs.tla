---------------------------- MODULE EffectProofs ----------------------------
(***************************************************************************)
(* Proofs about Temporal, Reduction and Effect, for every calendar, every  *)
(* sequence of rows or candidates and all limits: how intervals compare,   *)
(* that one witness stands for its whole group, how many comparisons that  *)
(* takes, and that resolve returns the slice of its definition.            *)
(***************************************************************************)
EXTENDS Effect, FiniteSetTheorems, TLAPS

(***************************************************************************)
(* Intervals are proper: only the sentinels are empty, and no other time   *)
(* starts where they do.                                                   *)
(***************************************************************************)
LEMMA SentinelsApart ==
    ASSUME NEW t \in Concrete
    PROVE  /\ t # BeginningOfTime /\ t # EndOfTime
           /\ t.kind \in Kinds /\ t.unit \in Units(t.kind)
<1>1. t.kind \in Kinds /\ t.unit \in Units(t.kind)
  BY DEF Concrete
<1>2. t.kind # "BeginningOfTime" /\ t.kind # "EndOfTime"
  BY <1>1, TemporalAssumption
<1> QED
  BY <1>1, <1>2 DEF BeginningOfTime, EndOfTime

LEMMA SentinelIntervals ==
    /\ IntervalStart(BeginningOfTime) = NegativeInfinity
    /\ IntervalEnd(BeginningOfTime) = NegativeInfinity
    /\ IntervalStart(EndOfTime) = PositiveInfinity
    /\ IntervalEnd(EndOfTime) = PositiveInfinity
<1>1. BeginningOfTime # EndOfTime
  BY DEF BeginningOfTime, EndOfTime
<1> QED
  BY <1>1 DEF IntervalStart, IntervalEnd

LEMMA ConcreteIntervals ==
    ASSUME NEW t \in Concrete
    PROVE  /\ IntervalStart(t) \in Int
           /\ IntervalEnd(t) \in Int
           /\ NegativeInfinity < IntervalStart(t)
           /\ IntervalStart(t) < PositiveInfinity
           /\ IntervalStart(t) < IntervalEnd(t)
           /\ IntervalEnd(t) <= PositiveInfinity
<1>1. /\ t # BeginningOfTime /\ t # EndOfTime
      /\ t.kind \in Kinds /\ t.unit \in Units(t.kind)
  BY SentinelsApart
<1>2. IntervalStart(t) = Boundary(t.kind, t.unit)
  BY <1>1 DEF IntervalStart
<1>3. /\ Boundary(t.kind, t.unit) \in Int
      /\ NegativeInfinity < Boundary(t.kind, t.unit)
      /\ Boundary(t.kind, t.unit) < PositiveInfinity
      /\ PositiveInfinity \in Int
  BY <1>1, TemporalAssumption
<1>4. CASE t.unit = LastUnit[t.kind]
  <2>1. IntervalEnd(t) = PositiveInfinity
    BY <1>1, <1>4 DEF IntervalEnd
  <2> QED
    BY <1>2, <1>3, <2>1
<1>5. CASE t.unit # LastUnit[t.kind]
  <2>1. IntervalEnd(t) = Boundary(t.kind, t.unit + 1)
    BY <1>1, <1>5 DEF IntervalEnd
  <2>2. FirstUnit[t.kind] \in Int /\ LastUnit[t.kind] \in Int
    BY <1>1, TemporalAssumption
  <2>3. t.unit + 1 \in Units(t.kind) /\ t.unit < t.unit + 1
    BY <1>1, <1>5, <2>2 DEF Units
  <2>4. /\ Boundary(t.kind, t.unit + 1) \in Int
        /\ Boundary(t.kind, t.unit + 1) < PositiveInfinity
        /\ Boundary(t.kind, t.unit) < Boundary(t.kind, t.unit + 1)
    BY <1>1, <2>3, TemporalAssumption
  <2> QED
    BY <1>2, <1>3, <2>1, <2>4
<1> QED
  BY <1>4, <1>5

LEMMA ProperIntervals ==
    ASSUME NEW t \in Time
    PROVE  /\ IntervalStart(t) \in Int
           /\ IntervalEnd(t) \in Int
           /\ NegativeInfinity <= IntervalStart(t)
           /\ IntervalStart(t) <= IntervalEnd(t)
           /\ IntervalEnd(t) <= PositiveInfinity
           /\ IntervalStart(t) = IntervalEnd(t) => t \notin Concrete
           /\ IntervalStart(t) = NegativeInfinity <=> t = BeginningOfTime
           /\ IntervalStart(t) = PositiveInfinity <=> t = EndOfTime
<1>1. /\ NegativeInfinity \in Int /\ PositiveInfinity \in Int
      /\ NegativeInfinity < PositiveInfinity
  BY TemporalAssumption
<1>2. CASE t = BeginningOfTime
  <2>1. t # EndOfTime /\ t \notin Concrete
    BY <1>2, SentinelsApart DEF BeginningOfTime, EndOfTime
  <2> QED
    BY <1>1, <1>2, <2>1, SentinelIntervals
<1>3. CASE t = EndOfTime
  <2>1. t # BeginningOfTime /\ t \notin Concrete
    BY <1>3, SentinelsApart DEF BeginningOfTime, EndOfTime
  <2> QED
    BY <1>1, <1>3, <2>1, SentinelIntervals
<1>4. CASE t \in Concrete
  BY <1>1, <1>4, ConcreteIntervals, SentinelsApart
<1> QED
  BY <1>2, <1>3, <1>4 DEF Time

(***************************************************************************)
(* An empty interval shares its start with no other time.                  *)
(***************************************************************************)
LEMMA EmptyIntervalsAreAlone ==
    ASSUME NEW t \in Time, NEW u \in Time,
           IntervalStart(t) = IntervalEnd(t), IntervalStart(u) = IntervalStart(t)
    PROVE  u = t
<1>1. t = BeginningOfTime \/ t = EndOfTime
  BY ProperIntervals DEF Time
<1> QED
  BY <1>1, ProperIntervals, SentinelIntervals

-----------------------------------------------------------------------------
(***************************************************************************)
(* definitely_before is a strict partial order, so that a group of rows    *)
(* always keeps at least one, and which ones does not depend on the order  *)
(* of the rows.                                                            *)
(***************************************************************************)
THEOREM BeforeIsStrictOrder ==
    ASSUME NEW t \in Time, NEW u \in Time, NEW v \in Time
    PROVE  /\ ~DefinitelyBefore(t, t)
           /\ DefinitelyBefore(t, u) => ~DefinitelyBefore(u, t)
           /\ DefinitelyBefore(t, u) /\ DefinitelyBefore(u, v) => DefinitelyBefore(t, v)
<1> DEFINE Ordered(x) == /\ IntervalStart(x) \in Int /\ IntervalEnd(x) \in Int
                         /\ IntervalStart(x) <= IntervalEnd(x)
<1>1. Ordered(t) /\ Ordered(u) /\ Ordered(v)
  BY ProperIntervals
<1>2. ~DefinitelyBefore(t, t)
  BY DEF DefinitelyBefore
<1>3. ASSUME DefinitelyBefore(t, u), DefinitelyBefore(u, t) PROVE FALSE
  <2>1. IntervalStart(t) = IntervalEnd(t) /\ IntervalStart(u) = IntervalStart(t)
    BY <1>1, <1>3 DEF DefinitelyBefore
  <2> QED
    BY <2>1, <1>3, EmptyIntervalsAreAlone DEF DefinitelyBefore
<1>4. ASSUME DefinitelyBefore(t, u), DefinitelyBefore(u, v) PROVE DefinitelyBefore(t, v)
  <2>1. IntervalEnd(t) <= IntervalStart(v)
    BY <1>1, <1>4 DEF DefinitelyBefore
  <2>2. t # v
    BY <1>3, <1>4
  <2> QED
    BY <2>1, <2>2 DEF DefinitelyBefore
<1> QED
  BY <1>2, <1>3, <1>4

(***************************************************************************)
(* Two different times are related in exactly one way: one is before the   *)
(* other, or they overlap; and what is definite excludes what is possible. *)
(***************************************************************************)
THEOREM OneRelationHolds ==
    ASSUME NEW t \in Time, NEW u \in Time, t # u
    PROVE  /\ DefinitelyBefore(t, u) \/ DefinitelyAfter(t, u) \/ Overlaps(t, u)
           /\ ~(DefinitelyBefore(t, u) /\ DefinitelyAfter(t, u))
           /\ ~(DefinitelyBefore(t, u) /\ Overlaps(t, u))
           /\ ~(DefinitelyAfter(t, u) /\ Overlaps(t, u))
           /\ DefinitelyBefore(t, u) <=> ~PossiblyAfter(t, u)
           /\ DefinitelyAfter(t, u) <=> ~PossiblyBefore(t, u)
<1>1. /\ IntervalStart(t) \in Int /\ IntervalEnd(t) \in Int
      /\ IntervalStart(u) \in Int /\ IntervalEnd(u) \in Int
  BY ProperIntervals
<1>2. ~(DefinitelyBefore(t, u) /\ DefinitelyBefore(u, t))
  BY BeforeIsStrictOrder
<1> QED
  BY <1>1, <1>2
  DEF DefinitelyBefore, DefinitelyAfter, Overlaps, PossiblyAfter, PossiblyBefore

(***************************************************************************)
(* The witness of a group dominates whatever any row of the group does.    *)
(***************************************************************************)
LEMMA WitnessSuffices ==
    ASSUME NEW frontier \in Frontier, frontier.start = IntervalStart(frontier.time),
           NEW t \in Time, NEW u \in Time, IntervalStart(u) <= frontier.start,
           DefinitelyBefore(t, u)
    PROVE  Dominates(frontier, t)
<1> DEFINE w == frontier.time
<1>1. /\ w \in Time /\ frontier.start \in Int
  BY DEF Frontier
<1>2. /\ IntervalStart(t) \in Int /\ IntervalEnd(t) \in Int
      /\ IntervalStart(t) <= IntervalEnd(t) /\ IntervalStart(u) \in Int
  BY ProperIntervals
<1>3. t # u /\ IntervalEnd(t) <= IntervalStart(u)
  BY DEF DefinitelyBefore
<1>4. IntervalEnd(t) <= frontier.start
  BY <1>1, <1>2, <1>3
<1>5. ASSUME t = w PROVE FALSE
  <2>1. IntervalStart(t) = IntervalEnd(t) /\ IntervalStart(u) = IntervalStart(t)
    BY <1>1, <1>2, <1>3, <1>5
  <2> QED
    BY <2>1, <1>3, EmptyIntervalsAreAlone
<1> QED
  BY <1>4, <1>5 DEF Dominates

-----------------------------------------------------------------------------
(***************************************************************************)
(* The inductive invariant.  Visited is what the first pass has seen; a    *)
(* frontier belongs to a row of its group with the greatest start of the   *)
(* rows visited; the second pass has kept the maxima of what it has seen.  *)
(***************************************************************************)
Visited == IF pass = "observe" THEN 1..(position - 1) ELSE DOMAIN rows

WitnessOf(key) ==
    LET f == frontiers[key] IN
    /\ f.witness \in Visited
    /\ rows[f.witness].key = key
    /\ f.time = rows[f.witness].time
    /\ f.start = IntervalStart(f.time)
    /\ \A j \in Visited : rows[j].key = key => IntervalStart(rows[j].time) <= f.start

FrontiersAreWitnesses ==
    /\ DOMAIN frontiers = {rows[i].key : i \in Visited}
    /\ \A key \in DOMAIN frontiers : WitnessOf(key)

Increasing(seq) == \A m, n \in DOMAIN seq : m < n => seq[m] < seq[n]

Members(seq) == {seq[n] : n \in DOMAIN seq}

RetainedUpTo(last) ==
    /\ Members(retained) = {i \in 1..last : Maximal(i)}
    /\ Increasing(retained)

PassesInOrder ==
    /\ pass = "observe" => retained = <<>>
    /\ pass = "retain" => RetainedUpTo(position - 1)
    /\ pass = "done" => RetainedUpTo(Len(rows))

RInv == ReductionTypeOK /\ FrontiersAreWitnesses /\ PassesInOrder

(***************************************************************************)
(* Appending a greater number keeps an increasing sequence increasing.     *)
(***************************************************************************)
LEMMA AppendMember ==
    ASSUME NEW seq \in Seq(Nat), NEW x \in Nat
    PROVE  /\ Members(Append(seq, x)) = Members(seq) \cup {x}
           /\ Increasing(seq) /\ (\A y \in Members(seq) : y < x) =>
                  Increasing(Append(seq, x))
<1> DEFINE longer == Append(seq, x)
<1>1. /\ DOMAIN longer = 1..(Len(seq) + 1) /\ DOMAIN seq = 1..Len(seq)
      /\ Len(seq) \in Nat
      /\ longer[Len(seq) + 1] = x
      /\ \A n \in 1..Len(seq) : longer[n] = seq[n]
  OBVIOUS
<1>2. Members(longer) \subseteq Members(seq) \cup {x}
  <2> SUFFICES ASSUME NEW n \in DOMAIN longer
               PROVE  longer[n] \in Members(seq) \cup {x}
    BY DEF Members
  <2>1. CASE n = Len(seq) + 1
    BY <1>1, <2>1
  <2>2. CASE n \in 1..Len(seq)
    BY <1>1, <2>2 DEF Members
  <2> QED
    BY <1>1, <2>1, <2>2
<1>3. Members(seq) \subseteq Members(longer)
  BY <1>1 DEF Members
<1>4. x \in Members(longer)
  BY <1>1 DEF Members
<1>5. ASSUME Increasing(seq), \A y \in Members(seq) : y < x
      PROVE  Increasing(longer)
  <2> SUFFICES ASSUME NEW m \in DOMAIN longer, NEW n \in DOMAIN longer, m < n
               PROVE  longer[m] < longer[n]
    BY DEF Increasing
  <2>1. m \in 1..Len(seq) /\ longer[m] = seq[m] /\ seq[m] \in Members(seq)
    BY <1>1 DEF Members
  <2>2. CASE n = Len(seq) + 1
    BY <1>1, <1>5, <2>1, <2>2
  <2>3. CASE n \in 1..Len(seq)
    BY <1>1, <1>5, <2>1, <2>3 DEF Increasing
  <2> QED
    BY <1>1, <2>2, <2>3
<1> QED
  BY <1>2, <1>3, <1>4, <1>5

LEMMA InitEstablishesRInv == ReductionInit => RInv
<1> SUFFICES ASSUME ReductionInit PROVE RInv
  OBVIOUS
<1>1. ReductionTypeOK
  BY DEF ReductionInit, ReductionTypeOK, NoFrontiers
<1>2. FrontiersAreWitnesses /\ PassesInOrder
  BY DEF ReductionInit, FrontiersAreWitnesses, PassesInOrder, Visited, NoFrontiers
<1> QED
  BY <1>1, <1>2 DEF RInv

LEMMA BeginKeepsRInv ==
    ASSUME RInv, NEW input \in Seq(Row), BeginReduction(input) PROVE RInv'
<1> USE DEF BeginReduction
<1>1. ReductionTypeOK'
  BY DEF RInv, ReductionTypeOK, NoFrontiers
<1>2. Visited' = {} /\ DOMAIN frontiers' = {} /\ pass' = "observe" /\ retained' = <<>>
  BY DEF Visited, NoFrontiers
<1>3. FrontiersAreWitnesses' /\ PassesInOrder'
  BY <1>2 DEF FrontiersAreWitnesses, PassesInOrder
<1> QED
  BY <1>1, <1>3 DEF RInv

LEMMA RowsAreTyped ==
    ASSUME rows \in Seq(Row), NEW i \in DOMAIN rows
    PROVE  /\ i \in 1..Len(rows)
           /\ rows[i].key \in Keys
           /\ rows[i].time \in Time
           /\ IntervalStart(rows[i].time) \in Int
<1>1. rows[i] \in Row /\ i \in 1..Len(rows)
  OBVIOUS
<1>2. rows[i].key \in Keys /\ rows[i].time \in Time
  BY <1>1 DEF Row
<1> QED
  BY <1>1, <1>2, ProperIntervals

(***************************************************************************)
(* The new frontier is a witness whether the row opens the group, replaces *)
(* the witness, or leaves it.                                              *)
(***************************************************************************)
LEMMA ObserveRowKeepsRInv ==
    ASSUME RInv, ObserveRow PROVE RInv'
<1>1. /\ rows \in Seq(Row) /\ position \in Nat \ {0} /\ position <= Len(rows)
      /\ pass = "observe" /\ pass' = "observe" /\ rows' = rows
      /\ position' = position + 1 /\ retained' = retained /\ base' = base
      /\ Len(rows) \in Nat /\ DOMAIN rows = 1..Len(rows)
      /\ position \in DOMAIN rows
  BY DEF RInv, ReductionTypeOK, ObserveRow
<1>2. PICK k \in Keys, t \in Time, at \in Nat \ {0} :
          k = rows[position].key /\ t = rows[position].time /\ at = position
  BY <1>1, RowsAreTyped
<1>3. Visited = 1..(at - 1) /\ Visited' = Visited \cup {at} /\ at \notin Visited
  BY <1>1, <1>2 DEF Visited
<1>4. IntervalStart(t) \in Int
  BY <1>2, ProperIntervals
<1>5. \A i \in Visited : i \in DOMAIN rows
  BY <1>1, <1>2, <1>3
<1>6. \A i \in Visited : IntervalStart(rows[i].time) \in Int
  BY <1>1, <1>5, RowsAreTyped
<1> DEFINE new == NewFrontier(t, at)
<1>7. /\ new \in Frontier /\ new.witness = at /\ new.time = t
      /\ new.start = IntervalStart(t)
  BY <1>2, <1>4 DEF NewFrontier, Frontier
<1>8. /\ DOMAIN frontiers' = DOMAIN frontiers \cup {k}
      /\ \A key \in DOMAIN frontiers : key # k => frontiers'[key] = frontiers[key]
      /\ k \in DOMAIN frontiers => frontiers'[k] = Observed(frontiers[k], t, at)
      /\ k \notin DOMAIN frontiers => frontiers'[k] = new
  BY <1>1, <1>2 DEF ObserveRow, SetFrontier
<1>9. DOMAIN frontiers = {rows[i].key : i \in Visited}
  BY DEF RInv, FrontiersAreWitnesses
<1>10. DOMAIN frontiers' = {rows'[i].key : i \in Visited'}
  BY <1>1, <1>2, <1>3, <1>8, <1>9
<1> DEFINE Witnesses(f) ==
               /\ f \in Frontier /\ f.witness \in Visited'
               /\ rows[f.witness].key = k /\ f.time = rows[f.witness].time
               /\ f.start = IntervalStart(f.time)
               /\ \A j \in Visited' : rows[j].key = k => IntervalStart(rows[j].time) <= f.start
<1>11. Witnesses(frontiers'[k])
  <2>1. CASE k \notin DOMAIN frontiers
    <3>1. \A j \in Visited : rows[j].key # k
      BY <1>9, <2>1
    <3>2. Witnesses(new)
      BY <1>2, <1>3, <1>4, <1>7, <3>1
    <3> QED
      BY <1>8, <2>1, <3>2
  <2>2. CASE k \in DOMAIN frontiers
    <3> DEFINE f == frontiers[k]
    <3>1. /\ f \in Frontier /\ f.witness \in Visited
          /\ rows[f.witness].key = k /\ f.time = rows[f.witness].time
          /\ f.start = IntervalStart(f.time)
          /\ \A j \in Visited : rows[j].key = k => IntervalStart(rows[j].time) <= f.start
      BY <2>2 DEF RInv, ReductionTypeOK, FrontiersAreWitnesses, WitnessOf
    <3>2. f.start \in Int
      BY <3>1 DEF Frontier
    <3>3. CASE IntervalStart(t) > f.start
      <4>1. \A j \in Visited : rows[j].key = k =>
                IntervalStart(rows[j].time) <= IntervalStart(t)
        BY <1>4, <1>6, <3>1, <3>2, <3>3
      <4>2. Witnesses(new)
        BY <1>2, <1>3, <1>4, <1>7, <4>1
      <4>3. frontiers'[k] = new
        BY <1>8, <2>2, <3>3 DEF Observed
      <4> QED
        BY <4>2, <4>3
    <3>4. CASE ~(IntervalStart(t) > f.start)
      <4>1. IntervalStart(t) <= f.start
        BY <1>4, <3>2, <3>4
      <4>2. Witnesses(f)
        BY <1>2, <1>3, <3>1, <4>1
      <4>3. frontiers'[k] = f
        BY <1>8, <2>2, <3>4 DEF Observed
      <4> QED
        BY <4>2, <4>3
    <3> QED
      BY <3>3, <3>4
  <2> QED
    BY <2>1, <2>2
<1>12. WitnessOf(k)'
  <2> HIDE DEF Witnesses
  <2>1. Witnesses(frontiers'[k]) /\ rows' = rows
    BY <1>1, <1>11
  <2> QED
    BY <2>1 DEF WitnessOf, Witnesses
<1>13. ASSUME NEW key \in DOMAIN frontiers', key # k
       PROVE  frontiers'[key] \in Frontier /\ WitnessOf(key)'
  <2>1. /\ key \in DOMAIN frontiers /\ frontiers'[key] = frontiers[key]
        /\ frontiers[key] \in Frontier /\ WitnessOf(key)
    BY <1>8, <1>13 DEF RInv, ReductionTypeOK, FrontiersAreWitnesses
  <2> QED
    BY <1>1, <1>2, <1>3, <1>13, <2>1 DEF WitnessOf
<1>14. FrontiersAreWitnesses'
  <2>1. \A key \in DOMAIN frontiers' : WitnessOf(key)'
    BY <1>12, <1>13
  <2> QED
    BY <1>10, <2>1 DEF FrontiersAreWitnesses
<1>15. comparisons' \in Nat
  BY DEF ObserveRow, RInv, ReductionTypeOK
<1>16. DOMAIN frontiers' \subseteq Keys /\ \A key \in DOMAIN frontiers' : frontiers'[key] \in Frontier
  BY <1>2, <1>8, <1>11, <1>13 DEF RInv, ReductionTypeOK
<1>17. ReductionTypeOK'
  BY <1>1, <1>15, <1>16 DEF RInv, ReductionTypeOK
<1>18. PassesInOrder'
  <2>1. retained = <<>>
    BY <1>1 DEF RInv, PassesInOrder
  <2> QED
    BY <1>1, <2>1 DEF PassesInOrder
<1> QED
  BY <1>14, <1>17, <1>18 DEF RInv

LEMMA EndObservingKeepsRInv ==
    ASSUME RInv, EndObserving PROVE RInv'
<1>1. /\ rows \in Seq(Row) /\ position \in 1..(Len(rows) + 1) /\ position > Len(rows)
      /\ pass = "observe" /\ pass' = "retain" /\ position' = 1
      /\ UNCHANGED <<rows, frontiers, retained, comparisons, base>>
      /\ Len(rows) \in Nat /\ DOMAIN rows = 1..Len(rows)
  BY DEF RInv, ReductionTypeOK, EndObserving
<1>2. Visited' = Visited
  BY <1>1 DEF Visited
<1>3. ReductionTypeOK'
  BY <1>1 DEF RInv, ReductionTypeOK
<1>4. FrontiersAreWitnesses'
  BY <1>1, <1>2 DEF RInv, FrontiersAreWitnesses, WitnessOf
<1>5. RetainedUpTo(0)'
  <2>1. retained' = <<>>
    BY <1>1 DEF RInv, PassesInOrder
  <2> QED
    BY <2>1 DEF RetainedUpTo, Members, Increasing
<1>6. PassesInOrder'
  BY <1>1, <1>5 DEF PassesInOrder
<1> QED
  BY <1>3, <1>4, <1>6 DEF RInv

(***************************************************************************)
(* A row that is not the witness is dropped exactly if another row of its  *)
(* group is definitely after it; the witness itself is never dominated.    *)
(***************************************************************************)
LEMMA KeptIffMaximal ==
    ASSUME RInv, pass = "retain", NEW i \in DOMAIN rows
    PROVE  /\ rows[i].key \in DOMAIN frontiers
           /\ frontiers[rows[i].key].witness = i => Maximal(i)
           /\ frontiers[rows[i].key].witness # i =>
                  (Maximal(i) <=> ~Dominates(frontiers[rows[i].key], rows[i].time))
<1>1. rows \in Seq(Row) /\ Visited = DOMAIN rows
  BY DEF RInv, ReductionTypeOK, Visited
<1>2. PICK k \in Keys, t \in Time : k = rows[i].key /\ t = rows[i].time
  BY <1>1, RowsAreTyped
<1>3. k \in DOMAIN frontiers
  BY <1>1, <1>2 DEF RInv, FrontiersAreWitnesses
<1> DEFINE f == frontiers[k]
<1>4. /\ f \in Frontier /\ f.witness \in DOMAIN rows
      /\ rows[f.witness].key = k /\ f.time = rows[f.witness].time
      /\ f.start = IntervalStart(f.time)
      /\ \A j \in DOMAIN rows : rows[j].key = k => IntervalStart(rows[j].time) <= f.start
  BY <1>1, <1>3 DEF RInv, ReductionTypeOK, FrontiersAreWitnesses, WitnessOf
<1>5. ASSUME ~Maximal(i) PROVE Dominates(f, t)
  <2>1. PICK j \in DOMAIN rows : rows[j].key = k /\ DefinitelyBefore(t, rows[j].time)
    BY <1>2, <1>5 DEF Maximal
  <2>2. rows[j].time \in Time /\ IntervalStart(rows[j].time) <= f.start
    BY <1>1, <1>4, <2>1, RowsAreTyped
  <2> QED
    BY <1>2, <1>4, <2>1, <2>2, WitnessSuffices
<1>6. ASSUME Dominates(f, t) PROVE ~Maximal(i) /\ f.witness # i
  <2>1. DefinitelyBefore(t, rows[f.witness].time)
    BY <1>4, <1>6 DEF Dominates, DefinitelyBefore
  <2>2. t # rows[f.witness].time
    BY <2>1 DEF DefinitelyBefore
  <2> QED
    BY <1>2, <1>4, <2>1, <2>2 DEF Maximal
<1> QED
  BY <1>2, <1>3, <1>5, <1>6

LEMMA RetainRowKeepsRInv ==
    ASSUME RInv, RetainRow PROVE RInv'
<1>1. /\ rows \in Seq(Row) /\ position \in Nat \ {0} /\ position <= Len(rows)
      /\ pass = "retain" /\ pass' = "retain" /\ rows' = rows
      /\ position' = position + 1 /\ frontiers' = frontiers /\ base' = base
      /\ Len(rows) \in Nat /\ DOMAIN rows = 1..Len(rows)
      /\ position \in DOMAIN rows /\ retained \in Seq(DOMAIN rows)
  BY DEF RInv, ReductionTypeOK, RetainRow
<1> DEFINE f == frontiers[rows[position].key]
           dropped == position # f.witness /\ Dominates(f, rows[position].time)
<1>2. dropped <=> ~Maximal(position)
  BY <1>1, KeptIffMaximal
<1>3. retained' = IF dropped THEN retained ELSE Append(retained, position)
  BY <1>1 DEF RetainRow
<1>4. Members(retained) = {i \in 1..(position - 1) : Maximal(i)} /\ Increasing(retained)
  BY <1>1 DEF RInv, PassesInOrder, RetainedUpTo
<1>5. retained \in Seq(Nat)
  BY <1>1
<1>6. /\ Members(retained') = {i \in 1..position : Maximal(i)}
      /\ Increasing(retained')
      /\ retained' \in Seq(DOMAIN rows)
  <2>1. CASE Maximal(position)
    <3>1. retained' = Append(retained, position)
      BY <1>2, <1>3, <2>1
    <3>2. \A y \in Members(retained) : y < position
      BY <1>1, <1>4
    <3>3. Members(retained') = Members(retained) \cup {position} /\ Increasing(retained')
      BY <1>1, <1>4, <1>5, <3>1, <3>2, AppendMember
    <3>4. {i \in 1..position : Maximal(i)} = {i \in 1..(position - 1) : Maximal(i)} \cup {position}
      BY <1>1, <2>1
    <3>5. retained' \in Seq(DOMAIN rows)
      BY <1>1, <3>1
    <3> QED
      BY <1>4, <3>3, <3>4, <3>5
  <2>2. CASE ~Maximal(position)
    <3>1. retained' = retained
      BY <1>2, <1>3, <2>2
    <3>2. {i \in 1..position : Maximal(i)} = {i \in 1..(position - 1) : Maximal(i)}
      BY <1>1, <2>2
    <3> QED
      BY <1>1, <1>4, <3>1, <3>2
  <2> QED
    BY <2>1, <2>2
<1>7. \A i : Maximal(i)' <=> Maximal(i)
  BY <1>1 DEF Maximal
<1>9. PassesInOrder'
  BY <1>1, <1>6, <1>7 DEF PassesInOrder, RetainedUpTo
<1>10. Visited' = Visited
  BY <1>1 DEF Visited
<1>11. FrontiersAreWitnesses'
  BY <1>1, <1>10 DEF RInv, FrontiersAreWitnesses, WitnessOf
<1>12. comparisons' \in Nat
  BY DEF RetainRow, RInv, ReductionTypeOK
<1>13. ReductionTypeOK'
  BY <1>1, <1>6, <1>12 DEF RInv, ReductionTypeOK
<1> QED
  BY <1>9, <1>11, <1>13 DEF RInv

LEMMA EndRetainingKeepsRInv ==
    ASSUME RInv, EndRetaining PROVE RInv'
<1>1. /\ rows \in Seq(Row) /\ position \in 1..(Len(rows) + 1) /\ position > Len(rows)
      /\ pass = "retain" /\ pass' = "done"
      /\ UNCHANGED <<rows, position, frontiers, retained, comparisons, base>>
      /\ Len(rows) \in Nat /\ DOMAIN rows = 1..Len(rows)
  BY DEF RInv, ReductionTypeOK, EndRetaining
<1>2. Visited' = Visited
  BY <1>1 DEF Visited
<1>3. ReductionTypeOK' /\ FrontiersAreWitnesses'
  BY <1>1, <1>2 DEF RInv, ReductionTypeOK, FrontiersAreWitnesses, WitnessOf
<1>4. RetainedUpTo(Len(rows))
  <2>1. position - 1 = Len(rows)
    BY <1>1
  <2> QED
    BY <1>1, <2>1 DEF RInv, PassesInOrder
<1>5. PassesInOrder'
  BY <1>1, <1>4 DEF PassesInOrder, RetainedUpTo, Maximal, Members, Increasing
<1> QED
  BY <1>3, <1>5 DEF RInv

LEMMA StepKeepsRInv ==
    ASSUME RInv, ReductionStep PROVE RInv'
BY ObserveRowKeepsRInv, EndObservingKeepsRInv, RetainRowKeepsRInv,
   EndRetainingKeepsRInv DEF ReductionStep

LEMMA StutterKeepsRInv ==
    ASSUME RInv, UNCHANGED reduction PROVE RInv'
<1>1. /\ rows' = rows /\ pass' = pass /\ position' = position
      /\ frontiers' = frontiers /\ retained' = retained /\ comparisons' = comparisons
      /\ base' = base
  BY DEF reduction
<1>2. Visited' = Visited
  BY <1>1 DEF Visited
<1>3. ReductionTypeOK'
  BY <1>1 DEF RInv, ReductionTypeOK
<1>4. FrontiersAreWitnesses'
  BY <1>1, <1>2 DEF RInv, FrontiersAreWitnesses, WitnessOf
<1>5. PassesInOrder'
  BY <1>1 DEF RInv, PassesInOrder, RetainedUpTo, Maximal, Members, Increasing
<1> QED
  BY <1>3, <1>4, <1>5 DEF RInv

LEMMA RInvIsEnough == RInv => MaximaAreRetained
<1> SUFFICES ASSUME RInv, pass = "done" PROVE MaximaAreRetained
  BY DEF MaximaAreRetained
<1>1. RetainedUpTo(Len(rows)) /\ DOMAIN rows = 1..Len(rows)
  BY DEF RInv, PassesInOrder, ReductionTypeOK
<1> QED
  BY <1>1 DEF RetainedUpTo, Members, Increasing, MaximaAreRetained

(***************************************************************************)
(* retain_maximal and retain_maximal_by_key keep exactly the rows that the *)
(* pairwise definition keeps, in their order: for every calendar, every    *)
(* key type, and reductions of any length one after the other.             *)
(***************************************************************************)
THEOREM ReductionKeepsMaxima == ReductionSpec => []MaximaAreRetained
<1>1. RInv /\ [ReductionNext]_reduction => RInv'
  BY StepKeepsRInv, BeginKeepsRInv, StutterKeepsRInv DEF ReductionNext
<1> QED
  BY <1>1, InitEstablishesRInv, RInvIsEnough, PTL DEF ReductionSpec

(***************************************************************************)
(* The variables of a reduction keep their types.                          *)
(***************************************************************************)
THEOREM ReductionTypeCorrect == ReductionSpec => []ReductionTypeOK
<1>1. RInv /\ [ReductionNext]_reduction => RInv'
  BY StepKeepsRInv, BeginKeepsRInv, StutterKeepsRInv DEF ReductionNext
<1>2. RInv => ReductionTypeOK
  BY DEF RInv
<1> QED
  BY <1>1, <1>2, InitEstablishesRInv, PTL DEF ReductionSpec

-----------------------------------------------------------------------------
(***************************************************************************)
(* How many comparisons a reduction made.  The first pass compares every   *)
(* row but those that open a group; the second all but the witnesses.      *)
(***************************************************************************)
WitnessesPassed == {key \in DOMAIN frontiers : frontiers[key].witness < position}

Groups == Cardinality(DOMAIN frontiers)

WorkIsCounted ==
    /\ IsFiniteSet(DOMAIN frontiers)
    /\ pass = "observe" => comparisons - base = position - 1 - Groups
    /\ pass = "retain" => comparisons - base =
          (Len(rows) - Groups) + (position - 1 - Cardinality(WitnessesPassed))
    /\ pass = "done" => comparisons - base = 2 * (Len(rows) - Groups)

LEMMA InitCountsWork == ReductionInit => WorkIsCounted
BY FS_EmptySet DEF ReductionInit, WorkIsCounted, NoFrontiers

LEMMA BeginCountsWork ==
    ASSUME RInv, NEW input \in Seq(Row), BeginReduction(input) PROVE WorkIsCounted'
<1>1. /\ DOMAIN frontiers' = {} /\ pass' = "observe" /\ position' = 1
      /\ comparisons' = comparisons /\ base' = comparisons /\ comparisons \in Nat
  BY DEF BeginReduction, NoFrontiers, RInv, ReductionTypeOK
<1> QED
  BY <1>1, FS_EmptySet DEF WorkIsCounted, Groups

LEMMA ObserveRowCountsWork ==
    ASSUME RInv, WorkIsCounted, ObserveRow PROVE WorkIsCounted'
<1> DEFINE k == rows[position].key
<1>1. /\ pass = "observe" /\ pass' = "observe" /\ position' = position + 1
      /\ base' = base /\ position \in Nat /\ base \in Nat /\ comparisons \in Nat
  BY DEF ObserveRow, RInv, ReductionTypeOK
<1>2. DOMAIN frontiers' = DOMAIN frontiers \cup {k}
  BY DEF ObserveRow, SetFrontier
<1>3. /\ IsFiniteSet(DOMAIN frontiers) /\ Groups \in Nat
      /\ comparisons - base = position - 1 - Groups
  BY <1>1, FS_CardinalityType DEF WorkIsCounted, Groups
<1>4. /\ IsFiniteSet(DOMAIN frontiers')
      /\ Groups' = IF k \in DOMAIN frontiers THEN Groups ELSE Groups + 1
  <2> DEFINE G == DOMAIN frontiers
  <2>1. /\ IsFiniteSet(G \cup {k})
        /\ Cardinality(G \cup {k}) =
              IF k \in G THEN Cardinality(G) ELSE Cardinality(G) + 1
    <3> HIDE DEF k
    <3> QED
      BY <1>3, FS_AddElement
  <2> QED
    BY <1>2, <2>1 DEF Groups
<1>5. comparisons' = IF k \in DOMAIN frontiers THEN comparisons + 1 ELSE comparisons
  BY DEF ObserveRow
<1>6. comparisons' - base' = position' - 1 - Groups'
  BY <1>1, <1>3, <1>4, <1>5
<1> QED
  BY <1>1, <1>4, <1>6 DEF WorkIsCounted

LEMMA EndObservingCountsWork ==
    ASSUME RInv, WorkIsCounted, EndObserving PROVE WorkIsCounted'
<1>1. /\ pass = "observe" /\ pass' = "retain" /\ position' = 1 /\ rows' = rows
      /\ position = Len(rows) + 1 /\ Len(rows) \in Nat
      /\ UNCHANGED <<frontiers, comparisons, base>>
  BY DEF EndObserving, RInv, ReductionTypeOK
<1>2. /\ IsFiniteSet(DOMAIN frontiers) /\ Groups \in Nat
      /\ comparisons - base = Len(rows) - Groups
  BY <1>1, FS_CardinalityType DEF WorkIsCounted, Groups
<1>3. WitnessesPassed' = {}
  <2> SUFFICES ASSUME NEW key \in DOMAIN frontiers PROVE ~(frontiers[key].witness < 1)
    BY <1>1 DEF WitnessesPassed
  <2>1. frontiers[key].witness \in Nat \ {0}
    BY DEF RInv, ReductionTypeOK, Frontier
  <2> QED
    BY <2>1
<1>4. Cardinality(WitnessesPassed)' = 0
  BY <1>3, FS_EmptySet
<1> QED
  BY <1>1, <1>2, <1>4 DEF WorkIsCounted, Groups

(***************************************************************************)
(* Groups have different witnesses, so that a row is the witness of its    *)
(* own group or of none.                                                   *)
(***************************************************************************)
LEMMA RetainRowCountsWork ==
    ASSUME RInv, WorkIsCounted, RetainRow PROVE WorkIsCounted'
<1> DEFINE k == rows[position].key
           isWitness == position = frontiers[k].witness
<1>1. /\ pass = "retain" /\ pass' = "retain" /\ position' = position + 1 /\ rows' = rows
      /\ position \in Nat /\ Len(rows) \in Nat /\ position \in DOMAIN rows
      /\ base \in Nat /\ comparisons \in Nat /\ UNCHANGED <<frontiers, base>>
  BY DEF RetainRow, RInv, ReductionTypeOK
<1>2. comparisons' = IF isWitness THEN comparisons ELSE comparisons + 1
  BY DEF RetainRow
<1>3. k \in DOMAIN frontiers
  BY <1>1, KeptIffMaximal
<1>4. \A key \in DOMAIN frontiers :
          /\ frontiers[key].witness \in Nat
          /\ frontiers[key].witness = position => key = k
  BY DEF RInv, ReductionTypeOK, Frontier, FrontiersAreWitnesses, WitnessOf
<1>5. WitnessesPassed' = IF isWitness THEN WitnessesPassed \cup {k} ELSE WitnessesPassed
  <2>1. WitnessesPassed' = {key \in DOMAIN frontiers : frontiers[key].witness < position + 1}
    BY <1>1 DEF WitnessesPassed
  <2>2. \A key \in DOMAIN frontiers :
            frontiers[key].witness < position + 1
                <=> frontiers[key].witness < position \/ frontiers[key].witness = position
    BY <1>1, <1>4
  <2>3. WitnessesPassed' =
            WitnessesPassed \cup {key \in DOMAIN frontiers : frontiers[key].witness = position}
    BY <2>1, <2>2 DEF WitnessesPassed
  <2> QED
    BY <2>3, <1>3, <1>4
<1>6. k \notin WitnessesPassed \/ ~isWitness
  BY <1>1 DEF WitnessesPassed
<1>7. /\ IsFiniteSet(WitnessesPassed) /\ Cardinality(WitnessesPassed) \in Nat
      /\ IsFiniteSet(DOMAIN frontiers) /\ Groups \in Nat
  BY FS_Subset, FS_CardinalityType DEF WorkIsCounted, WitnessesPassed, Groups
<1>8. Cardinality(WitnessesPassed)' =
          IF isWitness THEN Cardinality(WitnessesPassed) + 1 ELSE Cardinality(WitnessesPassed)
  BY <1>5, <1>6, <1>7, FS_AddElement
<1>9. comparisons - base =
          (Len(rows) - Groups) + (position - 1 - Cardinality(WitnessesPassed))
  BY <1>1 DEF WorkIsCounted
<1>10. Groups' = Groups
  BY <1>1 DEF Groups
<1>11. comparisons' - base' =
           (Len(rows') - Groups') + (position' - 1 - Cardinality(WitnessesPassed)')
  BY <1>1, <1>2, <1>7, <1>8, <1>9, <1>10
<1> QED
  BY <1>1, <1>7, <1>11 DEF WorkIsCounted

LEMMA EndRetainingCountsWork ==
    ASSUME RInv, WorkIsCounted, EndRetaining PROVE WorkIsCounted'
<1>1. /\ pass = "retain" /\ pass' = "done" /\ rows' = rows
      /\ position = Len(rows) + 1 /\ Len(rows) \in Nat
      /\ UNCHANGED <<frontiers, comparisons, base>>
  BY DEF EndRetaining, RInv, ReductionTypeOK
<1>2. WitnessesPassed = DOMAIN frontiers
  <2> SUFFICES ASSUME NEW key \in DOMAIN frontiers
               PROVE  frontiers[key].witness < position
    BY DEF WitnessesPassed
  <2>1. frontiers[key].witness \in 1..Len(rows)
    BY <1>1 DEF RInv, ReductionTypeOK, FrontiersAreWitnesses, WitnessOf, Visited
  <2> QED
    BY <1>1, <2>1
<1>3. Cardinality(WitnessesPassed) = Groups /\ Groups \in Nat
  BY <1>2, FS_CardinalityType DEF WorkIsCounted, Groups
<1> QED
  BY <1>1, <1>3 DEF WorkIsCounted, Groups

LEMMA StepCountsWork ==
    ASSUME RInv, WorkIsCounted, ReductionStep PROVE WorkIsCounted'
BY ObserveRowCountsWork, EndObservingCountsWork, RetainRowCountsWork,
   EndRetainingCountsWork DEF ReductionStep

LEMMA StutterCountsWork ==
    ASSUME WorkIsCounted, UNCHANGED reduction PROVE WorkIsCounted'
BY DEF reduction, WorkIsCounted, Groups, WitnessesPassed

LEMMA CountedIsExact == WorkIsCounted => ComparisonsAreExact
BY DEF WorkIsCounted, ComparisonsAreExact, Groups

(***************************************************************************)
(* The work that the comment promises is the work that is done, 2(n - g)   *)
(* comparisons of n rows in g groups, wherever the witnesses are.          *)
(***************************************************************************)
THEOREM ReductionCountsItsWork == ReductionSpec => []ComparisonsAreExact
<1>1. ReductionInit => RInv /\ WorkIsCounted
  BY InitEstablishesRInv, InitCountsWork
<1>2. RInv /\ WorkIsCounted /\ [ReductionNext]_reduction => RInv' /\ WorkIsCounted'
  BY StepKeepsRInv, BeginKeepsRInv, StutterKeepsRInv, StepCountsWork, BeginCountsWork,
     StutterCountsWork DEF ReductionNext
<1> QED
  BY <1>1, <1>2, CountedIsExact, PTL DEF ReductionSpec

-----------------------------------------------------------------------------
(***************************************************************************)
(* The inductive invariant of resolve_budgeted: what its local variables   *)
(* hold at each of its stages, in the terms of the documented definition.  *)
(***************************************************************************)
Stages == {"begin", "collect", "retract", "filter", "targets", "assertions", "done", "failed"}

EffectTyped ==
    /\ candidates \in Seq(Candidate)
    /\ cut \in Cut
    /\ stage \in Stages
    /\ next \in Nat \ {0}
    /\ eligible \in Seq(DOMAIN candidates)
    /\ kept \in Seq(DOMAIN candidates)

SoundUpTo(last) == \A i \in DOMAIN candidates : i <= last => ~Malformed(candidates[i])

EligibleUpTo(last) == {i \in DOMAIN candidates : i <= last /\ Eligible(candidates[i])}

Collected ==
    /\ stage \in {"begin", "collect"} =>
          /\ pass = "none" /\ kept = <<>> /\ retractions = NoFrontiers
          /\ next <= Len(candidates) + 1
          /\ SoundUpTo(next - 1)
          /\ Members(eligible) = EligibleUpTo(next - 1)
    /\ stage \in {"retract", "filter", "targets", "assertions", "done"} =>
          /\ SoundUpTo(Len(candidates))
          /\ Members(eligible) = A1

(***************************************************************************)
(* A frontier of retractions has the latest start of the retractions by    *)
(* its positor of its target, of the first so many eligible candidates.    *)
(***************************************************************************)
Evidence(n) == candidates[eligible[n]]

IsRetraction(n, key) == Evidence(n).certainty = "zero" /\ RetractionKey(Evidence(n)) = key

RetractionWitness(f, key, last) ==
    /\ f \in Frontier
    /\ f.witness \in 1..last
    /\ IsRetraction(f.witness, key)
    /\ f.time = Evidence(f.witness).time
    /\ f.start = IntervalStart(f.time)
    /\ \A n \in 1..last : IsRetraction(n, key) => IntervalStart(Evidence(n).time) <= f.start

RetractionsUpTo(last, witnesses) ==
    /\ \A n \in 1..last : Evidence(n).certainty = "zero" =>
          RetractionKey(Evidence(n)) \in DOMAIN witnesses
    /\ \A key \in DOMAIN witnesses : RetractionWitness(witnesses[key], key, last)

RetractionsKnown ==
    /\ stage = "retract" =>
          /\ pass = "none" /\ kept = <<>>
          /\ next <= Len(eligible) + 1
          /\ RetractionsUpTo(next - 1, retractions)
    /\ stage = "filter" =>
          /\ pass = "none"
          /\ next <= Len(eligible) + 1
          /\ RetractionsUpTo(Len(eligible), retractions)
          /\ Members(kept) = {eligible[n] : n \in {m \in 1..(next - 1) : eligible[m] \in A2}}

TargetRows == [n \in DOMAIN kept |-> TargetRow(candidates[kept[n]])]

AssertionRows == [n \in DOMAIN kept |-> AssertionRow(candidates[kept[n]])]

Reduced ==
    /\ stage = "targets" => Members(kept) = A2 /\ rows = TargetRows
    /\ stage = "assertions" => Members(kept) = A3 /\ rows = AssertionRows
    /\ stage = "done" => effective = InEffect

SliceInv == EffectTyped /\ Collected /\ RetractionsKnown /\ Reduced

EffectInv == RInv /\ WorkIsCounted /\ SliceInv

(***************************************************************************)
(* What is malformed is not assessed any further: up to the cut, sound     *)
(* candidates are assertions about posits.                                 *)
(***************************************************************************)
LEMMA CandidatesAreTyped ==
    ASSUME EffectTyped, NEW i \in DOMAIN candidates
    PROVE  candidates[i] \in Candidate /\ candidates[i].time \in Time
<1>1. candidates[i] \in Candidate
  BY DEF EffectTyped
<1> QED
  BY <1>1 DEF Candidate

LEMMA A1IsTyped ==
    ASSUME EffectTyped, SoundUpTo(Len(candidates)), NEW i \in A1
    PROVE  /\ i \in DOMAIN candidates
           /\ candidates[i].positor \in Positors
           /\ candidates[i].target \in Target
           /\ candidates[i].time \in Time
           /\ candidates[i].target.time \in Time
<1>1. i \in DOMAIN candidates /\ candidates[i] \in Candidate /\ i <= Len(candidates)
  BY DEF A1, EffectTyped
<1>2. candidates[i].target # NoPosit
  BY <1>1 DEF A1, SoundUpTo, Malformed, Asserted
<1>3. candidates[i].target \in Target
  BY <1>1, <1>2 DEF Candidate
<1> QED
  BY <1>1, <1>3 DEF Candidate, Target

LEMMA EligibleIsA1 ==
    ASSUME EffectTyped, SoundUpTo(Len(candidates))
    PROVE  EligibleUpTo(Len(candidates)) = A1
<1>1. \A i \in DOMAIN candidates : i <= Len(candidates) /\ ~Malformed(candidates[i])
  BY DEF EffectTyped, SoundUpTo
<1> QED
  BY <1>1 DEF EligibleUpTo, Eligible, Asserted, A1

LEMMA InitEstablishesSlice == Init => SliceInv
<1> SUFFICES ASSUME Init PROVE SliceInv
  OBVIOUS
<1>1. candidates \in Seq(Candidate) /\ cut \in Cut
  BY EffectAssumption DEF Init
<1>2. EffectTyped
  BY <1>1 DEF Init, EffectTyped, Stages
<1>3. Collected
  <2>1. SoundUpTo(next - 1) /\ EligibleUpTo(next - 1) = {}
    <3>1. next = 1 /\ \A i \in DOMAIN candidates : ~(i <= next - 1)
      BY <1>1 DEF Init
    <3> QED
      BY <3>1 DEF SoundUpTo, EligibleUpTo
  <2>2. Members(eligible) = {}
    BY DEF Init, Members
  <2>3. /\ stage = "begin" /\ pass = "none" /\ kept = <<>> /\ retractions = NoFrontiers
        /\ next = 1 /\ Len(candidates) \in Nat
    BY <1>1 DEF Init, ReductionInit
  <2> QED
    BY <2>1, <2>2, <2>3 DEF Collected
<1>4. RetractionsKnown /\ Reduced
  BY DEF Init, RetractionsKnown, Reduced
<1> QED
  BY <1>2, <1>3, <1>4 DEF SliceInv

(***************************************************************************)
(* What does not touch the candidates keeps what is said of them.          *)
(***************************************************************************)
LEMMA SameCandidates ==
    ASSUME candidates' = candidates, cut' = cut
    PROVE  /\ \A c : /\ Asserted(c)' <=> Asserted(c)
                     /\ Malformed(c)' <=> Malformed(c)
                     /\ Eligible(c)' <=> Eligible(c)
           /\ \A last : /\ SoundUpTo(last)' <=> SoundUpTo(last)
                        /\ EligibleUpTo(last)' = EligibleUpTo(last)
           /\ A1' = A1 /\ A2' = A2 /\ A3' = A3 /\ InEffect' = InEffect
<1>1. \A c : /\ Asserted(c)' <=> Asserted(c)
             /\ Malformed(c)' <=> Malformed(c)
             /\ Eligible(c)' <=> Eligible(c)
  BY DEF Asserted, Malformed, Eligible
<1>2. \A last : /\ SoundUpTo(last)' <=> SoundUpTo(last)
                /\ EligibleUpTo(last)' = EligibleUpTo(last)
  BY <1>1 DEF SoundUpTo, EligibleUpTo
<1>3. A1' = A1
  BY DEF A1
<1>4. A2' = A2
  BY <1>3 DEF A2, Retracts
<1>5. A3' = A3
  BY <1>4 DEF A3, SameSet
<1>6. InEffect' = InEffect
  BY <1>5 DEF InEffect, SameSet
<1> QED
  BY <1>1, <1>2, <1>3, <1>4, <1>5, <1>6

LEMMA BeginKeepsSlice ==
    ASSUME SliceInv, Begin PROVE SliceInv'
<1>1. UNCHANGED <<reduction, candidates, cut, next, eligible, retractions, kept, effective>>
  BY DEF Begin
<1>2. stage = "begin" /\ stage' = "collect" /\ pass' = pass
  BY <1>1 DEF Begin, reduction
<1>3. EffectTyped'
  BY <1>1, <1>2 DEF SliceInv, EffectTyped, Stages
<1>4. Collected'
  BY <1>1, <1>2, SameCandidates DEF SliceInv, Collected, Members
<1>5. RetractionsKnown' /\ Reduced'
  BY <1>2 DEF RetractionsKnown, Reduced
<1> QED
  BY <1>3, <1>4, <1>5 DEF SliceInv

LEMMA CollectKeepsSlice ==
    ASSUME SliceInv, Collect PROVE SliceInv'
<1> DEFINE c == candidates[next]
<1>1. /\ stage = "collect" /\ stage' = "collect" /\ next' = next + 1 /\ pass' = pass
      /\ kept' = kept /\ retractions' = retractions /\ candidates' = candidates /\ cut' = cut
      /\ ~Malformed(c) /\ next <= Len(candidates)
      /\ eligible' = IF Eligible(c) THEN Append(eligible, next) ELSE eligible
  BY DEF Collect, reduction
<1>2. /\ next \in Nat \ {0} /\ Len(candidates) \in Nat /\ DOMAIN candidates = 1..Len(candidates)
      /\ next \in DOMAIN candidates /\ eligible \in Seq(DOMAIN candidates)
      /\ kept \in Seq(DOMAIN candidates)
      /\ eligible \in Seq(Nat)
  BY <1>1 DEF SliceInv, EffectTyped
<1>3. /\ pass = "none" /\ kept = <<>> /\ retractions = NoFrontiers
      /\ SoundUpTo(next - 1) /\ Members(eligible) = EligibleUpTo(next - 1)
  BY <1>1 DEF SliceInv, Collected
<1>4. eligible' \in Seq(DOMAIN candidates)
  <2>1. Append(eligible, next) \in Seq(DOMAIN candidates)
    BY <1>2
  <2> QED
    BY <1>1, <1>2, <2>1
<1>5. EffectTyped'
  BY <1>1, <1>2, <1>4 DEF SliceInv, EffectTyped
<1>6. SoundUpTo(next)
  <2>1. \A i \in DOMAIN candidates : i <= next => i <= next - 1 \/ i = next
    BY <1>2
  <2> QED
    BY <1>1, <1>3, <2>1 DEF SoundUpTo
<1>7. Members(eligible') = EligibleUpTo(next)
  <2>1. EligibleUpTo(next) = IF Eligible(c) THEN EligibleUpTo(next - 1) \cup {next}
                                            ELSE EligibleUpTo(next - 1)
    <3>1. \A i \in DOMAIN candidates : i <= next <=> (i <= next - 1 \/ i = next)
      BY <1>2
    <3> QED
      BY <1>2, <3>1 DEF EligibleUpTo
  <2>2. Members(Append(eligible, next)) = Members(eligible) \cup {next}
    BY <1>2, AppendMember
  <2> QED
    BY <1>1, <1>3, <2>1, <2>2
<1>8. Collected'
  <2>1. PICK n \in Nat : n = next /\ n = (next - 1)'
    BY <1>1, <1>2
  <2>2. SoundUpTo(n)' /\ Members(eligible') = EligibleUpTo(n)'
    BY <1>1, <1>6, <1>7, <2>1, SameCandidates
  <2>3. SoundUpTo(next - 1)' /\ Members(eligible)' = EligibleUpTo(next - 1)'
    BY <2>1, <2>2 DEF Members
  <2> QED
    BY <1>1, <1>2, <1>3, <2>3 DEF Collected
<1>9. RetractionsKnown' /\ Reduced'
  BY <1>1 DEF RetractionsKnown, Reduced
<1> QED
  BY <1>5, <1>8, <1>9 DEF SliceInv

LEMMA EndCollectKeepsSlice ==
    ASSUME SliceInv, EndCollect PROVE SliceInv'
<1>1. /\ stage = "collect" /\ stage' = "retract" /\ next' = 1 /\ next > Len(candidates)
      /\ pass' = pass /\ kept' = kept /\ retractions' = retractions
      /\ candidates' = candidates /\ cut' = cut /\ eligible' = eligible
  BY DEF EndCollect, EndLoop, reduction
<1>2. /\ pass = "none" /\ kept = <<>> /\ retractions = NoFrontiers
      /\ next <= Len(candidates) + 1 /\ next \in Nat /\ Len(candidates) \in Nat
      /\ SoundUpTo(next - 1) /\ Members(eligible) = EligibleUpTo(next - 1)
      /\ EffectTyped
  BY <1>1 DEF SliceInv, Collected, EffectTyped
<1>3. next - 1 = Len(candidates)
  BY <1>1, <1>2
<1>4. SoundUpTo(Len(candidates)) /\ Members(eligible) = A1
  BY <1>2, <1>3, EligibleIsA1
<1>5. EffectTyped'
  BY <1>1, <1>2 DEF EffectTyped, Stages
<1>6. Collected'
  <2>1. SoundUpTo(Len(candidates))' /\ Members(eligible)' = A1'
    BY <1>1, <1>4, SameCandidates DEF Members
  <2> QED
    BY <1>1, <2>1 DEF Collected
<1>7. RetractionsKnown'
  <2>1. RetractionsUpTo(next - 1, retractions)'
    BY <1>1, <1>2 DEF RetractionsUpTo, NoFrontiers
  <2>2. Len(eligible') \in Nat
    BY <1>5 DEF EffectTyped
  <2> QED
    BY <1>1, <1>2, <2>1, <2>2 DEF RetractionsKnown
<1>8. Reduced'
  BY <1>1 DEF Reduced
<1> QED
  BY <1>5, <1>6, <1>7, <1>8 DEF SliceInv

(***************************************************************************)
(* A retraction opens its frontier, replaces its witness or leaves it.     *)
(***************************************************************************)
LEMMA EvidenceIsTyped ==
    ASSUME EffectTyped, SoundUpTo(Len(candidates)), Members(eligible) = A1,
           NEW n \in 1..Len(eligible)
    PROVE  /\ eligible[n] \in A1
           /\ Evidence(n).time \in Time
           /\ IntervalStart(Evidence(n).time) \in Int
<1>1. eligible[n] \in A1
  BY DEF Members, EffectTyped
<1>2. Evidence(n).time \in Time
  BY <1>1, A1IsTyped DEF Evidence
<1> QED
  BY <1>1, <1>2, ProperIntervals

(***************************************************************************)
(* What is said of a table of witnesses is about the candidates only.      *)
(***************************************************************************)
LEMMA SameEvidence ==
    ASSUME candidates' = candidates, eligible' = eligible
    PROVE  \A last, witnesses :
               RetractionsUpTo(last, witnesses)' <=> RetractionsUpTo(last, witnesses)
BY DEF RetractionsUpTo, RetractionWitness, IsRetraction, Evidence, RetractionKey

LEMMA RetractExtends ==
    ASSUME EffectTyped, SoundUpTo(Len(candidates)), Members(eligible) = A1,
           NEW at \in 1..Len(eligible), at = next,
           RetractionsUpTo(at - 1, retractions), Retract
    PROVE  RetractionsUpTo(at, retractions')
<1> DEFINE c == Evidence(at)
           k == RetractionKey(c)
           s == IntervalStart(c.time)
<1>1. c.time \in Time /\ s \in Int /\ at \in Nat \ {0} /\ Len(eligible) \in Nat
  BY EvidenceIsTyped DEF EffectTyped
<1>2. /\ \A n \in 1..(at - 1) : Evidence(n).certainty = "zero" =>
            RetractionKey(Evidence(n)) \in DOMAIN retractions
      /\ \A key \in DOMAIN retractions : RetractionWitness(retractions[key], key, at - 1)
  BY DEF RetractionsUpTo
<1>3. \A n \in 1..at : n \in 1..(at - 1) \/ n = at
  BY <1>1
<1> DEFINE fresh == NewFrontier(c.time, at)
<1>4. /\ fresh \in Frontier /\ fresh.witness = at /\ fresh.time = c.time /\ fresh.start = s
  BY <1>1 DEF NewFrontier, Frontier
<1>5. /\ c.certainty # "zero" => retractions' = retractions
      /\ c.certainty = "zero" /\ k \notin DOMAIN retractions =>
            retractions' = SetFrontier(retractions, k, fresh)
      /\ c.certainty = "zero" /\ k \in DOMAIN retractions =>
            retractions' = SetFrontier(retractions, k, Observed(retractions[k], c.time, at))
  BY DEF Retract, Evidence
<1> HIDE DEF c, k, s, fresh
<1>6. \A n, key : IsRetraction(n, key) <=>
          Evidence(n).certainty = "zero" /\ RetractionKey(Evidence(n)) = key
  BY DEF IsRetraction
<1>7. \A key : IsRetraction(at, key) <=> c.certainty = "zero" /\ key = k
  BY <1>6 DEF c, k
<1>8. ASSUME NEW key, NEW f, RetractionWitness(f, key, at - 1),
             IsRetraction(at, key) => s <= f.start
      PROVE  RetractionWitness(f, key, at)
  <2>1. /\ f \in Frontier /\ f.witness \in 1..(at - 1) /\ IsRetraction(f.witness, key)
        /\ f.time = Evidence(f.witness).time /\ f.start = IntervalStart(f.time)
        /\ \A n \in 1..(at - 1) : IsRetraction(n, key) =>
              IntervalStart(Evidence(n).time) <= f.start
    BY <1>8 DEF RetractionWitness
  <2>2. f.witness \in 1..at
    BY <2>1, <1>1
  <2>3. \A n \in 1..at : IsRetraction(n, key) => IntervalStart(Evidence(n).time) <= f.start
    BY <1>3, <1>8, <2>1 DEF s, c
  <2> QED
    BY <2>1, <2>2, <2>3 DEF RetractionWitness
<1>9. ASSUME c.certainty = "zero",
             \A n \in 1..(at - 1) : IsRetraction(n, k) => IntervalStart(Evidence(n).time) <= s
      PROVE  RetractionWitness(fresh, k, at)
  <2>1. \A n \in 1..at : IsRetraction(n, k) => IntervalStart(Evidence(n).time) <= s
    <3>1. IntervalStart(Evidence(at).time) <= s
      BY <1>1 DEF s, c
    <3> QED
      BY <1>3, <1>9, <3>1
  <2>2. at \in 1..at /\ c = Evidence(at) /\ s = IntervalStart(c.time)
    BY <1>1 DEF c, s
  <2> QED
    BY <1>4, <1>7, <1>9, <2>1, <2>2 DEF RetractionWitness
<1>10. CASE c.certainty # "zero"
  <2>1. retractions' = retractions /\ \A key : ~IsRetraction(at, key)
    BY <1>5, <1>7, <1>10
  <2>2. \A key \in DOMAIN retractions : RetractionWitness(retractions[key], key, at)
    BY <1>2, <1>8, <2>1
  <2>3. \A n \in 1..at : Evidence(n).certainty = "zero" =>
            RetractionKey(Evidence(n)) \in DOMAIN retractions
    BY <1>2, <1>3, <1>10 DEF c
  <2> QED
    BY <2>1, <2>2, <2>3 DEF RetractionsUpTo
<1>11. ASSUME c.certainty = "zero", NEW f, RetractionWitness(f, k, at)
       PROVE  RetractionsUpTo(at, SetFrontier(retractions, k, f))
  <2> DEFINE table == SetFrontier(retractions, k, f)
  <2>1. /\ DOMAIN table = DOMAIN retractions \cup {k}
        /\ table[k] = f
        /\ \A key \in DOMAIN retractions : key # k => table[key] = retractions[key]
    BY DEF SetFrontier
  <2> HIDE DEF table
  <2>2. ASSUME NEW key \in DOMAIN table PROVE RetractionWitness(table[key], key, at)
    <3>1. CASE key = k
      BY <1>11, <2>1, <3>1
    <3>2. CASE key # k
      <4>1. key \in DOMAIN retractions /\ table[key] = retractions[key]
        BY <2>1, <2>2, <3>2
      <4>2. RetractionWitness(retractions[key], key, at - 1) /\ ~IsRetraction(at, key)
        BY <1>2, <1>7, <3>2, <4>1
      <4> QED
        BY <1>8, <4>1, <4>2
    <3> QED
      BY <3>1, <3>2
  <2>3. \A n \in 1..at : Evidence(n).certainty = "zero" =>
            RetractionKey(Evidence(n)) \in DOMAIN table
    BY <1>2, <1>3, <2>1 DEF c, k
  <2>4. RetractionsUpTo(at, table)
    BY <2>2, <2>3 DEF RetractionsUpTo
  <2> QED
    BY <2>4 DEF table
<1>12. CASE c.certainty = "zero" /\ k \notin DOMAIN retractions
  <2>1. \A n \in 1..(at - 1) : ~IsRetraction(n, k)
    BY <1>2, <1>6, <1>12
  <2>2. RetractionWitness(fresh, k, at)
    BY <1>9, <1>12, <2>1
  <2> QED
    BY <1>5, <1>11, <1>12, <2>2
<1>13. CASE c.certainty = "zero" /\ k \in DOMAIN retractions
  <2> DEFINE f == retractions[k]
  <2>1. RetractionWitness(f, k, at - 1)
    BY <1>2, <1>13
  <2>2. /\ f.start \in Int
        /\ \A n \in 1..(at - 1) : IsRetraction(n, k) => IntervalStart(Evidence(n).time) <= f.start
    BY <2>1 DEF RetractionWitness, Frontier
  <2>3. CASE s > f.start
    <3>1. Observed(f, c.time, at) = fresh
      BY <2>3 DEF Observed, fresh, s
    <3>2. ASSUME NEW n \in 1..(at - 1), IsRetraction(n, k)
          PROVE  IntervalStart(Evidence(n).time) <= s
      <4>1. n \in 1..Len(eligible)
        BY <1>1
      <4>2. IntervalStart(Evidence(n).time) \in Int
        BY <4>1, EvidenceIsTyped
      <4> QED
        BY <1>1, <2>2, <2>3, <3>2, <4>2
    <3>3. RetractionWitness(fresh, k, at)
      BY <1>9, <1>13, <3>2
    <3> QED
      BY <1>5, <1>11, <1>13, <3>1, <3>3
  <2>4. CASE ~(s > f.start)
    <3>1. Observed(f, c.time, at) = f
      BY <2>4 DEF Observed, s
    <3>2. s <= f.start
      BY <1>1, <2>2, <2>4
    <3>3. RetractionWitness(f, k, at)
      BY <1>8, <2>1, <3>2
    <3> QED
      BY <1>5, <1>11, <1>13, <3>1, <3>3
  <2> QED
    BY <2>3, <2>4
<1> QED
  BY <1>10, <1>12, <1>13

LEMMA RetractKeepsSlice ==
    ASSUME SliceInv, Retract PROVE SliceInv'
<1>1. /\ stage = "retract" /\ stage' = "retract" /\ next' = next + 1
      /\ next <= Len(eligible) /\ pass' = pass /\ kept' = kept
      /\ candidates' = candidates /\ cut' = cut /\ eligible' = eligible
  BY DEF Retract
<1>2. /\ EffectTyped /\ pass = "none" /\ kept = <<>> /\ RetractionsUpTo(next - 1, retractions)
      /\ SoundUpTo(Len(candidates)) /\ Members(eligible) = A1
      /\ next \in Nat \ {0} /\ Len(eligible) \in Nat
  BY <1>1 DEF SliceInv, Collected, RetractionsKnown, EffectTyped
<1>3. EffectTyped'
  BY <1>1, <1>2 DEF EffectTyped
<1>4. Collected'
  <2>1. SoundUpTo(Len(candidates))' /\ Members(eligible)' = A1'
    BY <1>1, <1>2, SameCandidates DEF Members
  <2> QED
    BY <1>1, <2>1 DEF Collected
<1>5. PICK at \in 1..Len(eligible) : at = next /\ at = (next - 1)'
  BY <1>1, <1>2
<1>6. RetractionsUpTo(at, retractions')
  BY <1>2, <1>5, RetractExtends
<1>7. RetractionsUpTo(next - 1, retractions)'
  BY <1>1, <1>5, <1>6, SameEvidence
<1>8. RetractionsKnown' /\ Reduced'
  BY <1>1, <1>2, <1>7 DEF RetractionsKnown, Reduced
<1> QED
  BY <1>3, <1>4, <1>8 DEF SliceInv

LEMMA EndRetractKeepsSlice ==
    ASSUME SliceInv, EndRetract PROVE SliceInv'
<1>1. /\ stage = "retract" /\ stage' = "filter" /\ next' = 1 /\ next > Len(eligible)
      /\ pass' = pass /\ kept' = kept /\ retractions' = retractions
      /\ candidates' = candidates /\ cut' = cut /\ eligible' = eligible
  BY DEF EndRetract, EndLoop, reduction
<1>2. /\ EffectTyped /\ pass = "none" /\ kept = <<>> /\ RetractionsUpTo(next - 1, retractions)
      /\ SoundUpTo(Len(candidates)) /\ Members(eligible) = A1
      /\ next \in Nat \ {0} /\ Len(eligible) \in Nat /\ next <= Len(eligible) + 1
  BY <1>1 DEF SliceInv, Collected, RetractionsKnown, EffectTyped
<1>3. EffectTyped'
  BY <1>1, <1>2 DEF EffectTyped, Stages
<1>4. Collected'
  <2>1. SoundUpTo(Len(candidates))' /\ Members(eligible)' = A1'
    BY <1>1, <1>2, SameCandidates DEF Members
  <2> QED
    BY <1>1, <2>1 DEF Collected
<1>5. RetractionsKnown'
  <2>1. RetractionsUpTo(Len(eligible), retractions)
    <3>1. next - 1 = Len(eligible)
      BY <1>1, <1>2
    <3> QED
      BY <1>2, <3>1
  <2>2. RetractionsUpTo(Len(eligible), retractions)'
    BY <1>1, <2>1, SameEvidence
  <2>3. /\ Members(kept') = {}
        /\ {eligible[n] : n \in {m \in 1..(1 - 1) : eligible[m] \in A2}} = {}
    BY <1>1, <1>2 DEF Members
  <2>4. (Members(kept) = {eligible[n] : n \in {m \in 1..(next - 1) : eligible[m] \in A2}})'
    BY <1>1, <2>3, SameCandidates DEF Members
  <2> QED
    BY <1>1, <1>2, <2>2, <2>4 DEF RetractionsKnown
<1>6. Reduced'
  BY <1>1 DEF Reduced
<1> QED
  BY <1>3, <1>4, <1>5, <1>6 DEF SliceInv

(***************************************************************************)
(* Comparing with the witness of the retractions is the same as comparing  *)
(* with every retraction.                                                  *)
(***************************************************************************)
LEMMA RetractedIffRetracts ==
    ASSUME EffectTyped, SoundUpTo(Len(candidates)), Members(eligible) = A1,
           RetractionsUpTo(Len(eligible), retractions), NEW i \in A1
    PROVE  Retracted(candidates[i]) <=> \E j \in A1 : Retracts(j, i)
<1> DEFINE t == candidates[i].time
           k == RetractionKey(candidates[i])
           f == retractions[k]
<1>1. t \in Time /\ DOMAIN eligible = 1..Len(eligible)
  BY A1IsTyped DEF EffectTyped
<1>2. ASSUME Retracted(candidates[i]) PROVE \E j \in A1 : Retracts(j, i)
  <2>1. k \in DOMAIN retractions /\ Dominates(f, t)
    BY <1>2 DEF Retracted
  <2>2. RetractionWitness(f, k, Len(eligible))
    BY <2>1 DEF RetractionsUpTo
  <2>3. PICK j : j = eligible[f.witness]
    OBVIOUS
  <2>4. /\ f.witness \in 1..Len(eligible) /\ candidates[j].certainty = "zero"
        /\ RetractionKey(candidates[j]) = k
        /\ f.time = candidates[j].time /\ f.start = IntervalStart(candidates[j].time)
    BY <2>2, <2>3 DEF RetractionWitness, IsRetraction, Evidence
  <2>5. j \in A1
    BY <1>1, <2>3, <2>4 DEF Members
  <2>6. /\ candidates[j].positor = candidates[i].positor
        /\ candidates[j].target.posit = candidates[i].target.posit
    BY <2>4 DEF RetractionKey
  <2>7. DefinitelyBefore(t, candidates[j].time)
    BY <2>1, <2>4 DEF Dominates, DefinitelyBefore
  <2> QED
    BY <2>4, <2>5, <2>6, <2>7 DEF Retracts
<1>3. ASSUME NEW j \in A1, Retracts(j, i) PROVE Retracted(candidates[i])
  <2>1. PICK n \in 1..Len(eligible) : eligible[n] = j
    BY <1>1 DEF Members
  <2>2. /\ Evidence(n) = candidates[j] /\ Evidence(n).certainty = "zero"
        /\ RetractionKey(Evidence(n)) = k
        /\ DefinitelyBefore(t, candidates[j].time)
    BY <1>3, <2>1 DEF Evidence, RetractionKey, Retracts
  <2>3. k \in DOMAIN retractions
    BY <2>2 DEF RetractionsUpTo
  <2>4. RetractionWitness(f, k, Len(eligible))
    BY <2>3 DEF RetractionsUpTo
  <2>5. /\ f \in Frontier /\ f.start = IntervalStart(f.time)
        /\ IntervalStart(candidates[j].time) <= f.start
    BY <2>2, <2>4 DEF RetractionWitness, IsRetraction
  <2>6. candidates[j].time \in Time
    BY A1IsTyped
  <2>7. Dominates(f, t)
    BY <1>1, <2>2, <2>5, <2>6, WitnessSuffices
  <2> QED
    BY <2>3, <2>7 DEF Retracted
<1> QED
  BY <1>2, <1>3

LEMMA FilterKeepsSlice ==
    ASSUME SliceInv, Filter PROVE SliceInv'
<1>1. /\ stage = "filter" /\ stage' = "filter" /\ next' = next + 1
      /\ next <= Len(eligible) /\ pass' = pass /\ retractions' = retractions
      /\ candidates' = candidates /\ cut' = cut /\ eligible' = eligible
      /\ kept' = IF \/ candidates[eligible[next]].certainty = "zero"
                    \/ Retracted(candidates[eligible[next]])
                   THEN kept ELSE Append(kept, eligible[next])
  BY DEF Filter
<1>2. /\ EffectTyped /\ pass = "none" /\ RetractionsUpTo(Len(eligible), retractions)
      /\ SoundUpTo(Len(candidates)) /\ Members(eligible) = A1
      /\ Members(kept) = {eligible[n] : n \in {m \in 1..(next - 1) : eligible[m] \in A2}}
      /\ next \in Nat \ {0} /\ Len(eligible) \in Nat
      /\ kept \in Seq(DOMAIN candidates) /\ DOMAIN candidates \subseteq Nat
  BY <1>1 DEF SliceInv, Collected, RetractionsKnown, EffectTyped
<1>3. PICK at \in 1..Len(eligible) : at = next /\ at = (next - 1)'
  BY <1>1, <1>2
<1>4. PICK i \in A1 : i = eligible[at]
  BY <1>2, EvidenceIsTyped
<1>5. i \in A2 <=> candidates[i].certainty # "zero" /\ ~Retracted(candidates[i])
  BY <1>2, RetractedIffRetracts DEF A2
<1>6. kept' = IF i \in A2 THEN Append(kept, i) ELSE kept
  BY <1>1, <1>3, <1>4, <1>5
<1>7. i \in DOMAIN candidates /\ kept \in Seq(Nat) /\ i \in Nat
  BY <1>2, A1IsTyped
<1>8. kept' \in Seq(DOMAIN candidates)
  <2>1. Append(kept, i) \in Seq(DOMAIN candidates)
    BY <1>2, <1>7
  <2> QED
    BY <1>2, <1>6, <2>1
<1>9. Members(kept') = IF i \in A2 THEN Members(kept) \cup {i} ELSE Members(kept)
  BY <1>6, <1>7, AppendMember
<1>10. Members(kept') = {eligible[n] : n \in {m \in 1..at : eligible[m] \in A2}}
  <2>1. \A m : m \in 1..at <=> m \in 1..(next - 1) \/ m = at
    BY <1>2, <1>3
  <2>2. {eligible[n] : n \in {m \in 1..at : eligible[m] \in A2}} =
            IF i \in A2
              THEN {eligible[n] : n \in {m \in 1..(next - 1) : eligible[m] \in A2}} \cup {i}
              ELSE {eligible[n] : n \in {m \in 1..(next - 1) : eligible[m] \in A2}}
    BY <1>4, <2>1
  <2> QED
    BY <1>2, <1>9, <2>2
<1>11. EffectTyped'
  BY <1>1, <1>2, <1>8 DEF EffectTyped
<1>12. Collected'
  <2>1. SoundUpTo(Len(candidates))' /\ Members(eligible)' = A1'
    BY <1>1, <1>2, SameCandidates DEF Members
  <2> QED
    BY <1>1, <2>1 DEF Collected
<1>13. RetractionsKnown'
  <2>1. RetractionsUpTo(Len(eligible), retractions)'
    BY <1>1, <1>2, SameEvidence
  <2>2. (Members(kept) = {eligible[n] : n \in {m \in 1..(next - 1) : eligible[m] \in A2}})'
    BY <1>1, <1>3, <1>10, SameCandidates DEF Members
  <2>3. (next <= Len(eligible) + 1)'
    BY <1>1, <1>2
  <2> QED
    BY <1>1, <1>2, <2>1, <2>2, <2>3 DEF RetractionsKnown
<1>14. Reduced'
  BY <1>1 DEF Reduced
<1> QED
  BY <1>11, <1>12, <1>13, <1>14 DEF SliceInv

-----------------------------------------------------------------------------
(***************************************************************************)
(* The two reductions get rows, and what they retain is what the pairwise  *)
(* definition of the next step says.                                       *)
(***************************************************************************)
LEMMA RowsOfKept ==
    ASSUME EffectTyped, SoundUpTo(Len(candidates)),
           NEW seq \in Seq(DOMAIN candidates), Members(seq) \subseteq A1
    PROVE  /\ [n \in DOMAIN seq |-> TargetRow(candidates[seq[n]])] \in Seq(Row)
           /\ [n \in DOMAIN seq |-> AssertionRow(candidates[seq[n]])] \in Seq(Row)
<1>1. DOMAIN seq = 1..Len(seq) /\ Len(seq) \in Nat
  OBVIOUS
<1>2. ASSUME NEW n \in DOMAIN seq
      PROVE  /\ TargetRow(candidates[seq[n]]) \in Row
             /\ AssertionRow(candidates[seq[n]]) \in Row
  <2>1. PICK i \in A1 : i = seq[n]
    BY DEF Members
  <2>2. /\ candidates[i].positor \in Positors
        /\ candidates[i].target.set \in AppearanceSets
        /\ candidates[i].target.value \in Values
        /\ candidates[i].time \in Time
        /\ candidates[i].target.time \in Time
    BY A1IsTyped DEF Target
  <2>3. /\ <<candidates[i].positor, candidates[i].target.set>> \in Keys
        /\ <<candidates[i].positor, candidates[i].target.set, candidates[i].target.value>> \in Keys
    BY <2>2, EffectAssumption
  <2> QED
    BY <2>1, <2>2, <2>3 DEF TargetRow, AssertionRow, Row
<1> QED
  BY <1>1, <1>2

LEMMA A2IsA1 == A2 \subseteq A1 /\ A3 \subseteq A2 /\ InEffect \subseteq A3
BY DEF A2, A3, InEffect

LEMMA SurvivorsAreMaximal ==
    ASSUME RInv, pass = "done", EffectTyped, DOMAIN rows = DOMAIN kept
    PROVE  /\ Survivors \in Seq(DOMAIN candidates)
           /\ Members(Survivors) = {kept[n] : n \in {m \in DOMAIN kept : Maximal(m)}}
<1>1. /\ retained \in Seq(DOMAIN rows) /\ DOMAIN retained = 1..Len(retained)
      /\ Len(retained) \in Nat
  BY DEF RInv, ReductionTypeOK
<1>2. kept \in Seq(DOMAIN candidates)
  BY DEF EffectTyped
<1>3. Survivors \in Seq(DOMAIN candidates)
  <2>1. \A n \in DOMAIN retained : kept[retained[n]] \in DOMAIN candidates
    BY <1>1, <1>2
  <2> QED
    BY <1>1, <2>1 DEF Survivors
<1>4. {retained[n] : n \in DOMAIN retained} = {m \in DOMAIN kept : Maximal(m)}
  BY RInvIsEnough DEF MaximaAreRetained
<1>5. Members(Survivors) = {kept[m] : m \in {retained[n] : n \in DOMAIN retained}}
  BY DEF Members, Survivors
<1> QED
  BY <1>3, <1>4, <1>5

LEMMA TargetsGiveA3 ==
    ASSUME RInv, pass = "done", EffectTyped, Members(kept) = A2, rows = TargetRows
    PROVE  Survivors \in Seq(DOMAIN candidates) /\ Members(Survivors) = A3
<1>1. /\ Survivors \in Seq(DOMAIN candidates)
      /\ Members(Survivors) = {kept[n] : n \in {m \in DOMAIN kept : Maximal(m)}}
  BY SurvivorsAreMaximal DEF TargetRows
<1>2. DOMAIN rows = DOMAIN kept /\ \A n \in DOMAIN kept : rows[n] = TargetRow(candidates[kept[n]])
  BY DEF TargetRows
<1>3. \A m, n \in DOMAIN kept :
          (rows[m].key = rows[n].key /\ DefinitelyBefore(rows[n].time, rows[m].time))
              <=> /\ SameSet(kept[n], kept[m])
                  /\ DefinitelyBefore(candidates[kept[n]].target.time,
                                      candidates[kept[m]].target.time)
  BY <1>2 DEF TargetRow, SameSet
<1>4. ASSUME NEW n \in DOMAIN kept
      PROVE  Maximal(n) <=> kept[n] \in A3
  <2>1. kept[n] \in A2
    BY DEF Members
  <2>2. Maximal(n) <=> ~ \E m \in DOMAIN kept :
            /\ SameSet(kept[n], kept[m])
            /\ DefinitelyBefore(candidates[kept[n]].target.time,
                                candidates[kept[m]].target.time)
    BY <1>2, <1>3 DEF Maximal
  <2>3. Maximal(n) <=> ~ \E j \in A2 :
            /\ SameSet(kept[n], j)
            /\ DefinitelyBefore(candidates[kept[n]].target.time, candidates[j].target.time)
    BY <2>2 DEF Members
  <2> QED
    BY <2>1, <2>3 DEF A3
<1>5. {kept[n] : n \in {m \in DOMAIN kept : Maximal(m)}} = A3
  <2>1. \A i \in A3 : \E n \in DOMAIN kept : kept[n] = i
    BY A2IsA1 DEF Members
  <2> QED
    BY <1>4, <2>1
<1> QED
  BY <1>1, <1>5

LEMMA AssertionsGiveInEffect ==
    ASSUME RInv, pass = "done", EffectTyped, Members(kept) = A3, rows = AssertionRows
    PROVE  Survivors \in Seq(DOMAIN candidates) /\ Members(Survivors) = InEffect
<1> DEFINE Later(i, j) == /\ SameSet(i, j)
                          /\ candidates[i].target.value = candidates[j].target.value
                          /\ DefinitelyBefore(candidates[i].time, candidates[j].time)
<1>1. /\ Survivors \in Seq(DOMAIN candidates)
      /\ Members(Survivors) = {kept[n] : n \in {m \in DOMAIN kept : Maximal(m)}}
  BY SurvivorsAreMaximal DEF AssertionRows
<1>2. /\ DOMAIN rows = DOMAIN kept
      /\ \A n \in DOMAIN kept : rows[n] = AssertionRow(candidates[kept[n]])
  BY DEF AssertionRows
<1>3. \A m, n \in DOMAIN kept :
          (rows[m].key = rows[n].key /\ DefinitelyBefore(rows[n].time, rows[m].time))
              <=> Later(kept[n], kept[m])
  BY <1>2 DEF AssertionRow, SameSet
<1>4. ASSUME NEW n \in DOMAIN kept
      PROVE  Maximal(n) <=> kept[n] \in InEffect
  <2>1. kept[n] \in A3
    BY DEF Members
  <2>2. Maximal(n) <=> ~ \E m \in DOMAIN kept : Later(kept[n], kept[m])
    BY <1>2, <1>3 DEF Maximal
  <2>3. Maximal(n) <=> ~ \E j \in A3 : Later(kept[n], j)
    <3> HIDE DEF Later
    <3> QED
      BY <2>2 DEF Members
  <2> QED
    BY <2>1, <2>3 DEF InEffect
<1>5. {kept[n] : n \in {m \in DOMAIN kept : Maximal(m)}} = InEffect
  <2>1. \A i \in InEffect : \E n \in DOMAIN kept : kept[n] = i
    BY A2IsA1 DEF Members
  <2> QED
    BY <1>4, <2>1
<1> QED
  BY <1>1, <1>5

LEMMA BeginTargetsKeeps ==
    ASSUME EffectInv, BeginTargets PROVE EffectInv'
<1>1. /\ stage = "filter" /\ stage' = "targets" /\ next > Len(eligible)
      /\ kept' = kept /\ candidates' = candidates /\ cut' = cut /\ eligible' = eligible
      /\ next' = next /\ rows' = TargetRows /\ BeginReduction(TargetRows)
  BY DEF BeginTargets, BeginReduction, TargetRows
<1>2. /\ EffectTyped /\ SoundUpTo(Len(candidates)) /\ Members(eligible) = A1
      /\ next <= Len(eligible) + 1 /\ next \in Nat /\ Len(eligible) \in Nat
      /\ DOMAIN eligible = 1..Len(eligible) /\ kept \in Seq(DOMAIN candidates)
      /\ Members(kept) = {eligible[n] : n \in {m \in 1..(next - 1) : eligible[m] \in A2}}
  BY <1>1 DEF EffectInv, SliceInv, Collected, RetractionsKnown, EffectTyped
<1>3. Members(kept) = A2
  <2>1. 1..(next - 1) = DOMAIN eligible
    BY <1>1, <1>2
  <2>2. \A i \in A2 : \E n \in DOMAIN eligible : eligible[n] = i
    BY <1>2, A2IsA1 DEF Members
  <2> QED
    BY <1>2, <2>1, <2>2
<1>4. TargetRows \in Seq(Row)
  BY <1>2, <1>3, RowsOfKept, A2IsA1 DEF TargetRows
<1>5. RInv' /\ WorkIsCounted'
  BY <1>1, <1>4, BeginKeepsRInv, BeginCountsWork DEF EffectInv
<1>6. EffectTyped'
  BY <1>1, <1>2 DEF EffectTyped, Stages
<1>7. Collected'
  <2>1. SoundUpTo(Len(candidates))' /\ Members(eligible)' = A1'
    BY <1>1, <1>2, SameCandidates DEF Members
  <2> QED
    BY <1>1, <2>1 DEF Collected
<1>8. RetractionsKnown'
  BY <1>1 DEF RetractionsKnown
<1>9. Reduced'
  <2>1. Members(kept)' = A2' /\ TargetRows' = TargetRows
    BY <1>1, <1>3, SameCandidates DEF Members, TargetRows, TargetRow
  <2> QED
    BY <1>1, <2>1 DEF Reduced
<1> QED
  BY <1>5, <1>6, <1>7, <1>8, <1>9 DEF EffectInv, SliceInv

LEMMA BeginAssertionsKeeps ==
    ASSUME EffectInv, BeginAssertions PROVE EffectInv'
<1> DEFINE input == [n \in DOMAIN Survivors |-> AssertionRow(candidates[Survivors[n]])]
<1>1. /\ stage = "targets" /\ stage' = "assertions" /\ pass = "done"
      /\ kept' = Survivors /\ candidates' = candidates /\ cut' = cut /\ eligible' = eligible
      /\ next' = next /\ rows' = input /\ BeginReduction(input)
  BY DEF BeginAssertions, BeginReduction
<1>2. /\ EffectTyped /\ SoundUpTo(Len(candidates)) /\ Members(eligible) = A1
      /\ Members(kept) = A2 /\ rows = TargetRows /\ RInv /\ WorkIsCounted
  BY <1>1 DEF EffectInv, SliceInv, Collected, Reduced
<1>3. Survivors \in Seq(DOMAIN candidates) /\ Members(Survivors) = A3
  BY <1>1, <1>2, TargetsGiveA3
<1>4. input \in Seq(Row)
  BY <1>2, <1>3, RowsOfKept, A2IsA1
<1>5. RInv' /\ WorkIsCounted'
  <2> HIDE DEF input
  <2> QED
    BY <1>1, <1>2, <1>4, BeginKeepsRInv, BeginCountsWork
<1>6. EffectTyped'
  BY <1>1, <1>2, <1>3 DEF EffectTyped, Stages
<1>7. Collected'
  <2>1. SoundUpTo(Len(candidates))' /\ Members(eligible)' = A1'
    BY <1>1, <1>2, SameCandidates DEF Members
  <2> QED
    BY <1>1, <2>1 DEF Collected
<1>8. RetractionsKnown'
  BY <1>1 DEF RetractionsKnown
<1>9. Reduced'
  <2>1. Members(kept') = A3
    BY <1>1, <1>3
  <2>2. Members(kept)' = A3'
    BY <1>1, <2>1, SameCandidates DEF Members
  <2>3. AssertionRows' = input
    BY <1>1 DEF AssertionRows, AssertionRow
  <2> QED
    BY <1>1, <2>2, <2>3 DEF Reduced
<1> QED
  BY <1>5, <1>6, <1>7, <1>8, <1>9 DEF EffectInv, SliceInv

LEMMA ReduceKeeps ==
    ASSUME EffectInv, Reduce PROVE EffectInv'
<1>1. /\ stage \in {"targets", "assertions"} /\ ReductionStep
      /\ UNCHANGED <<candidates, cut, stage, next, eligible, retractions, kept, effective>>
  BY DEF Reduce
<1>2. rows' = rows
  BY <1>1 DEF ReductionStep, ObserveRow, EndObserving, RetainRow, EndRetaining
<1>3. RInv' /\ WorkIsCounted'
  BY <1>1, StepKeepsRInv, StepCountsWork DEF EffectInv
<1>4. EffectTyped'
  BY <1>1 DEF EffectInv, SliceInv, EffectTyped
<1>5. Collected'
  <2>1. SoundUpTo(Len(candidates)) /\ Members(eligible) = A1
    BY <1>1 DEF EffectInv, SliceInv, Collected
  <2>2. SoundUpTo(Len(candidates))' /\ Members(eligible)' = A1'
    BY <1>1, <2>1, SameCandidates DEF Members
  <2> QED
    BY <1>1, <2>2 DEF Collected
<1>6. RetractionsKnown'
  BY <1>1 DEF RetractionsKnown
<1>7. Reduced'
  <2>1. /\ Members(kept)' = Members(kept) /\ TargetRows' = TargetRows
        /\ AssertionRows' = AssertionRows /\ A2' = A2 /\ A3' = A3
    BY <1>1, SameCandidates DEF Members, TargetRows, TargetRow, AssertionRows, AssertionRow
  <2> QED
    BY <1>1, <1>2, <2>1 DEF EffectInv, SliceInv, Reduced
<1> QED
  BY <1>3, <1>4, <1>5, <1>6, <1>7 DEF EffectInv, SliceInv

LEMMA ReturnKeeps ==
    ASSUME EffectInv, Return PROVE EffectInv'
<1>1. /\ stage = "assertions" /\ stage' = "done" /\ pass = "done" /\ kept' = Survivors
      /\ effective' = Members(Survivors)
      /\ UNCHANGED <<reduction, candidates, cut, next, eligible, retractions>>
  BY DEF Return, Members
<1>2. /\ EffectTyped /\ SoundUpTo(Len(candidates)) /\ Members(eligible) = A1
      /\ Members(kept) = A3 /\ rows = AssertionRows /\ RInv /\ WorkIsCounted
  BY <1>1 DEF EffectInv, SliceInv, Collected, Reduced
<1>3. Survivors \in Seq(DOMAIN candidates) /\ Members(Survivors) = InEffect
  BY <1>1, <1>2, AssertionsGiveInEffect
<1>4. RInv' /\ WorkIsCounted'
  BY <1>1, <1>2, StutterKeepsRInv, StutterCountsWork
<1>5. EffectTyped'
  BY <1>1, <1>2, <1>3 DEF EffectTyped, Stages
<1>6. Collected'
  <2>1. SoundUpTo(Len(candidates))' /\ Members(eligible)' = A1'
    BY <1>1, <1>2, SameCandidates DEF Members
  <2> QED
    BY <1>1, <2>1 DEF Collected
<1>7. RetractionsKnown' /\ Reduced'
  BY <1>1, <1>3, SameCandidates DEF RetractionsKnown, Reduced
<1> QED
  BY <1>4, <1>5, <1>6, <1>7 DEF EffectInv, SliceInv

LEMMA FailKeeps ==
    ASSUME EffectInv, Fail PROVE EffectInv'
<1>1. /\ stage' = "failed"
      /\ UNCHANGED <<reduction, candidates, cut, next, eligible, retractions, kept, effective>>
  BY DEF Fail
<1>2. RInv' /\ WorkIsCounted'
  BY <1>1, StutterKeepsRInv, StutterCountsWork DEF EffectInv
<1>3. EffectTyped'
  BY <1>1 DEF EffectInv, SliceInv, EffectTyped, Stages
<1>4. Collected' /\ RetractionsKnown' /\ Reduced'
  BY <1>1 DEF Collected, RetractionsKnown, Reduced
<1> QED
  BY <1>2, <1>3, <1>4 DEF EffectInv, SliceInv

LEMMA EffectStutters ==
    ASSUME EffectInv, UNCHANGED vars PROVE EffectInv'
<1>1. UNCHANGED <<reduction, candidates, cut, stage, next, eligible, retractions, kept, effective>>
  BY DEF vars
<1>2. RInv' /\ WorkIsCounted' /\ rows' = rows /\ pass' = pass
  BY <1>1, StutterKeepsRInv, StutterCountsWork DEF EffectInv, reduction
<1>3. EffectTyped'
  BY <1>1 DEF EffectInv, SliceInv, EffectTyped
<1>4. Members(eligible)' = Members(eligible) /\ Members(kept)' = Members(kept)
  BY <1>1 DEF Members
<1>5. Collected'
  BY <1>1, <1>2, <1>4, SameCandidates DEF EffectInv, SliceInv, Collected
<1>6. RetractionsKnown'
  BY <1>1, <1>2, <1>4, SameCandidates, SameEvidence DEF EffectInv, SliceInv, RetractionsKnown
<1>7. Reduced'
  <2>1. TargetRows' = TargetRows /\ AssertionRows' = AssertionRows
    BY <1>1 DEF TargetRows, TargetRow, AssertionRows, AssertionRow
  <2> QED
    BY <1>1, <1>2, <1>4, <2>1, SameCandidates DEF EffectInv, SliceInv, Reduced
<1> QED
  BY <1>2, <1>3, <1>5, <1>6, <1>7 DEF EffectInv, SliceInv

(***************************************************************************)
(* Before the first reduction the work is the candidates' own.             *)
(***************************************************************************)
LEMMA CandidateStepKeepsReduction ==
    ASSUME EffectInv, Begin \/ Collect \/ EndCollect \/ Retract \/ EndRetract \/ Filter
    PROVE  RInv' /\ WorkIsCounted'
<1>1. CASE UNCHANGED reduction
  BY <1>1, StutterKeepsRInv, StutterCountsWork DEF EffectInv
<1>2. CASE Retract \/ Filter
  <2>1. pass = "none" /\ UNCHANGED <<rows, pass, position, frontiers, retained, base>>
    BY <1>2 DEF Retract, Filter, EffectInv, SliceInv, RetractionsKnown
  <2>2. RInv /\ WorkIsCounted /\ comparisons \in Nat
    BY DEF EffectInv, RInv, ReductionTypeOK
  <2>3. comparisons' \in Nat
    BY <1>2, <2>2 DEF Retract, Filter
  <2>4. ReductionTypeOK'
    BY <2>1, <2>2, <2>3 DEF RInv, ReductionTypeOK
  <2>5. FrontiersAreWitnesses'
    BY <2>1, <2>2 DEF RInv, FrontiersAreWitnesses, WitnessOf, Visited
  <2>6. PassesInOrder'
    BY <2>1 DEF PassesInOrder
  <2>7. WorkIsCounted'
    BY <2>1, <2>2 DEF WorkIsCounted
  <2> QED
    BY <2>4, <2>5, <2>6, <2>7 DEF RInv
<1> QED
  BY <1>1, <1>2 DEF Begin, Collect, EndCollect, EndRetract, EndLoop

LEMMA EffectInvIsInductive ==
    ASSUME EffectInv, [Next]_vars PROVE EffectInv'
<1>1. CASE Begin \/ Collect \/ EndCollect \/ Retract \/ EndRetract \/ Filter
  <2>1. SliceInv'
    BY <1>1, BeginKeepsSlice, CollectKeepsSlice, EndCollectKeepsSlice,
       RetractKeepsSlice, EndRetractKeepsSlice, FilterKeepsSlice DEF EffectInv
  <2> QED
    BY <1>1, <2>1, CandidateStepKeepsReduction DEF EffectInv
<1>2. CASE BeginTargets
  BY <1>2, BeginTargetsKeeps
<1>3. CASE Reduce
  BY <1>3, ReduceKeeps
<1>4. CASE BeginAssertions
  BY <1>4, BeginAssertionsKeeps
<1>5. CASE Return
  BY <1>5, ReturnKeeps
<1>6. CASE Fail
  BY <1>6, FailKeeps
<1>7. CASE Finished \/ UNCHANGED vars
  BY <1>7, EffectStutters DEF Finished
<1> QED
  BY <1>1, <1>2, <1>3, <1>4, <1>5, <1>6, <1>7 DEF Next

LEMMA EffectInvIsEnough ==
    EffectInv => SliceIsDefined /\ MaximaAreRetained /\ ComparisonsAreExact
<1> SUFFICES ASSUME EffectInv
             PROVE  SliceIsDefined /\ MaximaAreRetained /\ ComparisonsAreExact
  OBVIOUS
<1>1. ASSUME stage = "done"
      PROVE  effective = InEffect /\ \A i \in DOMAIN candidates : ~Malformed(candidates[i])
  <2>1. effective = InEffect /\ SoundUpTo(Len(candidates)) /\ candidates \in Seq(Candidate)
    BY <1>1 DEF EffectInv, SliceInv, Collected, Reduced, EffectTyped
  <2> QED
    BY <2>1 DEF SoundUpTo
<1>2. SliceIsDefined
  BY <1>1 DEF SliceIsDefined
<1>3. MaximaAreRetained /\ ComparisonsAreExact
  BY RInvIsEnough, CountedIsExact DEF EffectInv
<1> QED
  BY <1>2, <1>3

LEMMA InitEstablishesEffect == Init => EffectInv
BY InitEstablishesSlice, InitEstablishesRInv, InitCountsWork DEF Init, EffectInv

(***************************************************************************)
(* The slice that resolve returns is the one that the desugaring of        *)
(* information in effect defines, for any candidates in any order, cuts,   *)
(* calendar and limits; malformed evidence up to the cut never yields one. *)
(***************************************************************************)
THEOREM SliceAlwaysDefined == Spec => []SliceIsDefined
<1>1. EffectInv /\ [Next]_vars => EffectInv'
  BY EffectInvIsInductive
<1>2. EffectInv => SliceIsDefined
  BY EffectInvIsEnough
<1> QED
  BY <1>1, <1>2, InitEstablishesEffect, PTL DEF Spec

(***************************************************************************)
(* The reductions inside resolve keep exactly the pairwise maxima of their *)
(* groups and make exactly the comparisons that they promise.              *)
(***************************************************************************)
THEOREM EffectReducesExactly == Spec => []MaximaAreRetained /\ []ComparisonsAreExact
<1>1. EffectInv /\ [Next]_vars => EffectInv'
  BY EffectInvIsInductive
<1>2. EffectInv => MaximaAreRetained /\ ComparisonsAreExact
  BY EffectInvIsEnough
<1> QED
  BY <1>1, <1>2, InitEstablishesEffect, PTL DEF Spec
=============================================================================
