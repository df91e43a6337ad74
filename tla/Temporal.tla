------------------------------ MODULE Temporal ------------------------------
(***************************************************************************)
(* Times and how they compare: Time of src/datatype.rs.                    *)
(*                                                                         *)
(* A time is one of two sentinels, or names a whole unit: a year, a month, *)
(* a day, or a moment.  It stands for a half-open interval of instants,    *)
(* and times are compared as intervals.                                    *)
(*                                                                         *)
(* Instants are numbers.  The calendar is left to the constant Boundary:   *)
(* unit n of a kind begins at the instant Boundary(kind, n).  Units are    *)
(* numbered through, a month is 12 * year + month; each kind has a last    *)
(* unit, where the addition in `interval` overflows.  Leap seconds are     *)
(* left out.                                                               *)
(***************************************************************************)
EXTENDS Integers

CONSTANTS
    Kinds,              \* the concrete variants of TimeType
    FirstUnit,          \* the first and the last unit of each kind
    LastUnit,
    Boundary(_, _),     \* where a unit begins
    NegativeInfinity,   \* TemporalBound
    PositiveInfinity

Units(kind) == FirstUnit[kind]..LastUnit[kind]

ASSUME TemporalAssumption ==
    /\ Kinds \subseteq STRING \ {"BeginningOfTime", "EndOfTime"}
    /\ FirstUnit \in [Kinds -> Int]
    /\ LastUnit \in [Kinds -> Int]
    /\ NegativeInfinity \in Int
    /\ PositiveInfinity \in Int
    /\ NegativeInfinity < PositiveInfinity
    /\ \A kind \in Kinds : \A n \in Units(kind) :
          /\ Boundary(kind, n) \in Int
          /\ NegativeInfinity < Boundary(kind, n)
          /\ Boundary(kind, n) < PositiveInfinity
          /\ \A m \in Units(kind) : n < m => Boundary(kind, n) < Boundary(kind, m)

BeginningOfTime == [kind |-> "BeginningOfTime", unit |-> 0]

EndOfTime == [kind |-> "EndOfTime", unit |-> 0]

Concrete == {t \in [kind: Kinds, unit: Int] : t.unit \in Units(t.kind)}

Time == {BeginningOfTime, EndOfTime} \cup Concrete

(***************************************************************************)
(* Time::interval: the sentinels have empty intervals at either end, and   *)
(* the last unit of a kind has no end.                                     *)
(***************************************************************************)
IntervalStart(t) ==
    CASE t = BeginningOfTime -> NegativeInfinity
      [] t = EndOfTime       -> PositiveInfinity
      [] OTHER               -> Boundary(t.kind, t.unit)

IntervalEnd(t) ==
    CASE t = BeginningOfTime -> NegativeInfinity
      [] t = EndOfTime       -> PositiveInfinity
      [] OTHER               -> IF t.unit = LastUnit[t.kind]
                                  THEN PositiveInfinity
                                  ELSE Boundary(t.kind, t.unit + 1)

-----------------------------------------------------------------------------
DefinitelyBefore(t, u) == t # u /\ IntervalEnd(t) <= IntervalStart(u)

DefinitelyAfter(t, u) == t # u /\ IntervalStart(t) >= IntervalEnd(u)

DefinitelyAtOrBefore(t, u) == t = u \/ DefinitelyBefore(t, u)

DefinitelyAtOrAfter(t, u) == t = u \/ DefinitelyAfter(t, u)

PossiblyBefore(t, u) == IntervalStart(t) < IntervalEnd(u)

PossiblyAfter(t, u) == IntervalEnd(t) > IntervalStart(u)

Overlaps(t, u) ==
    IntervalStart(t) < IntervalEnd(u) /\ IntervalStart(u) < IntervalEnd(t)

ContainsTime(t, u) ==
    IntervalStart(t) <= IntervalStart(u) /\ IntervalEnd(t) >= IntervalEnd(u)

Within(t, u) == ContainsTime(u, t)
=============================================================================
