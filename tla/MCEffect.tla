------------------------------ MODULE MCEffect ------------------------------
(***************************************************************************)
(* Effect on a calendar of two years of two days of two instants: every    *)
(* set of up to four assertions from a pool, in two orders.                *)
(***************************************************************************)
EXTENDS Effect, FiniteSetsExt, SequencesExt

MCFirst == [kind \in {"Year", "Date"} |-> 0]
MCLast == [kind \in {"Year", "Date"} |-> IF kind = "Year" THEN 1 ELSE 3]
MCBoundary(kind, n) == IF kind = "Year" THEN 4 * n ELSE 2 * n

MCNegativeInfinity == -99

Year(n) == [kind |-> "Year", unit |-> n]
Date(n) == [kind |-> "Date", unit |-> n]

MCKeys ==
    (Positors \X AppearanceSets) \cup (Positors \X AppearanceSets \X Values)

About(posit, value, time) == [posit |-> posit, set |-> "s", value |-> value, time |-> time]

Early == About(11, "v", Date(0))
Vague == About(12, "v", Year(0))
Late == About(13, "w", Date(1))
Other == [Late EXCEPT !.posit = 14, !.set = "t"]

Says(positor, target, certainty, time) ==
    [exact |-> TRUE, positor |-> positor, target |-> target,
     certainty |-> certainty, time |-> time]

Assertions ==
    {Says("p", target, "nonzero", time) :
        target \in {Early, Vague, Late}, time \in {BeginningOfTime, Date(1), Year(0)}}
    \cup {Says("p", Early, "zero", time) : time \in {Date(1), Date(2), EndOfTime}}
    \cup {Says("p", Other, "nonzero", Date(2)), Says("p", Early, "nonzero", Date(2)),
          Says("p", Late, "zero", Year(1)), Says("q", Late, "nonzero", Date(3))}

Flawed ==
    {Says("p", NoPosit, "nonzero", Date(1)), Says("p", Early, "none", Date(2)),
     [Says("q", Early, "none", Date(0)) EXCEPT !.exact = FALSE]}

MCCandidates ==
    (UNION {kSubset(n, Assertions) : n \in 0..4})
    \cup {S \cup {c} : S \in kSubset(2, Assertions), c \in Flawed}

MCBodies ==
    LET ascending == {SetToSeq(S) : S \in MCCandidates}
    IN  ascending \cup {Reverse(s) : s \in ascending}

MCCuts ==
    {[assertion |-> EndOfTime, appearance |-> Date(2)],
     [assertion |-> Date(2), appearance |-> Date(1)]}
=============================================================================
