----------------------------- MODULE MCTerrain ------------------------------
(***************************************************************************)
(* Terrain on three attributes of four things and relationships of two and *)
(* three of them, over two years of two days.                              *)
(***************************************************************************)
EXTENDS Terrain

MCFirst == [kind \in {"Year", "Date"} |-> 0]
MCLast == [kind \in {"Year", "Date"} |-> IF kind = "Year" THEN 1 ELSE 3]
MCBoundary(kind, n) == IF kind = "Year" THEN 4 * n ELSE 2 * n

MCNegativeInfinity == -99

Year(n) == [kind |-> "Year", unit |-> n]
Date(n) == [kind |-> "Date", unit |-> n]

(***************************************************************************)
(* Roles by identity: name, hair, height, owner, pet.                      *)
(***************************************************************************)
MCNameRank == <<4, 1, 2, 3, 5>>

A(posit, set, time) == [posit |-> posit, set |-> set, time |-> time]

Attributes ==
    {A(11, {<<1, 21>>}, Date(0)), A(12, {<<1, 22>>}, Date(2)), A(13, {<<2, 21>>}, Date(0)),
     A(14, {<<2, 23>>}, Year(0)), A(15, {<<3, 24>>}, Date(1))}

Owns == {<<4, 21>>, <<5, 23>>}

Others ==
    {A(16, Owns, Date(0)), A(17, Owns, Year(0)), A(18, Owns, Date(2)),
     A(19, {<<4, 22>>, <<5, 21>>}, Date(1)), A(20, {<<3, 22>>, <<4, 21>>, <<5, 23>>}, Date(0))}

MCDatabases == {S \cup T : S \in SUBSET Attributes, T \in kSubset(2, Others)}

MCCommands ==
    {<<A(31, {<<3, 23>>, <<4, 21>>}, Date(0)), A(32, {<<5, 22>>, <<1, 23>>}, EndOfTime)>>}

MCCutoffs == {Date(1), EndOfTime}
=============================================================================
