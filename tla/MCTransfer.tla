----------------------------- MODULE MCTransfer -----------------------------
(***************************************************************************)
(* Transfer on small instances: stores with a role and a posit that is     *)
(* asserted, and files that were reordered or are no exports.              *)
(***************************************************************************)
EXTENDS Transfer

Posit(id, appearances, value) == NewPosit(id, <<appearances, value>>)

(***************************************************************************)
(* Identities with a gap, one of them a thing only; an assertion about a   *)
(* posit, one about a posit that is an assertion, and an envelope that a   *)
(* client wrote about what is no posit.                                    *)
(***************************************************************************)
Wife == NewRole(6, "wife")
Married == Posit(9, {<<6, 7>>}, "v")
Asserted == Posit(10, {<<PositRole, 9>>, <<AscertainsRole, 7>>}, Certainty)
Again == Posit(12, {<<PositRole, 10>>, <<AscertainsRole, 11>>}, Certainty)
Claim == Posit(13, {<<PositRole, 11>>, <<AscertainsRole, 7>>}, Certainty)

(***************************************************************************)
(* A role that is a thing, and identities that start above the first       *)
(* number.                                                                 *)
(***************************************************************************)
Late == NewRole(8, "wife")
Class == Posit(9, {<<4, 8>>, <<3, 1>>}, "v")

Bare == Range(Bootstrap)

MCStores == {Bare, Bare \cup {Wife, Married, Asserted, Again, Claim},
             Bare \cup {Late, Class}}

Lines(records) == <<HeaderLine>> \o Bootstrap \o records

MCOtherFiles ==
    {Lines(<<Wife, Again, Asserted, Married>>),
     Lines(<<Wife, Married, Posit(11, {<<6, 7>>}, "v")>>),
     Lines(<<Wife, Married, NewRole(8, "wife")>>),
     Lines(<<Married>>),
     Lines(<<Wife>> \o [i \in 1..4 |-> Posit(6 + 2 * i, {<<6, 5 + 2 * i>>}, "v")]),
     Lines(<<Wife, Posit(9, {<<6, 7>>, <<6, 8>>}, "v")>>),
     Lines(<<NewRole(6, "wi~fe"), Married>>),
     <<HeaderLine, Wife, Married>>,
     Bootstrap}
=============================================================================
