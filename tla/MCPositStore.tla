---------------------------- MODULE MCPositStore ----------------------------
(***************************************************************************)
(* Small instances of PositStore for TLC: one role of the client's, and    *)
(* commands that insert, recall, repeat and assert, one of them in a posit *)
(* that the client writes itself.                                          *)
(***************************************************************************)
EXTENDS PositStore

MCNames == {"wife", "thing", "posit", "ascertains"}
MCValues == {"v", Certainty}

MCRoleCommands == {<<"wife", "wife">>}

Target(apps) == [appearances |-> apps, value |-> "v"]

(***************************************************************************)
(* add posit [{(+1, thing)}, v] and assert by 1                            *)
(***************************************************************************)
Asserted ==
    [inserts |-> 1, targets |-> <<Target({<<"thing", 1>>})>>,
     assertions |-> <<[target |-> 1, positor |-> 1]>>]

(***************************************************************************)
(* The same about two recalled things, or about one given twice, and the   *)
(* second asserted by the first.                                           *)
(***************************************************************************)
Fanned ==
    [inserts |-> 0,
     targets |-> <<Target({<<"thing", 0>>}), Target({<<"thing", -1>>})>>,
     assertions |-> <<[target |-> 2, positor |-> 0]>>]

(***************************************************************************)
(* add posit [{(x, posit), (+1, ascertains)}, 100%], where x may be no     *)
(* posit.                                                                  *)
(***************************************************************************)
Claimed ==
    [inserts |-> 1,
     targets |-> <<[appearances |-> {<<"posit", 0>>, <<"ascertains", 1>>},
                    value |-> Certainty]>>,
     assertions |-> <<>>]

(***************************************************************************)
(* A role that may not exist yet, and two things in one role.              *)
(***************************************************************************)
Refused ==
    [inserts |-> 1,
     targets |-> <<Target({<<"wife", 0>>}), Target({<<"thing", 0>>, <<"thing", 1>>})>>,
     assertions |-> <<>>]

MCPositCommands == {Asserted, Fanned, Claimed, Refused}

(***************************************************************************)
(* What a command that failed left in the indexes: at most one appearance  *)
(* set or appearance, except in a process that only refuses from then on.  *)
(***************************************************************************)
Leftovers ==
    LET used == {p.appearances : p \in posits \cup PositsOf(Range(command.prepared))}
                    \cup {target[1] : target \in Range(command.targets)}
    IN  Cardinality(sets \ used) + Cardinality(appearances \ UNION sets)

OneLeftover == poisoned \/ Leftovers <= 1
=============================================================================
