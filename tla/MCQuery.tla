------------------------------ MODULE MCQuery -------------------------------
(***************************************************************************)
(* Searches like those of the pipeline tests over four stores: histories   *)
(* with overlapping times, a set with the same thing in two roles, a posit *)
(* about a posit, literals of three families, and two positors.            *)
(***************************************************************************)
EXTENDS Query, TLC

MCFirst == [kind \in {"Year", "Date"} |-> 0]
MCLast == [kind \in {"Year", "Date"} |-> IF kind = "Year" THEN 1 ELSE 3]
MCBoundary(kind, n) == IF kind = "Year" THEN 4 * n ELSE 2 * n
MCNegativeInfinity == -99

Year(n) == [kind |-> "Year", unit |-> n]
Date(n) == [kind |-> "Date", unit |-> n]

Integer(n) == [family |-> "Integer", amount |-> n]
Decimal(n) == [family |-> "Decimal", amount |-> n]
Certainty(n) == [family |-> "Certainty", amount |-> n]

\* Roles 1, 2 and 3, things 11 and 12, posits from 21.
left == 1
right == 2
aux == 3
posit == 4
ascertains == 5

Posit(set, value, time) == [set |-> set, value |-> value, time |-> time]

Store ==
    [p \in 21..28 |->
        CASE p = 21 -> Posit(left :> 11, Integer(0), Year(0))
          [] p = 22 -> Posit(left :> 11, Integer(1), Date(2))
          [] p = 23 -> Posit(left :> 12, Decimal(0), Date(0))
          [] p = 24 -> Posit(left :> 12, Integer(1), Year(0))
          [] p = 25 -> Posit(right :> 11, Integer(1), Year(0))
          [] p = 26 -> Posit(left :> 12 @@ right :> 12, Integer(2), Date(2))
          [] p = 27 -> Posit(right :> 12, Integer(0), EndOfTime)
          [] p = 28 -> Posit(aux :> 22, Certainty(0), Year(1))]

\* A posit in the place of a thing, an uncertain succession, the least time.
Other ==
    [p \in 21..25 |->
        CASE p = 21 -> Posit(left :> 11, Integer(0), Year(1))
          [] p = 22 -> Posit(left :> 11, Integer(0), Date(3))
          [] p = 23 -> Posit(left :> 21, Decimal(0), BeginningOfTime)
          [] p = 24 -> Posit(right :> 21, Integer(1), Date(0))
          [] p = 25 -> Posit(right :> 11 @@ aux :> 11, Integer(1), Year(0))]

\* Overlapping targets, a retraction, and a later view of one positor.
Asserts(target, positor, certainty, time) ==
    Posit(posit :> target @@ ascertains :> positor, Certainty(certainty), time)

Evidence ==
    [p \in 21..29 |->
        CASE p = 21 -> Posit(left :> 11, Integer(0), Year(0))
          [] p = 22 -> Posit(left :> 11, Integer(1), Date(2))
          [] p = 23 -> Posit(left :> 11, Integer(0), Date(0))
          [] p = 24 -> Asserts(21, 11, 1, Date(0))
          [] p = 25 -> Asserts(22, 11, 1, Year(0))
          [] p = 26 -> Asserts(21, 12, 1, Date(0))
          [] p = 27 -> Asserts(21, 12, 0, Date(1))
          [] p = 28 -> Asserts(23, 12, 1, Date(2))
          [] p = 29 -> Posit(right :> 11, Integer(1), Year(0))]

\* The same with an assertion of something that is no posit.
Dangling == [p \in 21..30 |-> IF p = 30 THEN Asserts(12, 12, 1, Date(3)) ELSE Evidence[p]]

MCDatabases == {Store, Other, Evidence, Dangling}

-----------------------------------------------------------------------------
V(name) == Variable(name)

Member(thing, role) == [thing |-> thing, role |-> role]

Pattern(members, value, time) ==
    [posit |-> NoName, binding |-> NoName, any |-> FALSE, open |-> FALSE,
     members |-> members, value |-> value, time |-> time,
     cutoff |-> NoCutoff, latest |-> FALSE, effect |-> NotInEffect]

\* [{(thing, role)}, value, *]
Has(thing, role, value) ==
    Pattern(<<Member(thing, Exactly(role))>>, value, Anything)

AsOf(pattern, time) == [pattern EXCEPT !.cutoff = Exactly(time)]

Effective(pattern, assertion, appearance, via) ==
    [pattern EXCEPT !.effect = InEffect(assertion, appearance, via)]

Left == Has(V("x"), left, V("v"))

Body(branches) == [branches |-> branches, absences |-> <<>>, predicates |-> <<>>]

Unless(block, body) == [body EXCEPT !.absences = Append(@, block)]

Where(variable, operator, operand, body) ==
    [body EXCEPT !.predicates =
        Append(@, [left |-> variable, operator |-> operator, right |-> operand])]

Literal(v) == Exactly(<<"Literal", v>>)

Join2(first, second) == Body(<< <<first, second>> >>)

Envelope ==
    Pattern(<<Member(V("p"), Exactly(posit)), Member(V("y"), Exactly(ascertains))>>,
            Anything, Anything)

Bodies ==
    {\* One pattern, cross product, joins on a thing and on a value, union, absence.
     Body(<< <<Left>> >>),
     Join2(Left, Has(V("y"), right, V("w"))),
     Join2(Left, Has(V("x"), right, V("v"))),
     Body(<< <<Left, Has(V("y"), left, Anything)>>, <<Has(V("x"), right, V("v"))>> >>),
     Unless(<<Has(V("x"), right, Anything), Has(Anything, left, Anything)>>, Body(<< <<Left>> >>)),
     \* Histories.
     Body(<< <<AsOf(Left, Year(1))>> >>),
     Body(<< <<[AsOf(Left, Date(2)) EXCEPT !.latest = TRUE, !.time = Exactly(Year(0))]>> >>),
     Join2(Has(Anything, left, V("v")), AsOf(Left, Date(2))),
     Join2([Has(Anything, right, Anything) EXCEPT !.time = V("t")],
           [AsOf(Left, Date(2)) EXCEPT !.time = V("t")]),
     Join2([Has(Anything, right, Anything) EXCEPT !.time = V("t")],
           [Left EXCEPT !.cutoff = V("t")]),
     Join2([Left EXCEPT !.posit = "p"], [AsOf(Left, Date(2)) EXCEPT !.posit = "p"]),
     Unless(<<AsOf(Has(V("x"), left, V("v")), EndOfTime)>>, Body(<< <<Left>> >>)),
     \* Predicates.
     Where("v", "===", Literal(Integer(0)), Join2(Left, Has(V("y"), right, V("w")))),
     Where("v", "===", V("w"), Join2(Left, Has(V("y"), right, V("w")))),
     Where("v", "=", V("w"), Join2(Left, Has(V("y"), right, V("w")))),
     Where("t", "<", Exactly(<<"Time", Year(1)>>), Body(<< <<[Left EXCEPT !.time = V("t")]>> >>)),
     Where("v", "<", Literal(Integer(1)), Body(<< <<Has(V("x"), left, V("v"))>> >>)),
     Where("v", ">=", Literal(Integer(1)), Body(<< <<Pattern(<<Member(V("x"), V("r"))>>, V("v"), Anything)>> >>)),
     \* Members.
     Body(<< <<[Pattern(<<Member(V("x"), Anything), Member(Anything, Anything)>>, V("v"), Anything)
                    EXCEPT !.open = TRUE]>> >>),
     Body(<< <<Pattern(<<Member(V("x"), V("r")), Member(V("x"), V("r2"))>>, V("v"), Anything)>> >>),
     Body(<< <<[Left EXCEPT !.binding = "s"], [Pattern(<<>>, V("w"), Anything)
                    EXCEPT !.binding = "s", !.any = TRUE]>> >>),
     Body(<< <<Left, Has(V("y"), right, Anything),
               [Pattern(<<Member(OneOf({"x", "y"}), Exactly(left))>>, V("w"), Anything) EXCEPT !.open = TRUE]>> >>),
     \* In effect: both cuts, their variables, via, and a join that restricts.
     Body(<< <<Effective(Left, Exactly(EndOfTime), Exactly(EndOfTime), {})>> >>),
     Body(<< <<Effective(Left, Exactly(Date(1)), Exactly(Year(0)), {})>> >>),
     Body(<< <<Effective(Left, Exactly(Date(2)), Exactly(Date(2)), {Envelope})>> >>),
     Join2(Effective(Left, V("t"), V("t"), {[Envelope EXCEPT !.value = V("w")]}),
           [Has(Anything, right, Anything) EXCEPT !.time = V("t")]),
     Join2([Left EXCEPT !.posit = "p", !.value = V("w")],
           [Effective(Left, Exactly(Date(3)), Exactly(Date(3)), {Envelope}) EXCEPT !.posit = "p"]),
     Unless(<<Effective(Left, Exactly(Date(3)), Exactly(Date(3)), {})>>, Body(<< <<Left>> >>)),
     Body(<< <<Effective(Left, Exactly(Date(3)), Exactly(Date(3)),
                         {[Envelope EXCEPT !.members[2].thing = OneOf({"x"})]})>> >>),
     \* Posits as things.
     Join2([Left EXCEPT !.posit = "p"], Has(V("p"), aux, Anything)),
     Join2(Has(V("x"), aux, V("v")), [Has(Anything, left, Anything) EXCEPT !.posit = "x"]),
     \* Literal slots and errors.
     Body(<< <<Has(V("x"), left, Exactly(Integer(0)))>> >>),
     Join2(Left, Has(Anything, aux, Exactly(Integer(0)))),
     Body(<< <<Pattern(<<Member(V("x"), V("r"))>>, V("v"), Anything)>> >>)}

(***************************************************************************)
(* What a search may ask of its rows.                                      *)
(***************************************************************************)
Ask(body, returns, distinct, order, limit, fallback) ==
    [branches |-> body.branches, absences |-> body.absences, predicates |-> body.predicates,
     returns |-> returns, distinct |-> distinct, order |-> order, limit |-> limit,
     fallback |-> fallback]

By(name, descending) == <<[variable |-> name, descending |-> descending]>>

Column(body) ==
    IF "v" \in CommonNames(body) THEN "v" ELSE IF "w" \in CommonNames(body) THEN "w" ELSE "x"

Limits == {{}, {0}, {1}, {2}}

Plain(bodies) ==
    {Ask(body, <<Column(body)>>, distinct, <<>>, limit, FALSE) :
        body \in bodies, distinct \in BOOLEAN, limit \in Limits}

Ordered(bodies) ==
    {Ask(body, <<Column(body), "x">>, distinct, By(Column(body), descending), limit, FALSE) :
        body \in bodies, distinct \in {FALSE}, descending \in BOOLEAN, limit \in Limits}

Mutating(bodies) ==
    {Ask(body, returns, FALSE, <<>>, {}, TRUE) :
        body \in bodies, returns \in {<<>>, <<"x">>}}

\* Searches that `prepare` refuses.
Refused ==
    {Ask(Body(<< <<Left>> >>), <<"y">>, FALSE, <<>>, {}, FALSE),
     Ask(Body(<< <<Left>> >>), <<"x">>, FALSE, By("v", FALSE), {}, FALSE),
     Ask(Join2(Left, Has(V("v"), right, Anything)), <<"x">>, FALSE, <<>>, {}, FALSE),
     Ask(Body(<< <<[Left EXCEPT !.cutoff = V("t")]>> >>), <<"x">>, FALSE, <<>>, {}, FALSE),
     Ask(Where("v", "=", V("x"), Body(<< <<Left>> >>)), <<"x">>, FALSE, <<>>, {}, FALSE),
     \* A variable of one branch only, as an alternative in an absence block.
     Ask(Unless(<<Pattern(<<Member(OneOf({"y"}), Exactly(left))>>, Anything, Anything)>>,
                Body(<< <<Has(V("x"), left, V("v"))>>,
                        <<Has(V("x"), right, V("v")), Has(V("y"), right, Anything)>> >>)),
         <<"x">>, FALSE, <<>>, {}, FALSE)}

(***************************************************************************)
(* Every pair of these patterns, as a join, a union and an absence.        *)
(***************************************************************************)
Pool ==
    {Left, Has(V("x"), right, V("v")), Has(V("y"), right, V("w")),
     Has(Anything, left, V("v")), [Left EXCEPT !.time = V("t")],
     [AsOf(Left, Date(2)) EXCEPT !.time = V("t")],
     [AsOf(Has(V("x"), left, Anything), Date(3)) EXCEPT !.latest = TRUE, !.posit = "p"],
     [Has(V("x"), left, V("w")) EXCEPT !.cutoff = V("t")],
     [Has(Anything, left, V("v")) EXCEPT !.posit = "x"],
     [Left EXCEPT !.posit = "p", !.binding = "s"],
     [Pattern(<<>>, V("w"), Anything) EXCEPT !.binding = "s", !.any = TRUE],
     Pattern(<<Member(V("x"), V("r"))>>, V("v"), Anything),
     [Pattern(<<Member(OneOf({"x", "y"}), Exactly(left))>>, V("v"), Anything)
          EXCEPT !.open = TRUE]}

Paired(p, q) ==
    {Join2(p, q), Body(<< <<p>>, <<q>> >>), Unless(<<q>>, Body(<< <<p>> >>))}

Pairs ==
    {Ask(body, <<Column(body)>>, FALSE, <<>>, limit, fallback) :
        <<body, limit, fallback>> \in
            (UNION {Paired(p, q) : p \in Pool, q \in Pool}) \X {{}, {1}} \X {FALSE}}

\* Rows in the order of their times.
Timed ==
    {Ask(Body(<< <<[Has(V("x"), right, V("v")) EXCEPT !.time = V("t")]>> >>),
         <<"t">>, FALSE, By("t", FALSE), limit, FALSE) : limit \in {{}, {1}}}

MCQueries ==
    Pairs \cup Plain(Bodies) \cup Ordered(Bodies) \cup Timed \cup Mutating(Bodies) \cup Refused

(***************************************************************************)
(* A thing where a posit is asked for.                                     *)
(***************************************************************************)
MCThingQueries ==
    Plain({Join2(Left, [Pattern(<<>>, Anything, Anything)
                            EXCEPT !.posit = "x", !.any = TRUE])})
=============================================================================
