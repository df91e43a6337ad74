---------------------------- MODULE LogicalReplay ----------------------------
(***************************************************************************)
(* The logical records of a store and what LogicalReplay of                *)
(* src/storage.rs makes of them.  A batch is a sequence of records, a      *)
(* store a sequence of batches.  The stores that PositStore writes and the *)
(* ones that an import writes are replayed by the same code.               *)
(*                                                                         *)
(* A proposition is a set of appearances and a value; the value stands for *)
(* the pair of a value and a time.  Codec records, which every store       *)
(* carries in its first batch, are left out.                               *)
(***************************************************************************)
EXTENDS Integers, Sequences, FiniteSets, SequencesExt

BuiltinNames == <<"posit", "ascertains", "thing", "class", "subclass">>

PositRole == 1
AscertainsRole == 2

Certainty == "certainty"

NewRole(id, name) == [kind |-> "role", id |-> id, name |-> name]

NewPosit(id, proposition) ==
    [kind |-> "posit", id |-> id, appearances |-> proposition[1],
     value |-> proposition[2]]

Proposition(posit) == <<posit.appearances, posit.value>>

Bootstrap == [i \in DOMAIN BuiltinNames |-> NewRole(i, BuiltinNames[i])]

(***************************************************************************)
(* The records of a store in the order of the log.                         *)
(***************************************************************************)
Positions(batches) ==
    UNION {{i} \X DOMAIN batches[i] : i \in DOMAIN batches}

RecordAt(batches, p) == batches[p[1]][p[2]]

Before(p, q) == p[1] < q[1] \/ (p[1] = q[1] /\ p[2] < q[2])

Records(batches) == {RecordAt(batches, p) : p \in Positions(batches)}

RolesOf(records) == {r \in records : r.kind = "role"}

PositsOf(records) == {r \in records : r.kind = "posit"}

Conflict(r, s) ==
    \/ r.id = s.id
    \/ r.kind = "role" /\ s.kind = "role" /\ r.name = s.name
    \/ r.kind = "posit" /\ s.kind = "posit" /\ Proposition(r) = Proposition(s)

(***************************************************************************)
(* What decode_role and decode_posit insist on: no identity is 0, and a    *)
(* posit has an appearance, and no two in one role.                        *)
(***************************************************************************)
Canonical(r) ==
    /\ r.id # 0
    /\ r.kind = "posit" =>
          /\ r.appearances # {}
          /\ \A a \in r.appearances : a[1] # 0 /\ a[2] # 0
          /\ \A a, b \in r.appearances : a[1] = b[1] => a = b

(***************************************************************************)
(* LogicalReplay: every record is canonical and conflicts with no earlier  *)
(* one, every role of a posit was defined before it, and a store that      *)
(* holds anything holds the built-in roles.                                *)
(***************************************************************************)
ReplayAccepts(batches) ==
    LET At(p) == RecordAt(batches, p) IN
    /\ \A r \in Records(batches) : Canonical(r)
    /\ \A p, q \in Positions(batches) : Before(p, q) => ~Conflict(At(p), At(q))
    /\ \A p \in Positions(batches) : At(p).kind = "posit" =>
          \A a \in At(p).appearances :
              \E q \in Positions(batches) :
                  Before(q, p) /\ At(q).kind = "role" /\ At(q).id = a[1]
    /\ batches # <<>> => Range(Bootstrap) \subseteq Records(batches)

(***************************************************************************)
(* What a store that replays holds (LogicalReplayProofs).                  *)
(***************************************************************************)
Consistent(records) ==
    /\ \A r \in records : Canonical(r)
    /\ \A r, s \in records : r # s => ~Conflict(r, s)
    /\ \A p \in PositsOf(records) : \A a \in p.appearances :
          \E r \in RolesOf(records) : r.id = a[1]
    /\ Range(Bootstrap) \subseteq records

(***************************************************************************)
(* Every identity a set of records mentions.                               *)
(***************************************************************************)
Things(records) ==
    {r.id : r \in records}
        \cup {a[2] : a \in UNION {p.appearances : p \in PositsOf(records)}}

(***************************************************************************)
(* What an assertion envelope is about; and that it is a posit that is     *)
(* there and that got its identity before the envelope did.  A client may  *)
(* write an envelope about anything.                                       *)
(***************************************************************************)
Targets(posit) ==
    IF posit.value = Certainty
      THEN {a[2] : a \in {b \in posit.appearances : b[1] = PositRole}}
      ELSE {}

FollowsTargets(posit, records) ==
    \A t \in Targets(posit) : \E q \in PositsOf(records) : q.id = t /\ q.id < posit.id

(***************************************************************************)
(* The numbers of a finite set in ascending order: the k-th is the one     *)
(* that k - 1 others precede.                                              *)
(***************************************************************************)
Ascending(numbers) ==
    [k \in 1..Cardinality(numbers) |->
        CHOOSE n \in numbers : Cardinality({m \in numbers : m < n}) = k - 1]

Largest(things) ==
    IF things = {} THEN 0 ELSE CHOOSE t \in things : \A u \in things : u <= t
=============================================================================
