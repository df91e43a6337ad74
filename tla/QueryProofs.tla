----------------------------- MODULE QueryProofs ----------------------------
(***************************************************************************)
(* Proofs about Query, for any stores and searches: what the static checks *)
(* promise about bound variables holds for every row, the estimates of a   *)
(* plan are upper bounds, no look-up loses a match, a stream takes no row  *)
(* back, and the heap of an ordered stream keeps the first rows.           *)
(***************************************************************************)
EXTENDS Query, FiniteSetTheorems, WellFoundedInduction, SequenceTheorems, TLAPS

-----------------------------------------------------------------------------
(***************************************************************************)
(* Numbers, in order.                                                      *)
(***************************************************************************)
LEMMA LeastNumber ==
    ASSUME NEW S \in SUBSET Nat, S # {}
    PROVE  \E n \in S : \A m \in S : n <= m
<1>1. PICK n \in S : \A m \in S : ~(<<m, n>> \in OpToRel(<, Nat))
  BY NatLessThanWellFounded, WFMin
<1>2. \A m \in S : ~(m < n)
  BY <1>1 DEF OpToRel
<1> QED
  BY <1>2

LEMMA LeastIsElement ==
    ASSUME NEW S \in SUBSET Nat, S # {}
    PROVE  Min(S) \in S /\ \A m \in S : Min(S) <= m
BY LeastNumber DEF Min

Preceding(S, n) == Cardinality({m \in S : m < n})

LEMMA PrecedingGrows ==
    ASSUME NEW S \in SUBSET Nat, IsFiniteSet(S), NEW n \in S
    PROVE  /\ Preceding(S, n) \in 0..(Cardinality(S) - 1)
           /\ \A k \in S : n < k => Preceding(S, n) < Preceding(S, k)
<1> DEFINE Less(k) == {m \in S : m < k}
<1>1. ASSUME NEW k \in S
      PROVE  IsFiniteSet(Less(k)) /\ Cardinality(Less(k)) \in Nat
  BY FS_Subset, FS_CardinalityType
<1>2. Cardinality(S) \in Nat
  BY FS_CardinalityType
<1>3. Preceding(S, n) < Cardinality(S)
  <2>1. Less(n) \subseteq S /\ Less(n) # S
    OBVIOUS
  <2>2. Cardinality(Less(n)) <= Cardinality(S) /\ Cardinality(S) # Cardinality(Less(n))
    BY <2>1, FS_Subset
  <2> QED
    BY <2>2, <1>1, <1>2 DEF Preceding
<1>4. ASSUME NEW k \in S, n < k
      PROVE  Preceding(S, n) < Preceding(S, k)
  <2>1. Less(n) \subseteq Less(k) /\ n \in Less(k) /\ n \notin Less(n)
    <3>1. n \in Nat /\ k \in Nat /\ \A m \in S : m \in Nat
      OBVIOUS
    <3>2. \A m \in S : m < n => m < k
      BY <1>4, <3>1
    <3>3. ~(n < n)
      BY <3>1
    <3> QED
      BY <1>4, <3>2, <3>3
  <2>2. /\ Cardinality(Less(n)) <= Cardinality(Less(k))
        /\ Cardinality(Less(k)) # Cardinality(Less(n))
    BY <2>1, <1>1, FS_Subset
  <2> QED
    BY <2>2, <1>1 DEF Preceding
<1> QED
  BY <1>1, <1>2, <1>3, <1>4 DEF Preceding

LEMMA RanksAreTaken ==
    ASSUME NEW S \in SUBSET Nat, IsFiniteSet(S)
    PROVE  /\ \A m, n \in S : m # n => Preceding(S, m) # Preceding(S, n)
           /\ \A k \in 1..Cardinality(S) : \E n \in S : Preceding(S, n) = k - 1
<1> DEFINE c == Cardinality(S)
           r == [n \in S |-> Preceding(S, n)]
<1>1. c \in Nat
  BY FS_CardinalityType
<1>2. r \in [S -> 0..(c - 1)]
  BY PrecedingGrows
<1>3. \A m, n \in S : m # n => Preceding(S, m) # Preceding(S, n)
  <2> SUFFICES ASSUME NEW m \in S, NEW n \in S, m # n PROVE Preceding(S, m) # Preceding(S, n)
    OBVIOUS
  <2>1. m < n \/ n < m
    OBVIOUS
  <2>2. Preceding(S, m) \in Nat /\ Preceding(S, n) \in Nat
    BY <1>1, PrecedingGrows
  <2> QED
    BY <2>1, <2>2, PrecedingGrows
<1>4. r \in Injection(S, 0..(c - 1))
  BY <1>2, <1>3 DEF Injection, IsInjective
<1>5. IsFiniteSet(0..(c - 1)) /\ Cardinality(0..(c - 1)) = c
  <2> HIDE DEF c
  <2>1. 0 \in Int /\ c - 1 \in Int
    BY <1>1
  <2>2. /\ IsFiniteSet(0..(c - 1))
        /\ Cardinality(0..(c - 1)) = IF 0 > c - 1 THEN 0 ELSE (c - 1) - 0 + 1
    BY <2>1, FS_Interval
  <2> QED
    BY <2>2, <1>1
<1>6. r \in Surjection(S, 0..(c - 1))
  BY <1>4, <1>5, FS_Injection
<1>7. \A k \in 1..c : \E n \in S : Preceding(S, n) = k - 1
  <2> SUFFICES ASSUME NEW k \in 1..c PROVE \E n \in S : Preceding(S, n) = k - 1
    OBVIOUS
  <2>1. k - 1 \in 0..(c - 1)
    BY <1>1
  <2>2. \E n \in S : r[n] = k - 1
    BY <2>1, <1>6 DEF Surjection
  <2> QED
    BY <2>2
<1> QED
  BY <1>3, <1>7

LEMMA AscendingLists ==
    ASSUME NEW S \in SUBSET Nat, IsFiniteSet(S)
    PROVE  /\ Cardinality(S) \in Nat
           /\ Ascending(S) \in [1..Cardinality(S) -> S]
           /\ Ascending(S) \in Seq(S)
           /\ Len(Ascending(S)) = Cardinality(S)
<1> DEFINE c == Cardinality(S)
<1>1. c \in Nat
  BY FS_CardinalityType
<1>2. \A k \in 1..c : \E n \in S : Preceding(S, n) = k - 1
  BY RanksAreTaken
<1>3. /\ DOMAIN Ascending(S) = 1..c
      /\ \A k \in 1..c : Ascending(S)[k] \in S
  BY <1>2 DEF Ascending, InOrder, Preceding
<1>4. Ascending(S) \in [1..c -> S]
  BY <1>3 DEF Ascending, InOrder
<1> QED
  BY <1>1, <1>4

LEMMA ChosenAreElements ==
    ASSUME NEW R, NEW s \in Seq(R), NEW positions \in SUBSET DOMAIN s
    PROVE  /\ Chosen(s, positions) \in Seq(R)
           /\ \A x \in Elements(Chosen(s, positions)) : \E i \in positions : x = s[i]
<1>1. DOMAIN s = 1..Len(s) /\ Len(s) \in Nat
  OBVIOUS
<1>2. positions \in SUBSET Nat /\ IsFiniteSet(positions)
  <2>1. IsFiniteSet(1..Len(s)) /\ positions \in SUBSET (1..Len(s))
    BY <1>1, FS_Interval
  <2> QED
    BY <2>1, FS_Subset
<1>3. Ascending(positions) \in Seq(positions)
  BY <1>2, AscendingLists
<1> DEFINE order == Ascending(positions)
<1>4. Chosen(s, positions) = [i \in 1..Len(order) |-> s[order[i]]] /\ Len(order) \in Nat
  BY <1>3 DEF Chosen
<1>5. \A i \in 1..Len(order) : order[i] \in positions /\ s[order[i]] \in R
  BY <1>3
<1> HIDE DEF order
<1> QED
  BY <1>4, <1>5 DEF Elements

LEMMA ListsASet ==
    ASSUME NEW S, IsFiniteSet(S)
    PROVE  /\ SetToSeq(S) \in Seq(S)
           /\ \A x \in S : \E i \in 1..Len(SetToSeq(S)) : SetToSeq(S)[i] = x
<1> DEFINE c == Cardinality(S)
           s == SetToSeq(S)
<1>1. c \in Nat /\ ExistsBijection(1..c, S)
  BY FS_CardinalityType
<1>2. \E f \in [1..c -> S] : IsInjective(f)
  BY <1>1 DEF ExistsBijection, Bijection, Injection, IsInjective
<1>3. s \in [1..c -> S] /\ IsInjective(s)
  BY <1>2 DEF SetToSeq
<1>4. IsFiniteSet(1..c) /\ Cardinality(1..c) = c
  BY <1>1, FS_Interval
<1>5. s \in Surjection(1..c, S)
  <2>1. s \in Injection(1..c, S)
    BY <1>3 DEF Injection
  <2> HIDE DEF s, c
  <2> QED
    BY <2>1, <1>4, FS_Injection DEF c
<1> HIDE DEF s, c
<1>6. s \in Seq(S) /\ Len(s) = c
  BY <1>1, <1>3
<1> QED
  BY <1>5, <1>6 DEF Surjection, s

-----------------------------------------------------------------------------
(***************************************************************************)
(* Functions defined from one number to the next: there is one, and it     *)
(* stays in sets in which every step stays.                                *)
(***************************************************************************)
LEMMA StaysIn ==
    ASSUME NEW n \in Nat, NEW Y, NEW g, g[0] \in Y[0],
           \A i \in 1..n : g[i - 1] \in Y[i - 1] => g[i] \in Y[i]
    PROVE  \A i \in 0..n : g[i] \in Y[i]
<1> DEFINE Bad == {i \in 0..n : g[i] \notin Y[i]}
<1> SUFFICES ASSUME Bad # {} PROVE FALSE
  OBVIOUS
<1>0. Bad \in SUBSET Nat
  OBVIOUS
<1>1. PICK m \in Bad : \A i \in Bad : m <= i
  BY <1>0, LeastNumber
<1>2. m \in 1..n /\ m - 1 \in 0..n /\ m - 1 \notin Bad
  BY <1>1
<1> QED
  BY <1>2

Follows(g, n, base, step) ==
    g = [i \in 0..n |-> IF i = 0 THEN base ELSE step[<<i, g[i - 1]>>]]

LEMMA RecursionExists ==
    ASSUME NEW n \in Nat, NEW Y, NEW base, base \in Y[0], NEW step,
           \A i \in 1..n : \A y \in Y[i - 1] : step[<<i, y>>] \in Y[i]
    PROVE  \E g : Follows(g, n, base, step) /\ \A i \in 0..n : g[i] \in Y[i]
<1> DEFINE Eq(g, m) == g = [i \in 0..m |-> IF i = 0 THEN base ELSE step[<<i, g[i - 1]>>]]
           Bad == {m \in 0..n : ~ \E g : Eq(g, m)}
<1>1. Bad = {}
  <2> SUFFICES ASSUME Bad # {} PROVE FALSE
    OBVIOUS
  <2>0. Bad \in SUBSET Nat
    OBVIOUS
  <2>1. PICK m \in Bad : \A i \in Bad : m <= i
    BY <2>0, LeastNumber
  <2>2. CASE m = 0
    <3> DEFINE g == [i \in 0..0 |-> base]
    <3>1. Eq(g, 0)
      OBVIOUS
    <3> QED
      BY <3>1, <2>1, <2>2
  <2>3. CASE m # 0
    <3>1. m - 1 \in 0..n /\ m - 1 \notin Bad /\ m \in 1..n
      BY <2>1, <2>3
    <3>2. PICK g : Eq(g, m - 1)
      BY <3>1
    <3> DEFINE h == [i \in 0..m |-> IF i = 0 THEN base ELSE step[<<i, g[i - 1]>>]]
    <3>3. ASSUME NEW i \in 0..(m - 1) PROVE h[i] = g[i]
      <4>1. g[i] = IF i = 0 THEN base ELSE step[<<i, g[i - 1]>>]
        BY <3>2
      <4>2. i \in 0..m
        BY <3>1
      <4> QED
        BY <4>1, <4>2
    <3>4. \A i \in 0..m : i # 0 => h[i - 1] = g[i - 1]
      <4>1. \A i \in 0..m : i # 0 => i - 1 \in 0..(m - 1)
        BY <3>1
      <4> HIDE DEF h
      <4> QED
        BY <4>1, <3>3
    <3>5. \A i \in 0..m : h[i] = IF i = 0 THEN base ELSE step[<<i, h[i - 1]>>]
      BY <3>4
    <3>6. h = [i \in 0..m |-> h[i]]
      OBVIOUS
    <3> HIDE DEF h
    <3>7. Eq(h, m)
      BY <3>5, <3>6
    <3> QED
      BY <2>1, <3>7
  <2> QED
    BY <2>2, <2>3
<1>2. PICK g : Eq(g, n)
  BY <1>1
<1>3. \A i \in 0..n : g[i] \in Y[i]
  <2>1. g[0] \in Y[0] /\ \A i \in 1..n : g[i] = step[<<i, g[i - 1]>>]
    BY <1>2
  <2> HIDE DEF Eq
  <2> QED
    BY <2>1, StaysIn
<1> QED
  BY <1>2, <1>3 DEF Follows

(***************************************************************************)
(* Sequences of sequences.                                                 *)
(***************************************************************************)
LEMMA Flattened ==
    ASSUME NEW R, NEW s \in Seq(Seq(R))
    PROVE  FlattenSeq(s) \in Seq(R)
<1> DEFINE n == Len(s)
           Eq(f) == f = [i \in 1..n |-> IF i = 1 THEN s[i] ELSE f[i - 1] \o s[i]]
           flatten == CHOOSE f : Eq(f)
<1>1. n \in Nat /\ \A i \in 1..n : s[i] \in Seq(R)
  OBVIOUS
<1>2. CASE n = 0
  BY <1>2 DEF FlattenSeq
<1>3. CASE n # 0
  <2> HIDE DEF n
  <2>1. \E f : Eq(f)
    <3> DEFINE Y == [i \in 0..n |-> Seq(R)]
               step == [x \in (1..n) \X Seq(R) |-> IF x[1] = 1 THEN s[1] ELSE x[2] \o s[x[1]]]
    <3>1. \A i \in 1..n : \A y \in Y[i - 1] : step[<<i, y>>] \in Y[i]
      <4> SUFFICES ASSUME NEW i \in 1..n, NEW y \in Y[i - 1] PROVE step[<<i, y>>] \in Y[i]
        OBVIOUS
      <4>1. y \in Seq(R) /\ Y[i] = Seq(R)
        BY <1>1
      <4>2. step[<<i, y>>] = IF i = 1 THEN s[1] ELSE y \o s[i]
        BY <4>1
      <4> HIDE DEF step, Y
      <4> QED
        BY <4>1, <4>2, <1>1
    <3>2. <<>> \in Y[0]
      BY <1>1
    <3> HIDE DEF step, Y
    <3>3. PICK g : Follows(g, n, <<>>, step) /\ \A i \in 0..n : g[i] \in Y[i]
      BY <1>1, <3>1, <3>2, RecursionExists
    <3> DEFINE f == [i \in 1..n |-> g[i]]
    <3>4. \A i \in 0..n : g[i] \in Seq(R)
      BY <3>3 DEF Y
    <3>5. \A i \in 1..n : g[i] = IF i = 1 THEN s[i] ELSE g[i - 1] \o s[i]
      <4> SUFFICES ASSUME NEW i \in 1..n PROVE g[i] = IF i = 1 THEN s[i] ELSE g[i - 1] \o s[i]
        OBVIOUS
      <4>1. i \in 0..n /\ i # 0 /\ i - 1 \in 0..n
        BY <1>1
      <4>2. g[i] = step[<<i, g[i - 1]>>]
        BY <4>1, <3>3 DEF Follows
      <4>3. g[i - 1] \in Seq(R)
        BY <4>1, <3>4
      <4> QED
        BY <4>2, <4>3 DEF step
    <3>6. Eq(f)
      BY <3>5, <1>1
    <3> QED
      BY <3>6
  <2>2. Eq(flatten)
    BY <2>1
  <2> HIDE DEF flatten
  <2>3. \A i \in 0..n : (IF i = 0 THEN <<>> ELSE flatten[i]) \in Seq(R)
    <3> DEFINE h == [i \in 0..n |-> IF i = 0 THEN <<>> ELSE flatten[i]]
               Y == [i \in 0..n |-> Seq(R)]
    <3>1. h[0] \in Y[0]
      BY <1>1
    <3>2. ASSUME NEW i \in 1..n, h[i - 1] \in Y[i - 1] PROVE h[i] \in Y[i]
      <4>1. flatten[i] = IF i = 1 THEN s[i] ELSE flatten[i - 1] \o s[i]
        BY <2>2
      <4>2. i \in 0..n /\ i # 0 /\ i - 1 \in 0..n /\ (i # 1 => i - 1 # 0)
        BY <1>1
      <4>3. h[i] = flatten[i] /\ (i # 1 => flatten[i - 1] = h[i - 1])
        BY <4>2
      <4>4. h[i - 1] \in Seq(R) /\ Y[i] = Seq(R)
        BY <3>2, <4>2
      <4> HIDE DEF h
      <4> QED
        BY <4>1, <4>3, <4>4, <1>1, ConcatProperties
    <3> HIDE DEF h, Y
    <3>3. \A i \in 0..n : h[i] \in Y[i]
      BY <1>1, <3>1, <3>2, StaysIn
    <3> QED
      BY <3>3 DEF h, Y
  <2>4. flatten[n] \in Seq(R)
    BY <2>3, <1>1, <1>3
  <2>5. FlattenSeq(s) = flatten[n]
    BY <1>3 DEF FlattenSeq, flatten, n
  <2> QED
    BY <2>4, <2>5
<1> QED
  BY <1>2, <1>3

-----------------------------------------------------------------------------
(***************************************************************************)
(* Values and bindings.  A use is a name with a domain.  Bound(U, K) are   *)
(* the bindings of names at the domains U allows that know K: every name   *)
(* of K is bound, and to a posit if K says so.                             *)
(***************************************************************************)
Domains == {"Thing", "Posit", "Role", "AppearanceSet", "Literal", "Time"}

Contents ==
    UNION {Nat \cup {posits[p].set, posits[p].value, posits[p].time} : p \in DOMAIN posits}

Values ==
    {v \in Domains \X Contents :
        /\ v[1] \in IdentityDomains \cup {"Role"} => v[2] \in Nat
        /\ v[1] = "Literal" => v[2] \in {posits[p].value : p \in DOMAIN posits}
        /\ v[1] = "Time" => v[2] \in {posits[p].time : p \in DOMAIN posits}}

Names(uses) == {u[1] : u \in uses}

Fits(U) ==
    {b \in UNION {[names -> Values] : names \in SUBSET Names(U)} :
        /\ IsFiniteSet(DOMAIN b)
        /\ \A name \in DOMAIN b : <<name, Domain(b[name])>> \in U}

Knows(b, K) ==
    \A k \in K : k[1] \in DOMAIN b /\ (k[2] = "Posit" => Domain(b[k[1]]) = "Posit")

Bound(U, K) == {b \in Fits(U) : Knows(b, K)}

\* What the static checks leave: no name at two domains, and no reserved name.
Consistent(U) == ~Conflict(U) /\ {NoName, "failed"} \cap Names(U) = {}

(***************************************************************************)
(* The errors that a search may still end with: rows that are streamed     *)
(* must not be followed by a comparison without an answer or by evidence   *)
(* that is none, so a plan may only stream if no pattern asks for either.  *)
(* An operator may find elements of R, or these errors; a relation built   *)
(* as a whole has no error, or is one.                                     *)
(***************************************************************************)
LateErrors == IF MustMaterialize(query) THEN {"Comparison", "Execution"} ELSE {}

Benign == {Failed(reason) : reason \in {"Invariant"} \cup LateErrors}

Foreseen(pattern) ==
    IsEffective(pattern) \/ pattern.value.kind = "exactly" => MustMaterialize(query)

Found(R) == Seq(R \cup Benign)

Built(R) == Seq(R) \cup {<<e>> : e \in Benign}

Proper(R) == \A x \in R : ~IsFailure(x)

Rows(R) == [posit: DOMAIN posits, binding: R]

LEMMA StoreIsSound ==
    ASSUME posits \in Databases
    PROVE  /\ DOMAIN posits \subseteq Nat /\ IsFiniteSet(DOMAIN posits)
           /\ \A p \in DOMAIN posits :
                 /\ DOMAIN posits[p].set \subseteq Nat /\ IsFiniteSet(DOMAIN posits[p].set)
                 /\ \A role \in DOMAIN posits[p].set :
                       role \in Nat /\ posits[p].set[role] \in Nat
                 /\ Nat \subseteq Contents
                 /\ {posits[p].set, posits[p].value, posits[p].time} \subseteq Contents
BY DatabasesAssumption DEF Contents

LEMMA BenignFails ==
    /\ \A e \in Benign : IsFailure(e) /\ e.failed \in {"Comparison", "Invariant", "Execution"}
    /\ Failed("Invariant") \in Benign
    /\ MustMaterialize(query) => {Failed("Comparison"), Failed("Execution")} \subseteq Benign
    /\ ~MustMaterialize(query) => \A e \in Benign : e.failed = "Invariant"
BY DEF Benign, LateErrors, Failed, IsFailure

LEMMA BoundIsTyped ==
    ASSUME NEW U, NEW K, NEW b \in Bound(U, K)
    PROVE  /\ b = [name \in DOMAIN b |-> b[name]]
           /\ DOMAIN b \subseteq Names(U) /\ IsFiniteSet(DOMAIN b)
           /\ \A name \in DOMAIN b :
                 /\ b[name] \in Values
                 /\ <<name, Domain(b[name])>> \in U
           /\ \A k \in K : k[1] \in DOMAIN b /\ (k[2] = "Posit" => Domain(b[k[1]]) = "Posit")
BY DEF Bound, Fits, Knows

LEMMA TypedIsBound ==
    ASSUME NEW U, NEW K, NEW names, names \subseteq Names(U), IsFiniteSet(names),
           NEW b \in [names -> Values],
           \A name \in names : <<name, Domain(b[name])>> \in U,
           \A k \in K : k[1] \in names /\ (k[2] = "Posit" => Domain(b[k[1]]) = "Posit")
    PROVE  b \in Bound(U, K)
<1>1. b \in UNION {[s -> Values] : s \in SUBSET Names(U)}
  OBVIOUS
<1>2. DOMAIN b = names
  OBVIOUS
<1> QED
  BY <1>1, <1>2 DEF Bound, Fits, Knows

LEMMA BoundIsProper ==
    ASSUME NEW U, Consistent(U), NEW K
    PROVE  Proper(Bound(U, K)) /\ Proper(Rows(Bound(U, K)))
<1>1. ASSUME NEW b \in Bound(U, K) PROVE ~IsFailure(b)
  BY BoundIsTyped DEF Consistent, IsFailure
<1>2. ASSUME NEW row \in Rows(Bound(U, K)) PROVE ~IsFailure(row)
  BY DEF IsFailure, Rows
<1> QED
  BY <1>1, <1>2 DEF Proper

LEMMA KnowingMore ==
    ASSUME NEW U, NEW K, NEW L, L \subseteq K
    PROVE  Bound(U, K) \subseteq Bound(U, L)
BY DEF Bound, Knows

LEMMA NothingKnown ==
    ASSUME NEW U
    PROVE  NoBinding \in Bound(U, {})
<1>1. NoBinding \in [{} -> Values] /\ DOMAIN NoBinding = {}
  BY DEF NoBinding
<1>2. IsFiniteSet({}) /\ {} \subseteq Names(U)
  BY FS_EmptySet
<1> QED
  BY <1>1, <1>2, TypedIsBound

LEMMA FoundElements ==
    ASSUME NEW R, NEW found \in Found(R), Proper(R)
    PROVE  /\ DOMAIN found = 1..Len(found) /\ Len(found) \in Nat
           /\ \A i \in DOMAIN found :
                 IF IsFailure(found[i]) THEN found[i] \in Benign ELSE found[i] \in R
<1>1. \A i \in DOMAIN found : found[i] \in R \cup Benign
  BY DEF Found
<1>2. DOMAIN found = 1..Len(found) /\ Len(found) \in Nat
  BY DEF Found
<1> QED
  BY <1>1, <1>2, BenignFails DEF Proper

LEMMA FoundSimple ==
    ASSUME NEW R
    PROVE  /\ <<>> \in Found(R)
           /\ \A x \in R : <<x>> \in Found(R)
           /\ \A e \in Benign : <<e>> \in Found(R)
           /\ Built(R) \subseteq Found(R)
           /\ Seq(R) \subseteq Found(R)
           /\ \A S : R \subseteq S => Found(R) \subseteq Found(S) /\ Built(R) \subseteq Built(S)
<1>1. \A T, S : T \subseteq S => Seq(T) \subseteq Seq(S)
  OBVIOUS
<1>2. /\ <<>> \in Found(R)
      /\ \A x \in R : <<x>> \in Found(R)
      /\ \A e \in Benign : <<e>> \in Found(R)
  BY DEF Found
<1>3. Seq(R) \subseteq Found(R)
  BY <1>1 DEF Found
<1>4. ASSUME NEW S, R \subseteq S PROVE Found(R) \subseteq Found(S) /\ Built(R) \subseteq Built(S)
  <2>1. R \cup Benign \subseteq S \cup Benign
    BY <1>4
  <2>2. Seq(R) \subseteq Seq(S) /\ Seq(R \cup Benign) \subseteq Seq(S \cup Benign)
    BY <1>1, <1>4, <2>1
  <2> QED
    BY <2>2 DEF Found, Built
<1> QED
  BY <1>2, <1>3, <1>4 DEF Built

(***************************************************************************)
(* Each, put together from what Op finds.                                  *)
(***************************************************************************)
LEMMA EachIsFound ==
    ASSUME NEW R, Proper(R), NEW found \in Found(R), NEW S, NEW parts,
           parts = [i \in DOMAIN found |-> parts[i]],
           \A i \in DOMAIN found :
               IF IsFailure(found[i]) THEN parts[i] = <<found[i]>>
               ELSE found[i] \in R => parts[i] \in Found(S)
    PROVE  FlattenSeq(parts) \in Found(S)
<1>1. /\ DOMAIN found = 1..Len(found) /\ Len(found) \in Nat
      /\ \A i \in DOMAIN found :
            IF IsFailure(found[i]) THEN found[i] \in Benign ELSE found[i] \in R
  BY FoundElements
<1>2. \A i \in DOMAIN found : parts[i] \in Found(S)
  BY <1>1, FoundSimple
<1>3. parts \in Seq(Found(S))
  BY <1>1, <1>2
<1> QED
  BY <1>3, Flattened DEF Found

LEMMA WholeIsBuilt ==
    ASSUME NEW R, Proper(R), NEW found \in Found(R)
    PROVE  Whole(found) \in Built(R)
<1> DEFINE failures == {i \in DOMAIN found : IsFailure(found[i])}
<1>1. /\ DOMAIN found = 1..Len(found) /\ Len(found) \in Nat
      /\ \A i \in DOMAIN found :
            IF IsFailure(found[i]) THEN found[i] \in Benign ELSE found[i] \in R
  BY FoundElements
<1>2. CASE failures = {}
  <2>1. \A i \in 1..Len(found) : found[i] \in R
    BY <1>1, <1>2
  <2>2. found \in Seq(R)
    BY <1>1, <2>1 DEF Found
  <2> QED
    BY <1>2, <2>2 DEF Whole, Built
<1>3. CASE failures # {}
  <2>1. failures \in SUBSET Nat
    BY <1>1
  <2>2. Min(failures) \in failures
    BY <1>3, <2>1, LeastIsElement
  <2>3. Whole(found) = <<found[Min(failures)]>>
    BY <1>3 DEF Whole
  <2> HIDE DEF failures
  <2>4. found[Min(failures)] \in Benign
    BY <1>1, <2>2 DEF failures
  <2> QED
    BY <2>3, <2>4 DEF Built
<1> QED
  BY <1>2, <1>3

LEMMA BuiltElements ==
    ASSUME NEW R, Proper(R), NEW rows \in Built(R)
    PROVE  \/ rows \in Seq(R) /\ (rows # <<>> => ~IsFailure(Head(rows)))
           \/ \E e \in Benign : rows = <<e>> /\ IsFailure(Head(rows)) /\ Head(rows) = e
<1>1. CASE rows \in Seq(R)
  BY <1>1 DEF Proper
<1>2. CASE \E e \in Benign : rows = <<e>>
  BY <1>2, BenignFails
<1> QED
  BY <1>1, <1>2 DEF Built

(***************************************************************************)
(* A name can be bound at a domain its uses allow.                         *)
(***************************************************************************)
LEMMA BindIsFound ==
    ASSUME NEW U, Consistent(U), NEW K, NEW b \in Bound(U, K),
           NEW name, NEW domain, <<name, domain>> \in U,
           NEW value \in Values, Domain(value) = domain
    PROVE  Bind(b, name, value) \in Found(Bound(U, K \cup {<<name, domain>>}))
<1> DEFINE L == K \cup {<<name, domain>>}
<1>1. /\ b = [n \in DOMAIN b |-> b[n]]
      /\ DOMAIN b \subseteq Names(U) /\ IsFiniteSet(DOMAIN b)
      /\ \A n \in DOMAIN b : b[n] \in Values /\ <<n, Domain(b[n])>> \in U
      /\ \A k \in K : k[1] \in DOMAIN b /\ (k[2] = "Posit" => Domain(b[k[1]]) = "Posit")
  BY BoundIsTyped
<1>2. name \in Names(U)
  BY DEF Names
<1>3. CASE name \notin DOMAIN b
  <2> DEFINE names == DOMAIN b \cup {name}
             c == [n \in names |-> IF n = name THEN value ELSE b[n]]
  <2>1. names \subseteq Names(U) /\ IsFiniteSet(names)
    BY <1>1, <1>2, FS_AddElement
  <2>2. c \in [names -> Values]
    BY <1>1
  <2>3. \A n \in names : <<n, Domain(c[n])>> \in U
    BY <1>1
  <2>4. ASSUME NEW k \in L
        PROVE  k[1] \in names /\ (k[2] = "Posit" => Domain(c[k[1]]) = "Posit")
    <3>1. CASE k \in K
      BY <3>1, <1>1, <1>3
    <3>2. CASE k = <<name, domain>>
      BY <3>2
    <3> QED
      BY <3>1, <3>2
  <2>5. Bind(b, name, value) = <<c>>
    BY <1>3 DEF Bind
  <2> HIDE DEF c, names, L
  <2>6. c \in Bound(U, L)
    BY <2>1, <2>2, <2>3, <2>4, TypedIsBound
  <2> QED
    BY <2>5, <2>6, FoundSimple DEF L
<1>4. CASE name \in DOMAIN b
  <2>1. b[name] \in Values /\ <<name, Domain(b[name])>> \in U
    BY <1>1, <1>4
  <2>2. Domain(b[name]) # domain => {Domain(b[name]), domain} = IdentityDomains
    <3>1. <<name, Domain(b[name])>>[1] = <<name, domain>>[1]
      OBVIOUS
    <3> QED
      BY <2>1, <3>1 DEF Consistent, Conflict
  <2>3. CASE {Domain(b[name]), domain} = IdentityDomains
    <3>1. CASE Content(b[name]) = Content(value)
      <4> DEFINE c == [b EXCEPT ![name] = <<"Posit", Content(value)>>]
      <4>1. <<"Posit", Content(value)>> \in Values
        BY <2>3 DEF Values, IdentityDomains, Domain, Content, Domains
      <4>2. <<name, "Posit">> \in U
        BY <2>1, <2>3 DEF IdentityDomains
      <4>3. c \in [DOMAIN b -> Values]
        BY <1>1, <4>1
      <4>4. \A n \in DOMAIN b : <<n, Domain(c[n])>> \in U
        BY <1>1, <4>2 DEF Domain
      <4>5. ASSUME NEW k \in L
            PROVE  k[1] \in DOMAIN b /\ (k[2] = "Posit" => Domain(c[k[1]]) = "Posit")
        <5>1. CASE k \in K
          BY <5>1, <1>1 DEF Domain
        <5>2. CASE k = <<name, domain>>
          BY <5>2, <1>4 DEF Domain
        <5> QED
          BY <5>1, <5>2
      <4>6. Bind(b, name, value) = <<c>>
        BY <1>4, <2>3, <3>1 DEF Bind
      <4> HIDE DEF c, L
      <4>7. c \in Bound(U, L)
        BY <1>1, <4>3, <4>4, <4>5, TypedIsBound
      <4> QED
        BY <4>6, <4>7, FoundSimple DEF L
    <3>2. CASE Content(b[name]) # Content(value)
      BY <1>4, <2>3, <3>2, FoundSimple DEF Bind
    <3> QED
      BY <3>1, <3>2
  <2>4. CASE {Domain(b[name]), domain} # IdentityDomains
    <3>1. Domain(b[name]) = domain
      BY <2>2, <2>4
    <3>2. CASE b[name] = value
      <4>1. Bind(b, name, value) = <<b>>
        BY <1>4, <2>4, <3>1, <3>2 DEF Bind
      <4>2. \A k \in L : k[1] \in DOMAIN b /\ (k[2] = "Posit" => Domain(b[k[1]]) = "Posit")
        BY <1>1, <1>4, <3>1
      <4>3. b \in [DOMAIN b -> Values]
        BY <1>1
      <4> HIDE DEF L
      <4>4. b \in Bound(U, L)
        BY <1>1, <4>2, <4>3, TypedIsBound
      <4> QED
        BY <4>1, <4>4, FoundSimple DEF L
    <3>3. CASE b[name] # value
      BY <1>4, <2>4, <3>1, <3>3, FoundSimple DEF Bind
    <3> QED
      BY <3>2, <3>3
  <2> QED
    BY <2>3, <2>4
<1> QED
  BY <1>3, <1>4

-----------------------------------------------------------------------------
(***************************************************************************)
(* Uses serve a pattern if they allow its own and use its alternatives as  *)
(* identities only.                                                        *)
(***************************************************************************)
OnlyIdentities(U, names) ==
    \A u \in U : u[1] \in names => u[2] \in IdentityDomains

Serves(U, pattern) ==
    OwnUses(pattern) \subseteq U /\ OnlyIdentities(U, Alternatives(pattern))

LEMMA NamesOfUses ==
    /\ \A K, L : Names(K \cup L) = Names(K) \cup Names(L)
    /\ \A slot, domain :
          Names(SlotUses(slot, domain)) = IF IsVariable(slot) THEN {slot.name} ELSE {}
    /\ \A name, domain : Names(NameUses(name, domain)) = Named({name})
<1>1. \A K, L : Names(K \cup L) = Names(K) \cup Names(L)
  BY DEF Names
<1>2. ASSUME NEW slot, NEW domain
      PROVE  Names(SlotUses(slot, domain)) = IF IsVariable(slot) THEN {slot.name} ELSE {}
  <2>1. CASE IsVariable(slot)
    <3>1. SlotUses(slot, domain) = {<<slot.name, domain>>}
      BY <2>1 DEF SlotUses
    <3> QED
      BY <2>1, <3>1 DEF Names
  <2>2. CASE ~IsVariable(slot)
    BY <2>2 DEF SlotUses, Names
  <2> QED
    BY <2>1, <2>2
<1>3. ASSUME NEW name, NEW domain PROVE Names(NameUses(name, domain)) = Named({name})
  <2>1. \A u \in NameUses(name, domain) : u[1] \in Named({name})
    BY DEF NameUses
  <2>2. \A n \in Named({name}) : <<n, domain>> \in NameUses(name, domain) /\ <<n, domain>>[1] = n
    BY DEF NameUses
  <2> QED
    BY <2>1, <2>2 DEF Names
<1> QED
  BY <1>1, <1>2, <1>3

LEMMA UsesOfAPattern ==
    ASSUME NEW pattern
    PROVE  Names(OwnUses(pattern)) = OwnVariables(pattern)
<1>2. ASSUME NEW m \in Members(pattern)
      PROVE  Names(MemberUses(m)) = {slot.name : slot \in {s \in {m.thing, m.role} : IsVariable(s)}}
  <2>1. {slot.name : slot \in {s \in {m.thing, m.role} : IsVariable(s)}}
            = (IF IsVariable(m.thing) THEN {m.thing.name} ELSE {})
                  \cup (IF IsVariable(m.role) THEN {m.role.name} ELSE {})
    OBVIOUS
  <2>2. Names(MemberUses(m)) = (IF IsVariable(m.thing) THEN {m.thing.name} ELSE {})
                                   \cup (IF IsVariable(m.role) THEN {m.role.name} ELSE {})
    <3>1. Names(MemberUses(m))
              = Names(SlotUses(m.thing, "Thing")) \cup Names(SlotUses(m.role, "Role"))
      BY DEF MemberUses, Names
    <3> QED
      BY <3>1, NamesOfUses
  <2> QED
    BY <2>1, <2>2
<1>3. Names(SetUses(pattern)) = MemberVariables(pattern) \cup Named({pattern.binding})
  <2> DEFINE members == UNION {MemberUses(m) : m \in Members(pattern)}
  <2>1. ASSUME NEW name \in Names(members) PROVE name \in MemberVariables(pattern)
    <3>1. PICK u \in members : u[1] = name
      BY DEF Names
    <3>2. PICK m \in Members(pattern) : u \in MemberUses(m)
      BY <3>1
    <3>3. name \in Names(MemberUses(m))
      BY <3>1, <3>2 DEF Names
    <3> QED
      BY <3>2, <3>3, <1>2 DEF MemberVariables
  <2>2. ASSUME NEW name \in MemberVariables(pattern) PROVE name \in Names(members)
    <3>1. PICK m \in Members(pattern) : name \in Names(MemberUses(m))
      BY <1>2 DEF MemberVariables
    <3>2. PICK u \in MemberUses(m) : u[1] = name
      BY <3>1 DEF Names
    <3> QED
      BY <3>1, <3>2 DEF Names
  <2>3. Names(members) = MemberVariables(pattern)
    BY <2>1, <2>2
  <2> HIDE DEF members
  <2>4. SetUses(pattern) = NameUses(pattern.binding, "AppearanceSet") \cup members
    BY DEF SetUses, members
  <2> QED
    BY <2>3, <2>4, NamesOfUses
<1>4. Names(FieldUses(pattern)) = FieldVariables(pattern)
  <2>1. {slot.name : slot \in {s \in {pattern.value, pattern.time} : IsVariable(s)}}
            = (IF IsVariable(pattern.value) THEN {pattern.value.name} ELSE {})
                  \cup (IF IsVariable(pattern.time) THEN {pattern.time.name} ELSE {})
    OBVIOUS
  <2>2. Names(FieldUses(pattern))
            = Named({pattern.posit})
                  \cup (IF IsVariable(pattern.value) THEN {pattern.value.name} ELSE {})
                  \cup (IF IsVariable(pattern.time) THEN {pattern.time.name} ELSE {})
    <3>1. Names(FieldUses(pattern))
              = Names(NameUses(pattern.posit, "Posit"))
                    \cup Names(SlotUses(pattern.value, "Literal"))
                    \cup Names(SlotUses(pattern.time, "Time"))
      BY DEF FieldUses, Names
    <3> QED
      BY <3>1, NamesOfUses
  <2> QED
    BY <2>1, <2>2 DEF FieldVariables
<1>5. Names(OwnUses(pattern)) = Names(SetUses(pattern)) \cup Names(FieldUses(pattern))
  BY DEF OwnUses, Names
<1> QED
  BY <1>3, <1>4, <1>5 DEF OwnVariables

-----------------------------------------------------------------------------
(***************************************************************************)
(* What a pattern matches is bound at the domains of its uses.             *)
(***************************************************************************)
LEMMA OneOfIsFound ==
    ASSUME NEW U, NEW K, NEW b \in Bound(U, K), NEW names, NEW thing,
           names \subseteq Names(K), OnlyIdentities(U, names)
    PROVE  MatchOneOf(names, thing, b) \in Found(Bound(U, K))
<1>1. names \subseteq DOMAIN b
  BY BoundIsTyped DEF Names
<1>2. \A name \in names \cap DOMAIN b : Domain(b[name]) \in IdentityDomains
  <2> SUFFICES ASSUME NEW name \in names \cap DOMAIN b
               PROVE  Domain(b[name]) \in IdentityDomains
    OBVIOUS
  <2>1. <<name, Domain(b[name])>> \in U
    BY BoundIsTyped
  <2>2. <<name, Domain(b[name])>>[1] = name /\ <<name, Domain(b[name])>>[2] = Domain(b[name])
    OBVIOUS
  <2> QED
    BY <2>1, <2>2 DEF OnlyIdentities
<1>3. MatchOneOf(names, thing, b)
        = IF \E name \in names : Content(b[name]) = thing THEN <<b>> ELSE <<>>
  BY <1>1, <1>2 DEF MatchOneOf
<1> QED
  BY <1>3, FoundSimple

MemberIsSound(U, K, m) ==
    /\ m.thing.kind \in {"any", "variable", "one_of"}
    /\ m.role.kind \in {"any", "variable", "exactly"}
    /\ MemberUses(m) \subseteq U
    /\ m.thing.kind = "one_of" =>
          m.thing.names \subseteq Names(K) /\ OnlyIdentities(U, m.thing.names)

LEMMA AppearanceIsFound ==
    ASSUME NEW U, Consistent(U), NEW K, NEW b \in Bound(U, K),
           NEW m, MemberIsSound(U, K, m), NEW role \in Nat, NEW thing \in Nat,
           Nat \subseteq Contents
    PROVE  MatchAppearance(m, role, thing, b) \in Found(Bound(U, K \cup MemberUses(m)))
<1> DEFINE L == K \cup SlotUses(m.thing, "Thing")
           first == CASE m.thing.kind = "any"      -> <<b>>
                      [] m.thing.kind = "variable" ->
                            Bind(b, m.thing.name, <<"Thing", thing>>)
                      [] m.thing.kind = "one_of"   -> MatchOneOf(m.thing.names, thing, b)
           Next1(c) == CASE m.role.kind = "any"      -> <<c>>
                         [] m.role.kind = "exactly"  ->
                               IF m.role.content = role THEN <<c>> ELSE <<>>
                         [] m.role.kind = "variable" -> Bind(c, m.role.name, <<"Role", role>>)
           parts == [i \in DOMAIN first |->
                        IF IsFailure(first[i]) THEN <<first[i]>> ELSE Next1(first[i])]
<1>1. /\ <<"Thing", thing>> \in Values /\ Domain(<<"Thing", thing>>) = "Thing"
      /\ <<"Role", role>> \in Values /\ Domain(<<"Role", role>>) = "Role"
  BY DEF Values, Domains, Domain
<1>2. K \cup MemberUses(m) = L \cup SlotUses(m.role, "Role")
  BY DEF MemberUses
<1>3. first \in Found(Bound(U, L))
  <2>1. CASE m.thing.kind = "any"
    <3>1. first = <<b>> /\ L = K
      BY <2>1 DEF SlotUses, IsVariable
    <3> HIDE DEF first, L
    <3> QED
      BY <3>1, FoundSimple
  <2>2. CASE m.thing.kind = "variable"
    <3>1. first = Bind(b, m.thing.name, <<"Thing", thing>>)
      BY <2>2
    <3>2. L = K \cup {<<m.thing.name, "Thing">>} /\ <<m.thing.name, "Thing">> \in U
      BY <2>2 DEF SlotUses, IsVariable, MemberIsSound, MemberUses
    <3> HIDE DEF first, L
    <3> QED
      BY <3>1, <3>2, <1>1, BindIsFound
  <2>3. CASE m.thing.kind = "one_of"
    <3>1. first = MatchOneOf(m.thing.names, thing, b) /\ L = K
      BY <2>3 DEF SlotUses, IsVariable
    <3> HIDE DEF first, L
    <3> QED
      BY <3>1, <2>3, OneOfIsFound DEF MemberIsSound
  <2> QED
    BY <2>1, <2>2, <2>3 DEF MemberIsSound
<1> HIDE DEF first, L
<1>4. ASSUME NEW c \in Bound(U, L) PROVE Next1(c) \in Found(Bound(U, K \cup MemberUses(m)))
  <2>1. CASE m.role.kind = "any" \/ m.role.kind = "exactly"
    <3>1. L = K \cup MemberUses(m)
      BY <2>1, <1>2 DEF SlotUses, IsVariable
    <3>2. Next1(c) \in {<<c>>, <<>>}
      BY <2>1
    <3> HIDE DEF Next1
    <3>3. <<c>> \in Found(Bound(U, L)) /\ <<>> \in Found(Bound(U, L))
      BY <1>4, FoundSimple
    <3> QED
      BY <3>1, <3>2, <3>3
  <2>2. CASE m.role.kind = "variable"
    <3>1. Next1(c) = Bind(c, m.role.name, <<"Role", role>>)
      BY <2>2
    <3>2. /\ K \cup MemberUses(m) = L \cup {<<m.role.name, "Role">>}
          /\ <<m.role.name, "Role">> \in U
      BY <2>2, <1>2 DEF SlotUses, IsVariable, MemberIsSound, MemberUses
    <3> HIDE DEF Next1
    <3> QED
      BY <3>1, <3>2, <1>1, BindIsFound
  <2> QED
    BY <2>1, <2>2 DEF MemberIsSound
<1>5. MatchAppearance(m, role, thing, b) = FlattenSeq(parts)
  BY DEF MatchAppearance, Each, first
<1> HIDE DEF Next1
<1>6. FlattenSeq(parts) \in Found(Bound(U, K \cup MemberUses(m)))
  BY <1>3, <1>4, BoundIsProper, EachIsFound
<1> QED
  BY <1>5, <1>6

Partials(R) == [binding: R, used: SUBSET Nat]

IsSet(set) ==
    /\ Nat \subseteq Contents
    /\ DOMAIN set \subseteq Nat /\ IsFiniteSet(DOMAIN set)
    /\ \A role \in DOMAIN set : role \in Nat /\ set[role] \in Nat

LEMMA PartialsAreProper ==
    ASSUME NEW R
    PROVE  Proper(Partials(R))
BY DEF Proper, Partials, IsFailure

LEMMA RoleIsFound ==
    ASSUME NEW U, Consistent(U), NEW K, NEW partial \in Partials(Bound(U, K)),
           NEW m, MemberIsSound(U, K, m), NEW set, IsSet(set), NEW role \in DOMAIN set
    PROVE  GiveRole(partial, m, role, set) \in Found(Partials(Bound(U, K \cup MemberUses(m))))
<1> DEFINE R == Bound(U, K \cup MemberUses(m))
           found == MatchAppearance(m, role, set[role], partial.binding)
           Used(c) == <<[binding |-> c, used |-> partial.used \cup {role}]>>
           parts == [i \in DOMAIN found |->
                        IF IsFailure(found[i]) THEN <<found[i]>> ELSE Used(found[i])]
<1>1. partial.binding \in Bound(U, K) /\ partial.used \in SUBSET Nat
  BY DEF Partials
<1>2. role \in Nat /\ set[role] \in Nat /\ Nat \subseteq Contents
  BY DEF IsSet
<1>3. found \in Found(R)
  BY <1>1, <1>2, AppearanceIsFound
<1>4. ASSUME NEW c \in R PROVE Used(c) \in Found(Partials(R))
  <2>1. [binding |-> c, used |-> partial.used \cup {role}] \in Partials(R)
    BY <1>1, <1>2 DEF Partials
  <2> QED
    BY <2>1, FoundSimple
<1>5. GiveRole(partial, m, role, set) = IF role \in partial.used THEN <<>> ELSE FlattenSeq(parts)
  BY DEF GiveRole, Each
<1>6. Proper(R)
  BY BoundIsProper
<1> HIDE DEF found, R, Used
<1>7. FlattenSeq(parts) \in Found(Partials(R))
  BY <1>3, <1>4, <1>6, EachIsFound
<1> QED
  BY <1>5, <1>7, FoundSimple DEF R

LEMMA RolesAreFound ==
    ASSUME NEW U, Consistent(U), NEW K, NEW partial \in Partials(Bound(U, K)),
           NEW m, MemberIsSound(U, K, m), NEW set, IsSet(set)
    PROVE  GiveRoles(partial, m, set) \in Found(Partials(Bound(U, K \cup MemberUses(m))))
<1> DEFINE roles == Ascending(DOMAIN set)
           T == Found(Partials(Bound(U, K \cup MemberUses(m))))
           parts == [i \in DOMAIN roles |-> GiveRole(partial, m, roles[i], set)]
<1>1. roles \in Seq(DOMAIN set)
  BY AscendingLists DEF IsSet
<1>2. GiveRoles(partial, m, set) = FlattenSeq(parts)
  BY DEF GiveRoles
<1> HIDE DEF roles
<1>3. \A i \in 1..Len(roles) : roles[i] \in DOMAIN set
  BY <1>1
<1>4. \A i \in 1..Len(roles) : GiveRole(partial, m, roles[i], set) \in T
  BY <1>3, RoleIsFound
<1> HIDE DEF T
<1>5. parts \in Seq(T)
  BY <1>1, <1>4
<1> HIDE DEF parts
<1> QED
  BY <1>2, <1>5, Flattened DEF T, Found

LEMMA MembersAreFound ==
    ASSUME NEW U, Consistent(U), NEW K, NEW b \in Bound(U, K), NEW set, IsSet(set),
           NEW M, NEW members \in Seq(M), \A m \in M : MemberIsSound(U, K, m)
    PROVE  MatchMembers(members, set, b)
               \in Found(Bound(U, K \cup UNION {MemberUses(members[j]) : j \in 1..Len(members)}))
<1> DEFINE n == Len(members)
           Known(i) == K \cup UNION {MemberUses(members[j]) : j \in 1..i}
           Op(y, e) == Each(LAMBDA partial : GiveRoles(partial, e, set), y)
           Y == [i \in 0..n |-> Found(Partials(Bound(U, Known(i))))]
           step == [x \in (1..n) \X UNION {Y[i] : i \in 0..n} |-> Op(x[2], members[x[1]])]
           Eq(g) == g = [i \in 0..n |-> IF i = 0 THEN <<[binding |-> b, used |-> {}]>> ELSE Op(g[i - 1], members[i])]
           upTo == CHOOSE g : Eq(g)
<1>1. n \in Nat
  OBVIOUS
<1>2. <<[binding |-> b, used |-> {}]>> \in Y[0]
  <2>1. 0 \in 0..n /\ K \subseteq Known(0) /\ Known(0) \subseteq K
    BY <1>1
  <2>2. [binding |-> b, used |-> {}] \in Partials(Bound(U, K))
    BY DEF Partials
  <2>3. Y[0] = Found(Partials(Bound(U, K)))
    BY <2>1
  <2> HIDE DEF Y
  <2> QED
    BY <2>2, <2>3, FoundSimple
<1>3. ASSUME NEW i \in 1..n, NEW y \in Y[i - 1]
      PROVE  Op(y, members[i]) \in Y[i]
  <2> DEFINE L == Known(i - 1)
             m == members[i]
             parts == [k \in DOMAIN y |->
                          IF IsFailure(y[k]) THEN <<y[k]>> ELSE GiveRoles(y[k], m, set)]
  <2>1. i \in 0..n /\ i - 1 \in 0..n /\ m \in M
    BY <1>1
  <2>2. y \in Found(Partials(Bound(U, L)))
    BY <2>1
  <2>3. L \cup MemberUses(m) = Known(i)
    <3>1. 1..i = (1..(i - 1)) \cup {i}
      BY <1>1
    <3> QED
      BY <3>1
  <2>4. MemberIsSound(U, L, m)
    <3>1. MemberIsSound(U, K, m) /\ K \subseteq L
      BY <2>1
    <3>2. Names(K) \subseteq Names(L)
      BY <3>1 DEF Names
    <3> QED
      BY <3>1, <3>2 DEF MemberIsSound
  <2>5. Op(y, m) = FlattenSeq(parts)
    BY DEF Each
  <2>6. Y[i] = Found(Partials(Bound(U, L \cup MemberUses(m))))
    BY <2>1, <2>3
  <2> HIDE DEF Op, L, m, Y
  <2>7. FlattenSeq(parts) \in Found(Partials(Bound(U, L \cup MemberUses(m))))
    BY <2>2, <2>4, RolesAreFound, PartialsAreProper, EachIsFound
  <2> QED
    BY <2>5, <2>6, <2>7 DEF m
<1> HIDE DEF n, Op, Y
<1>4. \E g : Eq(g)
  <2>1. ASSUME NEW i \in 1..n, NEW y \in Y[i - 1]
        PROVE  step[<<i, y>>] = Op(y, members[i])
    <3>1. i - 1 \in 0..n
      BY <1>1
    <3>2. <<i, y>> \in (1..n) \X UNION {Y[j] : j \in 0..n}
      BY <3>1
    <3> QED
      BY <3>2
  <2> HIDE DEF step
  <2>2. PICK g : Follows(g, n, <<[binding |-> b, used |-> {}]>>, step) /\ \A i \in 0..n : g[i] \in Y[i]
    BY <1>1, <1>2, <1>3, <2>1, RecursionExists
  <2>3. \A i \in 0..n : i # 0 => step[<<i, g[i - 1]>>] = Op(g[i - 1], members[i])
    BY <1>1, <2>1, <2>2
  <2>4. g = [i \in 0..n |-> IF i = 0 THEN <<[binding |-> b, used |-> {}]>> ELSE step[<<i, g[i - 1]>>]]
    BY <2>2 DEF Follows
  <2>5. Eq(g)
    BY <2>3, <2>4
  <2> QED
    BY <2>5
<1>5. Eq(upTo)
  BY <1>4
<1> HIDE DEF upTo
<1>6. \A i \in 0..n : upTo[i] \in Y[i]
  <2>1. upTo[0] = <<[binding |-> b, used |-> {}]>> /\ \A i \in 1..n : upTo[i] = Op(upTo[i - 1], members[i])
    <3>1. \A i \in 0..n : upTo[i] = IF i = 0 THEN <<[binding |-> b, used |-> {}]>> ELSE Op(upTo[i - 1], members[i])
      BY <1>5
    <3>2. 0 \in 0..n /\ \A i \in 1..n : i \in 0..n /\ i # 0
      BY <1>1
    <3> QED
      BY <3>1, <3>2
  <2> HIDE DEF Eq
  <2> QED
    BY <1>1, <1>2, <1>3, <2>1, StaysIn
<1>7. Accumulate(LAMBDA found, member :
                     Each(LAMBDA partial : GiveRoles(partial, member, set), found),
                 <<[binding |-> b, used |-> {}]>>, members) = upTo[n]
  BY DEF Accumulate, upTo, n, Op
<1>8. upTo[n] \in Y[n]
  BY <1>1, <1>6
<1> DEFINE found == upTo[n]
           R == Bound(U, Known(n))
           parts == [i \in DOMAIN found |->
                        IF IsFailure(found[i]) THEN <<found[i]>> ELSE <<found[i].binding>>]
<1>9. found \in Found(Partials(R))
  BY <1>1, <1>8 DEF Y
<1>10. MatchMembers(members, set, b) = FlattenSeq(parts)
  BY <1>7 DEF MatchMembers, Each
<1> HIDE DEF found, Known
<1>11. \A x \in Partials(R) : <<x.binding>> \in Found(R)
  BY FoundSimple DEF Partials
<1> HIDE DEF R
<1>12. FlattenSeq(parts) \in Found(R)
  BY <1>9, <1>11, PartialsAreProper, EachIsFound
<1> QED
  BY <1>10, <1>12 DEF R, Known, n

IsServed(U, K, pattern) ==
    /\ IsPattern(pattern) /\ Foreseen(pattern)
    /\ Serves(U, pattern) /\ Alternatives(pattern) \subseteq Names(K)

LEMMA MembersAreSound ==
    ASSUME NEW U, NEW K, NEW pattern, IsServed(U, K, pattern)
    PROVE  /\ \A m \in Members(pattern) : MemberIsSound(U, K, m)
           /\ pattern.members \in Seq(Members(pattern))
           /\ UNION {MemberUses(pattern.members[j]) : j \in 1..Len(pattern.members)}
                = UNION {MemberUses(m) : m \in Members(pattern)}
<1>1. ASSUME NEW m \in Members(pattern) PROVE MemberIsSound(U, K, m)
  <2>1. MemberUses(m) \subseteq U
    BY DEF IsServed, Serves, OwnUses, SetUses
  <2>2. ASSUME m.thing.kind = "one_of"
        PROVE  m.thing.names \subseteq Names(K) /\ OnlyIdentities(U, m.thing.names)
    <3>1. m.thing.names \subseteq Alternatives(pattern)
      BY <2>2 DEF Alternatives
    <3> QED
      BY <3>1 DEF IsServed, Serves, OnlyIdentities
  <2> QED
    BY <2>1, <2>2 DEF MemberIsSound, IsServed, IsPattern
<1>2. Members(pattern) = Elements(pattern.members)
  BY DEF Members, Elements
<1>3. pattern.members \in Seq(Members(pattern))
  BY <1>2 DEF IsServed, IsPattern, IsSequence
<1>4. DOMAIN pattern.members = 1..Len(pattern.members)
  BY <1>3
<1> QED
  BY <1>1, <1>3, <1>4 DEF Members

LEMMA SetIsFound ==
    ASSUME NEW U, Consistent(U), NEW K, NEW b \in Bound(U, K),
           NEW pattern, IsServed(U, K, pattern), NEW set \in Contents, IsSet(set)
    PROVE  MatchAppearanceSet(pattern, set, b) \in Found(Bound(U, K \cup SetUses(pattern)))
<1> DEFINE L == K \cup NameUses(pattern.binding, "AppearanceSet")
           R == Bound(U, K \cup SetUses(pattern))
           size == Cardinality(DOMAIN set)
           wanted == Len(pattern.members)
           first == IF pattern.binding = NoName
                      THEN <<b>> ELSE Bind(b, pattern.binding, <<"AppearanceSet", set>>)
           All(c) == CASE pattern.any -> <<c>>
                       [] ~pattern.any /\ (wanted > size \/ (~pattern.open /\ wanted # size)) -> <<>>
                       [] OTHER -> FirstOccurrences(MatchMembers(pattern.members, set, c))
           parts == [i \in DOMAIN first |->
                        IF IsFailure(first[i]) THEN <<first[i]>> ELSE All(first[i])]
<1>1. first \in Found(Bound(U, L))
  <2>1. CASE pattern.binding = NoName
    <3>1. first = <<b>> /\ L = K
      BY <2>1 DEF NameUses, Named
    <3> HIDE DEF first, L
    <3> QED
      BY <3>1, FoundSimple
  <2>2. CASE pattern.binding # NoName
    <3>1. first = Bind(b, pattern.binding, <<"AppearanceSet", set>>)
      BY <2>2
    <3>2. NameUses(pattern.binding, "AppearanceSet") = {<<pattern.binding, "AppearanceSet">>}
      BY <2>2 DEF NameUses, Named
    <3>3. <<pattern.binding, "AppearanceSet">> \in U
      BY <3>2 DEF IsServed, Serves, OwnUses, SetUses
    <3>4. <<"AppearanceSet", set>> \in Values /\ Domain(<<"AppearanceSet", set>>) = "AppearanceSet"
      BY DEF Values, Domains, IdentityDomains, Domain
    <3> HIDE DEF first
    <3> QED
      BY <3>1, <3>2, <3>3, <3>4, BindIsFound
  <2> QED
    BY <2>1, <2>2
<1>2. L \cup UNION {MemberUses(m) : m \in Members(pattern)} = K \cup SetUses(pattern)
  BY DEF SetUses
<1>3. IsServed(U, L, pattern)
  <2>1. Names(K) \subseteq Names(L)
    BY DEF Names
  <2> QED
    BY <2>1 DEF IsServed
<1> HIDE DEF first, L
<1>4. ASSUME NEW c \in Bound(U, L) PROVE All(c) \in Found(R)
  <2>1. CASE pattern.any
    <3>1. All(c) = <<c>>
      BY <2>1
    <3>2. Members(pattern) = {}
      BY <2>1 DEF IsServed, IsPattern, Members
    <3>3. R = Bound(U, L)
      BY <3>2, <1>2
    <3> HIDE DEF R, All
    <3> QED
      BY <3>1, <3>3, FoundSimple
  <2>2. CASE ~pattern.any
    <3> DEFINE found == MatchMembers(pattern.members, set, c)
    <3>1. found \in Found(R)
      <4>1. found \in Found(Bound(U, L \cup
                        UNION {MemberUses(pattern.members[j]) : j \in 1..Len(pattern.members)}))
        BY <1>3, MembersAreSound, MembersAreFound
      <4> QED
        BY <4>1, <1>2, <1>3, MembersAreSound
    <3> HIDE DEF found, R
    <3>2. FirstOccurrences(found) \in Found(R)
      <4>1. {i \in DOMAIN found : \A j \in 1..i - 1 : found[j] # found[i]} \in SUBSET DOMAIN found
        OBVIOUS
      <4> QED
        BY <3>1, <4>1, ChosenAreElements DEF FirstOccurrences, Found
    <3>3. All(c) = <<>> \/ All(c) = FirstOccurrences(found)
      BY <2>2 DEF found
    <3> HIDE DEF All
    <3> QED
      BY <3>2, <3>3, FoundSimple
  <2> QED
    BY <2>1, <2>2
<1>5. MatchAppearanceSet(pattern, set, b) = FlattenSeq(parts)
  BY DEF MatchAppearanceSet, Each, first
<1> HIDE DEF All, R
<1>6. FlattenSeq(parts) \in Found(R)
  BY <1>1, <1>4, BoundIsProper, EachIsFound
<1> QED
  BY <1>5, <1>6 DEF R

LEMMA FieldsAreFound ==
    ASSUME posits \in Databases,
           NEW U, Consistent(U), NEW K, NEW b \in Bound(U, K),
           NEW pattern, IsPattern(pattern), Foreseen(pattern), FieldUses(pattern) \subseteq U,
           NEW p \in DOMAIN posits
    PROVE  MatchFields(pattern, p, b) \in Found(Bound(U, K \cup FieldUses(pattern)))
<1> DEFINE value == posits[p].value
           time == posits[p].time
           L == K \cup NameUses(pattern.posit, "Posit")
           M == L \cup SlotUses(pattern.value, "Literal")
           R == Bound(U, K \cup FieldUses(pattern))
           first == IF pattern.posit = NoName
                      THEN <<b>> ELSE Bind(b, pattern.posit, <<"Posit", p>>)
           ValueOf(c) ==
               CASE pattern.value.kind = "any"      -> <<c>>
                 [] pattern.value.kind = "variable" ->
                       Bind(c, pattern.value.name, <<"Literal", value>>)
                 [] pattern.value.kind = "exactly"  ->
                       CASE ~Comparable(value, pattern.value.content) -> <<Failed("Comparison")>>
                         [] OTHER -> IF value.amount = pattern.value.content.amount
                                       THEN <<c>> ELSE <<>>
           TimeAt(c) ==
               CASE pattern.time.kind = "any"      -> <<c>>
                 [] pattern.time.kind = "variable" -> Bind(c, pattern.time.name, <<"Time", time>>)
                 [] pattern.time.kind = "exactly"  ->
                       IF time = pattern.time.content THEN <<c>> ELSE <<>>
           valued == [i \in DOMAIN first |->
                         IF IsFailure(first[i]) THEN <<first[i]>> ELSE ValueOf(first[i])]
           second == FlattenSeq(valued)
           timed == [i \in DOMAIN second |->
                        IF IsFailure(second[i]) THEN <<second[i]>> ELSE TimeAt(second[i])]
<1>1. /\ <<"Posit", p>> \in Values /\ Domain(<<"Posit", p>>) = "Posit"
      /\ <<"Literal", value>> \in Values /\ Domain(<<"Literal", value>>) = "Literal"
      /\ <<"Time", time>> \in Values /\ Domain(<<"Time", time>>) = "Time"
  <2>1. p \in Nat /\ p \in Contents /\ value \in Contents /\ time \in Contents
    BY StoreIsSound
  <2> QED
    BY <2>1 DEF Values, Domains, IdentityDomains, Domain
<1>2. first \in Found(Bound(U, L))
  <2>1. CASE pattern.posit = NoName
    <3>1. first = <<b>> /\ L = K
      BY <2>1 DEF NameUses, Named
    <3> HIDE DEF first, L
    <3> QED
      BY <3>1, FoundSimple
  <2>2. CASE pattern.posit # NoName
    <3>1. first = Bind(b, pattern.posit, <<"Posit", p>>)
      BY <2>2
    <3>2. NameUses(pattern.posit, "Posit") = {<<pattern.posit, "Posit">>}
      BY <2>2 DEF NameUses, Named
    <3>3. <<pattern.posit, "Posit">> \in U
      BY <3>2 DEF FieldUses
    <3> HIDE DEF first
    <3> QED
      BY <3>1, <3>2, <3>3, <1>1, BindIsFound
  <2> QED
    BY <2>1, <2>2
<1> HIDE DEF first
<1>3. ASSUME NEW c \in Bound(U, L) PROVE ValueOf(c) \in Found(Bound(U, M))
  <2>1. CASE pattern.value.kind = "any" \/ pattern.value.kind = "exactly"
    <3>1. M = L
      BY <2>1 DEF SlotUses, IsVariable
    <3>2. \/ ValueOf(c) \in {<<c>>, <<>>}
          \/ ValueOf(c) = <<Failed("Comparison")>> /\ MustMaterialize(query)
      BY <2>1 DEF Foreseen
    <3> HIDE DEF ValueOf, M, L
    <3> QED
      BY <3>1, <3>2, FoundSimple, BenignFails
  <2>2. CASE pattern.value.kind = "variable"
    <3>1. ValueOf(c) = Bind(c, pattern.value.name, <<"Literal", value>>)
      BY <2>2
    <3>2. /\ M = L \cup {<<pattern.value.name, "Literal">>}
          /\ <<pattern.value.name, "Literal">> \in U
      BY <2>2 DEF SlotUses, IsVariable, FieldUses
    <3> HIDE DEF ValueOf, M, L, value
    <3> QED
      BY <3>1, <3>2, <1>1, BindIsFound
  <2> QED
    BY <2>1, <2>2 DEF IsPattern
<1>4. ASSUME NEW c \in Bound(U, M) PROVE TimeAt(c) \in Found(R)
  <2>0. R = Bound(U, M \cup SlotUses(pattern.time, "Time"))
    BY DEF FieldUses
  <2>1. CASE pattern.time.kind = "any" \/ pattern.time.kind = "exactly"
    <3>1. R = Bound(U, M)
      BY <2>0, <2>1 DEF SlotUses, IsVariable
    <3>2. TimeAt(c) \in {<<c>>, <<>>}
      BY <2>1
    <3> HIDE DEF TimeAt, R, M
    <3> QED
      BY <3>1, <3>2, FoundSimple
  <2>2. CASE pattern.time.kind = "variable"
    <3>1. TimeAt(c) = Bind(c, pattern.time.name, <<"Time", time>>)
      BY <2>2
    <3>2. /\ R = Bound(U, M \cup {<<pattern.time.name, "Time">>})
          /\ <<pattern.time.name, "Time">> \in U
      BY <2>0, <2>2 DEF SlotUses, IsVariable, FieldUses
    <3> HIDE DEF TimeAt, R, M, time
    <3> QED
      BY <3>1, <3>2, <1>1, BindIsFound
  <2> QED
    BY <2>1, <2>2 DEF IsPattern
<1>5. MatchFields(pattern, p, b) = FlattenSeq(timed)
  BY DEF MatchFields, Each, first
<1> HIDE DEF ValueOf, TimeAt, L, M, R
<1>6. second \in Found(Bound(U, M))
  BY <1>2, <1>3, BoundIsProper, EachIsFound
<1> HIDE DEF second
<1>7. FlattenSeq(timed) \in Found(R)
  BY <1>4, <1>6, BoundIsProper, EachIsFound
<1> QED
  BY <1>5, <1>7 DEF R

LEMMA PositIsFound ==
    ASSUME posits \in Databases,
           NEW U, Consistent(U), NEW K, NEW b \in Bound(U, K),
           NEW pattern, IsServed(U, K, pattern), NEW p \in DOMAIN posits
    PROVE  MatchPosit(pattern, p, b) \in Found(Bound(U, K \cup OwnUses(pattern)))
<1> DEFINE L == K \cup SetUses(pattern)
           found == MatchAppearanceSet(pattern, posits[p].set, b)
           parts == [i \in DOMAIN found |->
                        IF IsFailure(found[i])
                          THEN <<found[i]>> ELSE MatchFields(pattern, p, found[i])]
<1>1. posits[p].set \in Contents /\ IsSet(posits[p].set)
  BY StoreIsSound DEF IsSet
<1>2. found \in Found(Bound(U, L))
  BY <1>1, SetIsFound
<1>3. K \cup OwnUses(pattern) = L \cup FieldUses(pattern) /\ FieldUses(pattern) \subseteq U
  BY DEF OwnUses, IsServed, Serves
<1>4. MatchPosit(pattern, p, b) = FlattenSeq(parts)
  BY DEF MatchPosit, Each
<1> HIDE DEF L, found
<1>5. \A c \in Bound(U, L) : MatchFields(pattern, p, c) \in Found(Bound(U, K \cup OwnUses(pattern)))
  BY <1>3, FieldsAreFound DEF IsServed
<1>6. FlattenSeq(parts) \in Found(Bound(U, K \cup OwnUses(pattern)))
  BY <1>2, <1>5, BoundIsProper, EachIsFound
<1> QED
  BY <1>4, <1>6

-----------------------------------------------------------------------------
(***************************************************************************)
(* The candidates of a pattern: the look-up finds what it needs at the     *)
(* domain it needs, and no more candidates than the plan estimates.        *)
(***************************************************************************)
LEMMA BoundDomain ==
    ASSUME NEW U, Consistent(U), NEW K, NEW b \in Bound(U, K),
           NEW name \in DOMAIN b, NEW domain, <<name, domain>> \in U
    PROVE  Domain(b[name]) = domain \/ {Domain(b[name]), domain} = IdentityDomains
<1>1. <<name, Domain(b[name])>> \in U
  BY BoundIsTyped
<1>2. /\ <<name, Domain(b[name])>>[1] = name /\ <<name, Domain(b[name])>>[2] = Domain(b[name])
      /\ <<name, domain>>[1] = name /\ <<name, domain>>[2] = domain
  OBVIOUS
<1> QED
  BY <1>1, <1>2 DEF Consistent, Conflict

LEMMA BoundNames ==
    ASSUME NEW U, Consistent(U), NEW K, NEW b \in Bound(U, K)
    PROVE  /\ NoName \notin DOMAIN b
           /\ Names(K) \subseteq DOMAIN b
<1>1. DOMAIN b \subseteq Names(U)
  BY BoundIsTyped
<1>2. ASSUME NEW name \in Names(K) PROVE name \in DOMAIN b
  BY BoundIsTyped DEF Names
<1> QED
  BY <1>1, <1>2 DEF Consistent

LEMMA BoundIdentity ==
    ASSUME NEW U, Consistent(U), NEW K, NEW b \in Bound(U, K), NEW names,
           OnlyIdentities(U, names), NEW name \in names \cap DOMAIN b
    PROVE  Domain(b[name]) \in IdentityDomains
<1>1. <<name, Domain(b[name])>> \in U
  BY BoundIsTyped
<1>2. <<name, Domain(b[name])>>[1] = name /\ <<name, Domain(b[name])>>[2] = Domain(b[name])
  OBVIOUS
<1> QED
  BY <1>1, <1>2 DEF OnlyIdentities

LEMMA LookupsSucceed ==
    ASSUME NEW U, Consistent(U), NEW K, NEW b \in Bound(U, K),
           NEW pattern, IsServed(U, K, pattern)
    PROVE  /\ LookupErrors(pattern, b) = {}
           /\ \A name \in {pattern.posit} \cap DOMAIN b : Domain(b[name]) \in IdentityDomains
<1>1. ASSUME NEW name \in {pattern.posit} \cap DOMAIN b
      PROVE  Domain(b[name]) \in IdentityDomains
  <2>1. name # NoName /\ name \in DOMAIN b
    BY BoundNames
  <2>2. <<name, "Posit">> \in U
    BY <2>1 DEF IsServed, Serves, OwnUses, FieldUses, NameUses, Named
  <2> QED
    BY <2>1, <2>2, BoundDomain DEF IdentityDomains
<1>2. ASSUME NEW name \in {pattern.binding} \cap DOMAIN b
      PROVE  Domain(b[name]) \in {"AppearanceSet"}
  <2>1. name # NoName /\ name \in DOMAIN b
    BY BoundNames
  <2>2. <<name, "AppearanceSet">> \in U
    BY <2>1 DEF IsServed, Serves, OwnUses, SetUses, NameUses, Named
  <2> QED
    BY <2>1, <2>2, BoundDomain DEF IdentityDomains
<1>3. ASSUME NEW m \in Members(pattern)
      PROVE  /\ IsVariable(m.thing) =>
                   \A name \in {m.thing.name} \cap DOMAIN b : Domain(b[name]) \in IdentityDomains
             /\ m.thing.kind = "one_of" =>
                   /\ \A name \in m.thing.names \cap DOMAIN b : Domain(b[name]) \in IdentityDomains
                   /\ m.thing.names \subseteq DOMAIN b
             /\ IsVariable(m.role) =>
                   \A name \in {m.role.name} \cap DOMAIN b : Domain(b[name]) \in {"Role"}
  <2>1. MemberIsSound(U, K, m)
    BY MembersAreSound
  <2>2. ASSUME IsVariable(m.thing), NEW name \in {m.thing.name} \cap DOMAIN b
        PROVE  Domain(b[name]) \in IdentityDomains
    <3>1. <<name, "Thing">> \in U /\ name \in DOMAIN b
      BY <2>1, <2>2 DEF MemberIsSound, MemberUses, SlotUses
    <3> QED
      BY <3>1, BoundDomain DEF IdentityDomains
  <2>3. ASSUME m.thing.kind = "one_of", NEW name \in m.thing.names \cap DOMAIN b
        PROVE  Domain(b[name]) \in IdentityDomains
    BY <2>1, <2>3, BoundIdentity DEF MemberIsSound
  <2>4. m.thing.kind = "one_of" => m.thing.names \subseteq DOMAIN b
    BY <2>1, BoundNames DEF MemberIsSound
  <2>5. ASSUME IsVariable(m.role), NEW name \in {m.role.name} \cap DOMAIN b
        PROVE  Domain(b[name]) \in {"Role"}
    <3>1. <<name, "Role">> \in U /\ name \in DOMAIN b
      BY <2>1, <2>5 DEF MemberIsSound, MemberUses, SlotUses
    <3> QED
      BY <3>1, BoundDomain DEF IdentityDomains
  <2> QED
    BY <2>2, <2>3, <2>4, <2>5
<1> QED
  BY <1>1, <1>2, <1>3 DEF LookupErrors

LEMMA PostingsAreFinite ==
    ASSUME posits \in Databases, NEW U, Consistent(U), NEW K, NEW b \in Bound(U, K),
           NEW pattern, IsServed(U, K, pattern), NEW posting \in Postings(pattern, b)
    PROVE  /\ posting \subseteq Nat /\ IsFiniteSet(posting)
           /\ \/ posting \subseteq DOMAIN posits
              \/ DOMAIN posits # {} /\ \E p : posting = {p}
<1> USE StoreIsSound
<1>1. CASE posting \subseteq DOMAIN posits
  BY <1>1, FS_Subset
<1>2. ASSUME NEW name \in {pattern.posit} \cap DOMAIN b, posting = {Content(b[name])}
      PROVE  DOMAIN posits # {} /\ posting \subseteq Nat /\ IsFiniteSet(posting)
  <2>1. Domain(b[name]) \in IdentityDomains
    BY LookupsSucceed
  <2>2. b[name] \in Values
    BY BoundIsTyped
  <2>3. Content(b[name]) \in Nat /\ DOMAIN posits # {}
    BY <2>1, <2>2 DEF Values, Domain, Content, Contents
  <2> QED
    BY <1>2, <2>3, FS_Singleton
<1>3. \/ \E name \in {pattern.posit} \cap DOMAIN b : posting = {Content(b[name])}
      \/ posting \subseteq DOMAIN posits
  <2>1. \A set : SetPosting(set) \subseteq DOMAIN posits
    BY DEF SetPosting
  <2>2. \A m : \A x \in MemberPostings(m, b) : x \subseteq DOMAIN posits
    BY DEF MemberPostings, RolePosting, ThingsPosting
  <2> QED
    BY <2>1, <2>2 DEF Postings
<1> QED
  BY <1>1, <1>2, <1>3

LEMMA NamedRoleIsPosted ==
    ASSUME NEW pattern, NEW b, NEW role \in NamedRoles(pattern)
    PROVE  RolePosting(role) \in Postings(pattern, b)
<1>1. PICK m \in Members(pattern) : m.role.kind = "exactly" /\ role = m.role.content
  BY DEF NamedRoles
<1>2. IndexedRole(m.role, b) = {role}
  BY <1>1 DEF IndexedRole, IsVariable
<1>3. RolePosting(role) \in MemberPostings(m, b)
  BY <1>2 DEF MemberPostings
<1> QED
  BY <1>3 DEF Postings

\* What a plan says of the number of candidates.
IsBounded(planned) ==
    /\ planned.estimate \in Nat
    /\ IF NamedRoles(planned.pattern) = {}
         THEN Cardinality(DOMAIN posits) <= planned.estimate
         ELSE /\ planned.access # "full_scan"
              /\ \E role \in NamedRoles(planned.pattern) :
                    Cardinality(RolePosting(role)) <= planned.estimate

(***************************************************************************)
(* For any pattern whose names are used consistently, candidate_posits     *)
(* yields posits of the store or an invariant error, without asking an     *)
(* index for a name of another domain; and not more than were estimated,   *)
(* if the estimate was made as estimated_candidate_count makes it.         *)
(***************************************************************************)
THEOREM CandidatesAreBounded ==
    ASSUME posits \in Databases, NEW U, Consistent(U), NEW K, NEW b \in Bound(U, K),
           NEW planned, IsServed(U, K, planned.pattern)
    PROVE  /\ Candidates(planned, b) \in Found([posit: DOMAIN posits])
           /\ IsBounded(planned) => Len(Candidates(planned, b)) <= planned.estimate
<1> DEFINE pattern == planned.pattern
           postings == Postings(pattern, b)
           ids == IF planned.access = "full_scan" \/ postings = {}
                    THEN DOMAIN posits
                    ELSE {p \in UNION postings : \A posting \in postings : p \in posting}
           sorted == Ascending(ids)
           found == [i \in DOMAIN sorted |->
                       IF sorted[i] \in DOMAIN posits
                         THEN [posit |-> sorted[i]] ELSE Failed("Invariant")]
<1>1. DOMAIN posits \subseteq Nat /\ IsFiniteSet(DOMAIN posits)
  BY StoreIsSound
<1>2. ASSUME planned.access # "full_scan", NEW posting \in postings PROVE ids \subseteq posting
  BY <1>2
<1>3. ids \subseteq Nat /\ IsFiniteSet(ids)
  <2>1. CASE planned.access = "full_scan" \/ postings = {}
    BY <1>1, <2>1
  <2>2. CASE planned.access # "full_scan" /\ postings # {}
    <3>1. PICK posting \in postings : TRUE
      BY <2>2
    <3>2. posting \subseteq Nat /\ IsFiniteSet(posting)
      BY <3>1, PostingsAreFinite
    <3>3. ids \subseteq posting
      BY <1>2, <2>2
    <3> HIDE DEF ids
    <3> QED
      BY <3>2, <3>3, FS_Subset
  <2> QED
    BY <2>1, <2>2
<1>4. Candidates(planned, b) = found
  <2>1. LookupErrors(pattern, b) = {}
    BY LookupsSucceed
  <2> QED
    BY <2>1 DEF Candidates
<1>5. ASSUME IsBounded(planned) PROVE Cardinality(ids) <= planned.estimate
  <2>1. CASE NamedRoles(pattern) # {}
    <3>1. PICK role \in NamedRoles(pattern) : Cardinality(RolePosting(role)) <= planned.estimate
      BY <1>5, <2>1 DEF IsBounded
    <3>2. RolePosting(role) \in postings /\ planned.access # "full_scan"
      BY <1>5, <2>1, NamedRoleIsPosted DEF IsBounded
    <3>3. ids \subseteq RolePosting(role)
      BY <1>2, <3>2
    <3>4. IsFiniteSet(RolePosting(role))
      BY <3>2, PostingsAreFinite
    <3> HIDE DEF ids
    <3>5. Cardinality(ids) <= Cardinality(RolePosting(role))
      BY <3>3, <3>4, FS_Subset
    <3>6. Cardinality(ids) \in Nat /\ Cardinality(RolePosting(role)) \in Nat
      BY <1>3, <3>4, FS_CardinalityType
    <3> QED
      BY <3>1, <3>5, <3>6, <1>5 DEF IsBounded
  <2>2. CASE NamedRoles(pattern) = {}
    <3>1. Cardinality(DOMAIN posits) <= planned.estimate /\ planned.estimate \in Nat
      BY <1>5, <2>2 DEF IsBounded
    <3>2. Cardinality(DOMAIN posits) \in Nat
      BY <1>1, FS_CardinalityType
    <3>3. CASE ids \subseteq DOMAIN posits
      <4> HIDE DEF ids
      <4>1. Cardinality(ids) <= Cardinality(DOMAIN posits) /\ Cardinality(ids) \in Nat
        BY <1>1, <1>3, <3>3, FS_Subset, FS_CardinalityType
      <4> QED
        BY <3>1, <3>2, <4>1
    <3>4. CASE ~ ids \subseteq DOMAIN posits
      <4>1. planned.access # "full_scan" /\ postings # {}
        BY <3>4
      <4>2. PICK posting \in postings : TRUE
        BY <4>1
      <4>3. ids \subseteq posting
        BY <1>2, <4>1
      <4>4. DOMAIN posits # {} /\ \E p : posting = {p}
        BY <4>3, <3>4, PostingsAreFinite
      <4>5. PICK p : posting = {p}
        BY <4>4
      <4> HIDE DEF ids
      <4>6. Cardinality(ids) <= 1 /\ Cardinality(ids) \in Nat
        <5>1. IsFiniteSet(posting) /\ Cardinality(posting) = 1
          BY <4>5, FS_Singleton
        <5>2. Cardinality(ids) <= Cardinality(posting)
          BY <4>3, <5>1, FS_Subset
        <5> QED
          BY <1>3, <5>1, <5>2, FS_CardinalityType
      <4>7. Cardinality(DOMAIN posits) # 0
        BY <1>1, <4>4, FS_EmptySet
      <4> QED
        BY <3>1, <3>2, <4>6, <4>7
    <3> QED
      BY <3>3, <3>4
  <2> QED
    BY <2>1, <2>2
<1> HIDE DEF ids
<1>6. sorted \in Seq(ids) /\ Len(sorted) = Cardinality(ids)
  BY <1>3, AscendingLists
<1> HIDE DEF sorted
<1>7. found \in Found([posit: DOMAIN posits]) /\ Len(found) = Len(sorted)
  <2>1. \A i \in 1..Len(sorted) : found[i] \in [posit: DOMAIN posits] \cup Benign
    BY <1>6, BenignFails
  <2>2. DOMAIN sorted = 1..Len(sorted) /\ Len(sorted) \in Nat
    BY <1>6
  <2>3. found = [i \in 1..Len(sorted) |-> found[i]]
    BY <2>2
  <2> HIDE DEF found
  <2>4. found \in Seq([posit: DOMAIN posits] \cup Benign) /\ Len(found) = Len(sorted)
    BY <2>1, <2>2, <2>3
  <2> QED
    BY <2>4 DEF Found
<1> QED
  BY <1>4, <1>5, <1>6, <1>7

LEMMA CandidatesAreProper == Proper([posit: DOMAIN posits])
BY DEF Proper, IsFailure
-----------------------------------------------------------------------------
(***************************************************************************)
(* The indexes lose nothing.  A match of a posit extends the binding it    *)
(* starts from; what that binding says of the pattern's names the posit    *)
(* therefore satisfies, and it is in every posting they select.            *)
(***************************************************************************)
LEMMA AscendingListsOnce ==
    ASSUME NEW S \in SUBSET Nat, IsFiniteSet(S), NEW n \in S
    PROVE  \E k \in 1..Len(Ascending(S)) :
               \A j \in 1..Len(Ascending(S)) : Ascending(S)[j] = n <=> j = k
<1> DEFINE c == Cardinality(S)
           k == Preceding(S, n) + 1
<1>1. c \in Nat /\ Len(Ascending(S)) = c /\ Ascending(S) \in [1..c -> S]
  BY AscendingLists
<1>2. /\ \A m \in S : Preceding(S, m) \in 0..(c - 1)
      /\ \A m \in S : m # n => Preceding(S, m) # Preceding(S, n)
  BY PrecedingGrows, RanksAreTaken
<1>3. ASSUME NEW j \in 1..c PROVE Preceding(S, Ascending(S)[j]) = j - 1
  <2>1. \E m \in S : Preceding(S, m) = j - 1
    BY <1>3, RanksAreTaken
  <2>2. Ascending(S)[j] = CHOOSE m \in S : Preceding(S, m) = j - 1
    BY <1>1, <1>3 DEF Ascending, InOrder, Preceding
  <2> QED
    BY <2>1, <2>2
<1>4. k \in 1..c
  BY <1>1, <1>2
<1>5. Ascending(S)[k] = n
  <2>1. Preceding(S, Ascending(S)[k]) = Preceding(S, n)
    BY <1>1, <1>2, <1>3, <1>4
  <2>2. Ascending(S)[k] \in S
    BY <1>1, <1>4
  <2> QED
    BY <1>2, <2>1, <2>2
<1>6. ASSUME NEW j \in 1..c, Ascending(S)[j] = n PROVE j = k
  BY <1>1, <1>2, <1>3, <1>6
<1> HIDE DEF k, c
<1> QED
  BY <1>1, <1>4, <1>5, <1>6

Keeps(c, b) == \A name \in DOMAIN b : name \in DOMAIN c /\ Content(c[name]) = Content(b[name])

Extensions(U, K, b) == {c \in Bound(U, K) : Keeps(c, b)}

LEMMA FoundAmong ==
    ASSUME NEW R, Proper(R), NEW found \in Found(R), NEW S,
           \A i \in DOMAIN found : ~IsFailure(found[i]) /\ found[i] \in R => found[i] \in S
    PROVE  found \in Found(S)
<1>1. /\ DOMAIN found = 1..Len(found) /\ Len(found) \in Nat
      /\ \A i \in DOMAIN found :
            IF IsFailure(found[i]) THEN found[i] \in Benign ELSE found[i] \in R
  BY FoundElements
<1>2. \A i \in 1..Len(found) : found[i] \in S \cup Benign
  BY <1>1
<1>3. found = [i \in 1..Len(found) |-> found[i]]
  BY <1>1 DEF Found
<1> QED
  BY <1>1, <1>2, <1>3 DEF Found

\* Found({}) is no match, only errors; and nothing follows from it.
LEMMA NothingFound ==
    ASSUME NEW found \in Found({}), NEW parts,
           parts = [i \in DOMAIN found |-> parts[i]],
           \A i \in DOMAIN found : IsFailure(found[i]) => parts[i] = <<found[i]>>
    PROVE  FlattenSeq(parts) \in Found({})
<1>1. Proper({})
  BY DEF Proper
<1> QED
  BY <1>1, EachIsFound

LEMMA ExtensionsAreProper ==
    ASSUME NEW U, Consistent(U), NEW K, NEW b
    PROVE  Proper(Extensions(U, K, b)) /\ Proper(Partials(Extensions(U, K, b)))
<1>1. Extensions(U, K, b) \subseteq Bound(U, K)
  BY DEF Extensions
<1> QED
  BY <1>1, BoundIsProper, PartialsAreProper DEF Proper

(***************************************************************************)
(* Binding::bind keeps the content of every name.                          *)
(***************************************************************************)
LEMMA BindKeeps ==
    ASSUME NEW b, b = [n \in DOMAIN b |-> b[n]], NEW name, NEW value,
           NEW i \in DOMAIN Bind(b, name, value), ~IsFailure(Bind(b, name, value)[i])
    PROVE  /\ Keeps(Bind(b, name, value)[i], b)
           /\ name \in DOMAIN Bind(b, name, value)[i]
           /\ Content(Bind(b, name, value)[i][name]) = Content(value)
<1> DEFINE found == Bind(b, name, value)
<1>1. CASE name \notin DOMAIN b
  <2> DEFINE c == [n \in DOMAIN b \cup {name} |-> IF n = name THEN value ELSE b[n]]
  <2>1. found = <<c>>
    BY <1>1 DEF Bind
  <2>2. Keeps(c, b) /\ name \in DOMAIN c /\ c[name] = value
    BY <1>1 DEF Keeps
  <2> HIDE DEF c, found
  <2>3. found[i] = c
    <3>1. i \in DOMAIN found
      BY DEF found
    <3> QED
      BY <2>1, <3>1
  <2> QED
    BY <2>2, <2>3 DEF found
<1>2. CASE name \in DOMAIN b /\ {Domain(b[name]), Domain(value)} = IdentityDomains
  <2> DEFINE c == [b EXCEPT ![name] = <<"Posit", Content(value)>>]
  <2>1. found = IF Content(b[name]) = Content(value) THEN <<c>> ELSE <<>>
    BY <1>2 DEF Bind
  <2>2. Content(b[name]) = Content(value)
            => Keeps(c, b) /\ name \in DOMAIN c /\ Content(c[name]) = Content(value)
    BY <1>2 DEF Keeps, Content
  <2> HIDE DEF c, found
  <2>3. Content(b[name]) = Content(value) /\ found[i] = c
    <3>1. i \in DOMAIN found
      BY DEF found
    <3> QED
      BY <2>1, <3>1
  <2> QED
    BY <2>2, <2>3 DEF found
<1>3. CASE name \in DOMAIN b /\ {Domain(b[name]), Domain(value)} # IdentityDomains
  <2>1. \/ found = <<Failed("VariableDomain")>>
        \/ b[name] = value /\ found = <<b>>
        \/ found = <<>>
    BY <1>3 DEF Bind
  <2>2. IsFailure(Failed("VariableDomain"))
    BY DEF IsFailure, Failed
  <2>3. Keeps(b, b)
    BY DEF Keeps
  <2> HIDE DEF found
  <2>4. b[name] = value /\ found[i] = b
    <3>1. i \in DOMAIN found /\ ~IsFailure(found[i])
      BY DEF found
    <3> QED
      BY <2>1, <2>2, <3>1
  <2> QED
    BY <1>3, <2>3, <2>4 DEF found
<1> QED
  BY <1>1, <1>2, <1>3

LEMMA BindExtends ==
    ASSUME NEW U, Consistent(U), NEW K, NEW a, NEW b \in Extensions(U, K, a),
           NEW name, NEW domain, <<name, domain>> \in U,
           NEW value \in Values, Domain(value) = domain
    PROVE  /\ Bind(b, name, value) \in Found(Extensions(U, K \cup {<<name, domain>>}, a))
           /\ name \in DOMAIN a /\ Content(a[name]) # Content(value)
                  => Bind(b, name, value) \in Found({})
<1> DEFINE L == K \cup {<<name, domain>>}
           found == Bind(b, name, value)
<1>1. b \in Bound(U, K) /\ Keeps(b, a)
  BY DEF Extensions
<1>2. found \in Found(Bound(U, L)) /\ Proper(Bound(U, L))
  BY <1>1, BindIsFound, BoundIsProper
<1>3. b = [n \in DOMAIN b |-> b[n]]
  BY <1>1, BoundIsTyped
<1>4. ASSUME NEW i \in DOMAIN found, ~IsFailure(found[i]), found[i] \in Bound(U, L)
      PROVE  /\ found[i] \in Extensions(U, L, a)
             /\ name \in DOMAIN a => Content(a[name]) = Content(value)
  <2>1. /\ Keeps(found[i], b)
        /\ name \in DOMAIN found[i] /\ Content(found[i][name]) = Content(value)
    BY <1>3, <1>4, BindKeeps
  <2> HIDE DEF found, L
  <2>2. Keeps(found[i], a)
    BY <1>1, <2>1 DEF Keeps
  <2>3. name \in DOMAIN a => Content(a[name]) = Content(value)
    BY <2>1, <2>2 DEF Keeps
  <2> QED
    BY <1>4, <2>2, <2>3 DEF Extensions
<1> HIDE DEF found, L
<1>5. found \in Found(Extensions(U, L, a))
  BY <1>2, <1>4, FoundAmong
<1>6. name \in DOMAIN a /\ Content(a[name]) # Content(value) => found \in Found({})
  BY <1>2, <1>4, FoundAmong
<1> QED
  BY <1>5, <1>6 DEF found, L

(***************************************************************************)
(* A member whose slots, as far as a binding restricts them, a role and a  *)
(* thing of a set satisfy.                                                 *)
(***************************************************************************)
MemberAgrees(m, role, thing, a) ==
    /\ IndexedRole(m.role, a) \subseteq {role}
    /\ IndexedThings(m.thing, a) # {} => thing \in IndexedThings(m.thing, a)

SomeRoleAgrees(m, set, a) == \E role \in DOMAIN set : MemberAgrees(m, role, set[role], a)

LEMMA OneOfExtends ==
    ASSUME NEW U, NEW K, NEW a, NEW b \in Extensions(U, K, a), NEW names, NEW thing,
           names \subseteq Names(K), OnlyIdentities(U, names), names \subseteq DOMAIN a
    PROVE  /\ MatchOneOf(names, thing, b) \in Found(Extensions(U, K, a))
           /\ (\A name \in names : Content(a[name]) # thing)
                  => MatchOneOf(names, thing, b) \in Found({})
<1>1. b \in Bound(U, K) /\ Keeps(b, a)
  BY DEF Extensions
<1>2. names \subseteq DOMAIN b
  BY <1>1, BoundIsTyped DEF Names
<1>3. \A name \in names \cap DOMAIN b : Domain(b[name]) \in IdentityDomains
  <2> SUFFICES ASSUME NEW name \in names \cap DOMAIN b
               PROVE  Domain(b[name]) \in IdentityDomains
    OBVIOUS
  <2>1. <<name, Domain(b[name])>> \in U
    BY <1>1, BoundIsTyped
  <2>2. <<name, Domain(b[name])>>[1] = name /\ <<name, Domain(b[name])>>[2] = Domain(b[name])
    OBVIOUS
  <2> QED
    BY <2>1, <2>2 DEF OnlyIdentities
<1>4. MatchOneOf(names, thing, b)
        = IF \E name \in names : Content(b[name]) = thing THEN <<b>> ELSE <<>>
  BY <1>2, <1>3 DEF MatchOneOf
<1>5. \A name \in names : Content(b[name]) = Content(a[name])
  BY <1>1 DEF Keeps
<1> QED
  BY <1>4, <1>5, FoundSimple

LEMMA AppearanceAgrees ==
    ASSUME NEW U, Consistent(U), NEW K, NEW a, NEW b \in Extensions(U, K, a),
           NEW m, MemberIsSound(U, K, m), NEW role \in Nat, NEW thing \in Nat,
           Nat \subseteq Contents,
           m.thing.kind = "one_of" => m.thing.names \subseteq DOMAIN a
    PROVE  /\ MatchAppearance(m, role, thing, b)
                  \in Found(Extensions(U, K \cup MemberUses(m), a))
           /\ ~MemberAgrees(m, role, thing, a)
                  => MatchAppearance(m, role, thing, b) \in Found({})
<1> DEFINE L == K \cup SlotUses(m.thing, "Thing")
           R == Extensions(U, L, a)
           S == Extensions(U, K \cup MemberUses(m), a)
           first == CASE m.thing.kind = "any"      -> <<b>>
                      [] m.thing.kind = "variable" ->
                            Bind(b, m.thing.name, <<"Thing", thing>>)
                      [] m.thing.kind = "one_of"   -> MatchOneOf(m.thing.names, thing, b)
           Next1(c) == CASE m.role.kind = "any"      -> <<c>>
                         [] m.role.kind = "exactly"  ->
                               IF m.role.content = role THEN <<c>> ELSE <<>>
                         [] m.role.kind = "variable" -> Bind(c, m.role.name, <<"Role", role>>)
           parts == [i \in DOMAIN first |->
                        IF IsFailure(first[i]) THEN <<first[i]>> ELSE Next1(first[i])]
           things == IndexedThings(m.thing, a)
           roles == IndexedRole(m.role, a)
<1>1. /\ <<"Thing", thing>> \in Values /\ Domain(<<"Thing", thing>>) = "Thing"
      /\ Content(<<"Thing", thing>>) = thing
      /\ <<"Role", role>> \in Values /\ Domain(<<"Role", role>>) = "Role"
      /\ Content(<<"Role", role>>) = role
  BY DEF Values, Domains, Domain, Content
<1>2. K \cup MemberUses(m) = L \cup SlotUses(m.role, "Role")
  BY DEF MemberUses
<1>3. first \in Found(R) /\ (things # {} /\ thing \notin things => first \in Found({}))
  <2>1. CASE m.thing.kind = "any"
    <3>1. first = <<b>> /\ L = K
      BY <2>1 DEF SlotUses, IsVariable
    <3>2. things = {}
      BY <2>1 DEF IndexedThings, IsVariable
    <3> HIDE DEF first, L, things
    <3> QED
      BY <3>1, <3>2, FoundSimple
  <2>2. CASE m.thing.kind = "variable"
    <3>1. first = Bind(b, m.thing.name, <<"Thing", thing>>)
      BY <2>2
    <3>2. L = K \cup {<<m.thing.name, "Thing">>} /\ <<m.thing.name, "Thing">> \in U
      BY <2>2 DEF SlotUses, IsVariable, MemberIsSound, MemberUses
    <3>3. things = {Content(a[n]) : n \in {m.thing.name} \cap DOMAIN a}
      BY <2>2 DEF IndexedThings, IsVariable
    <3>4. things # {} /\ thing \notin things
              => m.thing.name \in DOMAIN a /\ Content(a[m.thing.name]) # thing
      BY <3>3
    <3> HIDE DEF first, L, things
    <3> QED
      BY <3>1, <3>2, <3>4, <1>1, BindExtends
  <2>3. CASE m.thing.kind = "one_of"
    <3>1. first = MatchOneOf(m.thing.names, thing, b) /\ L = K
      BY <2>3 DEF SlotUses, IsVariable
    <3>2. things = {Content(a[name]) : name \in m.thing.names \cap DOMAIN a}
      BY <2>3 DEF IndexedThings, IsVariable
    <3>3. thing \notin things => \A name \in m.thing.names : Content(a[name]) # thing
      BY <2>3, <3>2
    <3> HIDE DEF first, L, things
    <3> QED
      BY <2>3, <3>1, <3>3, OneOfExtends DEF MemberIsSound
  <2> QED
    BY <2>1, <2>2, <2>3 DEF MemberIsSound
<1> HIDE DEF first, L
<1>4. ASSUME NEW c \in R
      PROVE  Next1(c) \in Found(S) /\ (~ roles \subseteq {role} => Next1(c) \in Found({}))
  <2>1. CASE m.role.kind = "any"
    <3>1. L = K \cup MemberUses(m)
      BY <2>1, <1>2 DEF SlotUses, IsVariable
    <3>2. Next1(c) = <<c>>
      BY <2>1
    <3>3. roles = {}
      BY <2>1 DEF IndexedRole, IsVariable
    <3> HIDE DEF Next1, roles
    <3> QED
      BY <3>1, <3>2, <3>3, FoundSimple
  <2>2. CASE m.role.kind = "exactly"
    <3>1. L = K \cup MemberUses(m)
      BY <2>2, <1>2 DEF SlotUses, IsVariable
    <3>2. Next1(c) = IF m.role.content = role THEN <<c>> ELSE <<>>
      BY <2>2
    <3>3. roles = {m.role.content}
      BY <2>2 DEF IndexedRole, IsVariable
    <3> HIDE DEF Next1, roles
    <3> QED
      BY <3>1, <3>2, <3>3, FoundSimple
  <2>3. CASE m.role.kind = "variable"
    <3>1. Next1(c) = Bind(c, m.role.name, <<"Role", role>>)
      BY <2>3
    <3>2. /\ K \cup MemberUses(m) = L \cup {<<m.role.name, "Role">>}
          /\ <<m.role.name, "Role">> \in U
      BY <2>3, <1>2 DEF SlotUses, IsVariable, MemberIsSound, MemberUses
    <3>3. roles = {Content(a[n]) : n \in {m.role.name} \cap DOMAIN a}
      BY <2>3 DEF IndexedRole, IsVariable
    <3>4. ~ roles \subseteq {role}
              => m.role.name \in DOMAIN a /\ Content(a[m.role.name]) # role
      BY <3>3
    <3> HIDE DEF Next1, roles
    <3> QED
      BY <3>1, <3>2, <3>4, <1>1, BindExtends
  <2> QED
    BY <2>1, <2>2, <2>3 DEF MemberIsSound
<1>5. MatchAppearance(m, role, thing, b) = FlattenSeq(parts)
  BY DEF MatchAppearance, Each, first
<1>6. Proper(R)
  BY ExtensionsAreProper
<1>7. MemberAgrees(m, role, thing, a)
        <=> roles \subseteq {role} /\ (things # {} => thing \in things)
  BY DEF MemberAgrees
<1> HIDE DEF Next1, R, S, things, roles
<1>8. FlattenSeq(parts) \in Found(S)
  BY <1>3, <1>4, <1>6, EachIsFound
<1>9. things # {} /\ thing \notin things => FlattenSeq(parts) \in Found({})
  BY <1>3, NothingFound
<1>10. ~ roles \subseteq {role} => FlattenSeq(parts) \in Found({})
  BY <1>3, <1>4, <1>6, EachIsFound
<1> QED
  BY <1>5, <1>7, <1>8, <1>9, <1>10 DEF S

LEMMA RoleAgrees ==
    ASSUME NEW U, Consistent(U), NEW K, NEW a, NEW partial \in Partials(Extensions(U, K, a)),
           NEW m, MemberIsSound(U, K, m), NEW set, IsSet(set), NEW role \in DOMAIN set,
           m.thing.kind = "one_of" => m.thing.names \subseteq DOMAIN a
    PROVE  /\ GiveRole(partial, m, role, set)
                  \in Found(Partials(Extensions(U, K \cup MemberUses(m), a)))
           /\ ~MemberAgrees(m, role, set[role], a)
                  => GiveRole(partial, m, role, set) \in Found({})
<1> DEFINE R == Extensions(U, K \cup MemberUses(m), a)
           found == MatchAppearance(m, role, set[role], partial.binding)
           Used(c) == <<[binding |-> c, used |-> partial.used \cup {role}]>>
           parts == [i \in DOMAIN found |->
                        IF IsFailure(found[i]) THEN <<found[i]>> ELSE Used(found[i])]
<1>1. partial.binding \in Extensions(U, K, a) /\ partial.used \in SUBSET Nat
  BY DEF Partials
<1>2. role \in Nat /\ set[role] \in Nat /\ Nat \subseteq Contents
  BY DEF IsSet
<1>3. /\ found \in Found(R)
      /\ ~MemberAgrees(m, role, set[role], a) => found \in Found({})
  BY <1>1, <1>2, AppearanceAgrees
<1>4. ASSUME NEW c \in R PROVE Used(c) \in Found(Partials(R))
  <2>1. [binding |-> c, used |-> partial.used \cup {role}] \in Partials(R)
    BY <1>1, <1>2 DEF Partials
  <2> QED
    BY <2>1, FoundSimple
<1>5. GiveRole(partial, m, role, set) = IF role \in partial.used THEN <<>> ELSE FlattenSeq(parts)
  BY DEF GiveRole, Each
<1>6. Proper(R)
  BY ExtensionsAreProper
<1> HIDE DEF found, R, Used
<1>7. FlattenSeq(parts) \in Found(Partials(R))
  BY <1>3, <1>4, <1>6, EachIsFound
<1>8. ~MemberAgrees(m, role, set[role], a) => FlattenSeq(parts) \in Found({})
  BY <1>3, NothingFound
<1> QED
  BY <1>5, <1>7, <1>8, FoundSimple DEF R

LEMMA RolesAgree ==
    ASSUME NEW U, Consistent(U), NEW K, NEW a, NEW partial \in Partials(Extensions(U, K, a)),
           NEW m, MemberIsSound(U, K, m), NEW set, IsSet(set),
           m.thing.kind = "one_of" => m.thing.names \subseteq DOMAIN a
    PROVE  /\ GiveRoles(partial, m, set)
                  \in Found(Partials(Extensions(U, K \cup MemberUses(m), a)))
           /\ ~SomeRoleAgrees(m, set, a) => GiveRoles(partial, m, set) \in Found({})
<1> DEFINE roles == Ascending(DOMAIN set)
           S == Partials(Extensions(U, K \cup MemberUses(m), a))
           parts == [i \in DOMAIN roles |-> GiveRole(partial, m, roles[i], set)]
<1>1. roles \in Seq(DOMAIN set)
  BY AscendingLists DEF IsSet
<1>2. GiveRoles(partial, m, set) = FlattenSeq(parts)
  BY DEF GiveRoles
<1> HIDE DEF roles
<1>3. \A i \in 1..Len(roles) : roles[i] \in DOMAIN set
  BY <1>1
<1>4. ASSUME NEW i \in 1..Len(roles)
      PROVE  /\ GiveRole(partial, m, roles[i], set) \in Found(S)
             /\ ~SomeRoleAgrees(m, set, a)
                    => GiveRole(partial, m, roles[i], set) \in Found({})
  BY <1>3, RoleAgrees DEF SomeRoleAgrees
<1> HIDE DEF S
<1>5. parts \in Seq(Found(S)) /\ (~SomeRoleAgrees(m, set, a) => parts \in Seq(Found({})))
  BY <1>1, <1>4
<1> HIDE DEF parts
<1> QED
  BY <1>2, <1>5, Flattened DEF S, Found

LEMMA MembersAgree ==
    ASSUME NEW U, Consistent(U), NEW K, NEW a, NEW b \in Extensions(U, K, a),
           NEW set, IsSet(set),
           NEW M, NEW members \in Seq(M), \A m \in M : MemberIsSound(U, K, m),
           \A m \in M : m.thing.kind = "one_of" => m.thing.names \subseteq DOMAIN a
    PROVE  /\ MatchMembers(members, set, b) \in Found(Extensions(U,
                  K \cup UNION {MemberUses(members[j]) : j \in 1..Len(members)}, a))
           /\ (\E j \in 1..Len(members) : ~SomeRoleAgrees(members[j], set, a))
                  => MatchMembers(members, set, b) \in Found({})
<1> DEFINE n == Len(members)
           base == <<[binding |-> b, used |-> {}]>>
           Known(i) == K \cup UNION {MemberUses(members[j]) : j \in 1..i}
           Op(y, e) == Each(LAMBDA partial : GiveRoles(partial, e, set), y)
           Agree1(i) == \A j \in 1..i : SomeRoleAgrees(members[j], set, a)
           All(i) == Found(Partials(Extensions(U, Known(i), a)))
           Y == [i \in 0..n |-> IF Agree1(i) THEN All(i) ELSE Found({})]
           step == [x \in (1..n) \X UNION {Y[i] : i \in 0..n} |-> Op(x[2], members[x[1]])]
           Eq(g) == g = [i \in 0..n |-> IF i = 0 THEN base ELSE Op(g[i - 1], members[i])]
           upTo == CHOOSE g : Eq(g)
<1>1. n \in Nat
  OBVIOUS
<1>2. base \in Y[0]
  <2>1. Agree1(0)
    OBVIOUS
  <2>2. Known(0) = K
    OBVIOUS
  <2>3. [binding |-> b, used |-> {}] \in Partials(Extensions(U, K, a))
    BY DEF Partials
  <2>4. 0 \in 0..n
    BY <1>1
  <2>5. Y[0] = All(0)
    BY <2>1, <2>4
  <2> HIDE DEF Y, Agree1, Known
  <2> QED
    BY <2>2, <2>3, <2>5, FoundSimple
<1>3. ASSUME NEW i \in 1..n, NEW y \in Y[i - 1]
      PROVE  Op(y, members[i]) \in Y[i]
  <2> DEFINE L == Known(i - 1)
             m == members[i]
             parts == [k \in DOMAIN y |->
                          IF IsFailure(y[k]) THEN <<y[k]>> ELSE GiveRoles(y[k], m, set)]
  <2>1. i \in 0..n /\ i - 1 \in 0..n /\ m \in M
    BY <1>1
  <2>2. y \in IF Agree1(i - 1) THEN All(i - 1) ELSE Found({})
    BY <2>1
  <2>3. L \cup MemberUses(m) = Known(i)
    <3>1. 1..i = (1..(i - 1)) \cup {i}
      BY <1>1
    <3> QED
      BY <3>1
  <2>4. Agree1(i) <=> Agree1(i - 1) /\ SomeRoleAgrees(m, set, a)
    <3>1. 1..i = (1..(i - 1)) \cup {i}
      BY <1>1
    <3> QED
      BY <3>1
  <2>5. MemberIsSound(U, L, m)
    <3>1. MemberIsSound(U, K, m) /\ K \subseteq L
      BY <2>1
    <3>2. Names(K) \subseteq Names(L)
      BY <3>1 DEF Names
    <3> QED
      BY <3>1, <3>2 DEF MemberIsSound
  <2>6. Op(y, m) = FlattenSeq(parts)
    BY DEF Each
  <2>7. Y[i] = IF Agree1(i) THEN All(i) ELSE Found({})
    BY <2>1
  <2>8. m.thing.kind = "one_of" => m.thing.names \subseteq DOMAIN a
    BY <2>1
  <2>9. All(i - 1) = Found(Partials(Extensions(U, L, a)))
    OBVIOUS
  <2>10. All(i) = Found(Partials(Extensions(U, L \cup MemberUses(m), a)))
    BY <2>3
  <2> HIDE DEF Op, L, m, Y, Agree1, All, Known
  <2>11. CASE Agree1(i - 1)
    <3>1. y \in Found(Partials(Extensions(U, L, a)))
      BY <2>2, <2>9, <2>11
    <3>2. Proper(Partials(Extensions(U, L, a)))
      BY ExtensionsAreProper
    <3>3. ASSUME NEW x \in Partials(Extensions(U, L, a))
          PROVE  /\ GiveRoles(x, m, set)
                        \in Found(Partials(Extensions(U, L \cup MemberUses(m), a)))
                 /\ ~SomeRoleAgrees(m, set, a) => GiveRoles(x, m, set) \in Found({})
      BY <2>5, <2>8, RolesAgree
    <3>4. FlattenSeq(parts) \in Found(Partials(Extensions(U, L \cup MemberUses(m), a)))
      BY <3>1, <3>2, <3>3, EachIsFound
    <3>5. ~SomeRoleAgrees(m, set, a) => FlattenSeq(parts) \in Found({})
      BY <3>1, <3>2, <3>3, EachIsFound
    <3> QED
      BY <2>4, <2>6, <2>7, <2>10, <2>11, <3>4, <3>5 DEF m
  <2>12. CASE ~Agree1(i - 1)
    <3>1. y \in Found({})
      BY <2>2, <2>12
    <3>2. FlattenSeq(parts) \in Found({})
      BY <3>1, NothingFound
    <3> QED
      BY <2>4, <2>6, <2>7, <2>12, <3>2 DEF m
  <2> QED
    BY <2>11, <2>12
<1> HIDE DEF n, Op, Y, base
<1>4. \E g : Eq(g)
  <2>1. ASSUME NEW i \in 1..n, NEW y \in Y[i - 1]
        PROVE  step[<<i, y>>] = Op(y, members[i])
    <3>1. i - 1 \in 0..n
      BY <1>1
    <3>2. <<i, y>> \in (1..n) \X UNION {Y[j] : j \in 0..n}
      BY <3>1
    <3> QED
      BY <3>2
  <2> HIDE DEF step
  <2>2. PICK g : Follows(g, n, base, step) /\ \A i \in 0..n : g[i] \in Y[i]
    BY <1>1, <1>2, <1>3, <2>1, RecursionExists
  <2>3. \A i \in 0..n : i # 0 => step[<<i, g[i - 1]>>] = Op(g[i - 1], members[i])
    BY <1>1, <2>1, <2>2
  <2>4. g = [i \in 0..n |-> IF i = 0 THEN base ELSE step[<<i, g[i - 1]>>]]
    BY <2>2 DEF Follows
  <2>5. Eq(g)
    BY <2>3, <2>4
  <2> QED
    BY <2>5
<1>5. Eq(upTo)
  BY <1>4
<1> HIDE DEF upTo
<1>6. \A i \in 0..n : upTo[i] \in Y[i]
  <2>1. upTo[0] = base /\ \A i \in 1..n : upTo[i] = Op(upTo[i - 1], members[i])
    <3>1. \A i \in 0..n : upTo[i] = IF i = 0 THEN base ELSE Op(upTo[i - 1], members[i])
      BY <1>5
    <3>2. 0 \in 0..n /\ \A i \in 1..n : i \in 0..n /\ i # 0
      BY <1>1
    <3> QED
      BY <3>1, <3>2
  <2> HIDE DEF Eq
  <2> QED
    BY <1>1, <1>2, <1>3, <2>1, StaysIn
<1>7. Accumulate(LAMBDA found, member :
                     Each(LAMBDA partial : GiveRoles(partial, member, set), found),
                 <<[binding |-> b, used |-> {}]>>, members) = upTo[n]
  BY DEF Accumulate, upTo, n, Op, base
<1> DEFINE found == upTo[n]
           parts == [i \in DOMAIN found |->
                        IF IsFailure(found[i]) THEN <<found[i]>> ELSE <<found[i].binding>>]
           R == Extensions(U, Known(n), a)
<1>8. found \in Found(Partials(R)) /\ (~Agree1(n) => found \in Found({}))
  <2>1. n \in 0..n
    BY <1>1
  <2>2. found \in IF Agree1(n) THEN All(n) ELSE Found({})
    BY <2>1, <1>6 DEF Y
  <2>3. Found({}) \subseteq All(n)
    BY FoundSimple
  <2> HIDE DEF found, Agree1
  <2> QED
    BY <2>2, <2>3
<1>9. MatchMembers(members, set, b) = FlattenSeq(parts)
  BY <1>7 DEF MatchMembers, Each
<1>10. Proper(Partials(R)) /\ \A x \in Partials(R) : <<x.binding>> \in Found(R)
  BY ExtensionsAreProper, FoundSimple DEF Partials
<1> HIDE DEF found, R, Known
<1>11. ~Agree1(n) => FlattenSeq(parts) \in Found({})
  BY <1>8, NothingFound
<1>12. FlattenSeq(parts) \in Found(R)
  BY <1>8, <1>10, EachIsFound
<1> QED
  BY <1>9, <1>11, <1>12 DEF n, R, Known

(***************************************************************************)
(* What the binding a match starts from says of a stored set, and of a     *)
(* posit.                                                                  *)
(***************************************************************************)
SetAgrees(pattern, set, a) ==
    /\ pattern.binding \in DOMAIN a => Content(a[pattern.binding]) = set
    /\ \A m \in Members(pattern) : SomeRoleAgrees(m, set, a)

PositAgrees(pattern, p, a) ==
    /\ SetAgrees(pattern, posits[p].set, a)
    /\ pattern.posit \in DOMAIN a => Content(a[pattern.posit]) = p

LEMMA SetMatchAgrees ==
    ASSUME NEW U, Consistent(U), NEW K, NEW b \in Bound(U, K),
           NEW pattern, IsServed(U, K, pattern), NEW set \in Contents, IsSet(set)
    PROVE  /\ MatchAppearanceSet(pattern, set, b)
                  \in Found(Extensions(U, K \cup SetUses(pattern), b))
           /\ ~SetAgrees(pattern, set, b)
                  => MatchAppearanceSet(pattern, set, b) \in Found({})
<1> DEFINE L == K \cup NameUses(pattern.binding, "AppearanceSet")
           R == Extensions(U, L, b)
           S == Extensions(U, K \cup SetUses(pattern), b)
           size == Cardinality(DOMAIN set)
           wanted == Len(pattern.members)
           BindingAgrees == pattern.binding \in DOMAIN b => Content(b[pattern.binding]) = set
           first == IF pattern.binding = NoName
                      THEN <<b>> ELSE Bind(b, pattern.binding, <<"AppearanceSet", set>>)
           All(c) == CASE pattern.any -> <<c>>
                       [] ~pattern.any /\ (wanted > size \/ (~pattern.open /\ wanted # size)) -> <<>>
                       [] OTHER -> FirstOccurrences(MatchMembers(pattern.members, set, c))
           parts == [i \in DOMAIN first |->
                        IF IsFailure(first[i]) THEN <<first[i]>> ELSE All(first[i])]
<1>1. b \in Extensions(U, K, b)
  BY DEF Extensions, Keeps
<1>2. first \in Found(R) /\ (~BindingAgrees => first \in Found({}))
  <2>1. CASE pattern.binding = NoName
    <3>1. first = <<b>> /\ L = K
      BY <2>1 DEF NameUses, Named
    <3>2. BindingAgrees
      BY <2>1, BoundNames
    <3> HIDE DEF first, L, BindingAgrees
    <3> QED
      BY <1>1, <3>1, <3>2, FoundSimple
  <2>2. CASE pattern.binding # NoName
    <3>1. first = Bind(b, pattern.binding, <<"AppearanceSet", set>>)
      BY <2>2
    <3>2. NameUses(pattern.binding, "AppearanceSet") = {<<pattern.binding, "AppearanceSet">>}
      BY <2>2 DEF NameUses, Named
    <3>3. <<pattern.binding, "AppearanceSet">> \in U
      BY <3>2 DEF IsServed, Serves, OwnUses, SetUses
    <3>4. /\ <<"AppearanceSet", set>> \in Values
          /\ Domain(<<"AppearanceSet", set>>) = "AppearanceSet"
          /\ Content(<<"AppearanceSet", set>>) = set
      BY DEF Values, Domains, IdentityDomains, Domain, Content
    <3> HIDE DEF first
    <3> QED
      BY <1>1, <3>1, <3>2, <3>3, <3>4, BindExtends
  <2> QED
    BY <2>1, <2>2
<1>3. IsServed(U, L, pattern)
  <2>1. Names(K) \subseteq Names(L)
    BY DEF Names
  <2> QED
    BY <2>1 DEF IsServed
<1>4. \A m \in Members(pattern) : m.thing.kind = "one_of" => m.thing.names \subseteq DOMAIN b
  <2> SUFFICES ASSUME NEW m \in Members(pattern), m.thing.kind = "one_of"
               PROVE  m.thing.names \subseteq DOMAIN b
    OBVIOUS
  <2>1. MemberIsSound(U, K, m)
    BY MembersAreSound
  <2> QED
    BY <2>1, BoundNames DEF MemberIsSound
<1> HIDE DEF first, L, BindingAgrees
<1>5. L \cup UNION {MemberUses(m) : m \in Members(pattern)} = K \cup SetUses(pattern)
  BY DEF SetUses, L
<1>6. ASSUME NEW c \in R
      PROVE  /\ All(c) \in Found(S)
             /\ (\E m \in Members(pattern) : ~SomeRoleAgrees(m, set, b))
                    => All(c) \in Found({})
  <2> DEFINE found == MatchMembers(pattern.members, set, c)
             Missing == \E m \in Members(pattern) : ~SomeRoleAgrees(m, set, b)
  <2>1. found \in Found(S) /\ (Missing => found \in Found({}))
    <3>1. Missing => \E j \in 1..Len(pattern.members) :
                        ~SomeRoleAgrees(pattern.members[j], set, b)
      <4>1. DOMAIN pattern.members = 1..Len(pattern.members)
        BY MembersAreSound
      <4> QED
        BY <4>1 DEF Members
    <3>2. /\ pattern.members \in Seq(Members(pattern))
          /\ \A m \in Members(pattern) : MemberIsSound(U, L, m)
          /\ L \cup UNION {MemberUses(pattern.members[j]) : j \in 1..Len(pattern.members)}
                = K \cup SetUses(pattern)
      BY <1>3, <1>5, MembersAreSound
    <3> HIDE DEF Missing
    <3>3. found \in Found(Extensions(U,
              L \cup UNION {MemberUses(pattern.members[j]) : j \in 1..Len(pattern.members)}, b))
      BY <1>4, <3>2, MembersAgree
    <3>4. Missing => found \in Found({})
      BY <1>4, <3>1, <3>2, MembersAgree
    <3> QED
      BY <3>2, <3>3, <3>4
  <2> HIDE DEF found
  <2>2. ASSUME NEW T, found \in Found(T) PROVE FirstOccurrences(found) \in Found(T)
    <3>1. {i \in DOMAIN found : \A j \in 1..i - 1 : found[j] # found[i]} \in SUBSET DOMAIN found
      OBVIOUS
    <3> QED
      BY <2>2, <3>1, ChosenAreElements DEF FirstOccurrences, Found
  <2>3. CASE pattern.any
    <3>1. All(c) = <<c>>
      BY <2>3
    <3>2. Members(pattern) = {}
      BY <2>3 DEF IsServed, IsPattern, Members
    <3>3. S = R
      BY <3>2, <1>5
    <3> HIDE DEF All, S, R
    <3> QED
      BY <3>1, <3>2, <3>3, FoundSimple
  <2>4. CASE ~pattern.any
    <3>1. All(c) = <<>> \/ All(c) = FirstOccurrences(found)
      BY <2>4 DEF found
    <3> HIDE DEF All, S
    <3> QED
      BY <2>1, <2>2, <3>1, FoundSimple
  <2> QED
    BY <2>3, <2>4
<1>7. MatchAppearanceSet(pattern, set, b) = FlattenSeq(parts)
  BY DEF MatchAppearanceSet, Each, first
<1>8. Proper(R)
  BY ExtensionsAreProper
<1> HIDE DEF All, R, S
<1>9. FlattenSeq(parts) \in Found(S)
  BY <1>2, <1>6, <1>8, EachIsFound
<1>10. ~BindingAgrees => FlattenSeq(parts) \in Found({})
  BY <1>2, NothingFound
<1>11. (\E m \in Members(pattern) : ~SomeRoleAgrees(m, set, b)) => FlattenSeq(parts) \in Found({})
  BY <1>2, <1>6, <1>8, EachIsFound
<1> QED
  BY <1>7, <1>9, <1>10, <1>11 DEF SetAgrees, BindingAgrees, S

LEMMA FieldsAgree ==
    ASSUME posits \in Databases, NEW U, Consistent(U), NEW K, NEW a,
           NEW b \in Extensions(U, K, a),
           NEW pattern, FieldUses(pattern) \subseteq U, NoName \notin DOMAIN a,
           NEW p \in DOMAIN posits, pattern.posit \in DOMAIN a, Content(a[pattern.posit]) # p
    PROVE  MatchFields(pattern, p, b) \in Found({})
<1> DEFINE value == posits[p].value
           time == posits[p].time
           first == IF pattern.posit = NoName
                      THEN <<b>> ELSE Bind(b, pattern.posit, <<"Posit", p>>)
           ValueOf(c) ==
               CASE pattern.value.kind = "any"      -> <<c>>
                 [] pattern.value.kind = "variable" ->
                       Bind(c, pattern.value.name, <<"Literal", value>>)
                 [] pattern.value.kind = "exactly"  ->
                       CASE ~Comparable(value, pattern.value.content) -> <<Failed("Comparison")>>
                         [] OTHER -> IF value.amount = pattern.value.content.amount
                                       THEN <<c>> ELSE <<>>
           TimeAt(c) ==
               CASE pattern.time.kind = "any"      -> <<c>>
                 [] pattern.time.kind = "variable" -> Bind(c, pattern.time.name, <<"Time", time>>)
                 [] pattern.time.kind = "exactly"  ->
                       IF time = pattern.time.content THEN <<c>> ELSE <<>>
           valued == [i \in DOMAIN first |->
                         IF IsFailure(first[i]) THEN <<first[i]>> ELSE ValueOf(first[i])]
           second == FlattenSeq(valued)
           timed == [i \in DOMAIN second |->
                        IF IsFailure(second[i]) THEN <<second[i]>> ELSE TimeAt(second[i])]
<1>1. /\ <<"Posit", p>> \in Values /\ Domain(<<"Posit", p>>) = "Posit"
      /\ Content(<<"Posit", p>>) = p
  <2>1. p \in Nat /\ p \in Contents
    BY StoreIsSound
  <2> QED
    BY <2>1 DEF Values, Domains, IdentityDomains, Domain, Content
<1>2. first = Bind(b, pattern.posit, <<"Posit", p>>) /\ <<pattern.posit, "Posit">> \in U
  <2>1. pattern.posit # NoName
    OBVIOUS
  <2>2. <<pattern.posit, "Posit">> \in NameUses(pattern.posit, "Posit")
    BY <2>1 DEF NameUses, Named
  <2> QED
    BY <2>1, <2>2 DEF FieldUses
<1>3. MatchFields(pattern, p, b) = FlattenSeq(timed)
  BY DEF MatchFields, Each, first
<1> HIDE DEF first, ValueOf, TimeAt
<1>4. first \in Found({})
  BY <1>1, <1>2, BindExtends
<1>5. second \in Found({})
  BY <1>4, NothingFound
<1> HIDE DEF second
<1>6. FlattenSeq(timed) \in Found({})
  BY <1>5, NothingFound
<1> QED
  BY <1>3, <1>6

LEMMA MatchAgrees ==
    ASSUME posits \in Databases, NEW U, Consistent(U), NEW K, NEW b \in Bound(U, K),
           NEW pattern, IsServed(U, K, pattern), NEW p \in DOMAIN posits,
           ~PositAgrees(pattern, p, b)
    PROVE  MatchPosit(pattern, p, b) \in Found({})
<1> DEFINE R == Extensions(U, K \cup SetUses(pattern), b)
           found == MatchAppearanceSet(pattern, posits[p].set, b)
           parts == [i \in DOMAIN found |->
                        IF IsFailure(found[i])
                          THEN <<found[i]>> ELSE MatchFields(pattern, p, found[i])]
<1>1. posits[p].set \in Contents /\ IsSet(posits[p].set)
  BY StoreIsSound DEF IsSet
<1>2. found \in Found(R) /\ (~SetAgrees(pattern, posits[p].set, b) => found \in Found({}))
  BY <1>1, SetMatchAgrees
<1>3. MatchPosit(pattern, p, b) = FlattenSeq(parts)
  BY DEF MatchPosit, Each
<1>4. Proper(R)
  BY ExtensionsAreProper
<1>5. ASSUME pattern.posit \in DOMAIN b, Content(b[pattern.posit]) # p, NEW c \in R
      PROVE  MatchFields(pattern, p, c) \in Found({})
  <2>1. FieldUses(pattern) \subseteq U
    BY DEF IsServed, Serves, OwnUses
  <2> QED
    BY <1>5, <2>1, BoundNames, FieldsAgree
<1> HIDE DEF found, R
<1>6. CASE ~SetAgrees(pattern, posits[p].set, b)
  BY <1>2, <1>3, <1>6, NothingFound
<1>7. CASE pattern.posit \in DOMAIN b /\ Content(b[pattern.posit]) # p
  BY <1>2, <1>3, <1>4, <1>5, <1>7, EachIsFound
<1> QED
  BY <1>6, <1>7 DEF PositAgrees

LEMMA AgreementIsPosted ==
    ASSUME posits \in Databases, NEW pattern, NEW b, NEW p \in DOMAIN posits,
           PositAgrees(pattern, p, b), NEW posting \in Postings(pattern, b)
    PROVE  p \in posting
<1> DEFINE set == posits[p].set
<1>1. ASSUME NEW m \in Members(pattern), posting \in MemberPostings(m, b) PROVE p \in posting
  <2>1. PICK role \in DOMAIN set : MemberAgrees(m, role, set[role], b)
    BY DEF PositAgrees, SetAgrees, SomeRoleAgrees
  <2>2. ASSUME NEW named \in IndexedRole(m.role, b) PROVE p \in RolePosting(named)
    BY <2>1, <2>2 DEF MemberAgrees, RolePosting
  <2>3. ASSUME IndexedThings(m.thing, b) # {}
        PROVE  p \in ThingsPosting(IndexedThings(m.thing, b), IndexedRole(m.role, b))
    <3>1. set[role] \in IndexedThings(m.thing, b)
      BY <2>1, <2>3 DEF MemberAgrees
    <3>2. IndexedRole(m.role, b) = {} \/ role \in IndexedRole(m.role, b)
      BY <2>1 DEF MemberAgrees
    <3> QED
      BY <3>1, <3>2 DEF ThingsPosting
  <2> QED
    BY <1>1, <2>2, <2>3 DEF MemberPostings
<1>2. ASSUME NEW name \in {pattern.binding} \cap DOMAIN b, posting = SetPosting(Content(b[name]))
      PROVE  p \in posting
  BY <1>2 DEF PositAgrees, SetAgrees, SetPosting
<1>3. ASSUME NEW name \in {pattern.posit} \cap DOMAIN b, posting = {Content(b[name])}
      PROVE  p \in posting
  BY <1>3 DEF PositAgrees
<1> QED
  BY <1>1, <1>2, <1>3 DEF Postings

(***************************************************************************)
(* candidate_identities prunes with every index it has: a role, a thing, a *)
(* set, a posit that is already bound.  No match is lost: a posit that     *)
(* matches a pattern, from any binding the search may have reached, is     *)
(* among the candidates, and there once.                                   *)
(***************************************************************************)
THEOREM LookupsLoseNoMatch ==
    ASSUME posits \in Databases, NEW U, Consistent(U), NEW K, NEW b \in Bound(U, K),
           NEW planned, IsServed(U, K, planned.pattern), NEW p \in DOMAIN posits,
           \E i \in DOMAIN MatchPosit(planned.pattern, p, b) :
               ~IsFailure(MatchPosit(planned.pattern, p, b)[i])
    PROVE  \E k \in DOMAIN Candidates(planned, b) :
               \A j \in DOMAIN Candidates(planned, b) :
                   Candidates(planned, b)[j] = [posit |-> p] <=> j = k
<1> DEFINE pattern == planned.pattern
           postings == Postings(pattern, b)
           ids == IF planned.access = "full_scan" \/ postings = {}
                    THEN DOMAIN posits
                    ELSE {q \in UNION postings : \A posting \in postings : q \in posting}
           sorted == Ascending(ids)
           found == [i \in DOMAIN sorted |->
                       IF sorted[i] \in DOMAIN posits
                         THEN [posit |-> sorted[i]] ELSE Failed("Invariant")]
<1>1. PositAgrees(pattern, p, b)
  <2> SUFFICES ASSUME ~PositAgrees(pattern, p, b) PROVE FALSE
    OBVIOUS
  <2>1. MatchPosit(pattern, p, b) \in Found({})
    BY MatchAgrees
  <2>2. Proper({})
    BY DEF Proper
  <2> QED
    BY <2>1, <2>2, FoundElements
<1>2. Candidates(planned, b) = found
  <2>1. LookupErrors(pattern, b) = {}
    BY LookupsSucceed
  <2> QED
    BY <2>1 DEF Candidates
<1>3. p \in ids
  <2>1. \A posting \in postings : p \in posting
    BY <1>1, AgreementIsPosted
  <2> HIDE DEF postings
  <2> QED
    BY <2>1
<1>4. ids \in SUBSET Nat /\ IsFiniteSet(ids)
  <2>1. CASE planned.access = "full_scan" \/ postings = {}
    BY <2>1, StoreIsSound
  <2>2. CASE planned.access # "full_scan" /\ postings # {}
    <3>1. PICK posting \in postings : TRUE
      BY <2>2
    <3>2. posting \subseteq Nat /\ IsFiniteSet(posting)
      BY <3>1, PostingsAreFinite
    <3>3. ids \subseteq posting
      BY <2>2
    <3> HIDE DEF ids
    <3> QED
      BY <3>2, <3>3, FS_Subset
  <2> QED
    BY <2>1, <2>2
<1> HIDE DEF ids
<1>5. PICK k \in 1..Len(sorted) : \A j \in 1..Len(sorted) : sorted[j] = p <=> j = k
  BY <1>3, <1>4, AscendingListsOnce
<1>6. DOMAIN sorted = 1..Len(sorted)
  BY <1>4, AscendingLists
<1> HIDE DEF sorted
<1>7. ASSUME NEW j \in DOMAIN sorted PROVE found[j] = [posit |-> p] <=> sorted[j] = p
  <2>1. CASE sorted[j] \in DOMAIN posits
    <3>1. found[j] = [posit |-> sorted[j]]
      BY <2>1
    <3>2. [posit |-> sorted[j]].posit = sorted[j] /\ [posit |-> p].posit = p
      OBVIOUS
    <3> HIDE DEF found
    <3> QED
      BY <3>1, <3>2
  <2>2. CASE sorted[j] \notin DOMAIN posits
    <3>1. found[j] = Failed("Invariant")
      BY <2>2
    <3>2. IsFailure(Failed("Invariant")) /\ ~IsFailure([posit |-> p])
      BY DEF IsFailure, Failed
    <3> HIDE DEF found
    <3> QED
      BY <2>2, <3>1, <3>2
  <2> QED
    BY <2>1, <2>2
<1>8. DOMAIN found = DOMAIN sorted
  OBVIOUS
<1> HIDE DEF found
<1> QED
  BY <1>2, <1>5, <1>6, <1>7, <1>8


-----------------------------------------------------------------------------
(***************************************************************************)
(* The evaluation of a whole pattern.  Uses are ready for a pattern if its *)
(* alternatives and its cuts are known, the cuts at times only.            *)
(***************************************************************************)
IsReady(U, K, pattern) ==
    /\ \A p \in {pattern} \cup Via(pattern) : IsServed(U, K, p)
    /\ CutoffVariables(pattern) \subseteq Names(K)
    /\ \A u \in U : u[1] \in CutoffVariables(pattern) => u[2] = "Time"
    /\ \A e, f \in pattern.effect : e = f
    /\ \A via, other \in Via(pattern) : via = other

LEMMA ServedMore ==
    ASSUME NEW U, NEW K, NEW L, K \subseteq L, NEW pattern, IsServed(U, K, pattern)
    PROVE  IsServed(U, L, pattern)
<1>1. Names(K) \subseteq Names(L)
  BY DEF Names
<1> QED
  BY <1>1 DEF IsServed

LEMMA CutoffsAreResolved ==
    ASSUME NEW U, Consistent(U), NEW K, NEW b \in Bound(U, K),
           NEW pattern, IsReady(U, K, pattern), NEW cutoff \in Cutoffs(pattern)
    PROVE  Unresolved(cutoff, b) = {}
<1>1. CASE ~IsVariable(cutoff)
  BY <1>1 DEF Unresolved
<1>2. CASE IsVariable(cutoff)
  <2>1. cutoff.name \in CutoffVariables(pattern)
    BY <1>2 DEF CutoffVariables
  <2>2. cutoff.name \in DOMAIN b
    BY <2>1, BoundNames DEF IsReady
  <2>3. <<cutoff.name, Domain(b[cutoff.name])>> \in U
    BY <2>2, BoundIsTyped
  <2>4. /\ <<cutoff.name, Domain(b[cutoff.name])>>[1] = cutoff.name
        /\ <<cutoff.name, Domain(b[cutoff.name])>>[2] = Domain(b[cutoff.name])
    OBVIOUS
  <2>5. Domain(b[cutoff.name]) = "Time"
    BY <2>1, <2>3, <2>4 DEF IsReady
  <2> QED
    BY <1>2, <2>2, <2>5 DEF Unresolved
<1> QED
  BY <1>1, <1>2

LEMMA RowsAreFound ==
    ASSUME NEW R, Proper(R), NEW found \in Found(R), NEW p \in DOMAIN posits
    PROVE  RowsOf(p, found) \in Found(Rows(R))
<1> DEFINE parts == [i \in DOMAIN found |->
                        IF IsFailure(found[i])
                          THEN <<found[i]>> ELSE <<[posit |-> p, binding |-> found[i]]>>]
<1>1. ASSUME NEW c \in R PROVE <<[posit |-> p, binding |-> c]>> \in Found(Rows(R))
  <2>1. [posit |-> p, binding |-> c] \in Rows(R)
    BY DEF Rows
  <2> QED
    BY <2>1, FoundSimple
<1>2. RowsOf(p, found) = FlattenSeq(parts)
  BY DEF RowsOf, Each
<1>3. FlattenSeq(parts) \in Found(Rows(R))
  BY <1>1, EachIsFound
<1> QED
  BY <1>2, <1>3

LEMMA ReductionIsFound ==
    ASSUME NEW R, NEW rows \in Found(R)
    PROVE  ReduceMatches(rows) \in Found(R)
<1> DEFINE Succeeds(later, row) ==
               /\ ~IsFailure(later)
               /\ posits[later.posit].set = posits[row.posit].set
               /\ DefinitelyBefore(posits[row.posit].time, posits[later.posit].time)
           kept == {i \in DOMAIN rows :
                       IsFailure(rows[i]) \/ ~ \E j \in DOMAIN rows : Succeeds(rows[j], rows[i])}
<1>1. ReduceMatches(rows) = Chosen(rows, kept)
  BY DEF ReduceMatches
<1>2. kept \in SUBSET DOMAIN rows
  OBVIOUS
<1> HIDE DEF kept
<1> QED
  BY <1>1, <1>2, ChosenAreElements DEF Found

LEMMA SetRowsAreBuilt ==
    ASSUME posits \in Databases, NEW U, Consistent(U), NEW K, NEW input \in Bound(U, K),
           NEW planned, IsServed(U, K, planned.pattern), NEW b
    PROVE  SetRows(planned, b, input) \in Built(Rows(Bound(U, K \cup SetUses(planned.pattern))))
<1> DEFINE pattern == planned.pattern
           R == Bound(U, K \cup SetUses(pattern))
           candidates == Whole(Candidates(planned, input))
           Match(c) == IF InTime(pattern, c.posit, b)
                         THEN RowsOf(c.posit,
                                     MatchAppearanceSet(pattern, posits[c.posit].set, input))
                         ELSE <<>>
           parts == [i \in DOMAIN candidates |->
                        IF IsFailure(candidates[i])
                          THEN <<candidates[i]>> ELSE Match(candidates[i])]
<1>1. candidates \in Found([posit: DOMAIN posits])
  <2>1. Candidates(planned, input) \in Found([posit: DOMAIN posits])
    BY CandidatesAreBounded
  <2>2. candidates \in Built([posit: DOMAIN posits])
    BY <2>1, CandidatesAreProper, WholeIsBuilt
  <2> QED
    BY <2>2, FoundSimple
<1>2. Proper(R) /\ Proper(Rows(R))
  BY BoundIsProper
<1>3. ASSUME NEW c \in [posit: DOMAIN posits] PROVE Match(c) \in Found(Rows(R))
  <2>1. posits[c.posit].set \in Contents /\ IsSet(posits[c.posit].set) /\ c.posit \in DOMAIN posits
    BY StoreIsSound DEF IsSet
  <2>2. MatchAppearanceSet(pattern, posits[c.posit].set, input) \in Found(R)
    BY <2>1, SetIsFound
  <2> HIDE DEF R, pattern
  <2>3. RowsOf(c.posit, MatchAppearanceSet(pattern, posits[c.posit].set, input)) \in Found(Rows(R))
    BY <1>2, <2>1, <2>2, RowsAreFound
  <2> QED
    BY <2>3, FoundSimple
<1>4. SetRows(planned, b, input) = Whole(FlattenSeq(parts))
  BY DEF SetRows, Each
<1> HIDE DEF Match, R, candidates
<1>5. FlattenSeq(parts) \in Found(Rows(R))
  BY <1>1, <1>3, CandidatesAreProper, EachIsFound
<1>6. Whole(FlattenSeq(parts)) \in Built(Rows(R))
  BY <1>2, <1>5, WholeIsBuilt
<1> QED
  BY <1>4, <1>6 DEF R

LEMMA FieldRowsAreBuilt ==
    ASSUME posits \in Databases, NEW U, Consistent(U), NEW K,
           NEW pattern, IsPattern(pattern), Foreseen(pattern), FieldUses(pattern) \subseteq U,
           NEW rows \in Found(Rows(Bound(U, K)))
    PROVE  FieldRows(pattern, rows) \in Built(Rows(Bound(U, K \cup FieldUses(pattern))))
<1> DEFINE R == Bound(U, K \cup FieldUses(pattern))
           Match(row) == RowsOf(row.posit, MatchFields(pattern, row.posit, row.binding))
           parts == [i \in DOMAIN rows |->
                        IF IsFailure(rows[i]) THEN <<rows[i]>> ELSE Match(rows[i])]
<1>1. Proper(R) /\ Proper(Rows(R)) /\ Proper(Rows(Bound(U, K)))
  BY BoundIsProper
<1>2. ASSUME NEW row \in Rows(Bound(U, K)) PROVE Match(row) \in Found(Rows(R))
  <2>1. row.posit \in DOMAIN posits /\ row.binding \in Bound(U, K)
    BY DEF Rows
  <2>2. MatchFields(pattern, row.posit, row.binding) \in Found(R)
    BY <2>1, FieldsAreFound
  <2> HIDE DEF R
  <2> QED
    BY <1>1, <2>1, <2>2, RowsAreFound
<1>3. FieldRows(pattern, rows) = Whole(FlattenSeq(parts))
  BY DEF FieldRows, Each
<1> HIDE DEF Match, R
<1>4. FlattenSeq(parts) \in Found(Rows(R))
  BY <1>1, <1>2, EachIsFound
<1>5. Whole(FlattenSeq(parts)) \in Built(Rows(R))
  BY <1>1, <1>4, WholeIsBuilt
<1> QED
  BY <1>3, <1>5 DEF R

LEMMA HistoryRowsAreFound ==
    ASSUME posits \in Databases, NEW U, Consistent(U), NEW K,
           NEW pattern, IsServed(U, K, pattern),
           NEW rows \in Found(Rows(Bound(U, K \cup SetUses(pattern))))
    PROVE  HistoryRows(pattern, rows) \in Found(Rows(Bound(U, K \cup OwnUses(pattern))))
<1> DEFINE L == K \cup SetUses(pattern)
           first == ReducedFirst(pattern, rows)
<1>1. first \in Found(Rows(Bound(U, L)))
  BY ReductionIsFound DEF ReducedFirst
<1>2. L \cup FieldUses(pattern) = K \cup OwnUses(pattern)
  BY DEF OwnUses
<1> HIDE DEF first, L
<1>3. FieldRows(pattern, first) \in Built(Rows(Bound(U, L \cup FieldUses(pattern))))
  BY <1>1, FieldRowsAreBuilt DEF IsServed, Serves, OwnUses
<1>4. FieldRows(pattern, first) \in Found(Rows(Bound(U, K \cup OwnUses(pattern))))
  BY <1>2, <1>3, FoundSimple
<1>5. HistoryRows(pattern, rows) = ReducedLast(pattern, FieldRows(pattern, first))
  BY DEF HistoryRows, first
<1> QED
  BY <1>4, <1>5, ReductionIsFound DEF ReducedLast

(***************************************************************************)
(* A row that is joined with a binding knows what both know.               *)
(***************************************************************************)
LEMMA JoinIsFound ==
    ASSUME NEW U, Consistent(U), NEW K, NEW b \in Bound(U, K),
           NEW M, NEW row \in Rows(Bound(U, M))
    PROVE  JoinRow(row, b) \in Found(Bound(U, K \cup M))
<1> DEFINE names == SetToSeq(DOMAIN b)
<1>0. names \in Seq(DOMAIN b) /\ \A name \in DOMAIN b : \E i \in 1..Len(names) : names[i] = name
  <2>1. IsFiniteSet(DOMAIN b)
    BY BoundIsTyped
  <2> QED
    BY <2>1, ListsASet
<1> HIDE DEF names
<1> DEFINE n == Len(names)
           Known(i) == M \cup {<<names[j], Domain(b[names[j]])>> : j \in 1..i}
           Op(y, e) == Each(LAMBDA c : Bind(c, e, b[e]), y)
           Y == [i \in 0..n |-> Found(Bound(U, Known(i)))]
           step == [x \in (1..n) \X UNION {Y[i] : i \in 0..n} |-> Op(x[2], names[x[1]])]
           Eq(g) == g = [i \in 0..n |-> IF i = 0 THEN <<row.binding>> ELSE Op(g[i - 1], names[i])]
           upTo == CHOOSE g : Eq(g)
<1>1. n \in Nat
  BY <1>0
<1>2. <<row.binding>> \in Y[0]
  <2>1. Known(0) = M /\ 0 \in 0..n
    BY <1>1
  <2>2. Y[0] = Found(Bound(U, M))
    BY <2>1
  <2>3. row.binding \in Bound(U, M)
    BY DEF Rows
  <2> HIDE DEF Y
  <2> QED
    BY <2>2, <2>3, FoundSimple
<1>3. ASSUME NEW i \in 1..n, NEW y \in Y[i - 1]
      PROVE  Op(y, names[i]) \in Y[i]
  <2> DEFINE L == Known(i - 1)
             e == names[i]
             parts == [k \in DOMAIN y |->
                          IF IsFailure(y[k]) THEN <<y[k]>> ELSE Bind(y[k], e, b[e])]
  <2>1. i \in 0..n /\ i - 1 \in 0..n /\ e \in DOMAIN b
    BY <1>0, <1>1
  <2>2. y \in Found(Bound(U, L))
    BY <2>1
  <2>3. L \cup {<<e, Domain(b[e])>>} = Known(i)
    <3>1. 1..i = (1..(i - 1)) \cup {i}
      BY <1>1
    <3> QED
      BY <3>1
  <2>4. b[e] \in Values /\ <<e, Domain(b[e])>> \in U
    BY <2>1, BoundIsTyped
  <2>5. Op(y, e) = FlattenSeq(parts)
    BY DEF Each
  <2>6. Y[i] = Found(Bound(U, L \cup {<<e, Domain(b[e])>>}))
    BY <2>1, <2>3
  <2> HIDE DEF Op, L, e, Y
  <2>7. \A c \in Bound(U, L) : Bind(c, e, b[e]) \in Found(Bound(U, L \cup {<<e, Domain(b[e])>>}))
    BY <2>4, BindIsFound
  <2>8. FlattenSeq(parts) \in Found(Bound(U, L \cup {<<e, Domain(b[e])>>}))
    BY <2>2, <2>7, BoundIsProper, EachIsFound
  <2> QED
    BY <2>5, <2>6, <2>8 DEF e
<1> HIDE DEF n, Op, Y
<1>4. \E g : Eq(g)
  <2>1. ASSUME NEW i \in 1..n, NEW y \in Y[i - 1]
        PROVE  step[<<i, y>>] = Op(y, names[i])
    <3>1. i - 1 \in 0..n
      BY <1>1
    <3>2. <<i, y>> \in (1..n) \X UNION {Y[j] : j \in 0..n}
      BY <3>1
    <3> QED
      BY <3>2
  <2> HIDE DEF step
  <2>2. PICK g : Follows(g, n, <<row.binding>>, step) /\ \A i \in 0..n : g[i] \in Y[i]
    BY <1>1, <1>2, <1>3, <2>1, RecursionExists
  <2>3. \A i \in 0..n : i # 0 => step[<<i, g[i - 1]>>] = Op(g[i - 1], names[i])
    BY <1>1, <2>1, <2>2
  <2>4. g = [i \in 0..n |-> IF i = 0 THEN <<row.binding>> ELSE step[<<i, g[i - 1]>>]]
    BY <2>2 DEF Follows
  <2>5. Eq(g)
    BY <2>3, <2>4
  <2> QED
    BY <2>5
<1>5. Eq(upTo)
  BY <1>4
<1> HIDE DEF upTo
<1>6. \A i \in 0..n : upTo[i] \in Y[i]
  <2>1. upTo[0] = <<row.binding>> /\ \A i \in 1..n : upTo[i] = Op(upTo[i - 1], names[i])
    <3>1. \A i \in 0..n : upTo[i] = IF i = 0 THEN <<row.binding>> ELSE Op(upTo[i - 1], names[i])
      BY <1>5
    <3>2. 0 \in 0..n /\ \A i \in 1..n : i \in 0..n /\ i # 0
      BY <1>1
    <3> QED
      BY <3>1, <3>2
  <2> HIDE DEF Eq
  <2> QED
    BY <1>1, <1>2, <1>3, <2>1, StaysIn
<1>7. JoinRow(row, b) = upTo[n]
  BY DEF JoinRow, names, Accumulate, upTo, n, Op
<1>8. upTo[n] \in Y[n]
  BY <1>1, <1>6
<1>9. Y[n] = Found(Bound(U, Known(n)))
  BY <1>1 DEF Y
<1>10. Bound(U, Known(n)) \subseteq Bound(U, K \cup M)
  <2> SUFFICES ASSUME NEW c \in Bound(U, Known(n)) PROVE c \in Bound(U, K \cup M)
    OBVIOUS
  <2>1. ASSUME NEW k \in K
        PROVE  k[1] \in DOMAIN c /\ (k[2] = "Posit" => Domain(c[k[1]]) = "Posit")
    <3>1. k[1] \in DOMAIN b /\ (k[2] = "Posit" => Domain(b[k[1]]) = "Posit")
      BY BoundIsTyped
    <3>2. PICK j \in 1..n : names[j] = k[1]
      BY <1>0, <3>1 DEF n
    <3>3. <<k[1], Domain(b[k[1]])>> \in Known(n)
      BY <3>2
    <3>4. <<k[1], Domain(b[k[1]])>>[1] = k[1] /\ <<k[1], Domain(b[k[1]])>>[2] = Domain(b[k[1]])
      OBVIOUS
    <3> QED
      BY <3>1, <3>3, <3>4, BoundIsTyped
  <2>2. ASSUME NEW k \in M
        PROVE  k[1] \in DOMAIN c /\ (k[2] = "Posit" => Domain(c[k[1]]) = "Posit")
    BY BoundIsTyped
  <2>3. c \in Fits(U)
    BY DEF Bound
  <2> QED
    BY <2>1, <2>2, <2>3 DEF Bound, Knows
<1> HIDE DEF Known
<1> QED
  BY <1>7, <1>8, <1>9, <1>10, FoundSimple

LEMMA HistoryIsBuilt ==
    ASSUME posits \in Databases, NEW U, Consistent(U), NEW K, NEW b \in Bound(U, K),
           NEW planned, IsReady(U, K, planned.pattern)
    PROVE  EvaluateHistory(planned, b) \in Built(Bound(U, K \cup OwnUses(planned.pattern)))
<1> DEFINE pattern == planned.pattern
           deferred == Deferred(pattern)
           L == {k \in K : k[1] \notin deferred}
           input == Without(b, deferred)
           R == Bound(U, K \cup OwnUses(pattern))
           rows == HistoryRows(pattern, SetRows(planned, b, input))
           parts == [i \in DOMAIN rows |->
                        IF IsFailure(rows[i]) THEN <<rows[i]>> ELSE JoinRow(rows[i], b)]
<1>1. input \in Bound(U, L)
  <2>1. /\ DOMAIN b \subseteq Names(U) /\ IsFiniteSet(DOMAIN b)
        /\ \A name \in DOMAIN b : b[name] \in Values /\ <<name, Domain(b[name])>> \in U
        /\ \A k \in K : k[1] \in DOMAIN b /\ (k[2] = "Posit" => Domain(b[k[1]]) = "Posit")
    BY BoundIsTyped
  <2> DEFINE names == DOMAIN b \ deferred
  <2>2. names \subseteq Names(U) /\ IsFiniteSet(names)
    BY <2>1, FS_Subset
  <2> HIDE DEF deferred
  <2>3. input \in [names -> Values] /\ \A name \in names : input[name] = b[name]
    BY <2>1 DEF Without
  <2>4. \A k \in L : k[1] \in names
    BY <2>1
  <2> HIDE DEF input, names
  <2>5. \A name \in names : <<name, Domain(input[name])>> \in U
    BY <2>1, <2>3 DEF names
  <2>6. \A k \in L : k[1] \in names /\ (k[2] = "Posit" => Domain(input[k[1]]) = "Posit")
    BY <2>1, <2>3, <2>4
  <2> HIDE DEF L
  <2> QED
    BY <2>2, <2>3, <2>5, <2>6, TypedIsBound
<1>2. IsServed(U, L, pattern)
  <2>1. IsServed(U, K, pattern)
    BY DEF IsReady
  <2>2. ASSUME NEW name \in Alternatives(pattern) PROVE name \in Names(L)
    <3>1. PICK k \in K : k[1] = name
      BY <2>1 DEF IsServed, Names
    <3>2. name \notin deferred
      BY DEF Deferred, Dependencies
    <3>3. k \in L
      BY <3>1, <3>2
    <3> QED
      BY <3>1, <3>3 DEF Names
  <2> QED
    BY <2>1, <2>2 DEF IsServed
<1>3. L \subseteq K
  OBVIOUS
<1> HIDE DEF L, input, deferred
<1>4. rows \in Found(Rows(Bound(U, L \cup OwnUses(pattern))))
  <2>1. SetRows(planned, b, input) \in Built(Rows(Bound(U, L \cup SetUses(pattern))))
    BY <1>1, <1>2, SetRowsAreBuilt
  <2>2. SetRows(planned, b, input) \in Found(Rows(Bound(U, L \cup SetUses(pattern))))
    BY <2>1, FoundSimple
  <2> HIDE DEF pattern
  <2> QED
    BY <1>2, <2>2, HistoryRowsAreFound
<1>5. EvaluateHistory(planned, b) = Whole(FlattenSeq(parts))
  <2>1. Unresolved(pattern.cutoff, b) = {}
    BY CutoffsAreResolved DEF Cutoffs
  <2> QED
    BY <2>1 DEF EvaluateHistory, Each, input, deferred
<1> HIDE DEF rows, pattern
<1>6. ASSUME NEW row \in Rows(Bound(U, L \cup OwnUses(pattern))) PROVE JoinRow(row, b) \in Found(R)
  <2>1. JoinRow(row, b) \in Found(Bound(U, K \cup (L \cup OwnUses(pattern))))
    BY JoinIsFound
  <2>2. K \cup (L \cup OwnUses(pattern)) = K \cup OwnUses(pattern)
    BY <1>3
  <2> QED
    BY <2>1, <2>2
<1>7. Proper(R) /\ Proper(Rows(Bound(U, L \cup OwnUses(pattern))))
  BY BoundIsProper
<1> HIDE DEF R
<1>8. FlattenSeq(parts) \in Found(R)
  BY <1>4, <1>6, <1>7, EachIsFound
<1>9. Whole(FlattenSeq(parts)) \in Built(R)
  BY <1>7, <1>8, WholeIsBuilt
<1> QED
  BY <1>5, <1>9 DEF R, pattern

Targeted == {a \in DOMAIN posits : TargetOf(a) \in DOMAIN posits}

LEMMA SliceIsFound ==
    ASSUME posits \in Databases, MustMaterialize(query), NEW time, NEW other
    PROVE  EffectiveSlice(time, other) \in Found([assertion: Targeted])
<1> DEFINE assertions == Assertions(time)
           effective == EffectiveAssertions(assertions, other)
           slice == SetToSeq(effective)
           found == [i \in DOMAIN slice |-> [assertion |-> slice[i]]]
<1>1. CASE \E a \in assertions : Malformed(a)
  <2>1. EffectiveSlice(time, other) = <<Failed("Execution")>>
    BY <1>1 DEF EffectiveSlice
  <2> QED
    BY <2>1, BenignFails, FoundSimple
<1>2. CASE ~ \E a \in assertions : Malformed(a)
  <2>1. EffectiveSlice(time, other) = found
    BY <1>2 DEF EffectiveSlice
  <2>2. assertions \subseteq Targeted
    BY <1>2 DEF Assertions, RolePosting, Malformed, Targeted
  <2>3. effective \subseteq assertions
    BY DEF EffectiveAssertions, Maximal
  <2>4. IsFiniteSet(effective)
    <3>1. effective \subseteq DOMAIN posits /\ IsFiniteSet(DOMAIN posits)
      BY <2>2, <2>3, StoreIsSound DEF Targeted
    <3> HIDE DEF effective
    <3> QED
      BY <3>1, FS_Subset
  <2> HIDE DEF effective
  <2>5. slice \in Seq(effective)
    BY <2>4, ListsASet
  <2> HIDE DEF slice
  <2>6. DOMAIN slice = 1..Len(slice) /\ Len(slice) \in Nat
    BY <2>5
  <2>7. \A i \in 1..Len(slice) : found[i] \in [assertion: Targeted]
    BY <2>2, <2>3, <2>5
  <2>8. found = [i \in 1..Len(slice) |-> found[i]]
    BY <2>6
  <2> HIDE DEF found
  <2>9. found \in Seq([assertion: Targeted])
    BY <2>6, <2>7, <2>8
  <2> QED
    BY <2>1, <2>9, FoundSimple
<1> QED
  BY <1>1, <1>2

LEMMA EffectIsBuilt ==
    ASSUME posits \in Databases, NEW U, Consistent(U), NEW K, NEW b \in Bound(U, K),
           NEW pattern, IsReady(U, K, pattern), IsEffective(pattern)
    PROVE  EvaluateEffect(pattern, b) \in Built(Bound(U, K \cup Uses(pattern)))
<1> DEFINE effect == CHOOSE e \in pattern.effect : TRUE
           slice == EffectiveSlice(Content(ResolveCutoff(effect.assertion, b)),
                                   Content(ResolveCutoff(effect.appearance, b)))
           L == K \cup OwnUses(pattern)
           R == Bound(U, K \cup Uses(pattern))
           MatchVia(assertion, c) ==
               IF effect.via = {}
                 THEN <<c>> ELSE MatchPosit(CHOOSE via \in effect.via : TRUE, assertion, c)
           target(x) == MatchPosit(pattern, TargetOf(x.assertion), b)
           inner(x) == [i \in DOMAIN target(x) |->
                           IF IsFailure(target(x)[i])
                             THEN <<target(x)[i]>> ELSE MatchVia(x.assertion, target(x)[i])]
           Match(x) == FlattenSeq(inner(x))
           parts == [i \in DOMAIN slice |->
                        IF IsFailure(slice[i]) THEN <<slice[i]>> ELSE Match(slice[i])]
<1>1. effect \in pattern.effect /\ Via(pattern) = effect.via
  <2>1. effect \in pattern.effect
    BY DEF IsEffective, NotInEffect
  <2> HIDE DEF effect
  <2>2. \A e \in pattern.effect : e = effect
    BY <2>1 DEF IsReady
  <2> QED
    BY <2>1, <2>2 DEF Via
<1>2. {effect.assertion, effect.appearance} \subseteq Cutoffs(pattern)
  BY <1>1 DEF Cutoffs
<1>3. Unresolved(effect.assertion, b) \cup Unresolved(effect.appearance, b) = {}
  BY <1>2, CutoffsAreResolved
<1>4. EvaluateEffect(pattern, b) = Whole(FlattenSeq(parts))
  BY <1>3 DEF EvaluateEffect, Each
<1> HIDE DEF effect
<1>5. slice \in Found([assertion: Targeted])
  BY SliceIsFound DEF IsReady, IsServed, Foreseen
<1>6. IsServed(U, K, pattern)
  BY DEF IsReady
<1>7. ASSUME NEW x \in [assertion: Targeted], NEW c \in Bound(U, L)
      PROVE  MatchVia(x.assertion, c) \in Found(R)
  <2>1. CASE effect.via = {}
    <3>1. Uses(pattern) = OwnUses(pattern)
      BY <1>1, <2>1 DEF Uses
    <3>2. MatchVia(x.assertion, c) = <<c>> /\ R = Bound(U, L)
      BY <2>1, <3>1
    <3> HIDE DEF MatchVia, R
    <3> QED
      BY <3>2, FoundSimple
  <2>2. CASE effect.via # {}
    <3> DEFINE via == CHOOSE v \in effect.via : TRUE
    <3>1. via \in Via(pattern)
      BY <1>1, <2>2
    <3> HIDE DEF via
    <3>2. Via(pattern) = {via}
      BY <3>1 DEF IsReady
    <3>3. K \cup Uses(pattern) = L \cup OwnUses(via)
      BY <3>2 DEF Uses
    <3>4. IsServed(U, L, via)
      <4>1. K \subseteq L /\ IsServed(U, K, via)
        BY <3>1 DEF IsReady
      <4> HIDE DEF L
      <4> QED
        BY <4>1, ServedMore
    <3>5. x.assertion \in DOMAIN posits
      BY DEF Targeted
    <3>6. MatchVia(x.assertion, c) = MatchPosit(via, x.assertion, c)
      BY <2>2 DEF via
    <3> HIDE DEF L, MatchVia
    <3>7. MatchPosit(via, x.assertion, c) \in Found(Bound(U, L \cup OwnUses(via)))
      BY <3>4, <3>5, PositIsFound
    <3> QED
      BY <3>3, <3>6, <3>7
  <2> QED
    BY <2>1, <2>2
<1>8. Proper(Bound(U, L)) /\ Proper(R)
  BY BoundIsProper
<1> HIDE DEF MatchVia, R
<1>9. ASSUME NEW x \in [assertion: Targeted] PROVE Match(x) \in Found(R)
  <2>1. TargetOf(x.assertion) \in DOMAIN posits
    BY DEF Targeted
  <2>2. target(x) \in Found(Bound(U, L))
    BY <1>6, <2>1, PositIsFound
  <2> HIDE DEF target, L
  <2> QED
    BY <1>7, <1>8, <2>2, EachIsFound
<1> HIDE DEF slice, Match
<1>10. Proper([assertion: Targeted])
  BY DEF Proper, IsFailure
<1>11. FlattenSeq(parts) \in Found(R)
  BY <1>5, <1>9, <1>10, EachIsFound
<1>12. Whole(FlattenSeq(parts)) \in Built(R)
  BY <1>8, <1>11, WholeIsBuilt
<1> QED
  BY <1>4, <1>12 DEF R

(***************************************************************************)
(* Evaluating a pattern, whether structurally, in a history or in effect,  *)
(* yields bindings that know all the names of the pattern, each at a       *)
(* domain it is used at, or one error that a checked search may end with.  *)
(***************************************************************************)
THEOREM PatternIsBuilt ==
    ASSUME posits \in Databases, NEW U, Consistent(U), NEW K, NEW b \in Bound(U, K),
           NEW planned, IsReady(U, K, planned.pattern)
    PROVE  EvaluatePattern(planned, b) \in Built(Bound(U, K \cup Uses(planned.pattern)))
<1>1. CASE IsEffective(planned.pattern)
  BY <1>1, EffectIsBuilt DEF EvaluatePattern
<1>2. CASE ~IsEffective(planned.pattern)
  <2>1. Uses(planned.pattern) = OwnUses(planned.pattern)
    BY <1>2 DEF IsEffective, NotInEffect, Via, Uses
  <2> QED
    BY <1>2, <2>1, HistoryIsBuilt DEF EvaluatePattern
<1> QED
  BY <1>1, <1>2

\* A pattern of an absence block, or a step of the walk.
LEMMA VisitIsFound ==
    ASSUME posits \in Databases, NEW U, Consistent(U), NEW K, NEW b \in Bound(U, K),
           NEW planned, IsReady(U, K, planned.pattern), ~IsEffective(planned.pattern)
    PROVE  /\ VisitPattern(planned, b) \in Found(Bound(U, K \cup Uses(planned.pattern)))
           /\ \A p \in DOMAIN posits :
                 MatchPosit(planned.pattern, p, b) \in Found(Bound(U, K \cup Uses(planned.pattern)))
<1> DEFINE pattern == planned.pattern
           R == Bound(U, K \cup Uses(pattern))
           candidates == Candidates(planned, b)
           parts == [i \in DOMAIN candidates |->
                        IF IsFailure(candidates[i]) THEN <<candidates[i]>>
                        ELSE MatchPosit(pattern, candidates[i].posit, b)]
<1>1. Uses(pattern) = OwnUses(pattern)
  BY DEF IsEffective, NotInEffect, Via, Uses
<1>2. IsServed(U, K, pattern)
  BY DEF IsReady
<1>3. ASSUME NEW p \in DOMAIN posits PROVE MatchPosit(pattern, p, b) \in Found(R)
  BY <1>1, <1>2, PositIsFound
<1>4. CASE HasCutoff(pattern)
  <2>1. VisitPattern(planned, b) = EvaluatePattern(planned, b)
    BY <1>4 DEF VisitPattern
  <2>2. VisitPattern(planned, b) \in Built(R)
    BY <2>1, PatternIsBuilt
  <2> QED
    BY <1>3, <2>2, FoundSimple
<1>5. CASE ~HasCutoff(pattern)
  <2>1. VisitPattern(planned, b) = FlattenSeq(parts)
    BY <1>5 DEF VisitPattern, Each
  <2>2. candidates \in Found([posit: DOMAIN posits])
    BY <1>2, CandidatesAreBounded
  <2> HIDE DEF candidates, R
  <2>3. \A c \in [posit: DOMAIN posits] : MatchPosit(pattern, c.posit, b) \in Found(R)
    BY <1>3
  <2>4. FlattenSeq(parts) \in Found(R)
    BY <2>2, <2>3, CandidatesAreProper, EachIsFound
  <2> QED
    BY <1>3, <2>1, <2>4 DEF R
<1> QED
  BY <1>4, <1>5

-----------------------------------------------------------------------------
(***************************************************************************)
(* Patterns one after the other: a plan is sound if every step is ready    *)
(* for what the steps before it have bound.                                *)
(***************************************************************************)
UsesTo(planned, i) == UNION {Uses(planned[j].pattern) : j \in 1..i}

SoundSteps(U, K, planned) ==
    /\ IsSequence(planned)
    /\ \A i \in 1..Len(planned) : IsReady(U, K \cup UsesTo(planned, i - 1), planned[i].pattern)

LEMMA UsesOfOneMore ==
    ASSUME NEW planned, NEW i \in Nat \ {0}
    PROVE  UsesTo(planned, i - 1) \cup Uses(planned[i].pattern) = UsesTo(planned, i)
<1>1. 1..i = (1..(i - 1)) \cup {i}
  OBVIOUS
<1> QED
  BY <1>1 DEF UsesTo

LEMMA BranchIsBuilt ==
    ASSUME posits \in Databases, NEW U, Consistent(U), NEW K, NEW b \in Bound(U, K),
           NEW planned, SoundSteps(U, K, planned)
    PROVE  JoinBranch(planned, b) \in Built(Bound(U, K \cup UsesTo(planned, Len(planned))))
<1> DEFINE n == Len(planned)
           Known(i) == K \cup UsesTo(planned, i)
           Op(y, e) == Whole(Each(LAMBDA c : EvaluatePattern(e, c), y))
           Y == [i \in 0..n |-> Built(Bound(U, Known(i)))]
           step == [x \in (1..n) \X UNION {Y[i] : i \in 0..n} |-> Op(x[2], planned[x[1]])]
           Eq(g) == g = [i \in 0..n |-> IF i = 0 THEN <<b>> ELSE Op(g[i - 1], planned[i])]
           upTo == CHOOSE g : Eq(g)
<1>1. n \in Nat
  BY DEF SoundSteps, IsSequence
<1>2. <<b>> \in Y[0]
  <2>1. 0 \in 0..n /\ Known(0) = K
    BY <1>1 DEF UsesTo
  <2>2. Y[0] = Built(Bound(U, K))
    BY <2>1
  <2> HIDE DEF Y
  <2>3. <<b>> \in Seq(Bound(U, K))
    OBVIOUS
  <2> QED
    BY <2>2, <2>3, FoundSimple DEF Built
<1>3. ASSUME NEW i \in 1..n, NEW y \in Y[i - 1]
      PROVE  Op(y, planned[i]) \in Y[i]
  <2> DEFINE L == Known(i - 1)
             p == planned[i]
             S == Bound(U, Known(i))
             parts == [k \in DOMAIN y |->
                          IF IsFailure(y[k]) THEN <<y[k]>> ELSE EvaluatePattern(p, y[k])]
  <2>1. i \in 0..n /\ i - 1 \in 0..n /\ i \in Nat \ {0}
    BY <1>1
  <2>2. y \in Found(Bound(U, L))
    <3>1. Y[i - 1] = Built(Bound(U, L))
      BY <2>1
    <3> HIDE DEF Y, L
    <3> QED
      BY <3>1, FoundSimple
  <2>3. L \cup Uses(p.pattern) = Known(i)
    BY <2>1, UsesOfOneMore
  <2>4. IsReady(U, L, p.pattern)
    BY DEF SoundSteps, n
  <2>5. Op(y, p) = Whole(FlattenSeq(parts))
    BY DEF Each
  <2>6. Y[i] = Built(S)
    BY <2>1
  <2> HIDE DEF L, p, Y
  <2>7. \A c \in Bound(U, L) : EvaluatePattern(p, c) \in Found(S)
    BY <2>3, <2>4, PatternIsBuilt, FoundSimple
  <2>8. Proper(Bound(U, L)) /\ Proper(S)
    BY BoundIsProper
  <2> HIDE DEF Op, S
  <2>9. FlattenSeq(parts) \in Found(S)
    BY <2>2, <2>7, <2>8, EachIsFound
  <2>10. Whole(FlattenSeq(parts)) \in Built(S)
    BY <2>8, <2>9, WholeIsBuilt
  <2> QED
    BY <2>5, <2>6, <2>10 DEF p
<1> HIDE DEF n, Op, Y
<1>4. \E g : Eq(g)
  <2>1. ASSUME NEW i \in 1..n, NEW y \in Y[i - 1]
        PROVE  step[<<i, y>>] = Op(y, planned[i])
    <3>1. i - 1 \in 0..n
      BY <1>1
    <3>2. <<i, y>> \in (1..n) \X UNION {Y[j] : j \in 0..n}
      BY <3>1
    <3> QED
      BY <3>2
  <2> HIDE DEF step
  <2>2. PICK g : Follows(g, n, <<b>>, step) /\ \A i \in 0..n : g[i] \in Y[i]
    BY <1>1, <1>2, <1>3, <2>1, RecursionExists
  <2>3. \A i \in 0..n : i # 0 => step[<<i, g[i - 1]>>] = Op(g[i - 1], planned[i])
    BY <1>1, <2>1, <2>2
  <2>4. g = [i \in 0..n |-> IF i = 0 THEN <<b>> ELSE step[<<i, g[i - 1]>>]]
    BY <2>2 DEF Follows
  <2>5. Eq(g)
    BY <2>3, <2>4
  <2> QED
    BY <2>5
<1>5. Eq(upTo)
  BY <1>4
<1> HIDE DEF upTo
<1>6. \A i \in 0..n : upTo[i] \in Y[i]
  <2>1. upTo[0] = <<b>> /\ \A i \in 1..n : upTo[i] = Op(upTo[i - 1], planned[i])
    <3>1. \A i \in 0..n : upTo[i] = IF i = 0 THEN <<b>> ELSE Op(upTo[i - 1], planned[i])
      BY <1>5
    <3>2. 0 \in 0..n /\ \A i \in 1..n : i \in 0..n /\ i # 0
      BY <1>1
    <3> QED
      BY <3>1, <3>2
  <2> HIDE DEF Eq
  <2> QED
    BY <1>1, <1>2, <1>3, <2>1, StaysIn
<1>7. JoinBranch(planned, b) = upTo[n]
  BY DEF JoinBranch, Accumulate, upTo, n, Op
<1>8. upTo[n] \in Y[n]
  BY <1>1, <1>6
<1>9. Y[n] = Built(Bound(U, K \cup UsesTo(planned, Len(planned))))
  BY <1>1 DEF Y, n
<1> QED
  BY <1>7, <1>8, <1>9

LEMMA BlockIsFound ==
    ASSUME posits \in Databases, NEW U, Consistent(U), NEW K, NEW b \in Bound(U, K),
           NEW planned, SoundSteps(U, K, planned),
           \A i \in 1..Len(planned) : ~IsEffective(planned[i].pattern)
    PROVE  VisitBlock(planned, b) \in Found(Bound(U, K \cup UsesTo(planned, Len(planned))))
<1> DEFINE n == Len(planned)
           Known(i) == K \cup UsesTo(planned, i)
           Op(y, e) == Each(LAMBDA c : VisitPattern(e, c), y)
           Y == [i \in 0..n |-> Found(Bound(U, Known(i)))]
           step == [x \in (1..n) \X UNION {Y[i] : i \in 0..n} |-> Op(x[2], planned[x[1]])]
           Eq(g) == g = [i \in 0..n |-> IF i = 0 THEN <<b>> ELSE Op(g[i - 1], planned[i])]
           upTo == CHOOSE g : Eq(g)
<1>1. n \in Nat
  BY DEF SoundSteps, IsSequence
<1>2. <<b>> \in Y[0]
  <2>1. 0 \in 0..n /\ Known(0) = K
    BY <1>1 DEF UsesTo
  <2>2. Y[0] = Found(Bound(U, K))
    BY <2>1
  <2> HIDE DEF Y
  <2>3. <<b>> \in Seq(Bound(U, K))
    OBVIOUS
  <2> QED
    BY <2>2, <2>3, FoundSimple DEF Built
<1>3. ASSUME NEW i \in 1..n, NEW y \in Y[i - 1]
      PROVE  Op(y, planned[i]) \in Y[i]
  <2> DEFINE L == Known(i - 1)
             p == planned[i]
             S == Bound(U, Known(i))
             parts == [k \in DOMAIN y |->
                          IF IsFailure(y[k]) THEN <<y[k]>> ELSE VisitPattern(p, y[k])]
  <2>1. i \in 0..n /\ i - 1 \in 0..n /\ i \in Nat \ {0}
    BY <1>1
  <2>2. y \in Found(Bound(U, L))
    <3>1. Y[i - 1] = Found(Bound(U, L))
      BY <2>1
    <3> HIDE DEF Y, L
    <3> QED
      BY <3>1, FoundSimple
  <2>3. L \cup Uses(p.pattern) = Known(i)
    BY <2>1, UsesOfOneMore
  <2>4. IsReady(U, L, p.pattern) /\ ~IsEffective(p.pattern)
    BY DEF SoundSteps, n
  <2>5. Op(y, p) = FlattenSeq(parts)
    BY DEF Each
  <2>6. Y[i] = Found(S)
    BY <2>1
  <2> HIDE DEF L, p, Y
  <2>7. \A c \in Bound(U, L) : VisitPattern(p, c) \in Found(S)
    BY <2>3, <2>4, VisitIsFound, FoundSimple
  <2>8. Proper(Bound(U, L)) /\ Proper(S)
    BY BoundIsProper
  <2> HIDE DEF Op, S
  <2>9. FlattenSeq(parts) \in Found(S)
    BY <2>2, <2>7, <2>8, EachIsFound
  <2> QED
    BY <2>5, <2>6, <2>9 DEF p
<1> HIDE DEF n, Op, Y
<1>4. \E g : Eq(g)
  <2>1. ASSUME NEW i \in 1..n, NEW y \in Y[i - 1]
        PROVE  step[<<i, y>>] = Op(y, planned[i])
    <3>1. i - 1 \in 0..n
      BY <1>1
    <3>2. <<i, y>> \in (1..n) \X UNION {Y[j] : j \in 0..n}
      BY <3>1
    <3> QED
      BY <3>2
  <2> HIDE DEF step
  <2>2. PICK g : Follows(g, n, <<b>>, step) /\ \A i \in 0..n : g[i] \in Y[i]
    BY <1>1, <1>2, <1>3, <2>1, RecursionExists
  <2>3. \A i \in 0..n : i # 0 => step[<<i, g[i - 1]>>] = Op(g[i - 1], planned[i])
    BY <1>1, <2>1, <2>2
  <2>4. g = [i \in 0..n |-> IF i = 0 THEN <<b>> ELSE step[<<i, g[i - 1]>>]]
    BY <2>2 DEF Follows
  <2>5. Eq(g)
    BY <2>3, <2>4
  <2> QED
    BY <2>5
<1>5. Eq(upTo)
  BY <1>4
<1> HIDE DEF upTo
<1>6. \A i \in 0..n : upTo[i] \in Y[i]
  <2>1. upTo[0] = <<b>> /\ \A i \in 1..n : upTo[i] = Op(upTo[i - 1], planned[i])
    <3>1. \A i \in 0..n : upTo[i] = IF i = 0 THEN <<b>> ELSE Op(upTo[i - 1], planned[i])
      BY <1>5
    <3>2. 0 \in 0..n /\ \A i \in 1..n : i \in 0..n /\ i # 0
      BY <1>1
    <3> QED
      BY <3>1, <3>2
  <2> HIDE DEF Eq
  <2> QED
    BY <1>1, <1>2, <1>3, <2>1, StaysIn
<1>7. VisitBlock(planned, b) = upTo[n]
  BY DEF VisitBlock, Accumulate, upTo, n, Op
<1>8. upTo[n] \in Y[n]
  BY <1>1, <1>6
<1>9. Y[n] = Found(Bound(U, K \cup UsesTo(planned, Len(planned))))
  BY <1>1 DEF Y, n
<1> QED
  BY <1>7, <1>8, <1>9

(***************************************************************************)
(* Predicates keep a row, drop it or cannot be evaluated, the last only if *)
(* the plan does not stream.                                               *)
(***************************************************************************)
Decides(predicate, b) ==
    \/ MustMaterialize(query)
    \/ predicate.operator = "==="
    \/ Domain(b[predicate.left]) # "Literal"

LEMMA FilterDecides ==
    ASSUME NEW predicate, NEW b, Decides(predicate, b)
    PROVE  \/ Filter(predicate, b) \in {<<b>>, <<>>}
           \/ Filter(predicate, b) = <<Failed("Comparison")>> /\ MustMaterialize(query)
BY DEF Filter, Decides, Incomparable

LEMMA FilterIsFound ==
    ASSUME NEW predicate, NEW b, Decides(predicate, b)
    PROVE  Filter(predicate, b) \in Found({b})
BY FilterDecides, BenignFails, FoundSimple

LEMMA FilterAllStays ==
    ASSUME NEW predicates, IsSequence(predicates), NEW b, NEW T, <<b>> \in T,
           \A predicate \in Elements(predicates) : \A y \in T :
               Each(LAMBDA c : Filter(predicate, c), y) \in T
    PROVE  FilterAll(predicates, b) \in T
<1> DEFINE n == Len(predicates)
           Op(y, e) == Each(LAMBDA c : Filter(e, c), y)
           Y == [i \in 0..n |-> T]
           step == [x \in (1..n) \X UNION {Y[i] : i \in 0..n} |-> Op(x[2], predicates[x[1]])]
           Eq(g) == g = [i \in 0..n |-> IF i = 0 THEN <<b>> ELSE Op(g[i - 1], predicates[i])]
           upTo == CHOOSE g : Eq(g)
<1>1. n \in Nat
  BY DEF IsSequence
<1>2. <<b>> \in Y[0]
  BY <1>1
<1>3. ASSUME NEW i \in 1..n, NEW y \in Y[i - 1]
      PROVE  Op(y, predicates[i]) \in Y[i]
  <2>1. i \in 0..n /\ i - 1 \in 0..n
    BY <1>1
  <2>2. y \in T /\ Y[i] = T
    BY <2>1
  <2>3. predicates[i] \in Elements(predicates)
    BY DEF Elements, IsSequence, n
  <2> HIDE DEF Y, n
  <2> QED
    BY <2>2, <2>3
<1> HIDE DEF n, Op, Y
<1>4. \E g : Eq(g)
  <2>1. ASSUME NEW i \in 1..n, NEW y \in Y[i - 1]
        PROVE  step[<<i, y>>] = Op(y, predicates[i])
    <3>1. i - 1 \in 0..n
      BY <1>1
    <3>2. <<i, y>> \in (1..n) \X UNION {Y[j] : j \in 0..n}
      BY <3>1
    <3> QED
      BY <3>2
  <2> HIDE DEF step
  <2>2. PICK g : Follows(g, n, <<b>>, step) /\ \A i \in 0..n : g[i] \in Y[i]
    BY <1>1, <1>2, <1>3, <2>1, RecursionExists
  <2>3. \A i \in 0..n : i # 0 => step[<<i, g[i - 1]>>] = Op(g[i - 1], predicates[i])
    BY <1>1, <2>1, <2>2
  <2>4. g = [i \in 0..n |-> IF i = 0 THEN <<b>> ELSE step[<<i, g[i - 1]>>]]
    BY <2>2 DEF Follows
  <2>5. Eq(g)
    BY <2>3, <2>4
  <2> QED
    BY <2>5
<1>5. Eq(upTo)
  BY <1>4
<1> HIDE DEF upTo
<1>6. \A i \in 0..n : upTo[i] \in Y[i]
  <2>1. upTo[0] = <<b>> /\ \A i \in 1..n : upTo[i] = Op(upTo[i - 1], predicates[i])
    <3>1. \A i \in 0..n : upTo[i] = IF i = 0 THEN <<b>> ELSE Op(upTo[i - 1], predicates[i])
      BY <1>5
    <3>2. 0 \in 0..n /\ \A i \in 1..n : i \in 0..n /\ i # 0
      BY <1>1
    <3> QED
      BY <3>1, <3>2
  <2> HIDE DEF Eq
  <2> QED
    BY <1>1, <1>2, <1>3, <2>1, StaysIn
<1>7. FilterAll(predicates, b) = upTo[n]
  BY DEF FilterAll, Accumulate, upTo, n, Op
<1>8. upTo[n] \in Y[n]
  BY <1>1, <1>6
<1> QED
  BY <1>1, <1>7, <1>8 DEF Y

LEMMA FilterAllIsFound ==
    ASSUME NEW predicates, IsSequence(predicates), NEW b, ~IsFailure(b),
           \A predicate \in Elements(predicates) : Decides(predicate, b)
    PROVE  FilterAll(predicates, b) \in Found({b})
<1>1. ASSUME NEW p \in Elements(predicates), NEW y \in Found({b})
      PROVE  Each(LAMBDA c : Filter(p, c), y) \in Found({b})
  <2> DEFINE parts == [k \in DOMAIN y |->
                          IF IsFailure(y[k]) THEN <<y[k]>> ELSE Filter(p, y[k])]
  <2>1. Each(LAMBDA c : Filter(p, c), y) = FlattenSeq(parts)
    BY DEF Each
  <2>2. Proper({b})
    BY DEF Proper
  <2>3. \A c \in {b} : Filter(p, c) \in Found({b})
    BY FilterIsFound
  <2>4. FlattenSeq(parts) \in Found({b})
    BY <2>2, <2>3, EachIsFound
  <2> QED
    BY <2>1, <2>4
<1>2. <<b>> \in Found({b})
  BY FoundSimple
<1> QED
  BY <1>1, <1>2, FilterAllStays

\* A plan that streams evaluates its predicates without an error.
LEMMA FilterAllDecides ==
    ASSUME ~MustMaterialize(query), NEW predicates, IsSequence(predicates),
           NEW b, ~IsFailure(b), \A predicate \in Elements(predicates) : Decides(predicate, b)
    PROVE  FilterAll(predicates, b) \in Seq({b})
<1>1. ASSUME NEW p \in Elements(predicates), NEW y \in Seq({b})
      PROVE  Each(LAMBDA c : Filter(p, c), y) \in Seq({b})
  <2> DEFINE parts == [k \in DOMAIN y |->
                          IF IsFailure(y[k]) THEN <<y[k]>> ELSE Filter(p, y[k])]
  <2>1. Each(LAMBDA c : Filter(p, c), y) = FlattenSeq(parts)
    BY DEF Each
  <2>2. Filter(p, b) \in {<<b>>, <<>>}
    <3>1. Decides(p, b)
      OBVIOUS
    <3>2. Filter(p, b) \in {<<b>>, <<>>} \/ MustMaterialize(query)
      BY <3>1, FilterDecides
    <3> QED
      BY <3>2
  <2>3. Filter(p, b) \in Seq({b})
    <3>1. <<b>> \in Seq({b}) /\ <<>> \in Seq({b})
      OBVIOUS
    <3> QED
      BY <2>2, <3>1
  <2>4. DOMAIN y = 1..Len(y) /\ Len(y) \in Nat /\ \A k \in DOMAIN y : y[k] = b
    OBVIOUS
  <2>5. \A k \in DOMAIN y : parts[k] \in Seq({b})
    BY <2>3, <2>4
  <2>6. parts \in Seq(Seq({b}))
    <3> HIDE DEF parts
    <3>1. parts = [k \in 1..Len(y) |-> parts[k]]
      BY <2>4 DEF parts
    <3> QED
      BY <2>4, <2>5, <3>1
  <2> HIDE DEF parts
  <2> QED
    BY <2>1, <2>6, Flattened
<1>2. <<b>> \in Seq({b})
  OBVIOUS
<1> QED
  BY <1>1, <1>2, FilterAllStays

LEMMA FilteredIsBuilt ==
    ASSUME MustMaterialize(query), IsSequence(query.predicates),
           NEW R, Proper(R), NEW rows \in Seq(R)
    PROVE  FilteredRelation(rows) \in Built(R)
<1> DEFINE n == Len(query.predicates)
           Op(y, e) == Whole(Each(LAMBDA c : Filter(e, c), y))
           Y == [i \in 0..n |-> Built(R)]
           step == [x \in (1..n) \X UNION {Y[i] : i \in 0..n} |-> Op(x[2], query.predicates[x[1]])]
           Eq(g) == g = [i \in 0..n |-> IF i = 0 THEN rows ELSE Op(g[i - 1], query.predicates[i])]
           upTo == CHOOSE g : Eq(g)
<1>1. n \in Nat
  BY DEF IsSequence
<1>2. rows \in Y[0]
  <2>1. Y[0] = Built(R)
    BY <1>1
  <2> HIDE DEF Y
  <2> QED
    BY <2>1 DEF Built
<1>3. ASSUME NEW i \in 1..n, NEW y \in Y[i - 1]
      PROVE  Op(y, query.predicates[i]) \in Y[i]
  <2> DEFINE p == query.predicates[i]
             parts == [k \in DOMAIN y |->
                          IF IsFailure(y[k]) THEN <<y[k]>> ELSE Filter(p, y[k])]
  <2>1. i \in 0..n /\ i - 1 \in 0..n
    BY <1>1
  <2>2. y \in Found(R) /\ Y[i] = Built(R)
    <3>1. Y[i - 1] = Built(R) /\ Y[i] = Built(R)
      BY <2>1
    <3> HIDE DEF Y
    <3> QED
      BY <3>1, FoundSimple
  <2>3. Op(y, p) = Whole(FlattenSeq(parts))
    BY DEF Each
  <2>5. ASSUME NEW c \in R PROVE Filter(p, c) \in Found(R)
    <3>1. {c} \subseteq R
      OBVIOUS
    <3>2. Filter(p, c) \in Found({c})
      BY FilterIsFound DEF Decides
    <3>3. Found({c}) \subseteq Found(R)
      BY <3>1, FoundSimple
    <3> QED
      BY <3>2, <3>3
  <2> HIDE DEF Op, p, Y
  <2>6. FlattenSeq(parts) \in Found(R)
    BY <2>2, <2>5, EachIsFound
  <2>7. Whole(FlattenSeq(parts)) \in Built(R)
    BY <2>6, WholeIsBuilt
  <2> QED
    BY <2>2, <2>3, <2>7 DEF p
<1> HIDE DEF n, Op, Y
<1>4. \E g : Eq(g)
  <2>1. ASSUME NEW i \in 1..n, NEW y \in Y[i - 1]
        PROVE  step[<<i, y>>] = Op(y, query.predicates[i])
    <3>1. i - 1 \in 0..n
      BY <1>1
    <3>2. <<i, y>> \in (1..n) \X UNION {Y[j] : j \in 0..n}
      BY <3>1
    <3> QED
      BY <3>2
  <2> HIDE DEF step
  <2>2. PICK g : Follows(g, n, rows, step) /\ \A i \in 0..n : g[i] \in Y[i]
    BY <1>1, <1>2, <1>3, <2>1, RecursionExists
  <2>3. \A i \in 0..n : i # 0 => step[<<i, g[i - 1]>>] = Op(g[i - 1], query.predicates[i])
    BY <1>1, <2>1, <2>2
  <2>4. g = [i \in 0..n |-> IF i = 0 THEN rows ELSE step[<<i, g[i - 1]>>]]
    BY <2>2 DEF Follows
  <2>5. Eq(g)
    BY <2>3, <2>4
  <2> QED
    BY <2>5
<1>5. Eq(upTo)
  BY <1>4
<1> HIDE DEF upTo
<1>6. \A i \in 0..n : upTo[i] \in Y[i]
  <2>1. upTo[0] = rows /\ \A i \in 1..n : upTo[i] = Op(upTo[i - 1], query.predicates[i])
    <3>1. \A i \in 0..n : upTo[i] = IF i = 0 THEN rows ELSE Op(upTo[i - 1], query.predicates[i])
      BY <1>5
    <3>2. 0 \in 0..n /\ \A i \in 1..n : i \in 0..n /\ i # 0
      BY <1>1
    <3> QED
      BY <3>1, <3>2
  <2> HIDE DEF Eq
  <2> QED
    BY <1>1, <1>2, <1>3, <2>1, StaysIn
<1>7. FilteredRelation(rows) = upTo[n]
  BY DEF FilteredRelation, Accumulate, upTo, n, Op
<1>8. upTo[n] \in Y[n]
  BY <1>1, <1>6
<1> QED
  BY <1>1, <1>7, <1>8 DEF Y

LEMMA AbsentIsBuilt ==
    ASSUME NEW R, Proper(R), NEW rows \in Seq(R), IsSequence(plan.absences),
           \A block \in Elements(plan.absences), b \in R :
               \E S : Proper(S) /\ JoinBranch(block, b) \in Built(S)
    PROVE  AbsentRelation(rows) \in Built(R)
<1> DEFINE n == Len(plan.absences)
           Op(y, e) == Whole(Each(LAMBDA c : KeepIfAbsent(c, JoinBranch(e, c)), y))
           Y == [i \in 0..n |-> Built(R)]
           step == [x \in (1..n) \X UNION {Y[i] : i \in 0..n} |-> Op(x[2], plan.absences[x[1]])]
           Eq(g) == g = [i \in 0..n |-> IF i = 0 THEN rows ELSE Op(g[i - 1], plan.absences[i])]
           upTo == CHOOSE g : Eq(g)
<1>1. n \in Nat
  BY DEF IsSequence
<1>2. rows \in Y[0]
  <2>1. Y[0] = Built(R)
    BY <1>1
  <2> HIDE DEF Y
  <2> QED
    BY <2>1 DEF Built
<1>3. ASSUME NEW i \in 1..n, NEW y \in Y[i - 1]
      PROVE  Op(y, plan.absences[i]) \in Y[i]
  <2> DEFINE p == plan.absences[i]
             parts == [k \in DOMAIN y |->
                          IF IsFailure(y[k]) THEN <<y[k]>> ELSE KeepIfAbsent(y[k], JoinBranch(p, y[k]))]
  <2>1. i \in 0..n /\ i - 1 \in 0..n
    BY <1>1
  <2>2. y \in Found(R) /\ Y[i] = Built(R)
    <3>1. Y[i - 1] = Built(R) /\ Y[i] = Built(R)
      BY <2>1
    <3> HIDE DEF Y
    <3> QED
      BY <3>1, FoundSimple
  <2>3. Op(y, p) = Whole(FlattenSeq(parts))
    BY DEF Each
  <2>4. p \in Elements(plan.absences)
    BY DEF Elements, IsSequence, n
  <2>5. ASSUME NEW c \in R PROVE KeepIfAbsent(c, JoinBranch(p, c)) \in Found(R)
    <3> DEFINE witnesses == JoinBranch(p, c)
    <3>1. PICK S : Proper(S) /\ witnesses \in Built(S)
      BY <2>4
    <3> HIDE DEF witnesses
    <3>2. \/ witnesses # <<>> => ~IsFailure(Head(witnesses))
          \/ \E e \in Benign : witnesses = <<e>>
      BY <3>1, BuiltElements
    <3>3. \/ KeepIfAbsent(c, witnesses) \in {<<c>>, <<>>}
          \/ \E e \in Benign : KeepIfAbsent(c, witnesses) = <<e>>
      BY <3>2 DEF KeepIfAbsent
    <3>4. KeepIfAbsent(c, witnesses) \in Found(R)
      BY <3>3, FoundSimple
    <3> QED
      BY <3>4 DEF witnesses
  <2> HIDE DEF Op, p, Y
  <2>6. FlattenSeq(parts) \in Found(R)
    BY <2>2, <2>5, EachIsFound
  <2>7. Whole(FlattenSeq(parts)) \in Built(R)
    BY <2>6, WholeIsBuilt
  <2> QED
    BY <2>2, <2>3, <2>7 DEF p
<1> HIDE DEF n, Op, Y
<1>4. \E g : Eq(g)
  <2>1. ASSUME NEW i \in 1..n, NEW y \in Y[i - 1]
        PROVE  step[<<i, y>>] = Op(y, plan.absences[i])
    <3>1. i - 1 \in 0..n
      BY <1>1
    <3>2. <<i, y>> \in (1..n) \X UNION {Y[j] : j \in 0..n}
      BY <3>1
    <3> QED
      BY <3>2
  <2> HIDE DEF step
  <2>2. PICK g : Follows(g, n, rows, step) /\ \A i \in 0..n : g[i] \in Y[i]
    BY <1>1, <1>2, <1>3, <2>1, RecursionExists
  <2>3. \A i \in 0..n : i # 0 => step[<<i, g[i - 1]>>] = Op(g[i - 1], plan.absences[i])
    BY <1>1, <2>1, <2>2
  <2>4. g = [i \in 0..n |-> IF i = 0 THEN rows ELSE step[<<i, g[i - 1]>>]]
    BY <2>2 DEF Follows
  <2>5. Eq(g)
    BY <2>3, <2>4
  <2> QED
    BY <2>5
<1>5. Eq(upTo)
  BY <1>4
<1> HIDE DEF upTo
<1>6. \A i \in 0..n : upTo[i] \in Y[i]
  <2>1. upTo[0] = rows /\ \A i \in 1..n : upTo[i] = Op(upTo[i - 1], plan.absences[i])
    <3>1. \A i \in 0..n : upTo[i] = IF i = 0 THEN rows ELSE Op(upTo[i - 1], plan.absences[i])
      BY <1>5
    <3>2. 0 \in 0..n /\ \A i \in 1..n : i \in 0..n /\ i # 0
      BY <1>1
    <3> QED
      BY <3>1, <3>2
  <2> HIDE DEF Eq
  <2> QED
    BY <1>1, <1>2, <1>3, <2>1, StaysIn
<1>7. AbsentRelation(rows) = upTo[n]
  BY DEF AbsentRelation, Accumulate, upTo, n, Op
<1>8. upTo[n] \in Y[n]
  BY <1>1, <1>6
<1> QED
  BY <1>1, <1>7, <1>8 DEF Y

-----------------------------------------------------------------------------
(***************************************************************************)
(* The planner.  Estimates are numbers, so there is a smallest one, and    *)
(* what a plan says of the number of candidates is true of the store.      *)
(***************************************************************************)
LEMMA RolePostingIsFinite ==
    ASSUME posits \in Databases, NEW role
    PROVE  /\ Cardinality(RolePosting(role)) \in Nat
           /\ Cardinality(DOMAIN posits) \in Nat
           /\ Cardinality(RolePosting(role)) <= Cardinality(DOMAIN posits)
<1>1. RolePosting(role) \subseteq DOMAIN posits /\ IsFiniteSet(DOMAIN posits)
  BY StoreIsSound DEF RolePosting
<1> QED
  BY <1>1, FS_Subset, FS_CardinalityType

LEMMA EstimateIsNumber ==
    ASSUME posits \in Databases, NEW pattern
    PROVE  /\ Estimate(pattern) \in Nat
           /\ NamedRoles(pattern) # {} =>
                 \E role \in NamedRoles(pattern) : Estimate(pattern) = Cardinality(RolePosting(role))
           /\ NamedRoles(pattern) = {} => Estimate(pattern) = Unbounded
           /\ EstimatedCandidates(pattern) \in Nat
<1> DEFINE sizes == {Cardinality(RolePosting(role)) : role \in NamedRoles(pattern)}
           both == {Cardinality(RolePosting(role)) : role \in {PositRole, AscertainsRole}}
<1>1. \A role : Cardinality(RolePosting(role)) \in Nat
  BY RolePostingIsFinite
<1>2. Cardinality(DOMAIN posits) \in Nat
  BY RolePostingIsFinite
<1>3. ASSUME NamedRoles(pattern) # {} PROVE Estimate(pattern) = Min(sizes) /\ Min(sizes) \in sizes
  <2>1. sizes \in SUBSET Nat /\ sizes # {}
    BY <1>1, <1>3
  <2>2. Estimate(pattern) = Min(sizes)
    BY <1>3 DEF Estimate
  <2> HIDE DEF sizes
  <2> QED
    BY <2>1, <2>2, LeastIsElement
<1>4. NamedRoles(pattern) = {} => Estimate(pattern) = Unbounded
  BY DEF Estimate
<1>5. Estimate(pattern) \in Nat
  BY <1>1, <1>2, <1>3, <1>4 DEF Unbounded
<1>6. Min(both) \in Nat
  <2>1. both \in SUBSET Nat /\ both # {}
    BY <1>1
  <2> HIDE DEF both
  <2> QED
    BY <2>1, LeastIsElement
<1>7. EstimatedCandidates(pattern) \in Nat
  <2>1. CASE IsEffective(pattern)
    BY <1>6, <2>1 DEF EstimatedCandidates
  <2>2. CASE ~IsEffective(pattern)
    BY <1>2, <1>5, <2>2 DEF EstimatedCandidates
  <2> QED
    BY <2>1, <2>2
<1> QED
  BY <1>3, <1>4, <1>5, <1>7

(***************************************************************************)
(* Resolved is the least set that is closed under the patterns.            *)
(***************************************************************************)
LEMMA ResolvedIsLeast ==
    ASSUME NEW patterns, IsSequence(patterns), NEW available, NEW A, available \subseteq A,
           \A k \in DOMAIN patterns :
               Dependencies(patterns[k]) \subseteq A => Introduced(patterns[k]) \subseteq A
    PROVE  Resolved(patterns, available) \subseteq A
<1> DEFINE n == Len(patterns)
           Op(y, e) == y \cup NewlyKnown(patterns, y)
           Y == [i \in 0..n |-> SUBSET A]
           step == [x \in (1..n) \X UNION {Y[i] : i \in 0..n} |-> Op(x[2], patterns[x[1]])]
           Eq(g) == g = [i \in 0..n |-> IF i = 0 THEN available ELSE Op(g[i - 1], patterns[i])]
           upTo == CHOOSE g : Eq(g)
<1>1. n \in Nat
  BY DEF IsSequence
<1>2. available \in Y[0]
  BY <1>1
<1>3. ASSUME NEW i \in 1..n, NEW y \in Y[i - 1]
      PROVE  Op(y, patterns[i]) \in Y[i]
  <2>1. i \in 0..n /\ i - 1 \in 0..n
    BY <1>1
  <2>2. y \in SUBSET A /\ Y[i] = SUBSET A
    BY <2>1
  <2>3. NewlyKnown(patterns, y) \subseteq A
    BY <2>2 DEF NewlyKnown, UnionOver
  <2> QED
    BY <2>2, <2>3
<1> HIDE DEF n, Op, Y
<1>4. \E g : Eq(g)
  <2>1. ASSUME NEW i \in 1..n, NEW y \in Y[i - 1]
        PROVE  step[<<i, y>>] = Op(y, patterns[i])
    <3>1. i - 1 \in 0..n
      BY <1>1
    <3>2. <<i, y>> \in (1..n) \X UNION {Y[j] : j \in 0..n}
      BY <3>1
    <3> QED
      BY <3>2
  <2> HIDE DEF step
  <2>2. PICK g : Follows(g, n, available, step) /\ \A i \in 0..n : g[i] \in Y[i]
    BY <1>1, <1>2, <1>3, <2>1, RecursionExists
  <2>3. \A i \in 0..n : i # 0 => step[<<i, g[i - 1]>>] = Op(g[i - 1], patterns[i])
    BY <1>1, <2>1, <2>2
  <2>4. g = [i \in 0..n |-> IF i = 0 THEN available ELSE step[<<i, g[i - 1]>>]]
    BY <2>2 DEF Follows
  <2>5. Eq(g)
    BY <2>3, <2>4
  <2> QED
    BY <2>5
<1>5. Eq(upTo)
  BY <1>4
<1> HIDE DEF upTo
<1>6. \A i \in 0..n : upTo[i] \in Y[i]
  <2>1. upTo[0] = available /\ \A i \in 1..n : upTo[i] = Op(upTo[i - 1], patterns[i])
    <3>1. \A i \in 0..n : upTo[i] = IF i = 0 THEN available ELSE Op(upTo[i - 1], patterns[i])
      BY <1>5
    <3>2. 0 \in 0..n /\ \A i \in 1..n : i \in 0..n /\ i # 0
      BY <1>1
    <3> QED
      BY <3>1, <3>2
  <2> HIDE DEF Eq
  <2> QED
    BY <1>1, <1>2, <1>3, <2>1, StaysIn
<1>7. Resolved(patterns, available) = upTo[n]
  BY DEF Resolved, Accumulate, upTo, n, Op
<1>8. upTo[n] \in Y[n]
  BY <1>1, <1>6
<1> QED
  BY <1>1, <1>7, <1>8 DEF Y

KnownBefore(planned, available, i) ==
    available \cup UNION {Introduced(planned[j].pattern) : j \in 1..(i - 1)}

\* Step i of an order of the patterns: what it depends on is known before, and
\* what it filters after it.
IsStep(patterns, available, planned, i) ==
    /\ IsSequence(planned[i].predicates)
    /\ \A predicate \in Elements(planned[i].predicates) :
          /\ predicate \in Elements(query.predicates)
          /\ predicate.left \in KnownBefore(planned, available, i + 1)
    /\ \E k \in DOMAIN patterns :
          /\ planned[i].pattern = patterns[k]
          /\ planned[i].access = AccessPath(patterns[k], KnownBefore(planned, available, i))
          /\ planned[i].estimate = EstimatedCandidates(patterns[k])
          /\ Dependencies(patterns[k]) \subseteq KnownBefore(planned, available, i)

IsOrdering(patterns, available, planned) ==
    /\ IsSequence(planned) /\ Len(planned) = Len(patterns)
    /\ \A i \in 1..Len(planned) : IsStep(patterns, available, planned, i)
    /\ \A k \in DOMAIN patterns : \E i \in 1..Len(planned) : planned[i].pattern = patterns[k]

Plans(patterns) ==
    [pattern: Elements(patterns), access: {"effective_slice", "full_scan", "bitmap"},
     estimate: Nat, predicates: {<<>>}]

\* After i patterns have their place.
Orderings(patterns, available, i) ==
    {s \in [pending: SUBSET DOMAIN patterns,
            available: SUBSET (available \cup UnionOver(patterns, Introduced)),
            planned: Seq(Plans(patterns))] :
        /\ Cardinality(s.pending) = Len(patterns) - i
        /\ Len(s.planned) = i
        /\ s.available = KnownBefore(s.planned, available, i + 1)
        /\ \A j \in 1..i : IsStep(patterns, available, s.planned, j)
        /\ \A k \in DOMAIN patterns \ s.pending :
              \E j \in 1..i : s.planned[j].pattern = patterns[k]}

LEMMA NextIsReady ==
    ASSUME posits \in Databases, NEW patterns, NEW available, NEW pending \in SUBSET Nat,
           \E k \in pending : Dependencies(patterns[k]) \subseteq available
    PROVE  /\ NextPattern(patterns, pending, available) \in pending
           /\ Dependencies(patterns[NextPattern(patterns, pending, available)]) \subseteq available
<1> DEFINE ready == {i \in pending : Dependencies(patterns[i]) \subseteq available}
           estimates == {Estimate(patterns[i]) : i \in ready}
           best == {i \in ready : \A j \in ready : Estimate(patterns[i]) <= Estimate(patterns[j])}
<1>1. ready # {}
  OBVIOUS
<1>2. estimates \in SUBSET Nat /\ estimates # {}
  BY <1>1, EstimateIsNumber
<1>3. PICK e \in estimates : \A f \in estimates : e <= f
  <2> HIDE DEF estimates
  <2> QED
    BY <1>2, LeastNumber
<1>4. best # {}
  <2>1. PICK i \in ready : e = Estimate(patterns[i])
    BY <1>3
  <2>2. \A j \in ready : Estimate(patterns[i]) <= Estimate(patterns[j])
    BY <1>3, <2>1
  <2> QED
    BY <2>1, <2>2
<1>5. best \in SUBSET Nat /\ best \subseteq ready
  OBVIOUS
<1>6. NextPattern(patterns, pending, available) = Min(best)
  BY DEF NextPattern
<1>7. Min(best) \in best
  <2> HIDE DEF best
  <2> QED
    BY <1>4, <1>5, LeastIsElement
<1> QED
  BY <1>5, <1>6, <1>7

LEMMA PlaceNextOrders ==
    ASSUME posits \in Databases, NEW patterns, IsSequence(patterns), NEW available,
           UnionOver(patterns, Dependencies) \subseteq Resolved(patterns, available),
           NEW i \in 1..Len(patterns), NEW s \in Orderings(patterns, available, i - 1)
    PROVE  PlaceNext(patterns, s) \in Orderings(patterns, available, i)
<1> DEFINE next == NextPattern(patterns, s.pending, s.available)
           x == Plan(patterns[next], s.available)
           planned == Append(s.planned, x)
           t == [pending |-> s.pending \ {next},
                 available |-> s.available \cup Introduced(patterns[next]),
                 planned |-> planned]
           n == Len(patterns)
<1>0. n \in Nat /\ DOMAIN patterns = 1..n /\ i \in 1..n /\ IsFiniteSet(1..n)
  <2>1. n \in Nat /\ DOMAIN patterns = 1..n
    BY DEF IsSequence
  <2> HIDE DEF n
  <2> QED
    BY <2>1, FS_Interval DEF n
<1>1. /\ s.pending \in SUBSET DOMAIN patterns
      /\ s.available \in SUBSET (available \cup UnionOver(patterns, Introduced))
      /\ s.planned \in Seq(Plans(patterns))
      /\ Cardinality(s.pending) = n - (i - 1)
      /\ Len(s.planned) = i - 1
      /\ s.available = KnownBefore(s.planned, available, (i - 1) + 1)
      /\ \A j \in 1..(i - 1) : IsStep(patterns, available, s.planned, j)
      /\ \A k \in DOMAIN patterns \ s.pending :
            \E j \in 1..(i - 1) : s.planned[j].pattern = patterns[k]
  BY DEF Orderings
<1>2. s.available = KnownBefore(s.planned, available, i)
  <2>1. (i - 1) + 1 = i
    BY <1>0
  <2> QED
    BY <1>1, <2>1
<1>3. IsFiniteSet(s.pending) /\ s.pending # {}
  <2>1. IsFiniteSet(s.pending)
    BY <1>0, <1>1, FS_Subset
  <2>2. Cardinality(s.pending) # 0
    BY <1>0, <1>1
  <2> QED
    BY <2>1, <2>2, FS_EmptySet
<1>4. \E k \in s.pending : Dependencies(patterns[k]) \subseteq s.available
  <2> SUFFICES ASSUME \A k \in s.pending : ~ Dependencies(patterns[k]) \subseteq s.available
               PROVE  FALSE
    OBVIOUS
  <2>1. ASSUME NEW k \in DOMAIN patterns, Dependencies(patterns[k]) \subseteq s.available
        PROVE  Introduced(patterns[k]) \subseteq s.available
    <3>1. PICK j \in 1..(i - 1) : s.planned[j].pattern = patterns[k]
      BY <1>1, <2>1
    <3> QED
      BY <1>2, <3>1 DEF KnownBefore
  <2>2. available \subseteq s.available
    BY <1>2 DEF KnownBefore
  <2>3. Resolved(patterns, available) \subseteq s.available
    BY <2>1, <2>2, ResolvedIsLeast
  <2>4. PICK k \in s.pending : TRUE
    BY <1>3
  <2>5. Dependencies(patterns[k]) \subseteq UnionOver(patterns, Dependencies)
    BY <1>1, <2>4 DEF UnionOver
  <2> QED
    BY <2>3, <2>4, <2>5
<1>5. next \in s.pending /\ Dependencies(patterns[next]) \subseteq s.available
  <2>1. s.pending \in SUBSET Nat
    BY <1>0, <1>1
  <2> QED
    BY <1>4, <2>1, NextIsReady
<1>6. PlaceNext(patterns, s) = t
  BY DEF PlaceNext
<1> HIDE DEF next
<1>7. next \in DOMAIN patterns
  BY <1>1, <1>5
<1>8. x \in Plans(patterns)
  <2>1. patterns[next] \in Elements(patterns)
    BY <1>7 DEF Elements
  <2>2. EstimatedCandidates(patterns[next]) \in Nat
    BY EstimateIsNumber
  <2>3. AccessPath(patterns[next], s.available) \in {"effective_slice", "full_scan", "bitmap"}
    <3>1. CASE IsEffective(patterns[next])
      BY <3>1 DEF AccessPath
    <3>2. CASE ~IsEffective(patterns[next])
      BY <3>2 DEF AccessPath
    <3> QED
      BY <3>1, <3>2
  <2> QED
    BY <2>1, <2>2, <2>3 DEF Plan, Plans
<1>9. /\ x.pattern = patterns[next] /\ x.predicates = <<>>
      /\ x.access = AccessPath(patterns[next], s.available)
      /\ x.estimate = EstimatedCandidates(patterns[next])
  BY DEF Plan
<1> HIDE DEF x
<1>10. /\ planned \in Seq(Plans(patterns)) /\ Len(planned) = i
       /\ planned[i] = x
       /\ \A j \in 1..(i - 1) : planned[j] = s.planned[j]
  BY <1>0, <1>1, <1>8
<1> HIDE DEF planned
<1>11. ASSUME NEW j \in 1..i
       PROVE  KnownBefore(planned, available, j) = KnownBefore(s.planned, available, j)
  <2>1. \A k \in 1..(j - 1) : planned[k] = s.planned[k]
    BY <1>10
  <2> QED
    BY <2>1 DEF KnownBefore
<1>12. KnownBefore(planned, available, i + 1) = s.available \cup Introduced(patterns[next])
  <2>1. 1..((i + 1) - 1) = (1..(i - 1)) \cup {i}
    BY <1>0
  <2>2. KnownBefore(planned, available, i + 1)
          = KnownBefore(planned, available, i) \cup Introduced(planned[i].pattern)
    BY <2>1 DEF KnownBefore
  <2>3. KnownBefore(planned, available, i) = s.available
    BY <1>0, <1>2, <1>11
  <2> QED
    BY <1>9, <1>10, <2>2, <2>3
<1>13. ASSUME NEW j \in 1..i PROVE IsStep(patterns, available, planned, j)
  <2>1. CASE j = i
    <3>1. IsSequence(planned[j].predicates) /\ Elements(planned[j].predicates) = {}
      <4>1. IsSequence(<<>>) /\ Elements(<<>>) = {}
        BY DEF IsSequence, Elements
      <4>2. planned[j].predicates = <<>>
        BY <1>9, <1>10, <2>1
      <4> QED
        BY <4>1, <4>2
    <3>2. KnownBefore(planned, available, j) = s.available
      BY <1>2, <1>11, <2>1
    <3> QED
      BY <1>5, <1>7, <1>9, <1>10, <2>1, <3>1, <3>2 DEF IsStep
  <2>2. CASE j # i
    <3>1. j \in 1..(i - 1)
      BY <1>0, <2>2
    <3>2. planned[j] = s.planned[j] /\ IsStep(patterns, available, s.planned, j)
      BY <1>1, <1>10, <3>1
    <3>3. /\ KnownBefore(planned, available, j) = KnownBefore(s.planned, available, j)
          /\ KnownBefore(planned, available, j + 1) = KnownBefore(s.planned, available, j + 1)
      <4>1. j + 1 \in 1..i
        BY <1>0, <3>1
      <4> QED
        BY <1>11, <4>1
    <3> QED
      BY <3>2, <3>3 DEF IsStep
  <2> QED
    BY <2>1, <2>2
<1>14. ASSUME NEW k \in DOMAIN patterns \ (s.pending \ {next})
       PROVE  \E j \in 1..i : planned[j].pattern = patterns[k]
  <2>1. CASE k = next
    <3>1. i \in 1..i
      BY <1>0
    <3> QED
      BY <1>9, <1>10, <2>1, <3>1
  <2>2. CASE k # next
    <3>1. PICK j \in 1..(i - 1) : s.planned[j].pattern = patterns[k]
      BY <1>1, <2>2
    <3>2. j \in 1..i /\ planned[j] = s.planned[j]
      BY <1>0, <1>10
    <3> QED
      BY <3>1, <3>2
  <2> QED
    BY <2>1, <2>2
<1>15. Cardinality(s.pending \ {next}) = n - i
  <2>1. Cardinality(s.pending \ {next}) = Cardinality(s.pending) - 1
    BY <1>3, <1>5, FS_RemoveElement
  <2> QED
    BY <1>0, <1>1, <2>1
<1>16. s.available \cup Introduced(patterns[next])
           \in SUBSET (available \cup UnionOver(patterns, Introduced))
  BY <1>1, <1>7 DEF UnionOver
<1>17. t \in [pending: SUBSET DOMAIN patterns,
              available: SUBSET (available \cup UnionOver(patterns, Introduced)),
              planned: Seq(Plans(patterns))]
  BY <1>1, <1>10, <1>16
<1>18. /\ t.pending = s.pending \ {next}
       /\ t.available = s.available \cup Introduced(patterns[next])
       /\ t.planned = planned
  OBVIOUS
<1> HIDE DEF t
<1>19. t \in Orderings(patterns, available, i)
  BY <1>10, <1>12, <1>13, <1>14, <1>15, <1>17, <1>18 DEF Orderings
<1> QED
  BY <1>6, <1>19

LEMMA CompileOrders ==
    ASSUME posits \in Databases, NEW patterns, IsSequence(patterns), NEW available,
           UnionOver(patterns, Dependencies) \subseteq Resolved(patterns, available)
    PROVE  /\ CompileBranch(patterns, available) \in Seq(Plans(patterns))
           /\ IsOrdering(patterns, available, CompileBranch(patterns, available))
<1> DEFINE start == [pending |-> DOMAIN patterns, available |-> available, planned |-> <<>>]
<1> DEFINE n == Len(patterns)
           Op(y, e) == PlaceNext(patterns, y)
           Y == [i \in 0..n |-> Orderings(patterns, available, i)]
           step == [x \in (1..n) \X UNION {Y[i] : i \in 0..n} |-> Op(x[2], patterns[x[1]])]
           Eq(g) == g = [i \in 0..n |-> IF i = 0 THEN start ELSE Op(g[i - 1], patterns[i])]
           upTo == CHOOSE g : Eq(g)
<1>1. n \in Nat
  BY DEF IsSequence
<1>2. start \in Y[0]
  <2>1. DOMAIN patterns = 1..n /\ 0 \in 0..n
    BY <1>1 DEF IsSequence
  <2>2. Cardinality(DOMAIN patterns) = n - 0
    <3> HIDE DEF n
    <3> QED
      BY <1>1, <2>1, FS_Interval
  <2>3. KnownBefore(<<>>, available, 0 + 1) = available
    BY DEF KnownBefore
  <2>4. start \in [pending: SUBSET DOMAIN patterns,
                   available: SUBSET (available \cup UnionOver(patterns, Introduced)),
                   planned: Seq(Plans(patterns))]
    OBVIOUS
  <2>5. start \in Orderings(patterns, available, 0)
    BY <2>2, <2>3, <2>4 DEF Orderings
  <2> QED
    BY <2>1, <2>5
<1>3. ASSUME NEW i \in 1..n, NEW y \in Y[i - 1]
      PROVE  Op(y, patterns[i]) \in Y[i]
  <2>1. i \in 0..n /\ i - 1 \in 0..n /\ i \in 1..Len(patterns)
    BY <1>1
  <2>2. y \in Orderings(patterns, available, i - 1) /\ Y[i] = Orderings(patterns, available, i)
    BY <2>1
  <2> QED
    BY <2>1, <2>2, PlaceNextOrders
<1> HIDE DEF n, Op, Y
<1>4. \E g : Eq(g)
  <2>1. ASSUME NEW i \in 1..n, NEW y \in Y[i - 1]
        PROVE  step[<<i, y>>] = Op(y, patterns[i])
    <3>1. i - 1 \in 0..n
      BY <1>1
    <3>2. <<i, y>> \in (1..n) \X UNION {Y[j] : j \in 0..n}
      BY <3>1
    <3> QED
      BY <3>2
  <2> HIDE DEF step
  <2>2. PICK g : Follows(g, n, start, step) /\ \A i \in 0..n : g[i] \in Y[i]
    BY <1>1, <1>2, <1>3, <2>1, RecursionExists
  <2>3. \A i \in 0..n : i # 0 => step[<<i, g[i - 1]>>] = Op(g[i - 1], patterns[i])
    BY <1>1, <2>1, <2>2
  <2>4. g = [i \in 0..n |-> IF i = 0 THEN start ELSE step[<<i, g[i - 1]>>]]
    BY <2>2 DEF Follows
  <2>5. Eq(g)
    BY <2>3, <2>4
  <2> QED
    BY <2>5
<1>5. Eq(upTo)
  BY <1>4
<1> HIDE DEF upTo
<1>6. \A i \in 0..n : upTo[i] \in Y[i]
  <2>1. upTo[0] = start /\ \A i \in 1..n : upTo[i] = Op(upTo[i - 1], patterns[i])
    <3>1. \A i \in 0..n : upTo[i] = IF i = 0 THEN start ELSE Op(upTo[i - 1], patterns[i])
      BY <1>5
    <3>2. 0 \in 0..n /\ \A i \in 1..n : i \in 0..n /\ i # 0
      BY <1>1
    <3> QED
      BY <3>1, <3>2
  <2> HIDE DEF Eq
  <2> QED
    BY <1>1, <1>2, <1>3, <2>1, StaysIn
<1>7. Accumulate(LAMBDA sofar, p : PlaceNext(patterns, sofar),
               [pending |-> DOMAIN patterns, available |-> available, planned |-> <<>>],
               patterns) = upTo[n]
  BY DEF start, Accumulate, upTo, n, Op
<1>8. upTo[n] \in Y[n]
  BY <1>1, <1>6
<1> DEFINE s == upTo[n]
<1>9. s \in Orderings(patterns, available, n)
  BY <1>1, <1>8 DEF Y
<1>10. CompileBranch(patterns, available) = s.planned
  BY <1>7 DEF CompileBranch
<1> HIDE DEF s
<1>11. /\ s.pending \in SUBSET DOMAIN patterns
       /\ s.planned \in Seq(Plans(patterns))
       /\ Cardinality(s.pending) = n - n
       /\ Len(s.planned) = n
       /\ \A j \in 1..n : IsStep(patterns, available, s.planned, j)
       /\ \A k \in DOMAIN patterns \ s.pending :
             \E j \in 1..n : s.planned[j].pattern = patterns[k]
  BY <1>9 DEF Orderings, n
<1>12. s.pending = {}
  <2>1. DOMAIN patterns = 1..n /\ IsFiniteSet(1..n)
    BY <1>1, FS_Interval DEF IsSequence, n
  <2>2. IsFiniteSet(s.pending) /\ Cardinality(s.pending) = 0
    BY <1>1, <1>11, <2>1, FS_Subset
  <2> QED
    BY <2>2, FS_EmptySet
<1>13. IsSequence(s.planned)
  BY <1>11 DEF IsSequence, Elements
<1> QED
  BY <1>10, <1>11, <1>12, <1>13 DEF IsOrdering, n

\* What is pushed down is part of the predicates; the order stays.
LEMMA PushDownOrders ==
    ASSUME NEW patterns, NEW available, NEW planned \in Seq(Plans(patterns)),
           IsOrdering(patterns, available, planned), IsSequence(query.predicates)
    PROVE  IsOrdering(patterns, available, PushDown(planned, query.predicates))
<1> DEFINE predicates == query.predicates
           Known(i) == UNION {Introduced(planned[j].pattern) : j \in 1..i}
           Completes(i, p) == Operands(p) \subseteq Known(i) /\ ~ Operands(p) \subseteq Known(i - 1)
           pushed(i) == {j \in DOMAIN predicates : Completes(i, predicates[j])}
           pushing == [i \in DOMAIN planned |->
                          [planned[i] EXCEPT !.predicates = Chosen(predicates, pushed(i))]]
<1>1. PushDown(planned, predicates) = pushing
  BY DEF PushDown
<1> HIDE DEF predicates
<1>2. DOMAIN planned = 1..Len(planned) /\ Len(planned) \in Nat
  OBVIOUS
<1>3. ASSUME NEW i \in 1..Len(planned)
      PROVE  /\ Chosen(predicates, pushed(i)) \in Seq(Elements(predicates))
             /\ \A predicate \in Elements(Chosen(predicates, pushed(i))) :
                   predicate \in Elements(predicates) /\ Operands(predicate) \subseteq Known(i)
  <2>1. predicates \in Seq(Elements(predicates)) /\ pushed(i) \in SUBSET DOMAIN predicates
    BY DEF IsSequence, predicates
  <2>2. \A j \in pushed(i) :
            predicates[j] \in Elements(predicates) /\ Operands(predicates[j]) \subseteq Known(i)
    BY DEF Elements
  <2> HIDE DEF pushed
  <2>3. /\ Chosen(predicates, pushed(i)) \in Seq(Elements(predicates))
        /\ \A x \in Elements(Chosen(predicates, pushed(i))) :
              \E j \in pushed(i) : x = predicates[j]
    BY <2>1, ChosenAreElements
  <2> HIDE DEF Known
  <2> QED
    BY <2>2, <2>3
<1>4. ASSUME NEW i \in 1..Len(planned)
      PROVE  /\ pushing[i].pattern = planned[i].pattern
             /\ pushing[i].access = planned[i].access
             /\ pushing[i].estimate = planned[i].estimate
             /\ IsSequence(pushing[i].predicates)
             /\ \A predicate \in Elements(pushing[i].predicates) :
                   predicate \in Elements(predicates) /\ Operands(predicate) \subseteq Known(i)
  <2> DEFINE chosen == Chosen(predicates, pushed(i))
  <2>1. planned[i] \in Plans(patterns)
    OBVIOUS
  <2>2. /\ chosen \in Seq(Elements(predicates))
        /\ \A predicate \in Elements(chosen) :
              predicate \in Elements(predicates) /\ Operands(predicate) \subseteq Known(i)
    BY <1>3
  <2>3. pushing[i] = [planned[i] EXCEPT !.predicates = chosen]
    BY <1>2
  <2> HIDE DEF chosen, pushing, Known
  <2>4. /\ pushing[i].pattern = planned[i].pattern
        /\ pushing[i].access = planned[i].access
        /\ pushing[i].estimate = planned[i].estimate
        /\ pushing[i].predicates = chosen
    BY <2>1, <2>3 DEF Plans
  <2>5. IsSequence(chosen)
    BY <2>2 DEF IsSequence, Elements
  <2> QED
    BY <2>2, <2>4, <2>5
<1>5. DOMAIN pushing = 1..Len(planned)
  BY <1>2
<1>6. IsSequence(pushing) /\ Len(pushing) = Len(planned)
  <2>1. pushing = [i \in 1..Len(planned) |-> pushing[i]]
    BY <1>2
  <2> HIDE DEF pushing
  <2> QED
    BY <1>2, <1>5, <2>1 DEF IsSequence, Elements
<1> HIDE DEF pushing
<1>7. ASSUME NEW i \in 1..Len(planned)
      PROVE  KnownBefore(pushing, available, i) = KnownBefore(planned, available, i)
  <2>1. \A j \in 1..(i - 1) : pushing[j].pattern = planned[j].pattern
    BY <1>4
  <2> QED
    BY <2>1 DEF KnownBefore
<1>8. ASSUME NEW i \in 1..Len(planned) PROVE IsStep(patterns, available, pushing, i)
  <2>1. IsStep(patterns, available, planned, i)
    BY DEF IsOrdering
  <2>2. Known(i) \subseteq KnownBefore(pushing, available, i + 1)
    <3>1. \A j \in 1..i : pushing[j].pattern = planned[j].pattern
      BY <1>2, <1>4
    <3>2. 1..((i + 1) - 1) = 1..i
      BY <1>2
    <3> QED
      BY <3>1, <3>2 DEF KnownBefore
  <2>3. \A predicate : predicate.left \in Operands(predicate)
    BY DEF Operands
  <2> HIDE DEF Known
  <2>4. ASSUME NEW predicate \in Elements(pushing[i].predicates)
        PROVE  /\ predicate \in Elements(query.predicates)
               /\ predicate.left \in KnownBefore(pushing, available, i + 1)
    BY <1>4, <2>2, <2>3 DEF predicates
  <2> QED
    BY <1>4, <1>7, <2>1, <2>4 DEF IsStep
<1> QED
  BY <1>1, <1>4, <1>6, <1>8 DEF IsOrdering, predicates

LEMMA StepIsBounded ==
    ASSUME posits \in Databases, NEW patterns, NEW available, NEW planned, NEW i,
           IsStep(patterns, available, planned, i), ~IsEffective(planned[i].pattern)
    PROVE  IsBounded(planned[i])
<1> DEFINE pattern == planned[i].pattern
<1>1. planned[i].estimate = EstimatedCandidates(pattern) /\ EstimatedCandidates(pattern) \in Nat
  BY EstimateIsNumber DEF IsStep
<1>2. CASE NamedRoles(pattern) = {}
  <2>1. EstimatedCandidates(pattern) = Cardinality(DOMAIN posits)
    BY <1>2, EstimateIsNumber DEF EstimatedCandidates
  <2> QED
    BY <1>1, <1>2, <2>1 DEF IsBounded
<1>3. CASE NamedRoles(pattern) # {}
  <2>1. planned[i].access # "full_scan"
    BY <1>3 DEF IsStep, AccessPath
  <2>2. \E role \in NamedRoles(pattern) :
            Cardinality(RolePosting(role)) <= EstimatedCandidates(pattern)
    <3>1. PICK role \in NamedRoles(pattern) : Estimate(pattern) = Cardinality(RolePosting(role))
      BY <1>3, EstimateIsNumber
    <3>2. EstimatedCandidates(pattern) \in {Cardinality(DOMAIN posits), Estimate(pattern)}
      BY DEF EstimatedCandidates
    <3>3. /\ Cardinality(RolePosting(role)) <= Cardinality(DOMAIN posits)
          /\ Cardinality(RolePosting(role)) \in Nat
      BY RolePostingIsFinite
    <3> QED
      BY <3>1, <3>2, <3>3
  <2> QED
    BY <1>1, <1>3, <2>1, <2>2 DEF IsBounded
<1> QED
  BY <1>2, <1>3

-----------------------------------------------------------------------------
(***************************************************************************)
(* What the static checks establish: a name has one domain, a thing that   *)
(* is also a posit being a posit, and what a pattern depends on can be     *)
(* bound before it, at the domain it needs.                                *)
(***************************************************************************)
Pairs(U) == \A u \in U : u = <<u[1], u[2]>>

WellFormed(pattern) ==
    /\ \A p \in {pattern} \cup Via(pattern) : IsPattern(p)
    /\ \A e, f \in pattern.effect : e = f
    /\ \A via, other \in Via(pattern) : via = other

LEMMA UsesArePairs ==
    /\ \A pattern : Pairs(Uses(pattern))
    /\ \A patterns : Pairs(UsesOf(patterns))
    /\ \A domains : Pairs(UsesIn(domains))
<1>1. \A name, domain : Pairs(NameUses(name, domain))
  BY DEF Pairs, NameUses
<1>2. \A slot, domain : Pairs(SlotUses(slot, domain))
  BY DEF Pairs, SlotUses
<1>3. \A m : Pairs(MemberUses(m))
  BY <1>2 DEF Pairs, MemberUses
<1>4. \A pattern : Pairs(SetUses(pattern))
  BY <1>1, <1>3 DEF Pairs, SetUses
<1>5. \A pattern : Pairs(FieldUses(pattern))
  BY <1>1, <1>2 DEF Pairs, FieldUses
<1>6. \A pattern : Pairs(OwnUses(pattern))
  BY <1>4, <1>5 DEF Pairs, OwnUses
<1>7. \A pattern : Pairs(Uses(pattern))
  BY <1>6 DEF Pairs, Uses
<1>8. \A patterns : Pairs(UsesOf(patterns))
  BY <1>7 DEF Pairs, UsesOf, UnionOver
<1>9. \A domains : Pairs(UsesIn(domains))
  BY DEF Pairs, UsesIn
<1> QED
  BY <1>7, <1>8, <1>9

LEMMA NamesOfPattern ==
    ASSUME NEW pattern
    PROVE  Names(Uses(pattern)) = Introduced(pattern)
<1>1. ASSUME NEW name \in Names(Uses(pattern)) PROVE name \in Introduced(pattern)
  <2>1. PICK u \in Uses(pattern) : u[1] = name
    BY DEF Names
  <2>2. PICK p \in {pattern} \cup Via(pattern) : u \in OwnUses(p)
    BY DEF Uses
  <2>3. name \in Names(OwnUses(p))
    BY <2>1, <2>2 DEF Names
  <2> QED
    BY <2>2, <2>3, UsesOfAPattern DEF Introduced
<1>2. ASSUME NEW name \in Introduced(pattern) PROVE name \in Names(Uses(pattern))
  <2>1. PICK p \in {pattern} \cup Via(pattern) : name \in OwnVariables(p)
    BY DEF Introduced
  <2>2. name \in Names(OwnUses(p))
    BY <2>1, UsesOfAPattern
  <2>3. PICK u \in OwnUses(p) : u[1] = name
    BY <2>2 DEF Names
  <2> QED
    BY <2>1, <2>3 DEF Names, Uses
<1> QED
  BY <1>1, <1>2

LEMMA DomainIsUsed ==
    ASSUME NEW U, Pairs(U), ~Conflict(U), NEW name \in Names(U)
    PROVE  /\ name \in DOMAIN DomainsOf(U)
           /\ <<name, DomainsOf(U)[name]>> \in U
           /\ \A u \in U : u[1] = name =>
                 /\ u[2] = DomainsOf(U)[name] \/ {u[2], DomainsOf(U)[name]} = IdentityDomains
                 /\ u[2] = "Posit" => DomainsOf(U)[name] = "Posit"
<1> DEFINE chosen == CHOOSE u \in U : u[1] = name
           d == IF <<name, "Posit">> \in U THEN "Posit" ELSE chosen[2]
<1>1. name \in DOMAIN DomainsOf(U) /\ DomainsOf(U)[name] = d
  BY DEF DomainsOf, Names
<1>2. chosen \in U /\ chosen[1] = name
  BY DEF Names
<1> HIDE DEF chosen
<1>3. <<name, d>> \in U
  <2>1. CASE <<name, "Posit">> \in U
    BY <2>1
  <2>2. CASE <<name, "Posit">> \notin U
    BY <1>2, <2>2 DEF Pairs
  <2> QED
    BY <2>1, <2>2
<1>4. ASSUME NEW u \in U, u[1] = name
      PROVE  (u[2] = d \/ {u[2], d} = IdentityDomains) /\ (u[2] = "Posit" => d = "Posit")
  <2>1. <<name, d>>[1] = name /\ <<name, d>>[2] = d
    OBVIOUS
  <2>2. u[2] = d \/ {u[2], d} = IdentityDomains
    BY <1>3, <1>4, <2>1 DEF Conflict
  <2>3. u[2] = "Posit" => d = "Posit"
    <3>1. u = <<name, u[2]>>
      BY <1>4 DEF Pairs
    <3> QED
      BY <3>1
  <2> QED
    BY <2>2, <2>3
<1> QED
  BY <1>1, <1>3, <1>4

LEMMA DependenciesAreSound ==
    ASSUME NEW U, Pairs(U), Consistent(U), NEW pattern, WellFormed(pattern),
           Uses(pattern) \subseteq U, DependencyErrors(pattern, DomainsOf(U)) = {},
           \A p \in {pattern} \cup Via(pattern) : Foreseen(p),
           NEW K, Dependencies(pattern) \subseteq Names(K)
    PROVE  IsReady(U, K, pattern)
<1> DEFINE domains == DomainsOf(U)
           cutoffs == CutoffVariables(pattern)
           alternatives == UNION {Alternatives(p) : p \in {pattern} \cup Via(pattern)}
<1>1. Dependencies(pattern) = cutoffs \cup alternatives
  BY DEF Dependencies
<1>2. DOMAIN domains = Names(U)
  BY DEF DomainsOf, Names
<1>3. /\ Dependencies(pattern) \subseteq DOMAIN domains
      /\ \A n \in cutoffs \cap DOMAIN domains : domains[n] = "Time"
      /\ \A n \in alternatives \cap DOMAIN domains : domains[n] \in IdentityDomains
  BY DEF DependencyErrors
<1> HIDE DEF domains, cutoffs
<1>4. ASSUME NEW u \in U, u[1] \in cutoffs PROVE u[2] = "Time"
  <2>1. u[1] \in Names(U)
    BY DEF Names
  <2>2. domains[u[1]] = "Time"
    BY <1>2, <1>3, <1>4, <2>1
  <2>3. u[2] = domains[u[1]] \/ {u[2], domains[u[1]]} = IdentityDomains
    BY <2>1, DomainIsUsed DEF Consistent, domains
  <2> QED
    BY <2>2, <2>3 DEF IdentityDomains
<1>5. ASSUME NEW u \in U, u[1] \in alternatives PROVE u[2] \in IdentityDomains
  <2>1. u[1] \in Names(U)
    BY DEF Names
  <2>2. domains[u[1]] \in IdentityDomains
    BY <1>2, <1>3, <1>5, <2>1
  <2>3. u[2] = domains[u[1]] \/ {u[2], domains[u[1]]} = IdentityDomains
    BY <2>1, DomainIsUsed DEF Consistent, domains
  <2> QED
    BY <2>2, <2>3 DEF IdentityDomains
<1>6. ASSUME NEW p \in {pattern} \cup Via(pattern) PROVE IsServed(U, K, p)
  <2>1. Alternatives(p) \subseteq alternatives
    OBVIOUS
  <2> HIDE DEF alternatives
  <2>2. OwnUses(p) \subseteq U
    BY DEF Uses
  <2>3. OnlyIdentities(U, Alternatives(p))
    BY <1>5, <2>1 DEF OnlyIdentities
  <2>4. Alternatives(p) \subseteq Names(K)
    BY <1>1, <2>1
  <2>5. IsPattern(p)
    BY DEF WellFormed
  <2> QED
    BY <2>2, <2>3, <2>4, <2>5 DEF IsServed, Serves
<1>7. cutoffs \subseteq Names(K)
  BY <1>1
<1> QED
  BY <1>4, <1>6, <1>7 DEF IsReady, WellFormed, cutoffs

LEMMA ErrorsAreForeseen ==
    ASSUME NEW pattern \in AllPatterns(query), NEW p \in {pattern} \cup Via(pattern)
    PROVE  Foreseen(p)
<1>1. p # pattern => IsEffective(pattern)
  BY DEF Via, IsEffective, NotInEffect
<1> QED
  BY <1>1 DEF Foreseen, MustMaterialize

LEMMA OrderingIsSound ==
    ASSUME NEW U, Pairs(U), Consistent(U), NEW K, NEW patterns,
           \A pattern \in Elements(patterns) : WellFormed(pattern) /\ pattern \in AllPatterns(query),
           UsesOf(patterns) \subseteq U,
           \A pattern \in Elements(patterns) : DependencyErrors(pattern, DomainsOf(U)) = {},
           NEW planned, IsOrdering(patterns, Names(K), planned)
    PROVE  /\ SoundSteps(U, K, planned)
           /\ UsesOf(patterns) \subseteq UsesTo(planned, Len(planned))
           /\ \A i \in 1..Len(planned) :
                 /\ planned[i].pattern \in Elements(patterns)
                 /\ \A predicate \in Elements(planned[i].predicates) :
                       /\ predicate \in Elements(query.predicates)
                       /\ predicate.left \in Names(K \cup UsesTo(planned, i))
<1>1. ASSUME NEW i \in 1..Len(planned)
      PROVE  /\ planned[i].pattern \in Elements(patterns)
             /\ Dependencies(planned[i].pattern) \subseteq KnownBefore(planned, Names(K), i)
             /\ \A predicate \in Elements(planned[i].predicates) :
                   /\ predicate \in Elements(query.predicates)
                   /\ predicate.left \in KnownBefore(planned, Names(K), i + 1)
  BY DEF IsOrdering, IsStep, Elements
<1>2. ASSUME NEW i \in Nat \ {0}
      PROVE  KnownBefore(planned, Names(K), i) \subseteq Names(K \cup UsesTo(planned, i - 1))
  <2> SUFFICES ASSUME NEW name \in KnownBefore(planned, Names(K), i)
               PROVE  name \in Names(K \cup UsesTo(planned, i - 1))
    OBVIOUS
  <2>1. CASE name \in Names(K)
    BY <2>1 DEF Names
  <2>2. ASSUME NEW j \in 1..(i - 1), name \in Introduced(planned[j].pattern)
        PROVE  name \in Names(K \cup UsesTo(planned, i - 1))
    <3>1. name \in Names(Uses(planned[j].pattern))
      BY <2>2, NamesOfPattern
    <3>2. PICK u \in Uses(planned[j].pattern) : u[1] = name
      BY <3>1 DEF Names
    <3>3. u \in UsesTo(planned, i - 1)
      BY <3>2 DEF UsesTo
    <3> QED
      BY <3>2, <3>3 DEF Names
  <2> QED
    BY <2>1, <2>2 DEF KnownBefore
<1>3. ASSUME NEW pattern \in Elements(patterns) PROVE Uses(pattern) \subseteq UsesOf(patterns)
  BY DEF Elements, UsesOf, UnionOver
<1>0. Len(planned) \in Nat
  BY DEF IsOrdering, IsSequence
<1>4. ASSUME NEW i \in 1..Len(planned)
      PROVE  IsReady(U, K \cup UsesTo(planned, i - 1), planned[i].pattern)
  <2> DEFINE L == K \cup UsesTo(planned, i - 1)
             pattern == planned[i].pattern
  <2>1. pattern \in Elements(patterns) /\ Dependencies(pattern) \subseteq Names(L)
    BY <1>0, <1>1, <1>2
  <2>2. Uses(pattern) \subseteq U
    BY <1>3, <2>1
  <2> HIDE DEF L, pattern
  <2>3. \A p \in {pattern} \cup Via(pattern) : Foreseen(p)
    BY <2>1, ErrorsAreForeseen
  <2>4. IsReady(U, L, pattern)
    BY <2>1, <2>2, <2>3, DependenciesAreSound
  <2> QED
    BY <2>4 DEF L, pattern
<1>5. UsesOf(patterns) \subseteq UsesTo(planned, Len(planned))
  <2> SUFFICES ASSUME NEW u \in UsesOf(patterns) PROVE u \in UsesTo(planned, Len(planned))
    OBVIOUS
  <2>1. PICK k \in DOMAIN patterns : u \in Uses(patterns[k])
    BY DEF UsesOf, UnionOver
  <2>2. PICK i \in 1..Len(planned) : planned[i].pattern = patterns[k]
    BY DEF IsOrdering
  <2> QED
    BY <2>1, <2>2 DEF UsesTo
<1>6. ASSUME NEW i \in 1..Len(planned)
      PROVE  KnownBefore(planned, Names(K), i + 1) \subseteq Names(K \cup UsesTo(planned, i))
  <2>1. i + 1 \in Nat \ {0} /\ (i + 1) - 1 = i
    BY <1>0
  <2> QED
    BY <1>2, <2>1
<1> QED
  BY <1>1, <1>4, <1>5, <1>6 DEF SoundSteps, IsOrdering

-----------------------------------------------------------------------------
(***************************************************************************)
(* A search that passed the static checks.                                 *)
(***************************************************************************)
ExportedUses(q) == UsesIn(ExportedDomains(q))

LEMMA SearchShape ==
    ASSUME NEW q \in Queries
    PROVE  /\ IsSequence(q.branches) /\ IsSequence(q.absences) /\ IsSequence(q.predicates)
           /\ q.branches # <<>> /\ 1 \in DOMAIN q.branches
           /\ \A patterns \in Elements(q.branches) : IsSequence(patterns) /\ patterns # <<>>
           /\ \A patterns \in Elements(q.absences) : IsSequence(patterns)
           /\ \A patterns \in Elements(q.branches) \cup Elements(q.absences) :
                 \A pattern \in Elements(patterns) :
                    pattern \in AllPatterns(q) /\ WellFormed(pattern)
<1>1. \A pattern \in AllPatterns(q) : WellFormed(pattern)
  BY QueriesAssumption DEF WellFormed
<1>2. \A patterns \in Elements(q.branches) \cup Elements(q.absences) :
          \A pattern \in Elements(patterns) : pattern \in AllPatterns(q)
  BY DEF AllPatterns
<1>3. IsSequence(q.branches) /\ q.branches # <<>>
  BY QueriesAssumption
<1>4. 1 \in DOMAIN q.branches
  BY <1>3 DEF IsSequence
<1> QED
  BY <1>1, <1>2, <1>4, QueriesAssumption

LEMMA ReservedNames ==
    ASSUME NEW patterns, \A pattern \in Elements(patterns) : WellFormed(pattern)
    PROVE  {NoName, "failed"} \cap Names(UsesOf(patterns)) = {}
<1> SUFFICES ASSUME NEW name \in Names(UsesOf(patterns))
             PROVE  name \notin {NoName, "failed"}
  OBVIOUS
<1>1. PICK u \in UsesOf(patterns) : u[1] = name
  BY DEF Names
<1>2. PICK k \in DOMAIN patterns : u \in Uses(patterns[k])
  BY DEF UsesOf, UnionOver
<1>3. name \in Introduced(patterns[k])
  <2>1. name \in Names(Uses(patterns[k]))
    BY <1>1, <1>2 DEF Names
  <2> QED
    BY <2>1, NamesOfPattern
<1>4. PICK p \in {patterns[k]} \cup Via(patterns[k]) : name \in OwnVariables(p)
  BY <1>3 DEF Introduced
<1>5. IsPattern(p)
  BY <1>2, <1>4 DEF WellFormed, Elements
<1> QED
  BY <1>4, <1>5 DEF IsPattern

LEMMA NoPatternErrors ==
    ASSUME NEW patterns, NEW domains, NEW available,
           PatternErrors(patterns, domains, available) = {}
    PROVE  /\ \A pattern \in Elements(patterns) : DependencyErrors(pattern, domains) = {}
           /\ UnionOver(patterns, Dependencies) \subseteq Resolved(patterns, available)
<1>1. UnionOver(patterns, LAMBDA p : DependencyErrors(p, domains)) = {}
  BY DEF PatternErrors
<1>2. \A k \in DOMAIN patterns : DependencyErrors(patterns[k], domains) = {}
  BY <1>1 DEF UnionOver
<1>3. UnionOver(patterns, Dependencies) \subseteq Resolved(patterns, available)
  BY DEF PatternErrors
<1> QED
  BY <1>2, <1>3 DEF Elements

LEMMA BranchIsSound ==
    ASSUME NEW q \in Queries, StaticErrors(q) = {}, NEW i \in DOMAIN q.branches
    PROVE  /\ Consistent(UsesOf(q.branches[i]))
           /\ \A pattern \in Elements(q.branches[i]) :
                 DependencyErrors(pattern, DomainsOf(UsesOf(q.branches[i]))) = {}
           /\ UnionOver(q.branches[i], Dependencies) \subseteq Resolved(q.branches[i], {})
           /\ \A name \in CommonNames(q) :
                 /\ name \in Names(UsesOf(q.branches[i]))
                 /\ DomainsOf(UsesOf(q.branches[i]))[name] = ExportedDomains(q)[name]
<1> DEFINE branches == UnionOver(q.branches, BranchErrors)
           schema == {"VariableDomain" : k \in
                         {j \in DOMAIN q.branches : \E name \in CommonNames(q) :
                             DomainsOf(UsesOf(q.branches[j]))[name] # ExportedDomains(q)[name]}}
           patterns == q.branches[i]
<1>1. branches = {} /\ schema = {}
  <2>1. \E rest : StaticErrors(q) = IF branches # {} THEN branches
                                    ELSE IF schema # {} THEN schema ELSE rest
    BY DEF StaticErrors
  <2> HIDE DEF branches, schema
  <2> QED
    BY <2>1
<1>2. BranchErrors(patterns) = {}
  BY <1>1 DEF UnionOver
<1>3. /\ ~Conflict(UsesOf(patterns))
      /\ PatternErrors(patterns, DomainsOf(UsesOf(patterns)), {}) = {}
  BY <1>2 DEF BranchErrors
<1>4. \A pattern \in Elements(patterns) : WellFormed(pattern)
  <2>1. patterns \in Elements(q.branches)
    BY DEF Elements
  <2> QED
    BY <2>1, SearchShape
<1>5. Consistent(UsesOf(patterns))
  BY <1>3, <1>4, ReservedNames DEF Consistent
<1>6. ASSUME NEW name \in CommonNames(q)
      PROVE  /\ name \in Names(UsesOf(patterns))
             /\ DomainsOf(UsesOf(patterns))[name] = ExportedDomains(q)[name]
  <2>1. name \in DOMAIN DomainsOf(UsesOf(patterns))
    BY DEF CommonNames
  <2>2. DOMAIN DomainsOf(UsesOf(patterns)) = Names(UsesOf(patterns))
    BY DEF DomainsOf, Names
  <2>3. ~ \E other \in CommonNames(q) :
              DomainsOf(UsesOf(patterns))[other] # ExportedDomains(q)[other]
    BY <1>1
  <2> QED
    BY <2>1, <2>2, <2>3
<1> HIDE DEF patterns
<1> QED
  BY <1>3, <1>5, <1>6, NoPatternErrors DEF patterns

LEMMA ExportedAreUses ==
    ASSUME NEW q
    PROVE  /\ \A name \in CommonNames(q) : <<name, ExportedDomains(q)[name]>> \in ExportedUses(q)
           /\ \A u \in ExportedUses(q) :
                 u[1] \in CommonNames(q) /\ u[2] = ExportedDomains(q)[u[1]]
           /\ Names(ExportedUses(q)) = CommonNames(q)
           /\ DOMAIN ExportedDomains(q) = CommonNames(q)
           /\ ~Conflict(ExportedUses(q))
<1>1. DOMAIN ExportedDomains(q) = CommonNames(q)
  BY DEF ExportedDomains
<1>2. \A name \in CommonNames(q) : <<name, ExportedDomains(q)[name]>> \in ExportedUses(q)
  BY <1>1 DEF ExportedUses, UsesIn
<1>3. \A u \in ExportedUses(q) : u[1] \in CommonNames(q) /\ u[2] = ExportedDomains(q)[u[1]]
  BY <1>1 DEF ExportedUses, UsesIn
<1>4. ASSUME NEW name \in CommonNames(q) PROVE name \in Names(ExportedUses(q))
  <2>1. <<name, ExportedDomains(q)[name]>>[1] = name
    OBVIOUS
  <2> QED
    BY <1>2, <2>1 DEF Names
<1>5. Names(ExportedUses(q)) = CommonNames(q)
  BY <1>3, <1>4 DEF Names
<1>6. ~Conflict(ExportedUses(q))
  BY <1>3 DEF Conflict
<1> QED
  BY <1>1, <1>2, <1>3, <1>5, <1>6

LEMMA ExportedIsConsistent ==
    ASSUME NEW q \in Queries, StaticErrors(q) = {}
    PROVE  Consistent(ExportedUses(q)) /\ {NoName, "failed"} \cap CommonNames(q) = {}
<1>1. 1 \in DOMAIN q.branches
  BY SearchShape
<1>2. CommonNames(q) \subseteq Names(UsesOf(q.branches[1]))
  BY <1>1, BranchIsSound
<1>3. Consistent(UsesOf(q.branches[1]))
  BY <1>1, BranchIsSound
<1> QED
  BY <1>2, <1>3, ExportedAreUses DEF Consistent

LEMMA PredicatesAreExported ==
    ASSUME NEW q \in Queries, StaticErrors(q) = {}, NEW predicate \in Elements(q.predicates)
    PROVE  predicate.left \in CommonNames(q)
<1> DEFINE errors == UnionOver(q.predicates, LAMBDA p : PredicateErrors(p, ExportedDomains(q)))
<1>1. errors = {}
  <2>1. \E branches, schema, blocks, results :
            StaticErrors(q) = IF branches # {} THEN branches
                              ELSE IF schema # {} THEN schema ELSE blocks \cup errors \cup results
    BY DEF StaticErrors
  <2> HIDE DEF errors
  <2> QED
    BY <2>1
<1>2. PredicateErrors(predicate, ExportedDomains(q)) = {}
  BY <1>1 DEF UnionOver, Elements
<1>3. Operands(predicate) \subseteq DOMAIN ExportedDomains(q)
  BY <1>2 DEF PredicateErrors
<1> QED
  BY <1>3, ExportedAreUses DEF Operands

BlockUses(q, i) == UsesOf(q.absences[i]) \cup ExportedUses(q)

LEMMA BlockIsSound ==
    ASSUME NEW q \in Queries, StaticErrors(q) = {}, NEW i \in DOMAIN q.absences
    PROVE  /\ Consistent(BlockUses(q, i)) /\ Pairs(BlockUses(q, i))
           /\ \A pattern \in Elements(q.absences[i]) :
                 DependencyErrors(pattern, DomainsOf(BlockUses(q, i))) = {}
           /\ UnionOver(q.absences[i], Dependencies)
                 \subseteq Resolved(q.absences[i], Names(ExportedUses(q)))
<1> DEFINE blocks == UnionOver(q.absences, LAMBDA block : BlockErrors(q, block))
           block == q.absences[i]
           U == BlockUses(q, i)
<1>1. blocks = {}
  <2>1. \E branches, schema, others :
            StaticErrors(q) = IF branches # {} THEN branches
                              ELSE IF schema # {} THEN schema ELSE blocks \cup others
    BY DEF StaticErrors
  <2> HIDE DEF blocks
  <2> QED
    BY <2>1
<1>2. BlockErrors(q, block) = {}
  BY <1>1 DEF UnionOver
<1>3. ~Conflict(U) /\ PatternErrors(block, DomainsOf(U), DOMAIN ExportedDomains(q)) = {}
  BY <1>2 DEF BlockErrors, BlockUses, ExportedUses
<1>4. Pairs(U)
  BY UsesArePairs DEF Pairs, BlockUses, ExportedUses
<1>5. \A pattern \in Elements(block) : WellFormed(pattern)
  <2>1. block \in Elements(q.absences)
    BY DEF Elements
  <2> QED
    BY <2>1, SearchShape
<1>6. Consistent(U)
  <2>1. {NoName, "failed"} \cap Names(UsesOf(block)) = {}
    BY <1>5, ReservedNames
  <2>2. {NoName, "failed"} \cap Names(ExportedUses(q)) = {}
    BY ExportedIsConsistent, ExportedAreUses
  <2>3. Names(U) = Names(UsesOf(block)) \cup Names(ExportedUses(q))
    BY DEF Names, BlockUses
  <2> QED
    BY <1>3, <2>1, <2>2, <2>3 DEF Consistent
<1>7. DOMAIN ExportedDomains(q) = Names(ExportedUses(q))
  BY ExportedAreUses
<1> HIDE DEF block, U
<1> QED
  BY <1>3, <1>4, <1>6, <1>7, NoPatternErrors DEF block, U

-----------------------------------------------------------------------------
(***************************************************************************)
(* The plan that is compiled is sound: every branch binds all its names in *)
(* some order that the cuts and alternatives allow, and so does every      *)
(* absence block after what the branches export.                           *)
(***************************************************************************)
SoundBranch(incremental, U, planned) ==
    /\ SoundSteps(U, {}, planned) /\ planned # <<>>
    /\ U \subseteq UsesTo(planned, Len(planned))
    /\ \A i \in 1..Len(planned) :
          /\ IsSequence(planned[i].predicates)
          /\ \A predicate \in Elements(planned[i].predicates) :
                /\ predicate \in Elements(query.predicates)
                /\ predicate.left \in Names(UsesTo(planned, i))
          /\ incremental => ~IsEffective(planned[i].pattern) /\ IsBounded(planned[i])

SoundBlock(incremental, U, K, planned) ==
    /\ SoundSteps(U, K, planned)
    /\ incremental => \A i \in 1..Len(planned) : ~IsEffective(planned[i].pattern)

SoundPlan(p) ==
    /\ p.names = CommonNames(query)
    /\ p.incremental <=> ~MustMaterialize(query)
    /\ IsSequence(p.branches) /\ DOMAIN p.branches = DOMAIN query.branches
    /\ \A i \in DOMAIN p.branches :
          SoundBranch(p.incremental, UsesOf(query.branches[i]), p.branches[i])
    /\ IsSequence(p.absences) /\ DOMAIN p.absences = DOMAIN query.absences
    /\ \A i \in DOMAIN p.absences :
          SoundBlock(p.incremental, BlockUses(query, i), ExportedUses(query), p.absences[i])

LEMMA SequenceShape ==
    ASSUME NEW n \in Nat, NEW s, s = [i \in 1..n |-> s[i]]
    PROVE  IsSequence(s) /\ Len(s) = n /\ DOMAIN s = 1..n
<1>1. DOMAIN s = 1..n
  OBVIOUS
<1>2. \A i \in 1..n : s[i] \in Elements(s)
  BY <1>1 DEF Elements
<1>3. s \in [1..n -> Elements(s)]
  BY <1>2
<1> QED
  BY <1>1, <1>3 DEF IsSequence

LEMMA BranchPlanIsSound ==
    ASSUME posits \in Databases, query \in Queries, StaticErrors(query) = {},
           NEW i \in DOMAIN query.branches, NEW planned,
           IsOrdering(query.branches[i], {}, planned), NEW incremental,
           incremental => \A pattern \in AllPatterns(query) : ~IsEffective(pattern)
    PROVE  SoundBranch(incremental, UsesOf(query.branches[i]), planned)
<1> DEFINE patterns == query.branches[i]
           U == UsesOf(patterns)
<1>1. Names({}) = {}
  BY DEF Names
<1>2. patterns \in Elements(query.branches)
  BY DEF Elements
<1>3. \A pattern \in Elements(patterns) : WellFormed(pattern) /\ pattern \in AllPatterns(query)
  BY <1>2, SearchShape
<1>4. Pairs(U) /\ Consistent(U)
  BY UsesArePairs, BranchIsSound
<1>5. \A pattern \in Elements(patterns) : DependencyErrors(pattern, DomainsOf(U)) = {}
  BY BranchIsSound
<1>6. /\ SoundSteps(U, {}, planned)
      /\ U \subseteq UsesTo(planned, Len(planned))
      /\ \A j \in 1..Len(planned) :
            /\ planned[j].pattern \in Elements(patterns)
            /\ \A predicate \in Elements(planned[j].predicates) :
                  /\ predicate \in Elements(query.predicates)
                  /\ predicate.left \in Names(UsesTo(planned, j))
  <2> HIDE DEF patterns
  <2>1. IsOrdering(patterns, Names({}), planned)
    BY <1>1 DEF patterns
  <2>2. \A j : {} \cup UsesTo(planned, j) = UsesTo(planned, j)
    OBVIOUS
  <2> QED
    BY <1>3, <1>4, <1>5, <2>1, <2>2, OrderingIsSound
<1>7. planned # <<>>
  <2>1. patterns # <<>> /\ IsSequence(patterns)
    BY <1>2, SearchShape
  <2>2. Len(patterns) # 0
    BY <2>1 DEF IsSequence
  <2> QED
    BY <2>2 DEF IsOrdering
<1>8. ASSUME NEW j \in 1..Len(planned)
      PROVE  /\ IsSequence(planned[j].predicates)
             /\ incremental => ~IsEffective(planned[j].pattern) /\ IsBounded(planned[j])
  <2>1. IsStep(patterns, {}, planned, j)
    BY DEF IsOrdering
  <2>2. incremental => ~IsEffective(planned[j].pattern)
    BY <1>3, <1>6
  <2>3. incremental => IsBounded(planned[j])
    BY <2>1, <2>2, StepIsBounded
  <2> QED
    BY <2>1, <2>2, <2>3 DEF IsStep
<1> QED
  BY <1>6, <1>7, <1>8 DEF SoundBranch

LEMMA BlockPlanIsSound ==
    ASSUME query \in Queries, StaticErrors(query) = {},
           NEW i \in DOMAIN query.absences, NEW planned,
           IsOrdering(query.absences[i], CommonNames(query), planned), NEW incremental,
           incremental => \A pattern \in AllPatterns(query) : ~IsEffective(pattern)
    PROVE  SoundBlock(incremental, BlockUses(query, i), ExportedUses(query), planned)
<1> DEFINE patterns == query.absences[i]
           U == BlockUses(query, i)
           K == ExportedUses(query)
<1>1. Names(K) = CommonNames(query)
  BY ExportedAreUses
<1>2. patterns \in Elements(query.absences)
  BY DEF Elements
<1>3. \A pattern \in Elements(patterns) : WellFormed(pattern) /\ pattern \in AllPatterns(query)
  BY <1>2, SearchShape
<1>4. Pairs(U) /\ Consistent(U)
  BY BlockIsSound
<1>5. \A pattern \in Elements(patterns) : DependencyErrors(pattern, DomainsOf(U)) = {}
  BY BlockIsSound
<1>6. UsesOf(patterns) \subseteq U
  BY DEF BlockUses
<1>7. /\ SoundSteps(U, K, planned)
      /\ \A j \in 1..Len(planned) : planned[j].pattern \in Elements(patterns)
  <2> HIDE DEF patterns, U, K
  <2>1. IsOrdering(patterns, Names(K), planned)
    BY <1>1 DEF patterns
  <2> QED
    BY <1>3, <1>4, <1>5, <1>6, <2>1, OrderingIsSound
<1> QED
  BY <1>3, <1>7 DEF SoundBlock

(***************************************************************************)
(* For any search that passed the static checks, over any store: whatever  *)
(* order plan_patterns chose and wherever `compile` put the predicates,    *)
(* every pattern comes after what its cuts and alternatives name, every    *)
(* name is bound in the end, and every estimate of an incremental plan is  *)
(* at least the size of the posting it is about.                           *)
(***************************************************************************)
THEOREM CompileIsSound ==
    ASSUME posits \in Databases, query \in Queries, StaticErrors(query) = {}
    PROVE  SoundPlan(Compile(query))
<1> DEFINE p == Compile(query)
           incremental == ~MustMaterialize(query)
           ordered(i) == CompileBranch(query.branches[i], {})
           plannedBranch(i) == IF incremental
                                 THEN PushDown(ordered(i), query.predicates) ELSE ordered(i)
           plannedBlock(i) == CompileBranch(query.absences[i], CommonNames(query))
<1>1. /\ p.incremental = incremental
      /\ p.names = CommonNames(query)
      /\ p.branches = [i \in DOMAIN query.branches |-> plannedBranch(i)]
      /\ p.absences = [i \in DOMAIN query.absences |-> plannedBlock(i)]
  BY DEF Compile
<1>2. incremental => \A pattern \in AllPatterns(query) : ~IsEffective(pattern)
  BY DEF MustMaterialize
<1>3. /\ IsSequence(query.branches) /\ IsSequence(query.absences) /\ IsSequence(query.predicates)
      /\ \A i \in DOMAIN query.branches : IsSequence(query.branches[i])
      /\ \A i \in DOMAIN query.absences : IsSequence(query.absences[i])
  BY SearchShape DEF Elements
<1> HIDE DEF p, incremental
<1>4. ASSUME NEW i \in DOMAIN query.branches
      PROVE  SoundBranch(incremental, UsesOf(query.branches[i]), plannedBranch(i))
  <2>1. UnionOver(query.branches[i], Dependencies) \subseteq Resolved(query.branches[i], {})
    BY BranchIsSound
  <2>2. ordered(i) \in Seq(Plans(query.branches[i])) /\ IsOrdering(query.branches[i], {}, ordered(i))
    BY <1>3, <2>1, CompileOrders
  <2> HIDE DEF ordered
  <2>3. IsOrdering(query.branches[i], {}, PushDown(ordered(i), query.predicates))
    BY <1>3, <2>2, PushDownOrders
  <2>4. IsOrdering(query.branches[i], {}, plannedBranch(i))
    BY <2>2, <2>3
  <2> HIDE DEF plannedBranch
  <2> QED
    BY <1>2, <2>4, BranchPlanIsSound
<1>5. ASSUME NEW i \in DOMAIN query.absences
      PROVE  SoundBlock(incremental, BlockUses(query, i), ExportedUses(query), plannedBlock(i))
  <2>1. UnionOver(query.absences[i], Dependencies)
            \subseteq Resolved(query.absences[i], CommonNames(query))
    BY BlockIsSound, ExportedAreUses
  <2>2. IsOrdering(query.absences[i], CommonNames(query), plannedBlock(i))
    BY <1>3, <2>1, CompileOrders
  <2> HIDE DEF plannedBlock
  <2> QED
    BY <1>2, <2>2, BlockPlanIsSound
<1> HIDE DEF plannedBranch, plannedBlock
<1>6. IsSequence(p.branches) /\ DOMAIN p.branches = DOMAIN query.branches
  <2>1. DOMAIN query.branches = 1..Len(query.branches) /\ Len(query.branches) \in Nat
    BY <1>3 DEF IsSequence
  <2>2. p.branches = [i \in 1..Len(query.branches) |-> p.branches[i]]
    BY <1>1, <2>1
  <2> QED
    BY <2>1, <2>2, SequenceShape
<1>7. IsSequence(p.absences) /\ DOMAIN p.absences = DOMAIN query.absences
  <2>1. DOMAIN query.absences = 1..Len(query.absences) /\ Len(query.absences) \in Nat
    BY <1>3 DEF IsSequence
  <2>2. p.absences = [i \in 1..Len(query.absences) |-> p.absences[i]]
    BY <1>1, <2>1
  <2> QED
    BY <2>1, <2>2, SequenceShape
<1>8. SoundPlan(p)
  BY <1>1, <1>4, <1>5, <1>6, <1>7 DEF SoundPlan, incremental
<1> QED
  BY <1>8 DEF p

-----------------------------------------------------------------------------
(***************************************************************************)
(* What leaves the branches: the common names, each at its one domain.     *)
(***************************************************************************)
Answers == Bound(ExportedUses(query), ExportedUses(query))

LEMMA ExportIsAnswer ==
    ASSUME query \in Queries, StaticErrors(query) = {}, plan.names = CommonNames(query),
           NEW i \in DOMAIN query.branches,
           NEW b \in Bound(UsesOf(query.branches[i]), UsesOf(query.branches[i]))
    PROVE  Exported(b) \in Answers
<1> DEFINE U == UsesOf(query.branches[i])
           E == ExportedUses(query)
           names == CommonNames(query)
           c == [name \in names |-> b[name]]
<1>1. Pairs(U) /\ Consistent(U)
  BY UsesArePairs, BranchIsSound
<1>2. /\ DOMAIN b \subseteq Names(U) /\ IsFiniteSet(DOMAIN b)
      /\ \A name \in DOMAIN b : b[name] \in Values /\ <<name, Domain(b[name])>> \in U
      /\ \A u \in U : u[1] \in DOMAIN b /\ (u[2] = "Posit" => Domain(b[u[1]]) = "Posit")
  BY BoundIsTyped
<1>3. ASSUME NEW name \in names
      PROVE  name \in DOMAIN b /\ Domain(b[name]) = ExportedDomains(query)[name]
  <2> DEFINE d == DomainsOf(U)[name]
             v == Domain(b[name])
  <2>1. name \in Names(U) /\ d = ExportedDomains(query)[name]
    BY BranchIsSound
  <2> HIDE DEF d
  <2>2. /\ <<name, d>> \in U
        /\ \A u \in U : u[1] = name =>
              /\ u[2] = d \/ {u[2], d} = IdentityDomains
              /\ u[2] = "Posit" => d = "Posit"
    BY <1>1, <2>1, DomainIsUsed DEF Consistent, d
  <2>3. <<name, d>>[1] = name /\ <<name, d>>[2] = d /\ <<name, v>>[1] = name /\ <<name, v>>[2] = v
    OBVIOUS
  <2>4. name \in DOMAIN b /\ (d = "Posit" => v = "Posit")
    BY <1>2, <2>2, <2>3
  <2>5. <<name, v>> \in U
    BY <1>2, <2>4
  <2> HIDE DEF v
  <2>6. (v = d \/ {v, d} = IdentityDomains) /\ (v = "Posit" => d = "Posit")
    BY <2>2, <2>3, <2>5
  <2>7. v = d
    BY <2>4, <2>6 DEF IdentityDomains
  <2> QED
    BY <2>1, <2>4, <2>7 DEF v
<1>4. Exported(b) = c
  <2>1. DOMAIN b \cap plan.names = names
    BY <1>3
  <2> QED
    BY <2>1 DEF Exported
<1>5. names = Names(E) /\ IsFiniteSet(names)
  <2>1. names \subseteq DOMAIN b
    BY <1>3
  <2> QED
    BY <1>2, <2>1, ExportedAreUses, FS_Subset
<1>6. c \in [names -> Values] /\ \A name \in names : c[name] = b[name]
  BY <1>2, <1>3
<1> HIDE DEF c, names
<1>7. \A name \in names : <<name, Domain(c[name])>> \in E
  BY <1>3, <1>6, ExportedAreUses DEF names
<1>8. ASSUME NEW u \in E
      PROVE  u[1] \in names /\ (u[2] = "Posit" => Domain(c[u[1]]) = "Posit")
  <2>1. u[1] \in names /\ u[2] = ExportedDomains(query)[u[1]]
    BY ExportedAreUses DEF names
  <2> QED
    BY <1>3, <1>6, <2>1
<1> HIDE DEF E
<1>9. c \in Bound(E, E)
  BY <1>5, <1>6, <1>7, <1>8, TypedIsBound
<1> QED
  BY <1>4, <1>9 DEF Answers, E

LEMMA AnswersAreProper ==
    ASSUME query \in Queries, StaticErrors(query) = {}
    PROVE  /\ Proper(Answers)
           /\ \A b \in Answers, name \in CommonNames(query) :
                 name \in DOMAIN b /\ Domain(b[name]) = ExportedDomains(query)[name]
<1> DEFINE E == ExportedUses(query)
<1>1. Proper(Answers)
  BY ExportedIsConsistent, BoundIsProper DEF Answers
<1>2. ASSUME NEW b \in Answers, NEW name \in DOMAIN b
      PROVE  Domain(b[name]) = ExportedDomains(query)[name]
  <2>1. <<name, Domain(b[name])>> \in E
    BY BoundIsTyped DEF Answers
  <2>2. /\ <<name, Domain(b[name])>>[1] = name
        /\ <<name, Domain(b[name])>>[2] = Domain(b[name])
    OBVIOUS
  <2> QED
    BY <2>1, <2>2, ExportedAreUses
<1>3. \A b \in Answers : Names(E) \subseteq DOMAIN b
  BY ExportedIsConsistent, BoundNames DEF Answers
<1>4. Names(E) = CommonNames(query)
  BY ExportedAreUses
<1> QED
  BY <1>1, <1>2, <1>3, <1>4

\* An answer is a binding of every absence block, which knows all of it.
LEMMA AnswersEnterBlocks ==
    ASSUME query \in Queries, StaticErrors(query) = {}, NEW i \in DOMAIN query.absences
    PROVE  Answers \subseteq Bound(BlockUses(query, i), ExportedUses(query))
<1> DEFINE E == ExportedUses(query)
           U == BlockUses(query, i)
<1> SUFFICES ASSUME NEW b \in Answers PROVE b \in Bound(U, E)
  OBVIOUS
<1>1. E \subseteq U
  BY DEF BlockUses
<1>2. Names(E) \subseteq Names(U)
  BY <1>1 DEF Names
<1>3. /\ b = [name \in DOMAIN b |-> b[name]]
      /\ DOMAIN b \subseteq Names(E) /\ IsFiniteSet(DOMAIN b)
      /\ \A name \in DOMAIN b : b[name] \in Values /\ <<name, Domain(b[name])>> \in E
      /\ \A k \in E : k[1] \in DOMAIN b /\ (k[2] = "Posit" => Domain(b[k[1]]) = "Posit")
  BY BoundIsTyped DEF Answers
<1> HIDE DEF E, U
<1>4. DOMAIN b \subseteq Names(U) /\ b \in [DOMAIN b -> Values]
  BY <1>2, <1>3
<1>5. \A name \in DOMAIN b : <<name, Domain(b[name])>> \in U
  BY <1>1, <1>3
<1> QED
  BY <1>3, <1>4, <1>5, TypedIsBound

LEMMA JoinedIsBuilt ==
    ASSUME posits \in Databases, query \in Queries, StaticErrors(query) = {}, SoundPlan(plan)
    PROVE  JoinedRelation \in Built(Answers)
<1> DEFINE joined(i) == JoinBranch(plan.branches[i], NoBinding)
           parts(i) == [k \in DOMAIN joined(i) |->
                           IF IsFailure(joined(i)[k])
                             THEN <<joined(i)[k]>> ELSE <<Exported(joined(i)[k])>>]
           rows == [i \in DOMAIN plan.branches |-> FlattenSeq(parts(i))]
<1>1. ASSUME NEW i \in DOMAIN plan.branches PROVE FlattenSeq(parts(i)) \in Found(Answers)
  <2> DEFINE U == UsesOf(query.branches[i])
             planned == plan.branches[i]
             all == UsesTo(planned, Len(planned))
  <2>1. /\ i \in DOMAIN query.branches
        /\ SoundSteps(U, {}, planned) /\ U \subseteq all
    BY DEF SoundPlan, SoundBranch
  <2>2. Consistent(U)
    BY <2>1, BranchIsSound
  <2> HIDE DEF U, planned
  <2>3. JoinBranch(planned, NoBinding) \in Built(Bound(U, {} \cup all))
    BY <2>1, <2>2, NothingKnown, BranchIsBuilt
  <2>4. Bound(U, {} \cup all) \subseteq Bound(U, U)
    <3>1. U \subseteq {} \cup all
      BY <2>1
    <3> HIDE DEF all
    <3> QED
      BY <3>1, KnowingMore
  <2> HIDE DEF all
  <2>5. joined(i) \in Found(Bound(U, U))
    <3>1. JoinBranch(planned, NoBinding) \in Found(Bound(U, {} \cup all))
      BY <2>3, FoundSimple
    <3>2. Found(Bound(U, {} \cup all)) \subseteq Found(Bound(U, U))
      BY <2>4, FoundSimple
    <3> QED
      BY <3>1, <3>2 DEF planned
  <2>6. ASSUME NEW b \in Bound(U, U) PROVE <<Exported(b)>> \in Found(Answers)
    <3>1. Exported(b) \in Answers
      BY <2>1, ExportIsAnswer DEF U, SoundPlan
    <3> QED
      BY <3>1, FoundSimple
  <2>7. Proper(Bound(U, U))
    BY <2>2, BoundIsProper
  <2> HIDE DEF joined
  <2> QED
    BY <2>5, <2>6, <2>7, EachIsFound
<1>2. rows \in Seq(Found(Answers))
  <2>1. DOMAIN plan.branches = 1..Len(plan.branches) /\ Len(plan.branches) \in Nat
    BY DEF SoundPlan, IsSequence
  <2> HIDE DEF parts
  <2> QED
    BY <1>1, <2>1
<1>3. JoinedRelation = Whole(FlattenSeq(rows))
  BY DEF JoinedRelation, Each
<1> HIDE DEF rows
<1>4. FlattenSeq(rows) \in Found(Answers)
  BY <1>2, Flattened DEF Found
<1>5. Whole(FlattenSeq(rows)) \in Built(Answers)
  BY <1>4, AnswersAreProper, WholeIsBuilt
<1> QED
  BY <1>3, <1>5

LEMMA BlocksAreBuilt ==
    ASSUME posits \in Databases, query \in Queries, StaticErrors(query) = {}, SoundPlan(plan),
           NEW rows \in Seq(Answers)
    PROVE  AbsentRelation(rows) \in Built(Answers)
<1>1. ASSUME NEW block \in Elements(plan.absences), NEW b \in Answers
      PROVE  \E S : Proper(S) /\ JoinBranch(block, b) \in Built(S)
  <2>1. PICK i \in DOMAIN plan.absences : block = plan.absences[i]
    BY DEF Elements
  <2> DEFINE U == BlockUses(query, i)
             E == ExportedUses(query)
             S == Bound(U, E \cup UsesTo(block, Len(block)))
  <2>2. i \in DOMAIN query.absences /\ SoundSteps(U, E, block)
    BY <2>1 DEF SoundPlan, SoundBlock
  <2>3. Consistent(U) /\ b \in Bound(U, E)
    BY <2>2, BlockIsSound, AnswersEnterBlocks
  <2> HIDE DEF U, E
  <2>4. JoinBranch(block, b) \in Built(S) /\ Proper(S)
    BY <2>2, <2>3, BranchIsBuilt, BoundIsProper
  <2> QED
    BY <2>4
<1>2. IsSequence(plan.absences)
  BY DEF SoundPlan
<1>3. Proper(Answers)
  BY AnswersAreProper
<1> QED
  BY <1>1, <1>2, <1>3, AbsentIsBuilt

LEMMA WitnessesAreFound ==
    ASSUME posits \in Databases, query \in Queries, StaticErrors(query) = {}, SoundPlan(plan),
           plan.incremental, NEW b \in Answers
    PROVE  \E S : Proper(S) /\ Witnesses(b) \in Found(S)
<1> DEFINE E == ExportedUses(query)
           bindings(i) == Bound(BlockUses(query, i),
                                E \cup UsesTo(plan.absences[i], Len(plan.absences[i])))
           S == UNION {bindings(i) : i \in DOMAIN plan.absences}
           parts == [i \in DOMAIN plan.absences |-> VisitBlock(plan.absences[i], b)]
<1>1. ASSUME NEW i \in DOMAIN plan.absences
      PROVE  VisitBlock(plan.absences[i], b) \in Found(bindings(i)) /\ Proper(bindings(i))
  <2> DEFINE U == BlockUses(query, i)
             block == plan.absences[i]
  <2>1. /\ i \in DOMAIN query.absences /\ SoundSteps(U, E, block)
        /\ \A j \in 1..Len(block) : ~IsEffective(block[j].pattern)
    BY DEF SoundPlan, SoundBlock
  <2>2. Consistent(U) /\ b \in Bound(U, E)
    BY <2>1, BlockIsSound, AnswersEnterBlocks
  <2> HIDE DEF U, E, block
  <2>3. VisitBlock(block, b) \in Found(Bound(U, E \cup UsesTo(block, Len(block))))
    BY <2>1, <2>2, BlockIsFound
  <2>4. Proper(Bound(U, E \cup UsesTo(block, Len(block))))
    BY <2>2, BoundIsProper
  <2> QED
    BY <2>3, <2>4 DEF U, block
<1> HIDE DEF bindings
<1>2. \A i \in DOMAIN plan.absences : bindings(i) \subseteq S
  OBVIOUS
<1>3. Proper(S)
  BY <1>1 DEF Proper
<1> HIDE DEF S
<1>4. \A i \in DOMAIN plan.absences : VisitBlock(plan.absences[i], b) \in Found(S)
  BY <1>1, <1>2, FoundSimple
<1>5. parts \in Seq(Found(S))
  <2>1. DOMAIN plan.absences = 1..Len(plan.absences) /\ Len(plan.absences) \in Nat
    BY DEF SoundPlan, IsSequence
  <2> QED
    BY <1>4, <2>1
<1>6. Witnesses(b) = FlattenSeq(parts)
  BY DEF Witnesses
<1> HIDE DEF parts
<1>7. FlattenSeq(parts) \in Found(S)
  BY <1>5, Flattened DEF Found
<1> QED
  BY <1>3, <1>6, <1>7

-----------------------------------------------------------------------------
(***************************************************************************)
(* The walk: every frame holds a binding that knows what the patterns      *)
(* before it bind, posits to visit, and matches that know its own pattern  *)
(* as well.                                                                *)
(***************************************************************************)
IsFrame(frame) ==
    frame = [input |-> frame.input, candidates |-> frame.candidates, matches |-> frame.matches]

SoundFrame(U, planned, i, frame) ==
    /\ IsFrame(frame)
    /\ frame.input \in Bound(U, UsesTo(planned, i - 1))
    /\ frame.candidates \in Found([posit: DOMAIN posits])
    /\ frame.matches \in Found(Bound(U, UsesTo(planned, i)))
    /\ Len(frame.candidates) <= planned[i].estimate

SoundWalk(n, fs) ==
    /\ plan.incremental
    /\ n \in DOMAIN plan.branches
    /\ Len(fs) \in 1..Len(plan.branches[n])
    /\ fs = [i \in 1..Len(fs) |-> fs[i]]
    /\ \A i \in 1..Len(fs) :
          SoundFrame(UsesOf(query.branches[n]), plan.branches[n], i, fs[i])

LEMMA WalkedBranch ==
    ASSUME posits \in Databases, query \in Queries, StaticErrors(query) = {}, SoundPlan(plan),
           plan.incremental, NEW n \in DOMAIN plan.branches
    PROVE  /\ n \in DOMAIN query.branches
           /\ Consistent(UsesOf(query.branches[n]))
           /\ IsSequence(plan.branches[n]) /\ Len(plan.branches[n]) \in Nat \ {0}
           /\ UsesOf(query.branches[n]) \subseteq UsesTo(plan.branches[n], Len(plan.branches[n]))
           /\ \A i \in 1..Len(plan.branches[n]) :
                 /\ IsReady(UsesOf(query.branches[n]), UsesTo(plan.branches[n], i - 1),
                            plan.branches[n][i].pattern)
                 /\ ~IsEffective(plan.branches[n][i].pattern)
                 /\ IsBounded(plan.branches[n][i])
                 /\ IsSequence(plan.branches[n][i].predicates)
                 /\ \A predicate \in Elements(plan.branches[n][i].predicates) :
                       /\ predicate \in Elements(query.predicates)
                       /\ predicate.left \in Names(UsesTo(plan.branches[n], i))
<1> DEFINE U == UsesOf(query.branches[n])
           planned == plan.branches[n]
<1>1. n \in DOMAIN query.branches /\ SoundBranch(TRUE, U, planned)
  BY DEF SoundPlan
<1>2. Consistent(U)
  BY <1>1, BranchIsSound
<1> HIDE DEF U, planned
<1>3. IsSequence(planned) /\ Len(planned) \in Nat \ {0}
  <2>1. IsSequence(planned) /\ planned # <<>>
    BY <1>1 DEF SoundBranch, SoundSteps
  <2> QED
    BY <2>1 DEF IsSequence
<1>4. ASSUME NEW i \in 1..Len(planned)
      PROVE  /\ IsReady(U, UsesTo(planned, i - 1), planned[i].pattern)
             /\ ~IsEffective(planned[i].pattern)
             /\ IsBounded(planned[i])
             /\ IsSequence(planned[i].predicates)
             /\ \A predicate \in Elements(planned[i].predicates) :
                   /\ predicate \in Elements(query.predicates)
                   /\ predicate.left \in Names(UsesTo(planned, i))
  <2>1. {} \cup UsesTo(planned, i - 1) = UsesTo(planned, i - 1)
    OBVIOUS
  <2> QED
    BY <1>1, <2>1 DEF SoundBranch, SoundSteps
<1>5. U \subseteq UsesTo(planned, Len(planned))
  BY <1>1 DEF SoundBranch
<1> QED
  BY <1>1, <1>2, <1>3, <1>4, <1>5 DEF U, planned

LEMMA EnteredIsSound ==
    ASSUME posits \in Databases, query \in Queries, StaticErrors(query) = {}, SoundPlan(plan),
           plan.incremental, NEW n \in DOMAIN plan.branches,
           NEW i \in 1..Len(plan.branches[n]),
           NEW b \in Bound(UsesOf(query.branches[n]), UsesTo(plan.branches[n], i - 1))
    PROVE  SoundFrame(UsesOf(query.branches[n]), plan.branches[n], i,
                      EnterAt(plan.branches[n][i], b))
<1> DEFINE U == UsesOf(query.branches[n])
           planned == plan.branches[n]
           p == planned[i]
           K == UsesTo(planned, i - 1)
<1>1. /\ Consistent(U)
      /\ IsReady(U, K, p.pattern) /\ IsBounded(p) /\ i \in Nat \ {0}
  BY WalkedBranch
<1>2. K \cup Uses(p.pattern) = UsesTo(planned, i)
  BY <1>1, UsesOfOneMore
<1>3. b \in Bound(U, K)
  OBVIOUS
<1>4. p.estimate \in Nat
  BY <1>1 DEF IsBounded
<1>5. IsServed(U, K, p.pattern)
  BY <1>1 DEF IsReady
<1> HIDE DEF U, K, p
<1>6. CASE HasCutoff(p.pattern)
  <2>1. EvaluatePattern(p, b) \in Found(Bound(U, UsesTo(planned, i)))
    <3>1. EvaluatePattern(p, b) \in Built(Bound(U, K \cup Uses(p.pattern)))
      BY <1>1, <1>3, PatternIsBuilt
    <3> QED
      BY <1>2, <3>1, FoundSimple
  <2>2. EnterAt(p, b) = [input |-> b, candidates |-> <<>>, matches |-> EvaluatePattern(p, b)]
    BY <1>6 DEF EnterAt
  <2>3. <<>> \in Found([posit: DOMAIN posits]) /\ Len(<<>>) <= p.estimate
    BY <1>4, FoundSimple
  <2> QED
    BY <1>3, <2>1, <2>2, <2>3 DEF SoundFrame, IsFrame, U, K, p
<1>7. CASE ~HasCutoff(p.pattern)
  <2>1. /\ Candidates(p, b) \in Found([posit: DOMAIN posits])
        /\ Len(Candidates(p, b)) <= p.estimate
    BY <1>1, <1>3, <1>5, CandidatesAreBounded
  <2>2. EnterAt(p, b) = [input |-> b, candidates |-> Candidates(p, b), matches |-> <<>>]
    BY <1>7 DEF EnterAt
  <2>3. <<>> \in Found(Bound(U, UsesTo(planned, i)))
    BY FoundSimple
  <2> QED
    BY <1>3, <2>1, <2>2, <2>3 DEF SoundFrame, IsFrame, U, K, p
<1> QED
  BY <1>6, <1>7

LEMMA FirstIsEntered ==
    ASSUME posits \in Databases, query \in Queries, StaticErrors(query) = {}, SoundPlan(plan),
           plan.incremental, NEW n \in DOMAIN plan.branches
    PROVE  SoundWalk(n, <<EnterAt(plan.branches[n][1], NoBinding)>>)
<1> DEFINE U == UsesOf(query.branches[n])
           planned == plan.branches[n]
           frame == EnterAt(planned[1], NoBinding)
           fs == <<frame>>
<1>1. Len(planned) \in Nat \ {0}
  BY WalkedBranch
<1>2. UsesTo(planned, 1 - 1) = {}
  BY DEF UsesTo
<1>3. NoBinding \in Bound(U, UsesTo(planned, 1 - 1))
  BY <1>2, NothingKnown
<1>4. SoundFrame(U, planned, 1, frame)
  <2>1. 1 \in 1..Len(planned)
    BY <1>1
  <2> QED
    BY <1>3, <2>1, EnteredIsSound
<1> HIDE DEF U, planned, frame
<1>5. Len(fs) = 1 /\ fs[1] = frame /\ fs = [i \in 1..Len(fs) |-> fs[i]]
  OBVIOUS
<1>6. \A i \in 1..Len(fs) : SoundFrame(U, planned, i, fs[i])
  BY <1>4, <1>5
<1> HIDE DEF fs
<1> QED
  BY <1>1, <1>5, <1>6 DEF SoundWalk, U, planned, frame, fs

(***************************************************************************)
(* A predicate that a streaming plan applies to the bindings of a branch   *)
(* compares literals only by their text: at the domain that the branch     *)
(* binds, which is the one the static check and the planner have seen.     *)
(***************************************************************************)
LEMMA PushedPredicatesDecide ==
    ASSUME posits \in Databases, query \in Queries, StaticErrors(query) = {}, SoundPlan(plan),
           plan.incremental, NEW n \in DOMAIN plan.branches,
           NEW i \in 1..Len(plan.branches[n]),
           NEW b \in Bound(UsesOf(query.branches[n]), UsesTo(plan.branches[n], i)),
           NEW predicate \in Elements(plan.branches[n][i].predicates)
    PROVE  Decides(predicate, b)
<1> DEFINE U == UsesOf(query.branches[n])
           left == predicate.left
           d == DomainsOf(U)[left]
<1>1. /\ n \in DOMAIN query.branches
      /\ predicate \in Elements(query.predicates)
      /\ left \in Names(UsesTo(plan.branches[n], i))
  BY WalkedBranch
<1>2. ~MustMaterialize(query)
  BY DEF SoundPlan
<1>3. left \in CommonNames(query)
  BY <1>1, PredicatesAreExported
<1>4. ExportedDomains(query)[left] = "Literal" => predicate.operator = "==="
  BY <1>1, <1>2 DEF MustMaterialize
<1>5. Pairs(U) /\ Consistent(U) /\ left \in Names(U) /\ d = ExportedDomains(query)[left]
  BY <1>1, <1>3, UsesArePairs, BranchIsSound
<1>6. <<left, Domain(b[left])>> \in U
  <2>1. left \in DOMAIN b
    <3>1. PICK k \in UsesTo(plan.branches[n], i) : k[1] = left
      BY <1>1 DEF Names
    <3> QED
      BY <3>1, BoundIsTyped
  <2> QED
    BY <2>1, BoundIsTyped
<1>7. Domain(b[left]) = d \/ {Domain(b[left]), d} = IdentityDomains
  <2>1. /\ <<left, Domain(b[left])>>[1] = left
        /\ <<left, Domain(b[left])>>[2] = Domain(b[left])
    OBVIOUS
  <2>2. Pairs(U) /\ ~Conflict(U) /\ left \in Names(U)
    BY <1>5 DEF Consistent
  <2> HIDE DEF U, left
  <2>3. \A u \in U : u[1] = left =>
           u[2] = DomainsOf(U)[left] \/ {u[2], DomainsOf(U)[left]} = IdentityDomains
    BY <2>2, DomainIsUsed
  <2> QED
    BY <1>5, <1>6, <2>1, <2>3
<1> QED
  BY <1>4, <1>5, <1>7 DEF Decides, IdentityDomains

\* What a step relies on at the top of the stack.
LEMMA TopIsSound ==
    ASSUME posits \in Databases, query \in Queries, StaticErrors(query) = {}, SoundPlan(plan),
           SoundWalk(branch, frames)
    PROVE  /\ plan.incremental /\ branch \in DOMAIN plan.branches
           /\ Len(frames) \in 1..Len(Patterns) /\ Len(frames) \in Nat \ {0}
           /\ Len(Patterns) \in Nat
           /\ frames = [i \in 1..Len(frames) |-> frames[i]]
           /\ SoundFrame(UsesOf(query.branches[branch]), Patterns, Len(frames), Top)
           /\ Proper(Bound(UsesOf(query.branches[branch]), UsesTo(Patterns, Len(frames))))
<1>1. /\ plan.incremental /\ branch \in DOMAIN plan.branches
      /\ Len(frames) \in 1..Len(Patterns)
      /\ frames = [i \in 1..Len(frames) |-> frames[i]]
      /\ \A i \in 1..Len(frames) :
            SoundFrame(UsesOf(query.branches[branch]), Patterns, i, frames[i])
  BY DEF SoundWalk, Patterns
<1>2. Len(Patterns) \in Nat \ {0} /\ Consistent(UsesOf(query.branches[branch]))
  BY <1>1, WalkedBranch DEF Patterns
<1>3. Len(frames) \in Nat \ {0}
  BY <1>1, <1>2
<1>4. SoundFrame(UsesOf(query.branches[branch]), Patterns, Len(frames), Top)
  BY <1>1, <1>3 DEF Top
<1> QED
  BY <1>1, <1>2, <1>3, <1>4, BoundIsProper

\* Replacing the top frame by a sound one.
LEMMA WalkWithTop ==
    ASSUME posits \in Databases, query \in Queries, StaticErrors(query) = {}, SoundPlan(plan),
           SoundWalk(branch, frames), NEW frame,
           SoundFrame(UsesOf(query.branches[branch]), Patterns, Len(frames), frame)
    PROVE  SoundWalk(branch, [frames EXCEPT ![Len(frames)] = frame])
<1> DEFINE fs == [frames EXCEPT ![Len(frames)] = frame]
           n == Len(frames)
<1>1. n \in Nat \ {0} /\ frames = [i \in 1..n |-> frames[i]]
  BY TopIsSound
<1>2. fs = [i \in 1..n |-> IF i = n THEN frame ELSE frames[i]]
  BY <1>1
<1>3. Len(fs) = n /\ fs = [i \in 1..n |-> fs[i]]
  <2>1. DOMAIN fs = 1..n
    BY <1>2
  <2>2. fs = [i \in 1..n |-> fs[i]]
    BY <1>2
  <2> QED
    BY <1>1, <2>1, <2>2, SequenceShape
<1>4. ASSUME NEW i \in 1..n
      PROVE  SoundFrame(UsesOf(query.branches[branch]), Patterns, i, fs[i])
  BY <1>2 DEF SoundWalk, Patterns
<1> HIDE DEF fs
<1> QED
  BY <1>3, <1>4 DEF SoundWalk, Patterns, fs

LEMMA TailIsFound ==
    ASSUME NEW R, NEW found \in Found(R), found # <<>>
    PROVE  /\ Tail(found) \in Found(R) /\ Len(Tail(found)) <= Len(found)
           /\ Head(found) \in R \cup Benign
BY DEF Found

LEMMA FrameWith ==
    ASSUME NEW frame, IsFrame(frame), NEW c, NEW m
    PROVE  /\ [frame EXCEPT !.matches = m]
                 = [input |-> frame.input, candidates |-> frame.candidates, matches |-> m]
           /\ [frame EXCEPT !.candidates = c, !.matches = m]
                 = [input |-> frame.input, candidates |-> c, matches |-> m]
<1> DEFINE f == [frame EXCEPT !.matches = m]
           g == [frame EXCEPT !.candidates = c, !.matches = m]
<1>1. DOMAIN frame = {"input", "candidates", "matches"}
  BY DEF IsFrame
<1>2. /\ f = [x \in DOMAIN frame |-> IF x = "matches" THEN m ELSE frame[x]]
      /\ g = [x \in DOMAIN frame |->
                 IF x = "matches" THEN m ELSE IF x = "candidates" THEN c ELSE frame[x]]
  BY <1>1
<1>3. /\ f["input"] = frame["input"] /\ f["candidates"] = frame["candidates"] /\ f["matches"] = m
      /\ g["input"] = frame["input"] /\ g["candidates"] = c /\ g["matches"] = m
      /\ DOMAIN f = {"input", "candidates", "matches"}
      /\ DOMAIN g = {"input", "candidates", "matches"}
  BY <1>1, <1>2
<1>4. f = [x \in DOMAIN f |-> f[x]] /\ g = [x \in DOMAIN g |-> g[x]]
  BY <1>2
<1> HIDE DEF f, g
<1>5. f = [input |-> frame.input, candidates |-> frame.candidates, matches |-> m]
  BY <1>3, <1>4
<1>6. g = [input |-> frame.input, candidates |-> c, matches |-> m]
  BY <1>3, <1>4
<1> QED
  BY <1>5, <1>6 DEF f, g

LEMMA WithoutMatchIsSound ==
    ASSUME posits \in Databases, query \in Queries, StaticErrors(query) = {}, SoundPlan(plan),
           SoundWalk(branch, frames), Top.matches # <<>>
    PROVE  /\ SoundWalk(branch, WithoutMatch)
           /\ Len(WithoutMatch) = Len(frames)
           /\ Head(Top.matches)
                 \in Bound(UsesOf(query.branches[branch]), UsesTo(Patterns, Len(frames))) \cup Benign
<1> DEFINE U == UsesOf(query.branches[branch])
           n == Len(frames)
           frame == [Top EXCEPT !.matches = Tail(@)]
<1>1. n \in Nat \ {0} /\ frames = [i \in 1..n |-> frames[i]] /\ SoundFrame(U, Patterns, n, Top)
  BY TopIsSound
<1>2. WithoutMatch = [frames EXCEPT ![n] = frame]
  BY <1>1 DEF WithoutMatch, Top
<1>3. /\ frame.input = Top.input /\ frame.candidates = Top.candidates
      /\ frame.matches = Tail(Top.matches)
      /\ IsFrame(frame)
  <2>1. frame = [input |-> Top.input, candidates |-> Top.candidates, matches |-> Tail(Top.matches)]
    BY <1>1, FrameWith DEF SoundFrame
  <2> QED
    BY <2>1 DEF IsFrame
<1>4. /\ Tail(Top.matches) \in Found(Bound(U, UsesTo(Patterns, n)))
      /\ Head(Top.matches) \in Bound(U, UsesTo(Patterns, n)) \cup Benign
  <2> DEFINE R == Bound(U, UsesTo(Patterns, n))
  <2>1. Top.matches \in Found(R)
    BY <1>1 DEF SoundFrame
  <2> HIDE DEF R
  <2> QED
    BY <2>1, TailIsFound DEF R
<1> HIDE DEF frame
<1>5. SoundFrame(U, Patterns, n, frame)
  BY <1>1, <1>3, <1>4 DEF SoundFrame
<1>6. SoundWalk(branch, [frames EXCEPT ![n] = frame])
  BY <1>5, WalkWithTop
<1>7. Len([frames EXCEPT ![n] = frame]) = n
  <2>1. [frames EXCEPT ![n] = frame] = [i \in 1..n |-> IF i = n THEN frame ELSE frames[i]]
    BY <1>1
  <2> DEFINE fs == [i \in 1..n |-> IF i = n THEN frame ELSE frames[i]]
  <2>2. fs = [i \in 1..n |-> fs[i]]
    OBVIOUS
  <2> HIDE DEF fs
  <2>3. Len(fs) = n
    BY <1>1, <2>2, SequenceShape
  <2> QED
    BY <2>1, <2>3 DEF fs
<1> QED
  BY <1>2, <1>4, <1>6, <1>7

-----------------------------------------------------------------------------
(***************************************************************************)
(* The inductive invariant: from the plan on, the search passed its static *)
(* checks, the plan is sound, and so is whatever the executor holds; and   *)
(* rows are on their way only from a stream or from a complete relation.   *)
(***************************************************************************)
Unplanned == {"prepare", "compile"}

Running == {"start", "visit", "absences", "predicates", "identities", "project", "announce",
            "deliver", "done"}

Joining == {"absences", "predicates", "identities", "project"}

Delivering == delivered # <<>> =>
    phase \in {"deliver", "done", "failed"} \/ (phase = "visit" /\ ~Sorted)

SearchInv ==
    /\ posits \in Databases /\ query \in Queries
    /\ phase \in Unplanned \cup Running \cup {"failed"}
    /\ phase \in Unplanned => plan = NoPlan
    /\ phase \in {"compile"} \cup Running => StaticErrors(query) = {}
    /\ phase \in Running => SoundPlan(plan)
    /\ phase \in Unplanned \cup {"start"} => branch = 1
    /\ phase = "visit" => SoundWalk(branch, frames)
    /\ phase \in Joining => ~plan.incremental /\ relation \in Seq(Answers)
    /\ phase # "failed" => failure = NoFailure
    /\ Delivering
    /\ StaticChecksSuffice
    /\ DeliveredRowsStand

LEMMA SearchInit == Init => SearchInv
BY DEF Init, SearchInv, Unplanned, Running, Joining, Delivering, StaticChecksSuffice,
       DeliveredRowsStand, NoFailure

\* What the walk and the relation are sound about does not change in a step.
LEMMA SameSearch ==
    ASSUME posits' = posits, query' = query
    PROVE  /\ StaticErrors(query)' = StaticErrors(query)
           /\ SoundPlan(plan') => SoundPlan(plan)'
           /\ Answers' = Answers
           /\ plan' = plan /\ SoundWalk(branch', frames') => SoundWalk(branch, frames)'
<1>1. ASSUME NEW U, NEW K PROVE Bound(U, K)' = Bound(U, K)
  BY DEF Bound, Fits, Values, Contents, Knows, Domain
<1>2. Answers' = Answers
  <2>1. ExportedUses(query)' = ExportedUses(query)
    OBVIOUS
  <2> QED
    BY <1>1, <2>1 DEF Answers
<1>3. SoundPlan(plan') => SoundPlan(plan)'
  <2>1. ASSUME NEW planned PROVE IsBounded(planned)' <=> IsBounded(planned)
    BY DEF IsBounded, RolePosting
  <2>2. ASSUME NEW U, NEW K, NEW planned
        PROVE  SoundSteps(U, K, planned)' <=> SoundSteps(U, K, planned)
    BY DEF SoundSteps, IsReady, IsServed, Foreseen
  <2>3. ASSUME NEW incremental, NEW U, NEW planned
        PROVE  SoundBranch(incremental, U, planned)' <=> SoundBranch(incremental, U, planned)
    BY <2>1, <2>2 DEF SoundBranch
  <2>4. ASSUME NEW incremental, NEW U, NEW K, NEW planned
        PROVE  SoundBlock(incremental, U, K, planned)' <=> SoundBlock(incremental, U, K, planned)
    BY <2>2 DEF SoundBlock
  <2> QED
    BY <2>3, <2>4 DEF SoundPlan
<1>4. plan' = plan /\ SoundWalk(branch', frames') => SoundWalk(branch, frames)'
  <2>1. ASSUME NEW U, NEW planned, NEW i, NEW frame
        PROVE  SoundFrame(U, planned, i, frame)' <=> SoundFrame(U, planned, i, frame)
    <3>1. ASSUME NEW R PROVE Found(R)' = Found(R)
      BY DEF Found, Benign, LateErrors
    <3> QED
      BY <1>1, <3>1 DEF SoundFrame
  <2> QED
    BY <2>1 DEF SoundWalk
<1> QED
  BY <1>2, <1>3, <1>4

\* A step that goes on with the search.
LEMMA Continues ==
    ASSUME SearchInv, UNCHANGED <<posits, query, plan, failure>>,
           phase \in Running, phase' \in Running \ {"start"},
           phase' = "visit" => SoundWalk(branch', frames'),
           phase' \in Joining => ~plan.incremental /\ relation' \in Seq(Answers),
           Delivering'
    PROVE  SearchInv'
<1>1. /\ StaticErrors(query)' = {} /\ SoundPlan(plan)' /\ Answers' = Answers
      /\ phase' = "visit" => SoundWalk(branch, frames)'
  <2>1. SoundPlan(plan')
    BY DEF SearchInv
  <2> QED
    BY <2>1, SameSearch DEF SearchInv
<1>2. phase' \notin Unplanned \cup {"start"} /\ phase' # "failed" /\ failure' = NoFailure
  BY DEF Unplanned, Running, SearchInv
<1>3. StaticChecksSuffice' /\ DeliveredRowsStand'
  BY <1>2 DEF StaticChecksSuffice, DeliveredRowsStand, NoFailure
<1> QED
  BY <1>1, <1>2, <1>3 DEF SearchInv

\* A step of the walk that hands no row on.
LEMMA Walks ==
    ASSUME SearchInv, phase = "visit", UNCHANGED <<posits, query, plan, phase, delivered, failure>>,
           SoundWalk(branch', frames')
    PROVE  SearchInv'
<1>1. Delivering'
  BY DEF SearchInv, Delivering, Sorted
<1> QED
  BY <1>1, Continues DEF Running, Joining

\* A step that ends it, with an error a checked search may end with.
LEMMA FailKeeps ==
    ASSUME SearchInv, NEW reason, Fail(reason),
           plan = NoPlan \/ reason \in {"Comparison", "Invariant", "Execution", "Interrupted"},
           delivered = <<>> \/ reason \in {"Invariant", "Interrupted"}
    PROVE  SearchInv'
<1>1. phase' = "failed" /\ failure' = reason /\ posits' = posits /\ query' = query /\ plan' = plan
      /\ delivered' = delivered
  BY DEF Fail
<1>2. StaticChecksSuffice' /\ DeliveredRowsStand' /\ Delivering'
  BY <1>1 DEF StaticChecksSuffice, DeliveredRowsStand, SearchInv, Delivering, Sorted
<1> QED
  BY <1>1, <1>2 DEF SearchInv, Unplanned, Running, Joining

\* A stream may fail after a row, but not with an error that is late.
LEMMA StreamFails ==
    ASSUME SearchInv, phase = "visit", NEW e \in Benign, Fail(e.failed)
    PROVE  SearchInv'
<1>1. SoundPlan(plan) /\ plan.incremental
  BY DEF SearchInv, Running, SoundWalk
<1>2. e.failed = "Invariant"
  BY <1>1, BenignFails DEF SoundPlan
<1> QED
  BY <1>2, FailKeeps

\* Before the first row every error is in time.
LEMMA FailsInTime ==
    ASSUME SearchInv, phase \notin {"visit", "deliver", "done", "failed"},
           NEW e \in Benign \cup {Failed("Comparison")}, Fail(e.failed)
    PROVE  SearchInv'
<1>1. delivered = <<>>
  BY DEF SearchInv, Delivering
<1>2. e.failed \in {"Comparison", "Invariant", "Execution"}
  BY BenignFails DEF Failed
<1> QED
  BY <1>1, <1>2, FailKeeps

-----------------------------------------------------------------------------
LEMMA PrepareKeeps ==
    ASSUME SearchInv, Prepare PROVE SearchInv'
<1>1. plan = NoPlan /\ delivered = <<>>
  BY DEF Prepare, SearchInv, Unplanned, Delivering
<1>2. CASE StaticErrors(query) # {}
  BY <1>1, <1>2, FailKeeps DEF Prepare
<1>3. CASE StaticErrors(query) = {}
  <2>1. /\ phase' = "compile" /\ posits' = posits /\ query' = query /\ plan' = plan
        /\ branch' = branch /\ delivered' = delivered /\ failure' = failure
    BY <1>3 DEF Prepare, walk, result
  <2>2. StaticErrors(query)' = {}
    BY <1>3, <2>1
  <2>3. StaticChecksSuffice' /\ Delivering' /\ DeliveredRowsStand'
    BY <1>1, <2>1 DEF StaticChecksSuffice, Delivering, DeliveredRowsStand
  <2> QED
    BY <1>1, <2>1, <2>2, <2>3 DEF Prepare, SearchInv, Unplanned, Running, Joining
<1> QED
  BY <1>2, <1>3

LEMMA CompilePlanKeeps ==
    ASSUME SearchInv, CompilePlan PROVE SearchInv'
<1>1. /\ phase = "compile" /\ phase' = "start" /\ posits' = posits /\ query' = query
      /\ plan' = Compile(query) /\ branch' = branch /\ delivered' = delivered
      /\ failure' = failure
  BY DEF CompilePlan, walk, result
<1>2. StaticErrors(query) = {} /\ branch = 1 /\ failure = NoFailure /\ delivered = <<>>
      /\ posits \in Databases /\ query \in Queries
  BY <1>1 DEF SearchInv, Unplanned, Delivering
<1>3. StaticErrors(query)' = {}
  BY <1>1, <1>2
<1>4. SoundPlan(plan)'
  <2>1. SoundPlan(plan')
    BY <1>1, <1>2, CompileIsSound
  <2> QED
    BY <1>1, <2>1, SameSearch
<1>5. StaticChecksSuffice' /\ Delivering' /\ DeliveredRowsStand'
  BY <1>1, <1>2 DEF StaticChecksSuffice, Delivering, DeliveredRowsStand, NoFailure
<1> QED
  BY <1>1, <1>2, <1>3, <1>4, <1>5 DEF SearchInv, Unplanned, Running, Joining

-----------------------------------------------------------------------------
\* What holds while the incremental executor walks.
LEMMA Walking ==
    ASSUME SearchInv, phase = "visit"
    PROVE  /\ phase \in Running /\ SoundWalk(branch, frames)
           /\ posits \in Databases /\ query \in Queries /\ StaticErrors(query) = {}
           /\ SoundPlan(plan)
BY DEF SearchInv, Running

LEMMA StartIncrementalKeeps ==
    ASSUME SearchInv, StartIncremental PROVE SearchInv'
<1>1. /\ phase = "start" /\ plan.incremental /\ UNCHANGED <<posits, query, plan, failure>>
      /\ phase' \in {"visit", "done"} /\ branch' = branch
      /\ frames' = <<EnterAt(plan.branches[1][1], NoBinding)>> /\ delivered' = delivered
  BY DEF StartIncremental, PushSchema, StopAt
<1>2. /\ posits \in Databases /\ query \in Queries /\ StaticErrors(query) = {}
      /\ SoundPlan(plan) /\ branch = 1
  BY <1>1 DEF SearchInv, Running
<1>3. 1 \in DOMAIN plan.branches
  BY <1>2, SearchShape DEF SoundPlan
<1>4. SoundWalk(1, <<EnterAt(plan.branches[1][1], NoBinding)>>)
  BY <1>1, <1>2, <1>3, FirstIsEntered
<1>5. Delivering'
  BY <1>1 DEF SearchInv, Delivering
<1> QED
  BY <1>1, <1>2, <1>4, <1>5, Continues DEF Running, Joining

LEMMA TakeCandidateKeeps ==
    ASSUME SearchInv, TakeCandidate PROVE SearchInv'
<1> DEFINE candidate == Head(Top.candidates)
           U == UsesOf(query.branches[branch])
           n == Len(frames)
           found == MatchPosit(Planned.pattern, candidate.posit, Top.input)
           frame == [Top EXCEPT !.candidates = Tail(Top.candidates), !.matches = found]
<1>1. phase = "visit" /\ Top.candidates # <<>>
  BY DEF TakeCandidate
<1>2. SoundFrame(U, Patterns, n, Top) /\ n \in 1..Len(Patterns) /\ n \in Nat \ {0}
      /\ branch \in DOMAIN plan.branches /\ plan.incremental
  BY <1>1, Walking, TopIsSound
<1>3. /\ Tail(Top.candidates) \in Found([posit: DOMAIN posits])
      /\ Len(Tail(Top.candidates)) <= Len(Top.candidates)
      /\ candidate \in [posit: DOMAIN posits] \cup Benign
  <2> DEFINE R == [posit: DOMAIN posits]
  <2>1. Top.candidates \in Found(R)
    BY <1>2 DEF SoundFrame
  <2> HIDE DEF R
  <2> QED
    BY <1>1, <2>1, TailIsFound DEF R
<1>4. CASE IsFailure(candidate)
  <2>1. candidate \in Benign
    BY <1>3, <1>4, CandidatesAreProper DEF Proper
  <2>2. Fail(candidate.failed)
    BY <1>4 DEF TakeCandidate
  <2> QED
    BY <1>1, <2>1, <2>2, StreamFails
<1>5. CASE ~IsFailure(candidate)
  <2>1. candidate \in [posit: DOMAIN posits]
    BY <1>3, <1>5, BenignFails
  <2>2. candidate.posit \in DOMAIN posits
    BY <2>1
  <2>3. /\ IsReady(U, UsesTo(Patterns, n - 1), Planned.pattern)
        /\ ~IsEffective(Planned.pattern) /\ Consistent(U)
    BY <1>1, <1>2, Walking, WalkedBranch DEF Planned, Patterns
  <2>4. found \in Found(Bound(U, UsesTo(Patterns, n)))
    <3>1. UsesTo(Patterns, n - 1) \cup Uses(Planned.pattern) = UsesTo(Patterns, n)
      BY <1>2, UsesOfOneMore DEF Planned
    <3>2. Top.input \in Bound(U, UsesTo(Patterns, n - 1))
      BY <1>2 DEF SoundFrame
    <3> HIDE DEF U, n, candidate
    <3>3. found \in Found(Bound(U, UsesTo(Patterns, n - 1) \cup Uses(Planned.pattern)))
      BY <1>1, <2>2, <2>3, <3>2, Walking, VisitIsFound
    <3> QED
      BY <3>1, <3>3
  <2>5. SoundFrame(U, Patterns, n, frame)
    <3>1. IsFrame(Top)
      BY <1>2 DEF SoundFrame
    <3> HIDE DEF found, U
    <3>2. frame = [input |-> Top.input, candidates |-> Tail(Top.candidates), matches |-> found]
      BY <3>1, FrameWith
    <3>3. /\ frame.input = Top.input /\ frame.candidates = Tail(Top.candidates)
          /\ frame.matches = found /\ IsFrame(frame)
      BY <3>2 DEF IsFrame
    <3> HIDE DEF frame
    <3>4. Len(frame.candidates) <= Patterns[n].estimate
      <4>1. Len(Top.candidates) <= Patterns[n].estimate
        BY <1>2 DEF SoundFrame
      <4>2. Patterns[n].estimate \in Nat
        BY <1>1, <1>2, Walking, WalkedBranch DEF IsBounded, Patterns
      <4>3. Len(Top.candidates) \in Nat /\ Len(Tail(Top.candidates)) \in Nat
        BY <1>2, <1>3 DEF SoundFrame, Found
      <4> QED
        BY <1>3, <3>3, <4>1, <4>2, <4>3
    <3> QED
      BY <1>2, <1>3, <2>4, <3>3, <3>4 DEF SoundFrame
  <2>6. frames' = [frames EXCEPT ![n] = frame]
    BY <1>5 DEF TakeCandidate, Top
  <2> HIDE DEF frame, U, n
  <2>7. SoundWalk(branch, frames')
    BY <1>1, <2>5, <2>6, Walking, WalkWithTop DEF U, n
  <2>8. UNCHANGED <<posits, query, plan, phase, branch, delivered, failure>>
    BY <1>5 DEF TakeCandidate, result
  <2> QED
    BY <1>1, <2>7, <2>8, Walks
<1> QED
  BY <1>4, <1>5

\* The match at the top, and what its predicates leave of it.
LEMMA MatchIsSound ==
    ASSUME SearchInv, TakesMatch
    PROVE  /\ phase = "visit" /\ SoundWalk(branch, WithoutMatch)
           /\ Len(WithoutMatch) = Len(frames)
           /\ IsFailure(Head(Top.matches)) => Head(Top.matches) \in Benign
           /\ ~IsFailure(Head(Top.matches)) =>
                 /\ Head(Top.matches)
                       \in Bound(UsesOf(query.branches[branch]), UsesTo(Patterns, Len(frames)))
                 /\ Surviving \in Found({Head(Top.matches)})
<1> DEFINE U == UsesOf(query.branches[branch])
           R == Bound(U, UsesTo(Patterns, Len(frames)))
           b == Head(Top.matches)
<1>1. phase = "visit" /\ Top.matches # <<>>
  BY DEF TakesMatch
<1>2. /\ SoundWalk(branch, WithoutMatch) /\ Len(WithoutMatch) = Len(frames)
      /\ b \in R \cup Benign
  BY <1>1, Walking, WithoutMatchIsSound
<1>3. /\ Proper(R) /\ Len(frames) \in 1..Len(Patterns)
      /\ plan.incremental /\ branch \in DOMAIN plan.branches
  BY <1>1, Walking, TopIsSound
<1>4. IsSequence(Planned.predicates)
  BY <1>1, <1>3, Walking, WalkedBranch DEF Planned, Patterns
<1> HIDE DEF b
<1>5. ASSUME b \in R, NEW predicate \in Elements(Planned.predicates) PROVE Decides(predicate, b)
  BY <1>1, <1>3, <1>5, Walking, PushedPredicatesDecide DEF Planned, Patterns
<1> HIDE DEF R
<1>6. IsFailure(b) => b \in Benign
  BY <1>2, <1>3 DEF Proper
<1>7. ~IsFailure(b) => b \in R /\ FilterAll(Planned.predicates, b) \in Found({b})
  BY <1>2, <1>4, <1>5, BenignFails, FilterAllIsFound
<1> QED
  BY <1>1, <1>2, <1>6, <1>7 DEF Surviving, R, b

LEMMA RefuseMatchKeeps ==
    ASSUME SearchInv, RefuseMatch PROVE SearchInv'
<1> DEFINE b == Head(Top.matches)
           found == IF IsFailure(b) THEN Top.matches ELSE Surviving
<1>1. TakesMatch
  BY DEF RefuseMatch
<1>2. CASE found # <<>>
  <2>1. IsFailure(Head(found)) /\ Fail(Head(found).failed)
    BY <1>2 DEF RefuseMatch
  <2>2. Head(found) \in Benign
    <3>1. CASE IsFailure(b)
      BY <1>1, <3>1, MatchIsSound
    <3>2. CASE ~IsFailure(b)
      <4>1. Surviving \in Found({b}) /\ found = Surviving
        BY <1>1, <3>2, MatchIsSound
      <4> HIDE DEF b, found
      <4>2. Head(found) \in {b} \cup Benign
        BY <1>2, <4>1, TailIsFound
      <4> QED
        BY <2>1, <3>2, <4>2
    <3> QED
      BY <3>1, <3>2
  <2> HIDE DEF found
  <2> QED
    BY <1>1, <2>1, <2>2, MatchIsSound, StreamFails
<1>3. CASE found = <<>>
  <2>1. /\ frames' = WithoutMatch
        /\ UNCHANGED <<posits, query, plan, phase, branch, delivered, failure>>
    BY <1>3 DEF RefuseMatch, result
  <2> QED
    BY <1>1, <2>1, MatchIsSound, Walks
<1> QED
  BY <1>2, <1>3

LEMMA DescendKeeps ==
    ASSUME SearchInv, Descend PROVE SearchInv'
<1> DEFINE b == Head(Top.matches)
           U == UsesOf(query.branches[branch])
           n == Len(frames)
           frame == EnterAt(Patterns[n + 1], b)
           fs == Append(WithoutMatch, frame)
<1>1. /\ TakesMatch /\ ~IsFailure(b) /\ n # Len(Patterns)
      /\ frames' = fs /\ UNCHANGED <<posits, query, plan, phase, branch, delivered, failure>>
  BY DEF Descend, MatchSurvives, IsLastPattern, result
<1>2. /\ phase = "visit" /\ SoundWalk(branch, WithoutMatch) /\ Len(WithoutMatch) = n
      /\ b \in Bound(U, UsesTo(Patterns, n))
  BY <1>1, MatchIsSound
<1>3. /\ n \in 1..Len(Patterns) /\ n \in Nat \ {0} /\ Len(Patterns) \in Nat
      /\ plan.incremental /\ branch \in DOMAIN plan.branches
  BY <1>2, Walking, TopIsSound
<1>4. n + 1 \in 1..Len(Patterns) /\ (n + 1) - 1 = n
  BY <1>1, <1>3
<1>5. SoundFrame(U, Patterns, n + 1, frame)
  <2>1. b \in Bound(U, UsesTo(Patterns, (n + 1) - 1))
    BY <1>2, <1>4
  <2> HIDE DEF b, n
  <2> QED
    BY <1>2, <1>3, <1>4, <2>1, Walking, EnteredIsSound DEF Patterns
<1>6. /\ Len(fs) = n + 1 /\ fs = [i \in 1..n + 1 |-> fs[i]]
      /\ \A i \in 1..n : fs[i] = WithoutMatch[i]
      /\ fs[n + 1] = frame
  <2>1. WithoutMatch = [i \in 1..n |-> WithoutMatch[i]]
    BY <1>2 DEF SoundWalk
  <2> DEFINE T == Elements(WithoutMatch) \cup {frame}
  <2> HIDE DEF frame, n
  <2>2. WithoutMatch \in Seq(Elements(WithoutMatch))
    BY <1>3, <2>1, SequenceShape DEF IsSequence
  <2>3. WithoutMatch \in Seq(T) /\ frame \in T
    BY <2>2
  <2> HIDE DEF T
  <2>4. fs \in Seq(T) /\ Len(fs) = Len(WithoutMatch) + 1
    BY <2>3
  <2>5. fs[Len(WithoutMatch) + 1] = frame
    BY <2>3
  <2>6. \A i \in 1..Len(WithoutMatch) : fs[i] = WithoutMatch[i]
    BY <2>3
  <2> HIDE DEF fs
  <2>7. fs = [i \in 1..Len(fs) |-> fs[i]]
    BY <2>4
  <2> QED
    BY <1>2, <2>4, <2>5, <2>6, <2>7
<1> HIDE DEF frame, fs, n
<1>7. \A i \in 1..n + 1 : SoundFrame(U, Patterns, i, fs[i])
  <2>1. \A i \in 1..n : SoundFrame(U, Patterns, i, WithoutMatch[i])
    BY <1>2 DEF SoundWalk, Patterns
  <2> HIDE DEF U
  <2>2. \A i \in 1..n : SoundFrame(U, Patterns, i, fs[i])
    BY <1>6, <2>1
  <2>3. SoundFrame(U, Patterns, n + 1, fs[n + 1])
    BY <1>5, <1>6
  <2>4. \A i \in 1..n + 1 : i \in 1..n \/ i = n + 1
    BY <1>3
  <2> QED
    BY <2>2, <2>3, <2>4
<1>8. SoundWalk(branch, fs)
  BY <1>3, <1>4, <1>6, <1>7 DEF SoundWalk, Patterns
<1> QED
  BY <1>1, <1>2, <1>8, Walks

\* A match of the last pattern, exported, is an answer.
LEMMA EmittedIsAnswer ==
    ASSUME SearchInv, TakesMatch, ~IsFailure(Head(Top.matches)), Len(frames) = Len(Patterns)
    PROVE  /\ phase = "visit" /\ SoundWalk(branch, WithoutMatch)
           /\ posits \in Databases /\ query \in Queries /\ StaticErrors(query) = {}
           /\ SoundPlan(plan) /\ plan.incremental
           /\ Exported(Head(Top.matches)) \in Answers
<1> DEFINE U == UsesOf(query.branches[branch])
<1>1. /\ phase = "visit" /\ SoundWalk(branch, WithoutMatch)
      /\ Head(Top.matches) \in Bound(U, UsesTo(Patterns, Len(frames)))
  BY MatchIsSound
<1>2. /\ posits \in Databases /\ query \in Queries /\ StaticErrors(query) = {} /\ SoundPlan(plan)
      /\ plan.incremental /\ branch \in DOMAIN plan.branches
  BY <1>1, Walking, TopIsSound
<1>3. U \subseteq UsesTo(Patterns, Len(frames)) /\ branch \in DOMAIN query.branches
  BY <1>2, WalkedBranch DEF Patterns
<1>4. Head(Top.matches) \in Bound(U, U)
  <2> HIDE DEF U
  <2> QED
    BY <1>1, <1>3, KnowingMore
<1>5. Exported(Head(Top.matches)) \in Answers
  BY <1>2, <1>3, <1>4, ExportIsAnswer DEF SoundPlan
<1> QED
  BY <1>1, <1>2, <1>5

LEMMA EmitKeeps ==
    ASSUME SearchInv, Emit PROVE SearchInv'
<1> DEFINE b == Exported(Head(Top.matches))
           row == Projected(b)
           witnesses == Witnesses(b)
<1>1. /\ TakesMatch /\ ~IsFailure(Head(Top.matches)) /\ Len(frames) = Len(Patterns)
      /\ EmitUnless(witnesses, b, row)
  BY DEF Emit, MatchSurvives, IsLastPattern
<1>2. phase = "visit" /\ SoundWalk(branch, WithoutMatch)
  BY <1>1, EmittedIsAnswer
<1>3. /\ posits \in Databases /\ query \in Queries /\ StaticErrors(query) = {} /\ SoundPlan(plan)
      /\ plan.incremental
  BY <1>1, EmittedIsAnswer
<1>4. b \in Answers
  BY <1>1, EmittedIsAnswer
<1>5. witnesses # <<>> /\ IsFailure(Head(witnesses)) => Head(witnesses) \in Benign
  <2> HIDE DEF b, witnesses
  <2>1. PICK S : Proper(S) /\ witnesses \in Found(S)
    BY <1>3, <1>4, WitnessesAreFound DEF witnesses
  <2> QED
    BY <2>1, TailIsFound DEF Proper
<1> HIDE DEF b, row, witnesses
<1>6. CASE witnesses # <<>> /\ IsFailure(Head(witnesses))
  <2>1. Fail(Head(witnesses).failed)
    BY <1>1, <1>6 DEF EmitUnless
  <2> QED
    BY <1>2, <1>5, <1>6, <2>1, StreamFails
<1>7. CASE ~(witnesses # <<>> /\ IsFailure(Head(witnesses)))
  <2>1. \/ Sorted /\ Fail("Comparison")
        \/ /\ frames' = WithoutMatch
           /\ UNCHANGED <<posits, query, plan, phase, branch, delivered, failure>>
        \/ /\ ~Sorted /\ phase' \in {"visit", "done"} /\ frames' = WithoutMatch
           /\ UNCHANGED <<posits, query, plan, branch, failure>>
    <3>1. CASE witnesses # <<>>
      BY <1>1, <1>2, <1>7, <3>1 DEF EmitUnless, result
    <3>2. CASE witnesses = <<>> /\ (~HasReturn \/ (query.distinct /\ row \in seen))
      BY <1>1, <1>2, <3>2 DEF EmitUnless
    <3>3. CASE witnesses = <<>> /\ ~(~HasReturn \/ (query.distinct /\ row \in seen))
      <4>1. EmitRow(b, row)
        BY <1>1, <3>3 DEF EmitUnless
      <4>2. CASE Sorted
        BY <1>2, <4>1, <4>2 DEF EmitRow, Rank
      <4>3. CASE ~Sorted
        BY <1>2, <4>1, <4>3 DEF EmitRow, Push, StopAt
      <4> QED
        BY <4>2, <4>3
    <3> QED
      BY <3>1, <3>2, <3>3
  <2>2. CASE Sorted /\ Fail("Comparison")
    <3>1. delivered = <<>>
      BY <1>2, <2>2 DEF SearchInv, Delivering
    <3> QED
      BY <2>2, <3>1, FailKeeps
  <2>3. CASE /\ frames' = WithoutMatch
             /\ UNCHANGED <<posits, query, plan, phase, branch, delivered, failure>>
    BY <1>2, <2>3, Walks
  <2>4. CASE /\ ~Sorted /\ phase' \in {"visit", "done"} /\ frames' = WithoutMatch
             /\ UNCHANGED <<posits, query, plan, branch, failure>>
    <3>1. Delivering'
      BY <2>4 DEF Delivering, Sorted
    <3> QED
      BY <1>2, <2>4, <3>1, Walking, Continues DEF Running, Joining
  <2> QED
    BY <2>1, <2>2, <2>3, <2>4
<1> QED
  BY <1>6, <1>7

LEMMA ReturnKeeps ==
    ASSUME SearchInv, Return PROVE SearchInv'
<1> DEFINE n == Len(frames)
<1>1. /\ phase = "visit" /\ n > 1 /\ frames' = Front(frames)
      /\ UNCHANGED <<posits, query, plan, phase, branch, delivered, failure>>
  BY DEF Return, IsExhausted, result
<1>2. SoundWalk(branch, frames)
  BY <1>1, Walking
<1>3. /\ n \in 1..Len(Patterns) /\ n \in Nat \ {0} /\ Len(Patterns) \in Nat
      /\ frames = [i \in 1..n |-> frames[i]]
  BY <1>1, Walking, TopIsSound
<1>4. Front(frames) = [i \in 1..n - 1 |-> frames[i]]
  <2> DEFINE T == Elements(frames)
  <2>1. frames \in Seq(T)
    BY <1>3, SequenceShape DEF IsSequence
  <2> HIDE DEF T
  <2> QED
    BY <1>1, <1>3, <2>1 DEF Front
<1> DEFINE fs == Front(frames)
<1>5. fs = [i \in 1..n - 1 |-> fs[i]] /\ \A i \in 1..n - 1 : fs[i] = frames[i]
  BY <1>4
<1> HIDE DEF fs
<1>6. Len(fs) = n - 1 /\ n - 1 \in 1..Len(Patterns)
  <2>1. n - 1 \in Nat /\ n - 1 \in 1..Len(Patterns)
    BY <1>1, <1>3
  <2> QED
    BY <1>5, <2>1, SequenceShape
<1>7. SoundWalk(branch, fs)
  BY <1>2, <1>3, <1>5, <1>6 DEF SoundWalk, Patterns
<1> QED
  BY <1>1, <1>7, Walks DEF fs

LEMMA NextBranchKeeps ==
    ASSUME SearchInv, NextBranch PROVE SearchInv'
<1>1. /\ phase = "visit" /\ branch < Len(plan.branches) /\ branch' = branch + 1
      /\ frames' = <<EnterAt(plan.branches[branch + 1][1], NoBinding)>>
      /\ UNCHANGED <<posits, query, plan, phase, delivered, failure>>
  BY DEF NextBranch, IsExhausted, result
<1>2. branch \in DOMAIN plan.branches /\ plan.incremental
  BY <1>1, Walking, TopIsSound
<1>3. branch + 1 \in DOMAIN plan.branches
  <2>1. DOMAIN plan.branches = 1..Len(plan.branches) /\ Len(plan.branches) \in Nat
    BY <1>1, Walking DEF SoundPlan, IsSequence
  <2> QED
    BY <1>1, <1>2, <2>1
<1>4. SoundWalk(branch', frames')
  BY <1>1, <1>2, <1>3, Walking, FirstIsEntered
<1> QED
  BY <1>1, <1>4, Walks

LEMMA EndVisitKeeps ==
    ASSUME SearchInv, EndVisit PROVE SearchInv'
<1>1. /\ phase = "visit" /\ phase' = IF Sorted THEN "announce" ELSE "done"
      /\ UNCHANGED <<posits, query, plan, delivered, failure>>
  BY DEF EndVisit, IsExhausted, result
<1>2. Delivering'
  BY <1>1 DEF SearchInv, Delivering, Sorted
<1> QED
  BY <1>1, <1>2, Walking, Continues DEF Running, Joining

-----------------------------------------------------------------------------
(***************************************************************************)
(* The materialized executor: a relation replaces another.                 *)
(***************************************************************************)
LEMMA BecomesKeeps ==
    ASSUME SearchInv, phase \in {"start"} \cup Joining, ~plan.incremental,
           NEW rows \in Built(Answers), NEW phaseAfter \in Joining, Becomes(rows, phaseAfter)
    PROVE  SearchInv'
<1>1. Proper(Answers)
  BY AnswersAreProper DEF SearchInv, Running, Joining
<1>2. CASE rows # <<>> /\ IsFailure(Head(rows))
  <2>1. Head(rows) \in Benign
    BY <1>1, <1>2, BuiltElements
  <2>2. Fail(Head(rows).failed)
    BY <1>2 DEF Becomes
  <2> QED
    BY <2>1, <2>2, FailsInTime DEF Joining
<1>3. CASE ~(rows # <<>> /\ IsFailure(Head(rows)))
  <2>1. rows \in Seq(Answers)
    <3>1. rows = <<>> => rows \in Seq(Answers)
      OBVIOUS
    <3>2. \A e : <<e>> # <<>>
      OBVIOUS
    <3> QED
      BY <1>1, <1>3, <3>1, <3>2, BuiltElements
  <2>2. /\ relation' = rows /\ phase' = phaseAfter
        /\ UNCHANGED <<posits, query, plan, delivered, failure>>
    BY <1>3 DEF Becomes, result
  <2>3. Delivering'
    BY <2>2 DEF SearchInv, Delivering, Joining
  <2> QED
    BY <2>1, <2>2, <2>3, Continues DEF Running, Joining
<1> QED
  BY <1>2, <1>3

LEMMA Relating ==
    ASSUME SearchInv, phase \in Running
    PROVE  /\ posits \in Databases /\ query \in Queries /\ StaticErrors(query) = {}
           /\ SoundPlan(plan)
           /\ phase \in Joining => ~plan.incremental /\ relation \in Seq(Answers)
BY DEF SearchInv

LEMMA MaterializeJoinKeeps ==
    ASSUME SearchInv, MaterializeJoin PROVE SearchInv'
<1>1. phase = "start" /\ phase \in Running /\ ~plan.incremental
      /\ Becomes(JoinedRelation, "absences")
  BY DEF MaterializeJoin, Running
<1>2. JoinedRelation \in Built(Answers)
  BY <1>1, Relating, JoinedIsBuilt
<1> QED
  BY <1>1, <1>2, BecomesKeeps DEF Joining

LEMMA MaterializeAbsencesKeeps ==
    ASSUME SearchInv, MaterializeAbsences PROVE SearchInv'
<1>1. phase \in Running /\ phase \in Joining /\ Becomes(AbsentRelation(relation), "predicates")
  BY DEF MaterializeAbsences, Running, Joining
<1>2. AbsentRelation(relation) \in Built(Answers)
  BY <1>1, Relating, BlocksAreBuilt
<1> QED
  BY <1>1, <1>2, Relating, BecomesKeeps DEF Joining

LEMMA MaterializePredicatesKeeps ==
    ASSUME SearchInv, MaterializePredicates PROVE SearchInv'
<1>1. phase \in Running /\ phase \in Joining /\ Becomes(FilteredRelation(relation), "identities")
  BY DEF MaterializePredicates, Running, Joining
<1>2. ~plan.incremental /\ MustMaterialize(query)
  BY <1>1, Relating DEF SoundPlan
<1>3. FilteredRelation(relation) \in Built(Answers)
  BY <1>1, <1>2, Relating, SearchShape, AnswersAreProper, FilteredIsBuilt
<1> QED
  BY <1>1, <1>2, <1>3, BecomesKeeps DEF Joining

LEMMA CollectIdentitiesKeeps ==
    ASSUME SearchInv, CollectIdentities PROVE SearchInv'
<1>1. phase \in Running /\ phase \in Joining
  BY DEF CollectIdentities, Running, Joining
<1>2. /\ query \in Queries /\ StaticErrors(query) = {} /\ plan.names = CommonNames(query)
      /\ relation \in Seq(Answers)
  BY <1>1, Relating DEF SoundPlan
<1>3. ASSUME NEW x \in BoundIdentities
      PROVE  Domain(x[2]) = ExportedDomains(query)[x[1]]
  <2>1. PICK i \in DOMAIN relation : \E name \in plan.names : x = <<name, relation[i][name]>>
    BY DEF BoundIdentities
  <2>2. PICK name \in plan.names : x = <<name, relation[i][name]>>
    BY <2>1
  <2>3. relation[i] \in Answers
    BY <1>2
  <2>4. Domain(relation[i][name]) = ExportedDomains(query)[name]
    BY <1>2, <2>2, <2>3, AnswersAreProper
  <2> QED
    BY <2>2, <2>4
<1>4. ~ \E x, y \in BoundIdentities : x[1] = y[1] /\ Domain(x[2]) # Domain(y[2])
  BY <1>3
<1>5. phase' \in {"project", "done"}
      /\ UNCHANGED <<posits, query, plan, relation, delivered, failure>>
  BY <1>4 DEF CollectIdentities
<1>6. Delivering' /\ ~plan.incremental /\ relation' \in Seq(Answers)
  BY <1>1, <1>2, <1>5, Relating DEF SearchInv, Delivering, Joining
<1> QED
  BY <1>1, <1>5, <1>6, Continues DEF Running, Joining

LEMMA MaterializeProjectionKeeps ==
    ASSUME SearchInv, MaterializeProjection PROVE SearchInv'
<1>1. \/ Fail("Comparison")
      \/ phase' = "announce" /\ UNCHANGED <<posits, query, plan, delivered, failure>>
  BY DEF MaterializeProjection, result
<1>2. phase \in Running /\ delivered = <<>>
  BY DEF MaterializeProjection, SearchInv, Running, Delivering
<1>3. CASE Fail("Comparison")
  BY <1>2, <1>3, FailKeeps
<1>4. CASE phase' = "announce" /\ UNCHANGED <<posits, query, plan, delivered, failure>>
  <2>1. Delivering'
    BY <1>2, <1>4 DEF Delivering
  <2> QED
    BY <1>2, <1>4, <2>1, Continues DEF Running, Joining
<1> QED
  BY <1>1, <1>3, <1>4

-----------------------------------------------------------------------------
LEMMA DeliveryKeeps ==
    ASSUME SearchInv, Announce \/ Deliver \/ EndDelivery PROVE SearchInv'
<1>1. /\ phase \in Running /\ phase' \in {"deliver", "done"}
      /\ UNCHANGED <<posits, query, plan, failure>>
  BY DEF Announce, Deliver, EndDelivery, PushSchema, Push, StopAt, Running, result
<1>2. Delivering'
  BY <1>1 DEF Delivering
<1> QED
  BY <1>1, <1>2, Continues DEF Running, Joining

LEMMA UnchangedKeeps ==
    ASSUME SearchInv, UNCHANGED vars PROVE SearchInv'
<1>1. /\ UNCHANGED <<posits, query, plan, phase, branch, frames, relation, delivered, failure>>
      /\ Delivering'
  BY DEF vars, walk, result, SearchInv, Delivering, Sorted
<1>2. CASE phase \in Running \ {"start"}
  BY <1>1, <1>2, Continues DEF SearchInv
<1>3. CASE phase \notin Running \ {"start"}
  <2>1. StaticChecksSuffice' /\ DeliveredRowsStand'
    BY <1>1 DEF SearchInv, StaticChecksSuffice, DeliveredRowsStand
  <2>2. /\ StaticErrors(query)' = StaticErrors(query)
        /\ SoundPlan(plan') => SoundPlan(plan)'
    BY <1>1, SameSearch
  <2> QED
    BY <1>1, <1>3, <2>1, <2>2 DEF SearchInv, Running, Joining, Unplanned
<1> QED
  BY <1>2, <1>3

LEMMA SearchInvIsInductive ==
    ASSUME SearchInv, [Next]_vars PROVE SearchInv'
<1>1. CASE Prepare \/ CompilePlan
  BY <1>1, PrepareKeeps, CompilePlanKeeps
<1>2. CASE StartIncremental \/ TakeCandidate \/ RefuseMatch \/ Descend \/ Emit
  BY <1>2, StartIncrementalKeeps, TakeCandidateKeeps, RefuseMatchKeeps, DescendKeeps, EmitKeeps
<1>3. CASE Return \/ NextBranch \/ EndVisit
  BY <1>3, ReturnKeeps, NextBranchKeeps, EndVisitKeeps
<1>4. CASE MaterializeJoin \/ MaterializeAbsences \/ MaterializePredicates
  BY <1>4, MaterializeJoinKeeps, MaterializeAbsencesKeeps, MaterializePredicatesKeeps
<1>5. CASE CollectIdentities \/ MaterializeProjection
  BY <1>5, CollectIdentitiesKeeps, MaterializeProjectionKeeps
<1>6. CASE Announce \/ Deliver \/ EndDelivery
  BY <1>6, DeliveryKeeps
<1>7. CASE Interrupt
  BY <1>7, FailKeeps DEF Interrupt
<1>8. CASE Finished \/ UNCHANGED vars
  BY <1>8, UnchangedKeeps DEF Finished
<1> QED
  BY <1>1, <1>2, <1>3, <1>4, <1>5, <1>6, <1>7, <1>8 DEF Next

(***************************************************************************)
(* Whatever the search holds while it runs agrees with what `prepare`      *)
(* checked: bindings are typed by the uses of their branch, in every frame *)
(* and in every relation.                                                  *)
(***************************************************************************)
THEOREM SearchIsSound == Spec => []SearchInv
<1>1. Init => SearchInv
  BY SearchInit
<1>2. SearchInv /\ [Next]_vars => SearchInv'
  BY SearchInvIsInductive
<1> QED
  BY <1>1, <1>2, PTL DEF Spec

(***************************************************************************)
(* What `prepare` checks is enough, for any store and search: a search     *)
(* that was planned never ends with an unbound variable, a recall that     *)
(* cannot be resolved or a variable of another domain (validate_domains of *)
(* query.rs, and the errors of bind, candidates and identity_bindings).    *)
(***************************************************************************)
THEOREM CheckedSearchesBind == Spec => []StaticChecksSuffice
<1>1. SearchInv => StaticChecksSuffice
  BY DEF SearchInv
<1> QED
  BY <1>1, SearchIsSound, PTL

(***************************************************************************)
(* The estimate of a planned pattern is at least the number of candidates  *)
(* that any frame of the walk has left to visit.                           *)
(***************************************************************************)
THEOREM EstimatesBound == Spec => []EstimatesAreBounds
<1>1. SearchInv => EstimatesAreBounds
  <2> SUFFICES ASSUME SearchInv, phase = "visit", NEW i \in DOMAIN frames
               PROVE  Len(frames[i].candidates) <= Patterns[i].estimate
    BY DEF EstimatesAreBounds
  <2>1. SoundWalk(branch, frames)
    BY Walking
  <2>2. i \in 1..Len(frames)
    BY <2>1 DEF SoundWalk
  <2> QED
    BY <2>1, <2>2 DEF SoundWalk, SoundFrame, Patterns
<1> QED
  BY <1>1, SearchIsSound, PTL

(***************************************************************************)
(* A stream never takes back what it handed on: after the first row, a     *)
(* search ends completely, or interrupted, or at evidence whose target is  *)
(* no posit; a comparison without an answer and a sort key of two families *)
(* are met before any row is out (materialization_reason of plan.rs, and   *)
(* emit and OrderedRows of pipeline.rs).                                   *)
(***************************************************************************)
THEOREM StreamedRowsStand == Spec => []DeliveredRowsStand
<1>1. SearchInv => DeliveredRowsStand
  BY DEF SearchInv
<1> QED
  BY <1>1, SearchIsSound, PTL

(***************************************************************************)
(* A plan that streams hides no error of a predicate, however early it     *)
(* applies it and wherever it stops: none of the predicates of the search  *)
(* can fail, on any binding of the exported names (materialization_reason  *)
(* of plan.rs asks this of the domains before it lets a plan stream).      *)
(***************************************************************************)
THEOREM StreamsHideNoError == Spec => [](plan.incremental => ErrorsAreNotHidden)
<1>1. SearchInv => (plan.incremental => ErrorsAreNotHidden)
  <2> SUFFICES ASSUME SearchInv, plan.incremental, phase = "done", NEW s \in Join,
                      FilterAll(query.predicates, AsBinding(s[2])) # <<>>
               PROVE  ~IsFailure(Head(FilterAll(query.predicates, AsBinding(s[2]))))
    BY DEF ErrorsAreNotHidden
  <2> DEFINE b == AsBinding(s[2])
             rows == FilterAll(query.predicates, b)
  <2>1. /\ query \in Queries /\ StaticErrors(query) = {} /\ ~MustMaterialize(query)
        /\ plan.names = CommonNames(query)
    BY DEF SearchInv, Running, SoundPlan
  <2>2. IsSequence(query.predicates)
    BY <2>1, SearchShape
  <2>3. ASSUME NEW predicate \in Elements(query.predicates) PROVE Decides(predicate, b)
    <3>1. predicate.left \in plan.names
      BY <2>1, PredicatesAreExported
    <3>2. Domain(b[predicate.left]) = ExportedDomains(query)[predicate.left]
      BY <3>1 DEF AsBinding, Domain
    <3>3. ExportedDomains(query)[predicate.left] = "Literal" => predicate.operator = "==="
      BY <2>1 DEF MustMaterialize
    <3> QED
      BY <3>2, <3>3 DEF Decides
  <2>4. ~IsFailure(b)
    <3>1. "failed" \notin plan.names
      BY <2>1, SearchShape, BranchIsSound DEF Consistent
    <3> QED
      BY <3>1 DEF AsBinding, IsFailure
  <2> HIDE DEF b
  <2>5. rows \in Seq({b})
    BY <2>1, <2>2, <2>3, <2>4, FilterAllDecides
  <2> HIDE DEF rows
  <2>6. rows # <<>> => Head(rows) = b
    BY <2>5
  <2> QED
    BY <2>4, <2>6 DEF rows, b
<1> QED
  BY <1>1, SearchIsSound, PTL

-----------------------------------------------------------------------------
(***************************************************************************)
(* The order of rows.  Every sort key is of one domain, and its values are *)
(* compared by a number or by two; that orders rows weakly, the first key  *)
(* that differs deciding, and the ordinals make it strict.                 *)
(***************************************************************************)
LEMMA TimesAreOrdered ==
    ASSUME NEW t \in Time
    PROVE  /\ KindRank(t) \in Nat /\ t.unit \in Int
           /\ \A u \in Time : KindRank(t) = KindRank(u) => t.kind = u.kind
<1>1. ASSUME NEW u \in Time
      PROVE  KindRank(u) \in 1..6 /\ KindOrder[KindRank(u)] = u.kind /\ u.unit \in Int
  <2>1. \E i \in DOMAIN KindOrder : KindOrder[i] = u.kind
    <3>1. CASE u \in {BeginningOfTime, EndOfTime}
      <4>1. KindOrder[1] = "BeginningOfTime" /\ KindOrder[2] = "EndOfTime"
            /\ {1, 2} \subseteq DOMAIN KindOrder
        BY DEF KindOrder
      <4> QED
        BY <3>1, <4>1 DEF BeginningOfTime, EndOfTime
    <3>2. CASE u \in Concrete
      <4>1. u.kind \in Kinds
        BY <3>2 DEF Concrete
      <4> QED
        BY <4>1, KindsAssumption DEF Elements
    <3> QED
      BY <3>1, <3>2 DEF Time
  <2>2. DOMAIN KindOrder = 1..6
    BY DEF KindOrder
  <2>3. u.unit \in Int
    BY DEF Time, Concrete, BeginningOfTime, EndOfTime
  <2> QED
    BY <2>1, <2>2, <2>3 DEF KindRank
<1> QED
  BY <1>1

\* A value in the order of its domain, most significant number first.
Major(v) ==
    CASE Domain(v) = "Literal" -> Content(v).amount
      [] Domain(v) = "Time" -> KindRank(Content(v))
      [] Domain(v) \in IdentityDomains \cup {"Role"} -> Content(v)
      [] OTHER -> 0

Minor(v) == IF Domain(v) = "Time" THEN Content(v).unit ELSE 0

LEMMA ValuesAreOrdered ==
    ASSUME posits \in Databases, NEW v \in Values, NEW w \in Values, Domain(v) = Domain(w)
    PROVE  /\ {Major(v), Minor(v), Major(w), Minor(w)} \subseteq Int
           /\ ValueBefore(v, w) <=>
                 Major(v) < Major(w) \/ (Major(v) = Major(w) /\ Minor(v) < Minor(w))
<1>1. ASSUME NEW u \in Values
      PROVE  /\ Domain(u) \in IdentityDomains \cup {"Role"} => Content(u) \in Int
             /\ Domain(u) = "Literal" => Content(u).amount \in Int
             /\ Domain(u) = "Time" => Content(u) \in Time
  BY DatabasesAssumption DEF Values, Domain, Content
<1>2. ASSUME NEW u \in Values PROVE Major(u) \in Int /\ Minor(u) \in Int
  <2>1. CASE Domain(u) = "Time"
    BY <1>1, <2>1, TimesAreOrdered DEF Major, Minor, IdentityDomains
  <2>2. CASE Domain(u) = "Literal"
    BY <1>1, <2>2 DEF Major, Minor, IdentityDomains
  <2>3. CASE Domain(u) \in IdentityDomains \cup {"Role"}
    BY <1>1, <2>3 DEF Major, Minor, IdentityDomains
  <2>4. CASE Domain(u) \notin IdentityDomains \cup {"Role", "Literal", "Time"}
    BY <2>4 DEF Major, Minor
  <2> QED
    BY <2>1, <2>2, <2>3, <2>4
<1>3. ValueBefore(v, w) <=>
          Major(v) < Major(w) \/ (Major(v) = Major(w) /\ Minor(v) < Minor(w))
  <2>1. CASE Domain(v) = "Time"
    <3> DEFINE t == Content(v)
               u == Content(w)
    <3>1. t \in Time /\ u \in Time
      BY <1>1, <2>1
    <3>2. /\ Major(v) = KindRank(t) /\ Major(w) = KindRank(u)
          /\ Minor(v) = t.unit /\ Minor(w) = u.unit
      BY <2>1 DEF Major, Minor, IdentityDomains
    <3>3. KindRank(t) = KindRank(u) <=> t.kind = u.kind
      BY <3>1, TimesAreOrdered DEF KindRank
    <3>4. ValueBefore(v, w) <=>
              KindRank(t) < KindRank(u) \/ (t.kind = u.kind /\ t.unit < u.unit)
      BY <2>1 DEF ValueBefore, IdentityDomains
    <3> QED
      BY <3>2, <3>3, <3>4
  <2>2. CASE Domain(v) = "Literal"
    BY <1>2, <2>2 DEF ValueBefore, Major, Minor, IdentityDomains
  <2>3. CASE Domain(v) \in IdentityDomains \cup {"Role"}
    BY <1>2, <2>3 DEF ValueBefore, Major, Minor, IdentityDomains
  <2>4. CASE Domain(v) \notin IdentityDomains \cup {"Role", "Literal", "Time"}
    BY <2>4 DEF ValueBefore, Major, Minor
  <2> QED
    BY <2>1, <2>2, <2>3, <2>4
<1> QED
  BY <1>2, <1>3

\* ORDER BY names what is exported; `prepare` has checked it.
LEMMA KeysAreExported ==
    ASSUME NEW q \in Queries, StaticErrors(q) = {}
    PROVE  /\ \A k \in DOMAIN q.order : q.order[k].variable \in CommonNames(q)
           /\ DOMAIN q.order \subseteq Nat \ {0}
           /\ \A k \in DOMAIN q.order : 1..k \subseteq DOMAIN q.order
<1>1. ResultErrors(q) = {}
  <2> DEFINE errors == ResultErrors(q)
  <2>1. \E branches, schema, blocks, predicates :
            StaticErrors(q) = IF branches # {} THEN branches
                              ELSE IF schema # {} THEN schema
                              ELSE blocks \cup predicates \cup errors
    BY DEF StaticErrors
  <2> HIDE DEF errors
  <2> QED
    BY <2>1 DEF errors
<1>2. {item.variable : item \in Elements(q.order)} \subseteq CommonNames(q)
  BY <1>1 DEF ResultErrors
<1>3. q.order \in Seq(Elements(q.order))
  BY QueriesAssumption DEF IsSequence
<1>4. DOMAIN q.order = 1..Len(q.order) /\ Len(q.order) \in Nat
  BY <1>3
<1> QED
  BY <1>2, <1>4 DEF Elements

LEMMA KeysAreOrdered ==
    ASSUME posits \in Databases, query \in Queries, StaticErrors(query) = {}, NEW k \in Keys,
           NEW b \in Answers, NEW c \in Answers, NEW d \in Answers
    PROVE  /\ KeyBefore(k, b, c) => ~KeyBefore(k, c, b)
           /\ KeyBefore(k, b, d) => KeyBefore(k, b, c) \/ KeyBefore(k, c, d)
<1> DEFINE name == query.order[k].variable
<1>1. name \in CommonNames(query)
  BY KeysAreExported DEF Keys
<1> DEFINE v(e) == Major(e[name])
           u(e) == Minor(e[name])
<1>2. ASSUME NEW x \in Answers
      PROVE  x[name] \in Values /\ Domain(x[name]) = ExportedDomains(query)[name]
  <2>1. name \in DOMAIN x /\ Domain(x[name]) = ExportedDomains(query)[name]
    BY <1>1, AnswersAreProper
  <2>2. \A other \in DOMAIN x : x[other] \in Values
    BY BoundIsTyped DEF Answers
  <2> HIDE DEF name
  <2> QED
    BY <2>1, <2>2
<1>3. ASSUME NEW x \in Answers, NEW y \in Answers
      PROVE  /\ {v(x), u(x), v(y), u(y)} \subseteq Int
             /\ ValueBefore(x[name], y[name]) <=> v(x) < v(y) \/ (v(x) = v(y) /\ u(x) < u(y))
  BY <1>2, ValuesAreOrdered
<1>4. /\ KeyBefore(k, b, c) <=>
            IF query.order[k].descending
              THEN ValueBefore(c[name], b[name]) ELSE ValueBefore(b[name], c[name])
      /\ KeyBefore(k, c, b) <=>
            IF query.order[k].descending
              THEN ValueBefore(b[name], c[name]) ELSE ValueBefore(c[name], b[name])
      /\ KeyBefore(k, b, d) <=>
            IF query.order[k].descending
              THEN ValueBefore(d[name], b[name]) ELSE ValueBefore(b[name], d[name])
      /\ KeyBefore(k, c, d) <=>
            IF query.order[k].descending
              THEN ValueBefore(d[name], c[name]) ELSE ValueBefore(c[name], d[name])
  BY DEF KeyBefore
<1> HIDE DEF v, u, name
<1>5. {v(b), u(b), v(c), u(c), v(d), u(d)} \subseteq Int
  BY <1>3
<1>6. CASE query.order[k].descending
  BY <1>3, <1>4, <1>5, <1>6
<1>7. CASE ~query.order[k].descending
  BY <1>3, <1>4, <1>5, <1>7
<1> QED
  BY <1>6, <1>7

LEMMA OrderIsWeak ==
    ASSUME posits \in Databases, query \in Queries, StaticErrors(query) = {},
           NEW b \in Answers, NEW c \in Answers, NEW d \in Answers
    PROVE  /\ OrderBefore(b, c) => ~OrderBefore(c, b)
           /\ OrderBefore(b, d) => OrderBefore(b, c) \/ OrderBefore(c, d)
<1>1. /\ Keys \subseteq Nat \ {0}
      /\ \A k \in Keys : 1..k - 1 \subseteq Keys
  <2>1. \A k \in Keys : 1..k \subseteq Keys /\ k \in Nat \ {0}
    BY KeysAreExported DEF Keys
  <2> QED
    BY <2>1
<1> DEFINE Least(k, x, y) ==
             KeyBefore(k, x, y) /\ \A j \in 1..k - 1 : ~KeyBefore(j, x, y) /\ ~KeyBefore(j, y, x)
<1>2. /\ OrderBefore(b, c) <=> \E k \in Keys : Least(k, b, c)
      /\ OrderBefore(c, b) <=> \E k \in Keys : Least(k, c, b)
      /\ OrderBefore(c, d) <=> \E k \in Keys : Least(k, c, d)
      /\ OrderBefore(b, d) <=> \E k \in Keys : Least(k, b, d)
  BY DEF OrderBefore
<1>3. ASSUME OrderBefore(b, c), OrderBefore(c, b) PROVE FALSE
  <2>1. PICK k \in Keys : Least(k, b, c)
    BY <1>2, <1>3
  <2>2. PICK j \in Keys : Least(j, c, b)
    BY <1>2, <1>3
  <2>3. j \in 1..k - 1 \/ k \in 1..j - 1 \/ j = k
    BY <1>1
  <2> QED
    BY <2>1, <2>2, <2>3, KeysAreOrdered
<1>4. ASSUME OrderBefore(b, d) PROVE OrderBefore(b, c) \/ OrderBefore(c, d)
  <2>1. PICK k \in Keys : Least(k, b, d)
    BY <1>2, <1>4
  <2> DEFINE Differ(j) == \/ KeyBefore(j, b, c) \/ KeyBefore(j, c, b)
                          \/ KeyBefore(j, c, d) \/ KeyBefore(j, d, c)
             Differing == {j \in Keys : Differ(j)}
  <2>2. k \in Differing
    BY <2>1, KeysAreOrdered
  <2>3. Differing \in SUBSET Nat
    BY <1>1
  <2>4. PICK j \in Differing : \A i \in Differing : j <= i
    BY <2>2, <2>3, LeastNumber
  <2>5. j \in Keys /\ j \in Nat /\ j <= k /\ k \in Nat
    BY <1>1, <2>2, <2>4
  <2>6. \A i \in 1..j - 1 : ~Differ(i)
    <3> SUFFICES ASSUME NEW i \in 1..j - 1, Differ(i) PROVE FALSE
      OBVIOUS
    <3>1. i \in Keys /\ i \in Nat /\ ~(j <= i)
      BY <1>1, <2>5
    <3> QED
      BY <2>4, <3>1
  <2>7. KeyBefore(j, b, c) => Least(j, b, c)
    BY <2>6
  <2>8. KeyBefore(j, c, d) => Least(j, c, d)
    BY <2>6
  <2>9. KeyBefore(j, b, c) \/ KeyBefore(j, c, d)
    <3>1. ~KeyBefore(j, d, b)
      <4>1. CASE j = k
        BY <2>1, <4>1, KeysAreOrdered
      <4>2. CASE j # k
        <5>1. j \in 1..k - 1
          BY <1>1, <2>5, <4>2
        <5> QED
          BY <2>1, <5>1
      <4> QED
        BY <4>1, <4>2
    <3>2. KeyBefore(j, d, c) => KeyBefore(j, d, b) \/ KeyBefore(j, b, c)
      BY <2>5, KeysAreOrdered
    <3>3. KeyBefore(j, c, b) => KeyBefore(j, c, d) \/ KeyBefore(j, d, b)
      BY <2>5, KeysAreOrdered
    <3>4. Differ(j)
      BY <2>4
    <3> QED
      BY <3>1, <3>2, <3>3, <3>4
  <2> QED
    BY <1>2, <2>5, <2>7, <2>8, <2>9
<1> QED
  BY <1>3, <1>4

-----------------------------------------------------------------------------
(***************************************************************************)
(* A ranking: rows with ordinals of their own, of which any two are in     *)
(* order; the place of a row is the number of rows before it.              *)
(***************************************************************************)
IsRanking(S) ==
    /\ IsFiniteSet(S)
    /\ \A r \in S : r.binding \in Answers /\ r.ordinal \in Nat
    /\ \A r, s \in S : r # s => r.ordinal # s.ordinal

Ahead(S, r) == {s \in S : RankBefore(s, r)}

Place(S, r) == Cardinality(Ahead(S, r))

LEMMA RanksAreStrict ==
    ASSUME posits \in Databases, query \in Queries, StaticErrors(query) = {},
           NEW S, IsRanking(S), NEW r \in S, NEW s \in S, NEW t \in S
    PROVE  /\ ~RankBefore(r, r)
           /\ RankBefore(r, s) /\ RankBefore(s, t) => RankBefore(r, t)
           /\ r # s => RankBefore(r, s) \/ RankBefore(s, r)
<1> DEFINE lt(x, y) == OrderBefore(x.binding, y.binding)
<1>1. \A x \in S : x.binding \in Answers /\ x.ordinal \in Nat
  BY DEF IsRanking
<1>2. ASSUME NEW x \in S, NEW y \in S, NEW z \in S
      PROVE  (lt(x, y) => ~lt(y, x)) /\ (lt(x, z) => lt(x, y) \/ lt(y, z))
  BY <1>1, OrderIsWeak
<1>3. r # s => r.ordinal # s.ordinal
  BY DEF IsRanking
<1>4. \A x, y \in S : RankBefore(x, y) <=> lt(x, y) \/ (~lt(y, x) /\ x.ordinal < y.ordinal)
  BY DEF RankBefore
<1> HIDE DEF lt
<1>5. ~RankBefore(r, r)
  BY <1>1, <1>2, <1>4
<1>6. ASSUME RankBefore(r, s), RankBefore(s, t) PROVE RankBefore(r, t)
  <2>1. CASE lt(r, s)
    <3>1. lt(r, t) \/ lt(t, s)
      BY <1>2, <2>1
    <3>2. ~lt(t, s)
      BY <1>2, <1>4, <1>6
    <3> QED
      BY <1>4, <3>1, <3>2
  <2>2. CASE ~lt(r, s) /\ lt(s, t)
    <3>1. lt(s, r) \/ lt(r, t)
      BY <1>2, <2>2
    <3>2. ~lt(s, r)
      BY <1>4, <1>6, <2>2
    <3> QED
      BY <1>4, <3>1, <3>2
  <2>3. CASE ~lt(r, s) /\ ~lt(s, t)
    <3>1. /\ ~lt(s, r) /\ ~lt(t, s) /\ r.ordinal < s.ordinal /\ s.ordinal < t.ordinal
          /\ {r.ordinal, s.ordinal, t.ordinal} \subseteq Nat
      BY <1>1, <1>4, <1>6, <2>3
    <3>2. ~lt(t, r)
      BY <1>2, <2>3, <3>1
    <3>3. r.ordinal < t.ordinal
      BY <3>1
    <3> QED
      BY <1>4, <3>2, <3>3
  <2> QED
    BY <2>1, <2>2, <2>3
<1>7. r # s => RankBefore(r, s) \/ RankBefore(s, r)
  <2>1. r # s => r.ordinal < s.ordinal \/ s.ordinal < r.ordinal
    BY <1>1, <1>3
  <2> QED
    BY <1>4, <2>1
<1> QED
  BY <1>5, <1>6, <1>7

LEMMA PlacesGrow ==
    ASSUME posits \in Databases, query \in Queries, StaticErrors(query) = {},
           NEW S, IsRanking(S), NEW r \in S
    PROVE  /\ IsFiniteSet(Ahead(S, r)) /\ Place(S, r) \in 0..Cardinality(S) - 1
           /\ \A s \in S : RankBefore(r, s) =>
                 Ahead(S, r) \subseteq Ahead(S, s) /\ Place(S, r) < Place(S, s)
<1>0. IsFiniteSet(S)
  BY DEF IsRanking
<1>1. ASSUME NEW s \in S
      PROVE  IsFiniteSet(Ahead(S, s)) /\ Cardinality(Ahead(S, s)) \in Nat
  <2>1. Ahead(S, s) \subseteq S
    BY DEF Ahead
  <2> QED
    BY <1>0, <2>1, FS_Subset, FS_CardinalityType
<1>2. Cardinality(S) \in Nat
  BY <1>0, FS_CardinalityType
<1>3. Place(S, r) < Cardinality(S)
  <2>1. Ahead(S, r) \subseteq S /\ r \notin Ahead(S, r)
    BY RanksAreStrict DEF Ahead
  <2>2. Cardinality(Ahead(S, r)) <= Cardinality(S)
        /\ Cardinality(S) # Cardinality(Ahead(S, r))
    BY <1>0, <2>1, FS_Subset
  <2> QED
    BY <1>1, <1>2, <2>2 DEF Place
<1>4. ASSUME NEW s \in S, RankBefore(r, s)
      PROVE  Ahead(S, r) \subseteq Ahead(S, s) /\ Place(S, r) < Place(S, s)
  <2>1. Ahead(S, r) \subseteq Ahead(S, s)
    BY <1>4, RanksAreStrict DEF Ahead
  <2>2. r \in Ahead(S, s) /\ r \notin Ahead(S, r)
    BY <1>4, RanksAreStrict DEF Ahead
  <2>3. /\ Cardinality(Ahead(S, r)) <= Cardinality(Ahead(S, s))
        /\ Cardinality(Ahead(S, s)) # Cardinality(Ahead(S, r))
    BY <1>1, <2>1, <2>2, FS_Subset
  <2> QED
    BY <1>1, <2>1, <2>3 DEF Place
<1>5. Place(S, r) \in Nat
  BY <1>1 DEF Place
<1> QED
  BY <1>1, <1>2, <1>3, <1>4, <1>5

LEMMA PlacesAreTaken ==
    ASSUME posits \in Databases, query \in Queries, StaticErrors(query) = {},
           NEW S, IsRanking(S)
    PROVE  /\ Cardinality(S) \in Nat
           /\ \A r, s \in S : r # s => Place(S, r) # Place(S, s)
           /\ \A k \in 1..Cardinality(S) : \E r \in S : Place(S, r) = k - 1
<1> DEFINE c == Cardinality(S)
           p == [r \in S |-> Place(S, r)]
<1>0. IsFiniteSet(S)
  BY DEF IsRanking
<1>1. c \in Nat
  BY <1>0, FS_CardinalityType
<1>2. p \in [S -> 0..c - 1]
  BY PlacesGrow
<1>3. ASSUME NEW r \in S, NEW s \in S, r # s PROVE Place(S, r) # Place(S, s)
  <2>1. RankBefore(r, s) \/ RankBefore(s, r)
    BY <1>3, RanksAreStrict
  <2>2. Place(S, r) < Place(S, s) \/ Place(S, s) < Place(S, r)
    BY <2>1, PlacesGrow
  <2>3. Place(S, r) \in Int /\ Place(S, s) \in Int
    BY <1>1, PlacesGrow
  <2> QED
    BY <2>2, <2>3
<1>4. p \in Injection(S, 0..c - 1)
  BY <1>2, <1>3 DEF Injection, IsInjective
<1>5. IsFiniteSet(0..c - 1) /\ Cardinality(0..c - 1) = c
  <2> HIDE DEF c
  <2>1. 0 \in Int /\ c - 1 \in Int
    BY <1>1
  <2>2. /\ IsFiniteSet(0..c - 1)
        /\ Cardinality(0..c - 1) = IF 0 > c - 1 THEN 0 ELSE (c - 1) - 0 + 1
    BY <2>1, FS_Interval
  <2> QED
    BY <2>2, <1>1
<1>6. p \in Surjection(S, 0..c - 1)
  BY <1>0, <1>4, <1>5, FS_Injection
<1>7. ASSUME NEW k \in 1..c PROVE \E r \in S : Place(S, r) = k - 1
  <2>1. k - 1 \in 0..c - 1
    BY <1>1
  <2>2. \E r \in S : p[r] = k - 1
    BY <2>1, <1>6 DEF Surjection
  <2> QED
    BY <2>2
<1> QED
  BY <1>1, <1>3, <1>7

\* RowsInRank: every row once, and none before one that is ahead of it.
LEMMA RowsAreListed ==
    ASSUME posits \in Databases, query \in Queries, StaticErrors(query) = {},
           NEW S, IsRanking(S)
    PROVE  /\ RowsInRank(S) \in [1..Cardinality(S) -> S] /\ RowsInRank(S) \in Seq(S)
           /\ Len(RowsInRank(S)) = Cardinality(S) /\ Cardinality(S) \in Nat
           /\ \A i \in 1..Cardinality(S) : Place(S, RowsInRank(S)[i]) = i - 1
<1> DEFINE c == Cardinality(S)
           rows == RowsInRank(S)
<1>1. c \in Nat /\ \A k \in 1..c : \E r \in S : Place(S, r) = k - 1
  BY PlacesAreTaken
<1>2. rows = [i \in 1..c |-> CHOOSE x \in S : Place(S, x) = i - 1]
  BY DEF RowsInRank, InOrder, Place, Ahead
<1>3. ASSUME NEW i \in 1..c PROVE rows[i] \in S /\ Place(S, rows[i]) = i - 1
  <2>1. rows[i] = CHOOSE x \in S : Place(S, x) = i - 1
    BY <1>2
  <2>2. \E x \in S : Place(S, x) = i - 1
    BY <1>1
  <2> QED
    BY <2>1, <2>2
<1>4. rows \in [1..c -> S]
  BY <1>2, <1>3
<1> HIDE DEF rows, c
<1>5. rows \in Seq(S) /\ Len(rows) = c
  BY <1>1, <1>4
<1> QED
  BY <1>1, <1>3, <1>4, <1>5 DEF rows, c

-----------------------------------------------------------------------------
(***************************************************************************)
(* The heap.  What it keeps of a ranking is closed under what is ahead, so *)
(* a row has the same place in it.                                         *)
(***************************************************************************)
LEMMA KeptIsClosed ==
    ASSUME posits \in Databases, query \in Queries, StaticErrors(query) = {},
           NEW S, IsRanking(S)
    PROVE  /\ Kept(S) \subseteq S /\ IsRanking(Kept(S)) /\ IsFiniteSet(Kept(S))
           /\ \A r \in S : r \in Kept(S) <=> \A limit \in query.limit : Place(S, r) <= limit
           /\ \A r \in Kept(S) : Ahead(S, r) \subseteq Kept(S) /\ Place(Kept(S), r) = Place(S, r)
<1>1. /\ Kept(S) \subseteq S
      /\ \A r \in S : r \in Kept(S) <=> \A limit \in query.limit : Place(S, r) <= limit
  BY DEF Kept, Place, Ahead
<1>2. IsFiniteSet(Kept(S)) /\ IsRanking(Kept(S))
  BY <1>1, FS_Subset DEF IsRanking
<1>3. ASSUME NEW r \in Kept(S) PROVE Ahead(S, r) \subseteq Kept(S)
  <2> SUFFICES ASSUME NEW s \in Ahead(S, r), NEW limit \in query.limit
               PROVE  Place(S, s) <= limit
    BY <1>1 DEF Ahead
  <2>1. s \in S /\ r \in S /\ RankBefore(s, r)
    BY <1>1 DEF Ahead
  <2>2. Cardinality(S) \in Nat /\ limit \in Nat
    BY QueriesAssumption, PlacesAreTaken
  <2>3. Place(S, s) < Place(S, r) /\ Place(S, s) \in Nat /\ Place(S, r) \in Nat
    BY <2>1, <2>2, PlacesGrow
  <2>4. Place(S, r) <= limit
    BY <1>1, <2>1
  <2> QED
    BY <2>2, <2>3, <2>4
<1>4. ASSUME NEW r \in Kept(S) PROVE Ahead(Kept(S), r) = Ahead(S, r)
  BY <1>1, <1>3 DEF Ahead
<1> QED
  BY <1>1, <1>2, <1>3, <1>4 DEF Place

(***************************************************************************)
(* The heap is right to forget a row: whatever rows come later, the rows   *)
(* it keeps are those it would keep if it had never dropped one            *)
(* (OrderedRows::push of pipeline.rs).                                     *)
(***************************************************************************)
THEOREM HeapKeepsTheFirst ==
    ASSUME posits \in Databases, query \in Queries, StaticErrors(query) = {},
           NEW S, NEW r, IsRanking(S \cup {r})
    PROVE  Kept(Kept(S) \cup {r}) = Kept(S \cup {r})
<1> DEFINE T == S \cup {r}
           K == Kept(S) \cup {r}
<1>1. IsRanking(T) /\ IsRanking(S) /\ IsRanking(K) /\ Kept(S) \subseteq S /\ K \subseteq T
  <2>1. IsFiniteSet(S)
    BY FS_Subset DEF IsRanking
  <2>2. IsRanking(S)
    BY <2>1 DEF IsRanking
  <2>3. Kept(S) \subseteq S
    BY <2>2, KeptIsClosed
  <2>4. IsFiniteSet(K)
    BY <2>3, FS_Subset DEF IsRanking
  <2>5. IsRanking(K)
    BY <2>3, <2>4 DEF IsRanking
  <2> QED
    BY <2>2, <2>3, <2>5
<1>2. ASSUME NEW A, NEW B, A \subseteq B, IsRanking(B), IsRanking(A), NEW x \in A
      PROVE  Place(A, x) <= Place(B, x) /\ Place(A, x) \in Nat /\ Place(B, x) \in Nat
  <2>1. IsFiniteSet(Ahead(B, x)) /\ Ahead(A, x) \subseteq Ahead(B, x)
    BY <1>2, PlacesGrow DEF Ahead
  <2>2. Cardinality(A) \in Nat /\ Cardinality(B) \in Nat
    BY <1>2, PlacesAreTaken
  <2>3. Place(A, x) \in Nat /\ Place(B, x) \in Nat
    BY <1>2, <2>2, PlacesGrow
  <2> QED
    BY <2>1, <2>3, FS_Subset DEF Place
<1>3. \A limit \in query.limit : limit \in Nat
  BY QueriesAssumption
<1> HIDE DEF T, K
<1>4. ASSUME NEW x \in Kept(T) PROVE x \in Kept(K)
  <2>1. x \in T /\ \A limit \in query.limit : Place(T, x) <= limit
    BY <1>1, KeptIsClosed
  <2>2. x \in K
    <3>1. CASE x = r
      BY <3>1 DEF K
    <3>2. CASE x # r
      <4>1. x \in S /\ S \subseteq T
        BY <2>1, <3>2 DEF T
      <4>2. \A limit \in query.limit : Place(S, x) <= limit
        BY <1>1, <1>2, <1>3, <2>1, <4>1
      <4> QED
        BY <1>1, <4>1, <4>2, KeptIsClosed DEF K
    <3> QED
      BY <3>1, <3>2
  <2>3. \A limit \in query.limit : Place(K, x) <= limit
    BY <1>1, <1>2, <1>3, <2>1, <2>2
  <2> QED
    BY <1>1, <2>2, <2>3, KeptIsClosed
<1>5. ASSUME NEW x \in Kept(K) PROVE x \in Kept(T)
  <2>1. x \in K /\ x \in T /\ \A limit \in query.limit : Place(K, x) <= limit
    BY <1>1, KeptIsClosed
  <2>2. Ahead(T, x) \subseteq Ahead(K, x)
    <3> SUFFICES ASSUME NEW y \in Ahead(T, x), y \notin K PROVE FALSE
      BY DEF Ahead
    <3> DEFINE Lost == {z \in S : z \notin Kept(S) /\ RankBefore(z, x)}
               places == {Place(S, z) : z \in Lost}
    <3>1. y \in Lost
      BY DEF Ahead, T, K
    <3>2. \A z \in S : Place(S, z) \in Nat
      BY <1>1, <1>2
    <3>3. places # {} /\ places \in SUBSET Nat
      BY <3>1, <3>2
    <3>4. PICK n \in places : \A m \in places : n <= m
      <4> HIDE DEF places
      <4> QED
        BY <3>3, LeastNumber
    <3>5. PICK z \in Lost : \A w \in Lost : Place(S, z) <= Place(S, w)
      BY <3>4
    <3>6. z \in S /\ z \in T /\ z \notin Kept(S) /\ RankBefore(z, x)
      BY <3>5 DEF T
    <3>7. PICK limit \in query.limit : ~(Place(S, z) <= limit)
      BY <1>1, <3>6, KeptIsClosed
    <3>8. Ahead(S, z) \subseteq Ahead(K, x)
      <4> SUFFICES ASSUME NEW w \in Ahead(S, z) PROVE w \in Ahead(K, x)
        OBVIOUS
      <4>1. w \in S /\ w \in T /\ RankBefore(w, z)
        BY DEF Ahead, T
      <4>2. RankBefore(w, x)
        BY <1>1, <2>1, <3>6, <4>1, RanksAreStrict
      <4>3. Place(S, w) < Place(S, z) /\ Place(S, w) \in Nat /\ Place(S, z) \in Nat
        BY <1>1, <3>2, <3>6, <4>1, PlacesGrow
      <4>4. w \notin Lost
        BY <3>5, <4>3
      <4> QED
        BY <4>1, <4>2, <4>4 DEF Ahead, K
    <3>9. Place(S, z) <= Place(K, x)
      <4>1. IsFiniteSet(Ahead(K, x))
        BY <1>1, <2>1, PlacesGrow
      <4> QED
        BY <3>8, <4>1, FS_Subset DEF Place
    <3>10. Place(S, z) \in Nat /\ Place(K, x) \in Nat /\ limit \in Nat /\ Place(K, x) <= limit
      BY <1>1, <1>2, <1>3, <2>1, <3>2, <3>6
    <3> QED
      BY <3>7, <3>9, <3>10
  <2>3. Ahead(T, x) = Ahead(K, x)
    BY <1>1, <2>2 DEF Ahead
  <2> QED
    BY <1>1, <2>1, <2>3, KeptIsClosed DEF Place
<1>6. Kept(K) = Kept(T)
  BY <1>4, <1>5
<1> QED
  BY <1>6 DEF K, T

(***************************************************************************)
(* And the rows it keeps are delivered as the whole ranking would be: they *)
(* are its first rows in its order, one more than the limit if there are   *)
(* that many (the lookahead by which `limited` is known).                  *)
(***************************************************************************)
THEOREM HeapIsAPrefix ==
    ASSUME posits \in Databases, query \in Queries, StaticErrors(query) = {},
           NEW S, IsRanking(S)
    PROVE  /\ \A i \in DOMAIN RowsInRank(Kept(S)) :
                 i \in DOMAIN RowsInRank(S) /\ RowsInRank(Kept(S))[i] = RowsInRank(S)[i]
           /\ \A limit \in query.limit :
                 /\ Cardinality(Kept(S)) <= limit + 1
                 /\ Cardinality(Kept(S)) < limit + 1 => Kept(S) = S
           /\ query.limit = {} => Kept(S) = S
<1> DEFINE c == Cardinality(S)
           k == Cardinality(Kept(S))
<1>1. /\ Kept(S) \subseteq S /\ IsRanking(Kept(S))
      /\ \A r \in S : r \in Kept(S) <=> \A limit \in query.limit : Place(S, r) <= limit
      /\ \A r \in Kept(S) : Place(Kept(S), r) = Place(S, r)
  BY KeptIsClosed
<1>2. c \in Nat /\ k \in Nat /\ k <= c
  BY <1>1, PlacesAreTaken, FS_Subset DEF IsRanking
<1>3. ASSUME NEW i \in DOMAIN RowsInRank(Kept(S))
      PROVE  i \in DOMAIN RowsInRank(S) /\ RowsInRank(Kept(S))[i] = RowsInRank(S)[i]
  <2>1. i \in 1..k /\ RowsInRank(Kept(S))[i] \in Kept(S)
        /\ Place(Kept(S), RowsInRank(Kept(S))[i]) = i - 1
    BY <1>1, RowsAreListed
  <2>2. i \in 1..c
    BY <1>2, <2>1
  <2>3. DOMAIN RowsInRank(S) = 1..c /\ RowsInRank(S)[i] \in S /\ Place(S, RowsInRank(S)[i]) = i - 1
    BY <2>2, RowsAreListed
  <2>4. Place(S, RowsInRank(Kept(S))[i]) = i - 1 /\ RowsInRank(Kept(S))[i] \in S
    BY <1>1, <2>1
  <2> QED
    BY <2>2, <2>3, <2>4, PlacesAreTaken
<1>4. ASSUME NEW limit \in query.limit
      PROVE  k <= limit + 1 /\ (k < limit + 1 => Kept(S) = S)
  <2>1. limit \in Nat /\ \A other \in query.limit : other = limit
    BY QueriesAssumption
  <2>2. ASSUME k > limit + 1 PROVE FALSE
    <3>1. k \in 1..k
      BY <1>2, <2>1, <2>2
    <3>2. PICK r \in Kept(S) : Place(Kept(S), r) = k - 1
      BY <1>1, <3>1, PlacesAreTaken
    <3>3. k - 1 <= limit
      BY <1>1, <3>2
    <3> QED
      BY <1>2, <2>1, <2>2, <3>3
  <2>3. ASSUME k < limit + 1, NEW r \in S, r \notin Kept(S) PROVE FALSE
    <3>1. ~(Place(S, r) <= limit)
      BY <1>1, <2>1, <2>3
    <3>2. Place(S, r) \in 0..c - 1
      BY <2>3, PlacesGrow
    <3>3. limit + 1 \in 1..c /\ (limit + 1) - 1 = limit
      BY <1>2, <2>1, <3>1, <3>2
    <3>4. PICK t \in S : Place(S, t) = limit
      BY <3>3, PlacesAreTaken
    <3>5. t \in Kept(S)
      BY <1>1, <2>1, <3>4
    <3>6. Place(Kept(S), t) = limit /\ Place(Kept(S), t) \in 0..k - 1
      BY <1>1, <3>4, <3>5, PlacesGrow
    <3> QED
      BY <1>2, <2>1, <2>3, <3>6
  <2>4. k < limit + 1 => Kept(S) = S
    BY <1>1, <2>3
  <2> HIDE DEF k
  <2> QED
    BY <1>2, <2>1, <2>2, <2>4
<1>5. query.limit = {} => Kept(S) = S
  BY <1>1
<1> QED
  BY <1>3, <1>4, <1>5

-----------------------------------------------------------------------------
(***************************************************************************)
(* What is ranked, listed and delivered, step by step: the heap is a       *)
(* ranking within its bound, a complete relation is in order, and under    *)
(* DISTINCT no row is delivered that was already.                          *)
(***************************************************************************)
Once(rows) == \A i, j \in DOMAIN rows : rows[i] = rows[j] => i = j

IsListed(rows) ==
    /\ rows \in Seq(Elements(rows))
    /\ \A i, j \in DOMAIN rows : i < j => RankBefore(rows[i], rows[j])

RowsDiffer(rows, taken) ==
    \A i \in DOMAIN rows :
        /\ rows[i].row \notin Elements(taken)
        /\ \A j \in DOMAIN rows : rows[i].row = rows[j].row => i = j

HeapInv ==
    /\ ordinal \in Nat /\ IsRanking(ranked)
    /\ \A r \in ranked : r.ordinal < ordinal
    /\ \A limit \in query.limit : Cardinality(ranked) <= limit + 1
    /\ query.distinct =>
          \A r \in ranked : r.row \in seen /\ \A s \in ranked : r.row = s.row => r = s

DeliveryInv ==
    /\ HeapInv
    /\ delivered \in Seq(Elements(delivered))
    /\ phase \in {"announce", "deliver"} => IsListed(relation)
    /\ query.distinct =>
          /\ Once(delivered)
          /\ phase = "visit" => Elements(delivered) \subseteq seen
          /\ phase \in {"announce", "deliver"} => RowsDiffer(relation, delivered)

LEMMA SameRanks ==
    ASSUME posits' = posits, query' = query
    PROVE  /\ \A S : IsRanking(S)' <=> IsRanking(S)
           /\ IsRanking(ranked') => IsRanking(ranked)'
           /\ IsListed(relation') => IsListed(relation)'
<1>1. Answers' = Answers
  BY SameSearch
<1>2. ASSUME NEW r, NEW s PROVE RankBefore(r, s)' <=> RankBefore(r, s)
  BY DEF RankBefore, OrderBefore, KeyBefore, Keys, ValueBefore
<1>3. \A S : IsRanking(S)' <=> IsRanking(S)
  BY <1>1 DEF IsRanking
<1>4. IsRanking(ranked') => IsRanking(ranked)'
  BY <1>1 DEF IsRanking
<1>5. IsListed(relation') => IsListed(relation)'
  BY <1>2 DEF IsListed
<1> QED
  BY <1>3, <1>4, <1>5

\* A step that ranks nothing leaves the heap as it is.
LEMMA HeapStays ==
    ASSUME HeapInv, UNCHANGED <<posits, query, ranked, ordinal>>, seen \subseteq seen'
    PROVE  HeapInv'
<1>1. IsRanking(ranked)'
  <2>1. IsRanking(ranked')
    BY DEF HeapInv
  <2> QED
    BY <2>1, SameRanks
<1> QED
  BY <1>1 DEF HeapInv

\* Neither does it deliver anything, unless it is told to.
LEMMA QuietKeeps ==
    ASSUME DeliveryInv, UNCHANGED <<posits, query, seen, ranked, ordinal, delivered>>,
           phase' \in {"announce", "deliver"} =>
               phase \in {"announce", "deliver"} /\ relation' = relation,
           phase' = "visit" => phase = "visit" \/ delivered = <<>>
    PROVE  DeliveryInv'
<1>1. HeapInv'
  BY HeapStays DEF DeliveryInv
<1>2. phase' \in {"announce", "deliver"} => IsListed(relation)'
  <2>1. phase' \in {"announce", "deliver"} => IsListed(relation')
    BY DEF DeliveryInv
  <2> QED
    BY <2>1, SameRanks
<1>3. delivered = <<>> => Elements(delivered) = {}
  BY DEF Elements
<1> QED
  BY <1>1, <1>2, <1>3 DEF DeliveryInv, Once, RowsDiffer, Elements

LEMMA RankedIsListed ==
    ASSUME posits \in Databases, query \in Queries, StaticErrors(query) = {},
           NEW S, IsRanking(S)
    PROVE  /\ IsListed(RowsInRank(S))
           /\ (\A r, s \in S : r.row = s.row => r = s) => RowsDiffer(RowsInRank(S), <<>>)
<1> DEFINE rows == RowsInRank(S)
<1>1. /\ rows \in Seq(S) /\ DOMAIN rows = 1..Len(rows) /\ Len(rows) \in Nat
      /\ \A i \in DOMAIN rows : rows[i] \in S /\ Place(S, rows[i]) = i - 1
  BY RowsAreListed
<1> HIDE DEF rows
<1>2. rows \in Seq(Elements(rows))
  BY <1>1, SequenceShape DEF IsSequence
<1>3. ASSUME NEW i \in DOMAIN rows, NEW j \in DOMAIN rows, i < j
      PROVE  RankBefore(rows[i], rows[j])
  <2>1. i \in Nat /\ j \in Nat /\ Place(S, rows[i]) = i - 1 /\ Place(S, rows[j]) = j - 1
    BY <1>1
  <2>2. rows[i] # rows[j] /\ ~(Place(S, rows[j]) < Place(S, rows[i]))
    BY <1>3, <2>1
  <2>3. RankBefore(rows[i], rows[j]) \/ RankBefore(rows[j], rows[i])
    BY <1>1, <2>2, RanksAreStrict
  <2> QED
    BY <1>1, <2>2, <2>3, PlacesGrow
<1>4. ASSUME \A r, s \in S : r.row = s.row => r = s PROVE RowsDiffer(rows, <<>>)
  <2>1. ASSUME NEW i \in DOMAIN rows, NEW j \in DOMAIN rows, rows[i].row = rows[j].row
        PROVE  i = j
    <3>1. rows[i] = rows[j] /\ i \in Nat /\ j \in Nat
      BY <1>1, <1>4, <2>1
    <3>2. i - 1 = j - 1
      BY <1>1, <3>1
    <3> QED
      BY <3>1, <3>2
  <2> QED
    BY <2>1 DEF RowsDiffer, Elements
<1> QED
  BY <1>2, <1>3, <1>4 DEF IsListed, rows

\* A complete relation is announced before any row is out.
LEMMA AnnouncesListed ==
    ASSUME SearchInv, DeliveryInv, phase \in Running, delivered = <<>>,
           UNCHANGED <<posits, query, seen, ranked, ordinal, delivered>>, phase' = "announce",
           NEW S, IsRanking(S), relation' = RowsInRank(S),
           query.distinct => \A r, s \in S : r.row = s.row => r = s
    PROVE  DeliveryInv'
<1>1. HeapInv'
  BY HeapStays DEF DeliveryInv
<1>2. /\ IsListed(relation')
      /\ query.distinct => RowsDiffer(relation', delivered')
  BY Relating, RankedIsListed
<1>3. IsListed(relation)'
  BY <1>2, SameRanks
<1> QED
  BY <1>1, <1>2, <1>3 DEF DeliveryInv, Once, RowsDiffer, Elements

LEMMA PushDelivers ==
    ASSUME delivered \in Seq(Elements(delivered)), NEW row, NEW after, Push(row, after),
           query.distinct => Once(delivered) /\ row \notin Elements(delivered)
    PROVE  /\ delivered' \in Seq(Elements(delivered'))
           /\ Elements(delivered') \subseteq Elements(delivered) \cup {row}
           /\ query.distinct => Once(delivered')
           /\ phase' \in {after, "done"}
<1>1. CASE delivered' = delivered
  BY <1>1 DEF Push, StopAt
<1>2. CASE delivered' = Append(delivered, row)
  <2> DEFINE n == Len(delivered)
             T == Elements(delivered) \cup {row}
  <2>1. delivered \in Seq(T) /\ row \in T /\ n \in Nat /\ DOMAIN delivered = 1..n
    OBVIOUS
  <2> HIDE DEF T
  <2>2. /\ delivered' \in Seq(T) /\ Len(delivered') = n + 1 /\ DOMAIN delivered' = 1..n + 1
        /\ delivered'[n + 1] = row
        /\ \A i \in 1..n : delivered'[i] = delivered[i]
    BY <1>2, <2>1
  <2>3. delivered' = [i \in 1..Len(delivered') |-> delivered'[i]] /\ Len(delivered') \in Nat
    BY <2>1, <2>2
  <2>4. delivered' \in Seq(Elements(delivered'))
    BY <2>3, SequenceShape DEF IsSequence
  <2>5. Elements(delivered') \subseteq Elements(delivered) \cup {row}
    BY <2>1, <2>2 DEF Elements
  <2>6. ASSUME query.distinct PROVE Once(delivered')
    <3>1. \A i \in 1..n : delivered[i] # row
      BY <2>1, <2>6 DEF Elements
    <3>2. \A i \in 1..n + 1 : i \in 1..n \/ i = n + 1
      BY <2>1
    <3> QED
      BY <2>1, <2>2, <2>6, <3>1, <3>2 DEF Once
  <2> QED
    BY <2>4, <2>5, <2>6 DEF Push, StopAt
<1> QED
  BY <1>1, <1>2 DEF Push

-----------------------------------------------------------------------------
LEMMA RankKeeps ==
    ASSUME SearchInv, DeliveryInv, phase = "visit", Sorted, NEW b \in Answers, NEW row,
           Rank(b, row), query.distinct => row \notin seen
    PROVE  DeliveryInv'
<1> DEFINE new == [binding |-> b, row |-> row, ordinal |-> ordinal]
           S == ranked \cup {new}
<1>1. CASE \E k \in Keys : ~MaySort(families[k], KeyFamily(k, b))
  <2>1. /\ UNCHANGED <<posits, query, seen, ranked, ordinal, delivered>>
        /\ phase' = "failed"
    BY <1>1 DEF Rank, Fail, walk
  <2> QED
    BY <2>1, QuietKeeps
<1>2. CASE ~ \E k \in Keys : ~MaySort(families[k], KeyFamily(k, b))
  <2>1. /\ ranked' = Kept(S) /\ ordinal' = ordinal + 1
        /\ seen' = IF query.distinct THEN seen \cup {row} ELSE seen
        /\ UNCHANGED <<posits, query, phase, delivered>>
    BY <1>2 DEF Rank
  <2>2. posits \in Databases /\ query \in Queries /\ StaticErrors(query) = {} /\ delivered = <<>>
    BY Walking DEF SearchInv, Delivering
  <2>3. /\ ordinal \in Nat /\ IsRanking(ranked) /\ \A r \in ranked : r.ordinal < ordinal
        /\ query.distinct =>
              \A r \in ranked : r.row \in seen /\ \A s \in ranked : r.row = s.row => r = s
    BY DEF DeliveryInv, HeapInv
  <2>4. new.binding = b /\ new.row = row /\ new.ordinal = ordinal
    OBVIOUS
  <2> HIDE DEF new
  <2>5. IsRanking(S)
    <3>1. IsFiniteSet(S)
      BY <2>3, FS_AddElement DEF IsRanking
    <3>2. \A r \in S : r.binding \in Answers /\ r.ordinal \in Nat
      BY <2>3, <2>4 DEF IsRanking
    <3>3. ASSUME NEW r \in ranked PROVE r.ordinal # new.ordinal
      BY <2>3, <2>4 DEF IsRanking
    <3>4. \A r, s \in S : r # s => r.ordinal # s.ordinal
      BY <2>3, <3>3 DEF IsRanking
    <3> QED
      BY <3>1, <3>2, <3>4 DEF IsRanking
  <2>6. Kept(S) \subseteq S /\ IsRanking(Kept(S))
    BY <2>2, <2>5, KeptIsClosed
  <2>7. \A limit \in query.limit : Cardinality(Kept(S)) <= limit + 1
    BY <2>2, <2>5, HeapIsAPrefix
  <2>8. ordinal + 1 \in Nat /\ \A r \in S : r.ordinal < ordinal + 1
    <3>1. ASSUME NEW r \in S PROVE r.ordinal < ordinal + 1
      <4>1. CASE r = new
        BY <2>3, <2>4, <4>1
      <4>2. CASE r # new
        <5>1. r.ordinal < ordinal /\ r.ordinal \in Nat
          BY <2>3, <4>2 DEF IsRanking
        <5> QED
          BY <2>3, <5>1
      <4> QED
        BY <4>1, <4>2
    <3> QED
      BY <2>3, <3>1
  <2>9. query.distinct =>
            \A r \in S : r.row \in seen \cup {row} /\ \A s \in S : r.row = s.row => r = s
    BY <2>3, <2>4
  <2>10. IsRanking(ranked)'
    BY <2>1, <2>6, SameRanks
  <2> HIDE DEF S
  <2>11. HeapInv'
    BY <2>1, <2>6, <2>7, <2>8, <2>9, <2>10 DEF HeapInv
  <2> QED
    BY <2>1, <2>2, <2>11 DEF DeliveryInv, Once, Elements
<1> QED
  BY <1>1, <1>2

LEMMA EmitDelivers ==
    ASSUME SearchInv, DeliveryInv, Emit PROVE DeliveryInv'
<1> DEFINE b == Exported(Head(Top.matches))
           row == Projected(b)
           witnesses == Witnesses(b)
<1>1. /\ TakesMatch /\ ~IsFailure(Head(Top.matches)) /\ Len(frames) = Len(Patterns)
      /\ EmitUnless(witnesses, b, row)
  BY DEF Emit, MatchSurvives, IsLastPattern
<1>2. phase = "visit" /\ b \in Answers
  BY <1>1, EmittedIsAnswer
<1> HIDE DEF b, row, witnesses
<1>3. CASE witnesses # <<>> \/ ~HasReturn \/ (query.distinct /\ row \in seen)
  <2>1. /\ UNCHANGED <<posits, query, seen, ranked, ordinal, delivered>>
        /\ phase' \in {"visit", "failed"}
    BY <1>1, <1>2, <1>3 DEF EmitUnless, Fail, walk, result
  <2> QED
    BY <1>2, <2>1, QuietKeeps
<1>4. CASE ~(witnesses # <<>> \/ ~HasReturn \/ (query.distinct /\ row \in seen))
  <2>1. EmitRow(b, row)
    BY <1>1, <1>4 DEF EmitUnless
  <2>2. CASE Sorted
    BY <1>2, <1>4, <2>1, <2>2, RankKeeps DEF EmitRow
  <2>3. CASE ~Sorted
    <3>1. /\ Push(row, "visit") /\ UNCHANGED <<posits, query, ranked, ordinal>>
          /\ seen' = IF query.distinct THEN seen \cup {row} ELSE seen
      BY <2>1, <2>3 DEF EmitRow
    <3>2. query.distinct => Once(delivered) /\ row \notin Elements(delivered)
      BY <1>2, <1>4 DEF DeliveryInv
    <3>3. /\ delivered' \in Seq(Elements(delivered'))
          /\ Elements(delivered') \subseteq Elements(delivered) \cup {row}
          /\ query.distinct => Once(delivered')
          /\ phase' \in {"visit", "done"}
      BY <3>1, <3>2, PushDelivers DEF DeliveryInv
    <3>4. HeapInv'
      BY <3>1, HeapStays DEF DeliveryInv
    <3>5. query.distinct => Elements(delivered') \subseteq seen'
      BY <1>2, <3>1, <3>3 DEF DeliveryInv
    <3> QED
      BY <3>1, <3>3, <3>4, <3>5 DEF DeliveryInv, Once, Elements
  <2> QED
    BY <2>2, <2>3
<1> QED
  BY <1>3, <1>4

LEMMA EndVisitDelivers ==
    ASSUME SearchInv, DeliveryInv, EndVisit PROVE DeliveryInv'
<1>1. /\ phase = "visit" /\ phase' = IF Sorted THEN "announce" ELSE "done"
      /\ relation' = RowsInRank(ranked)
      /\ UNCHANGED <<posits, query, seen, ranked, ordinal, delivered>>
  BY DEF EndVisit, IsExhausted, result
<1>2. CASE ~Sorted
  BY <1>1, <1>2, QuietKeeps
<1>3. CASE Sorted
  <2>1. delivered = <<>>
    BY <1>1, <1>3 DEF SearchInv, Delivering
  <2>2. IsRanking(ranked) /\ (query.distinct => \A r, s \in ranked : r.row = s.row => r = s)
    BY DEF DeliveryInv, HeapInv
  <2> QED
    BY <1>1, <1>3, <2>1, <2>2, AnnouncesListed DEF Running
<1> QED
  BY <1>2, <1>3

LEMMA ProjectedIsRanking ==
    ASSUME NEW rows \in Seq(Answers)
    PROVE  /\ IsRanking(ProjectedRows(rows))
           /\ query.distinct => \A r, s \in ProjectedRows(rows) : r.row = s.row => r = s
<1> DEFINE rank(i) == [binding |-> rows[i], row |-> Projected(rows[i]), ordinal |-> i]
           n == Len(rows)
           f == [i \in 1..n |-> rank(i)]
           all == {rank(i) : i \in DOMAIN rows}
           left == ProjectedRows(rows)
<1>1. DOMAIN rows = 1..n /\ n \in Nat /\ \A i \in 1..n : rows[i] \in Answers
  OBVIOUS
<1>2. left = {r \in all : query.distinct => \A s \in all : s.row = r.row => r.ordinal <= s.ordinal}
  BY DEF ProjectedRows
<1>3. IsFiniteSet(all)
  <2>1. f \in Surjection(1..n, all)
    <3>1. f \in [1..n -> all]
      BY <1>1
    <3>2. \A r \in all : \E i \in 1..n : f[i] = r
      BY <1>1
    <3> QED
      BY <3>1, <3>2 DEF Surjection
  <2>2. IsFiniteSet(1..n)
    BY <1>1, FS_Interval
  <2> HIDE DEF f, all, n
  <2> QED
    BY <2>1, <2>2, FS_Surjection
<1>4. ASSUME NEW r \in all
      PROVE  /\ r.ordinal \in 1..n /\ r = rank(r.ordinal)
             /\ r.binding \in Answers
  <2>1. PICK i \in 1..n : r = rank(i)
    BY <1>1
  <2>2. rank(i).ordinal = i /\ rank(i).binding = rows[i]
    OBVIOUS
  <2> HIDE DEF rank
  <2> QED
    BY <1>1, <2>1, <2>2
<1> HIDE DEF rank, all, left
<1>5. left \subseteq all /\ IsFiniteSet(left)
  BY <1>2, <1>3, FS_Subset
<1>6. \A r \in left : r.ordinal \in Nat
  BY <1>1, <1>4, <1>5
<1>7. IsRanking(left)
  BY <1>4, <1>5, <1>6 DEF IsRanking
<1>8. ASSUME query.distinct, NEW r \in left, NEW s \in left, r.row = s.row PROVE r = s
  <2>1. r.ordinal <= s.ordinal /\ s.ordinal <= r.ordinal
    BY <1>2, <1>5, <1>8
  <2>2. r.ordinal = s.ordinal
    BY <1>6, <2>1
  <2> QED
    BY <1>4, <1>5, <2>2
<1> QED
  BY <1>7, <1>8 DEF left

LEMMA ProjectionDelivers ==
    ASSUME SearchInv, DeliveryInv, MaterializeProjection PROVE DeliveryInv'
<1> DEFINE ranks == ProjectedRows(relation)
<1>1. phase \in Running /\ phase \in Joining /\ delivered = <<>>
  BY DEF MaterializeProjection, SearchInv, Running, Joining, Delivering
<1>2. IsRanking(ranks) /\ (query.distinct => \A r, s \in ranks : r.row = s.row => r = s)
  BY <1>1, Relating, ProjectedIsRanking
<1>3. \/ Fail("Comparison")
      \/ /\ relation' = RowsInRank(ranks) /\ phase' = "announce"
         /\ UNCHANGED <<posits, query, seen, ranked, ordinal, delivered>>
  BY DEF MaterializeProjection, walk, result
<1> HIDE DEF ranks
<1>4. CASE Fail("Comparison")
  BY <1>4, QuietKeeps DEF Fail, walk
<1> QED
  BY <1>1, <1>2, <1>3, <1>4, AnnouncesListed

LEMMA DeliverDelivers ==
    ASSUME SearchInv, DeliveryInv, Deliver PROVE DeliveryInv'
<1> DEFINE n == Len(relation)
           row == relation[1].row
           rest == Tail(relation)
<1>1. /\ phase = "deliver" /\ relation # <<>> /\ relation' = rest /\ Push(row, "deliver")
      /\ UNCHANGED <<posits, query, seen, ranked, ordinal>>
  BY DEF Deliver, walk
<1>2. /\ relation \in Seq(Elements(relation)) /\ n \in Nat /\ DOMAIN relation = 1..n
      /\ \A i, j \in 1..n : i < j => RankBefore(relation[i], relation[j])
  <2>1. relation \in Seq(Elements(relation))
    BY <1>1 DEF DeliveryInv, IsListed
  <2>2. n \in Nat /\ DOMAIN relation = 1..n
    BY <2>1
  <2> QED
    BY <1>1, <2>1, <2>2 DEF DeliveryInv, IsListed
<1>3. n >= 1 /\ Len(rest) = n - 1 /\ rest = [i \in 1..n - 1 |-> rest[i]]
      /\ \A i \in 1..n - 1 : i + 1 \in 1..n /\ rest[i] = relation[i + 1]
  <2> DEFINE T == Elements(relation)
  <2>1. relation \in Seq(T)
    BY <1>2
  <2> HIDE DEF T
  <2>2. n >= 1 /\ rest \in Seq(T) /\ Len(rest) = n - 1
    BY <1>1, <1>2, <2>1
  <2>3. \A i \in 1..n - 1 : rest[i] = relation[i + 1]
    BY <1>1, <1>2, <2>1
  <2>4. \A i \in 1..n - 1 : i + 1 \in 1..n
    BY <1>2
  <2> HIDE DEF rest
  <2> QED
    BY <2>2, <2>3, <2>4
<1> HIDE DEF row, rest, n
<1>4. IsSequence(rest) /\ DOMAIN rest = 1..n - 1
  <2>1. n - 1 \in Nat
    BY <1>2, <1>3
  <2> QED
    BY <1>3, <2>1, SequenceShape
<1>5. IsListed(rest)
  <2>1. ASSUME NEW i \in 1..n - 1, NEW j \in 1..n - 1, i < j
        PROVE  RankBefore(rest[i], rest[j])
    <3>1. i + 1 \in 1..n /\ j + 1 \in 1..n /\ i + 1 < j + 1
      BY <1>2, <1>3, <2>1
    <3> QED
      BY <1>2, <1>3, <2>1, <3>1
  <2> QED
    BY <1>4, <2>1 DEF IsListed, IsSequence
<1>6. 1 \in DOMAIN relation
  BY <1>2, <1>3
<1>7. query.distinct =>
          /\ Once(delivered)
          /\ \A i \in 1..n : /\ relation[i].row \notin Elements(delivered)
                             /\ \A j \in 1..n : relation[i].row = relation[j].row => i = j
  BY <1>1, <1>2 DEF DeliveryInv, RowsDiffer
<1>8. /\ delivered' \in Seq(Elements(delivered'))
      /\ Elements(delivered') \subseteq Elements(delivered) \cup {row}
      /\ query.distinct => Once(delivered')
      /\ phase' \in {"deliver", "done"}
  <2>1. query.distinct => Once(delivered) /\ row \notin Elements(delivered)
    BY <1>2, <1>6, <1>7 DEF row
  <2> QED
    BY <1>1, <2>1, PushDelivers DEF DeliveryInv
<1>9. query.distinct => RowsDiffer(rest, delivered')
  <2> SUFFICES ASSUME query.distinct PROVE RowsDiffer(rest, delivered')
    OBVIOUS
  <2>1. ASSUME NEW i \in 1..n - 1
        PROVE  /\ rest[i].row \notin Elements(delivered')
               /\ \A j \in 1..n - 1 : rest[i].row = rest[j].row => i = j
    <3>1. i \in Nat /\ i + 1 \in 1..n /\ i + 1 # 1 /\ rest[i] = relation[i + 1]
      BY <1>2, <1>3
    <3>2. rest[i].row # row /\ rest[i].row \notin Elements(delivered)
      BY <1>2, <1>6, <1>7, <3>1 DEF row
    <3>3. ASSUME NEW j \in 1..n - 1, rest[i].row = rest[j].row PROVE i = j
      <4>1. j \in Nat /\ j + 1 \in 1..n /\ rest[j] = relation[j + 1]
        BY <1>2, <1>3
      <4>2. i + 1 = j + 1
        BY <1>7, <3>1, <3>3, <4>1
      <4> QED
        BY <3>1, <4>1, <4>2
    <3> QED
      BY <1>8, <3>2, <3>3
  <2> QED
    BY <1>4, <2>1 DEF RowsDiffer
<1>10. HeapInv'
  BY <1>1, HeapStays DEF DeliveryInv
<1>11. IsListed(relation)'
  BY <1>1, <1>5, SameRanks
<1> QED
  BY <1>1, <1>8, <1>9, <1>10, <1>11 DEF DeliveryInv, Once, RowsDiffer, Elements

LEMMA DeliveryInit == Init => DeliveryInv
<1> SUFFICES ASSUME Init PROVE DeliveryInv
  OBVIOUS
<1>1. ranked = {} /\ ordinal = 0 /\ delivered = <<>> /\ phase = "prepare" /\ query \in Queries
  BY DEF Init
<1>2. IsRanking({}) /\ Cardinality({}) = 0
  BY FS_EmptySet DEF IsRanking
<1>3. \A limit \in query.limit : 0 <= limit + 1
  BY <1>1, QueriesAssumption
<1>4. <<>> \in Seq(Elements(<<>>)) /\ Once(<<>>)
  BY DEF Once
<1> QED
  BY <1>1, <1>2, <1>3, <1>4 DEF DeliveryInv, HeapInv

LEMMA DeliveryIsInductive ==
    ASSUME SearchInv, DeliveryInv, [Next]_vars PROVE DeliveryInv'
<1>1. CASE Prepare \/ CompilePlan \/ StartIncremental
  <2>1. phase \in {"prepare", "compile", "start"} /\ delivered = <<>>
    BY <1>1 DEF Prepare, CompilePlan, StartIncremental, SearchInv, Delivering
  <2>2. /\ UNCHANGED <<posits, query, seen, ranked, ordinal, delivered>>
        /\ phase' \notin {"announce", "deliver"}
    BY <1>1 DEF Prepare, CompilePlan, StartIncremental, PushSchema, StopAt, Fail, walk, result
  <2> QED
    BY <2>1, <2>2, QuietKeeps
<1>2. CASE TakeCandidate \/ RefuseMatch \/ Descend \/ Return \/ NextBranch
  <2>1. /\ phase = "visit" /\ phase' \in {"visit", "failed"}
        /\ UNCHANGED <<posits, query, seen, ranked, ordinal, delivered>>
    BY <1>2 DEF TakeCandidate, RefuseMatch, Descend, Return, NextBranch, TakesMatch, MatchSurvives,
                IsExhausted, Fail, walk, result
  <2> QED
    BY <2>1, QuietKeeps
<1>3. CASE Emit \/ EndVisit
  BY <1>3, EmitDelivers, EndVisitDelivers
<1>4. CASE MaterializeJoin \/ MaterializeAbsences \/ MaterializePredicates \/ CollectIdentities
  <2>1. /\ phase' \in Joining \cup {"done", "failed"}
        /\ UNCHANGED <<posits, query, seen, ranked, ordinal, delivered>>
    BY <1>4 DEF MaterializeJoin, MaterializeAbsences, MaterializePredicates, CollectIdentities,
                Becomes, Joining, Fail, walk, result
  <2> QED
    BY <2>1, QuietKeeps DEF Joining
<1>5. CASE MaterializeProjection \/ Deliver
  BY <1>5, ProjectionDelivers, DeliverDelivers
<1>6. CASE Announce \/ EndDelivery
  <2>1. /\ phase \in {"announce", "deliver"} /\ phase' \in {"deliver", "done"}
        /\ UNCHANGED <<posits, query, relation, seen, ranked, ordinal, delivered>>
    BY <1>6 DEF Announce, EndDelivery, PushSchema, StopAt, walk, result
  <2> QED
    BY <2>1, QuietKeeps
<1>7. CASE Interrupt
  BY <1>7, QuietKeeps DEF Interrupt, Fail, walk
<1>8. CASE Finished \/ UNCHANGED vars
  <2>1. UNCHANGED <<posits, query, phase, relation, seen, ranked, ordinal, delivered>>
    BY <1>8 DEF Finished, vars, walk, result
  <2> QED
    BY <2>1, QuietKeeps
<1> QED
  BY <1>1, <1>2, <1>3, <1>4, <1>5, <1>6, <1>7, <1>8 DEF Next

THEOREM DeliveryIsSound == Spec => []DeliveryInv
<1>1. Init => DeliveryInv
  BY DeliveryInit
<1>2. SearchInv /\ DeliveryInv /\ [Next]_vars => DeliveryInv'
  BY DeliveryIsInductive
<1> QED
  BY <1>1, <1>2, SearchIsSound, PTL DEF Spec

(***************************************************************************)
(* An ordered stream holds no more rows than its limit and one, however    *)
(* many it has ranked (OrderedRows of pipeline.rs).                        *)
(***************************************************************************)
THEOREM HeapIsBounded == Spec => [](\A limit \in query.limit : Cardinality(ranked) <= limit + 1)
<1>1. DeliveryInv => \A limit \in query.limit : Cardinality(ranked) <= limit + 1
  BY DEF DeliveryInv, HeapInv
<1> QED
  BY <1>1, DeliveryIsSound, PTL

(***************************************************************************)
(* The rows of an ordered or of a materialized search leave in their       *)
(* order: the row that is next is ahead of every row that is left.         *)
(***************************************************************************)
THEOREM RowsLeaveInOrder ==
    Spec => [](phase = "deliver" =>
                  \A i, j \in DOMAIN relation : i < j => RankBefore(relation[i], relation[j]))
<1>1. DeliveryInv => (phase = "deliver" =>
          \A i, j \in DOMAIN relation : i < j => RankBefore(relation[i], relation[j]))
  BY DEF DeliveryInv, IsListed
<1> QED
  BY <1>1, DeliveryIsSound, PTL

(***************************************************************************)
(* Under DISTINCT the client gets no row twice, whichever executor runs    *)
(* the search: a stream remembers the rows it saw, the materialized one    *)
(* keeps the first of equal rows, and neither the heap nor the order nor   *)
(* the limit brings one back (emit of pipeline.rs, and the projection of   *)
(* execute_materialized in query.rs).                                      *)
(***************************************************************************)
THEOREM DistinctRowsOnce ==
    Spec => [](query.distinct =>
                  \A i, j \in DOMAIN delivered : delivered[i] = delivered[j] => i = j)
<1>1. DeliveryInv =>
          (query.distinct => \A i, j \in DOMAIN delivered : delivered[i] = delivered[j] => i = j)
  BY DEF DeliveryInv, Once
<1> QED
  BY <1>1, DeliveryIsSound, PTL
=============================================================================
