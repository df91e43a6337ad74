------------------------- MODULE LogicalReplayProofs -------------------------
(***************************************************************************)
(* Facts about LogicalReplay that the proofs about PositStore and Transfer *)
(* share: what a new batch must be for a store to stay one that replays,   *)
(* and how numbers are put in order.                                       *)
(***************************************************************************)
EXTENDS LogicalReplay, FiniteSetTheorems, SequenceTheorems,
        WellFoundedInduction, TLAPS

-----------------------------------------------------------------------------
(***************************************************************************)
(* Sequences.                                                              *)
(***************************************************************************)
LEMMA ElementsOf ==
    ASSUME NEW S, NEW s \in Seq(S)
    PROVE  /\ Len(s) \in Nat /\ DOMAIN s = 1..Len(s)
           /\ \A i \in DOMAIN s : s[i] \in S
           /\ \A i \in 1..Len(s) : s[i] \in S
  OBVIOUS

LEMMA SequenceOf ==
    ASSUME NEW S, NEW n \in Nat, NEW s \in [1..n -> S]
    PROVE  s \in Seq(S) /\ Len(s) = n /\ DOMAIN s = 1..n
  OBVIOUS

LEMMA Joined ==
    ASSUME NEW S, NEW T, NEW s \in Seq(S), NEW t \in Seq(T)
    PROVE  /\ Len(s \o t) = Len(s) + Len(t)
           /\ DOMAIN (s \o t) = 1..(Len(s) + Len(t))
           /\ \A i \in 1..Len(s) : (s \o t)[i] = s[i]
           /\ \A i \in (Len(s) + 1)..(Len(s) + Len(t)) :
                 i - Len(s) \in DOMAIN t /\ (s \o t)[i] = t[i - Len(s)]
<1>1. s \in Seq(S \cup T) /\ t \in Seq(S \cup T)
  OBVIOUS
<1> QED
  BY <1>1

LEMMA TailIs ==
    ASSUME NEW S, NEW s \in Seq(S), s # <<>>
    PROVE  /\ Len(s) \in Nat /\ DOMAIN s = 1..Len(s) /\ Len(s) # 0
           /\ Tail(s) \in Seq(S) /\ DOMAIN Tail(s) = 1..(Len(s) - 1)
           /\ \A i \in 1..(Len(s) - 1) : Tail(s)[i] = s[i + 1]
<1>1. Len(s) \in Nat /\ DOMAIN s = 1..Len(s) /\ Len(s) # 0
  OBVIOUS
<1>2. Tail(s) \in Seq(S) /\ Len(Tail(s)) = Len(s) - 1
  OBVIOUS
<1>3. DOMAIN Tail(s) = 1..(Len(s) - 1)
  BY <1>2
<1>4. \A i \in 1..(Len(s) - 1) : Tail(s)[i] = s[i + 1]
  OBVIOUS
<1> QED
  BY <1>1, <1>2, <1>3, <1>4, Zenon

(***************************************************************************)
(* A sequence is one of whatever its elements are.                         *)
(***************************************************************************)
LEMMA SequenceOfElements ==
    ASSUME NEW S, NEW T, NEW s \in Seq(S), \A i \in DOMAIN s : s[i] \in T
    PROVE  s \in Seq(T)
<1>1. Len(s) \in Nat /\ s \in [1..Len(s) -> S]
  OBVIOUS
<1>2. s \in [1..Len(s) -> T]
  BY <1>1
<1> QED
  BY <1>1, <1>2, SequenceOf, Zenon

-----------------------------------------------------------------------------
(***************************************************************************)
(* Numbers: every set of them has a least one, and one with an upper bound *)
(* a largest one.                                                          *)
(***************************************************************************)
LEMMA LeastExists ==
    ASSUME NEW S \in SUBSET Nat, S # {}
    PROVE  \E n \in S : \A m \in S : n <= m
<1>1. PICK n \in S : \A m \in S : ~(<<m, n>> \in OpToRel(<, Nat))
  BY NatLessThanWellFounded, WFMin
<1>2. \A m \in S : ~(m < n)
  BY <1>1 DEF OpToRel
<1> QED
  BY <1>2

LEMMA LargestExists ==
    ASSUME NEW S \in SUBSET Nat, S # {}, NEW b \in Nat, \A n \in S : n <= b
    PROVE  \E n \in S : \A m \in S : m <= n
<1> DEFINE Bounds == {u \in Nat : \A n \in S : n <= u}
<1>1. Bounds \in SUBSET Nat /\ Bounds # {}
  OBVIOUS
<1>2. PICK u \in Bounds : \A v \in Bounds : u <= v
  BY <1>1, LeastExists
<1>3. u \in S
  <2> SUFFICES ASSUME u \notin S PROVE FALSE
    OBVIOUS
  <2>1. \A n \in S : n < u
    BY <1>2
  <2>2. u \in Nat /\ u # 0
    <3>1. PICK n \in S : n < u
      BY <2>1
    <3>2. n \in Nat /\ u \in Nat
      OBVIOUS
    <3> QED
      BY <3>1, <3>2
  <2>3. u - 1 \in Nat /\ \A n \in S : n <= u - 1
    BY <2>1, <2>2
  <2>4. u - 1 \in Bounds
    BY <2>3
  <2> QED
    BY <2>2, <2>4, <1>2
<1> QED
  BY <1>2, <1>3

(***************************************************************************)
(* Largest is an upper bound, and no more than any other.                  *)
(***************************************************************************)
LEMMA LargestBounds ==
    ASSUME NEW S \in SUBSET Nat, NEW b \in Nat, \A n \in S : n <= b
    PROVE  /\ Largest(S) \in Nat
           /\ \A n \in S : n <= Largest(S)
           /\ Largest(S) <= b
<1>1. CASE S = {}
  BY <1>1 DEF Largest
<1>2. CASE S # {}
  <2>1. \E n \in S : \A m \in S : m <= n
    BY <1>2, LargestExists
  <2> QED
    BY <2>1, <1>2 DEF Largest
<1> QED
  BY <1>1, <1>2

LEMMA InitialSegment ==
    ASSUME NEW n \in Nat
    PROVE  IsFiniteSet(1..n) /\ Cardinality(1..n) = n
<1>1. IsFiniteSet(1..n) /\ Cardinality(1..n) = IF 1 > n THEN 0 ELSE n - 1 + 1
  BY FS_Interval
<1> QED
  BY <1>1

(***************************************************************************)
(* A set that holds everything below each of its members starts at 1.      *)
(***************************************************************************)
LEMMA ClosedIsInterval ==
    ASSUME NEW n \in Nat, NEW S \in SUBSET (1..n), \A i \in S : \A j \in 1..i : j \in S
    PROVE  Cardinality(S) \in 0..n /\ S = 1..Cardinality(S)
<1>1. CASE S = {}
  BY <1>1, FS_EmptySet
<1>2. CASE S # {}
  <2>1. PICK m \in S : \A k \in S : k <= m
    <3>1. S \in SUBSET Nat /\ \A k \in S : k <= n
      OBVIOUS
    <3> QED
      BY <3>1, <1>2, LargestExists
  <2>2. S = 1..m /\ m \in 1..n
    <3>1. m \in 1..n /\ \A k \in S : k \in 1..n /\ k <= m
      BY <2>1
    <3>2. \A k \in S : k \in 1..m
      BY <3>1
    <3> QED
      BY <3>1, <3>2
  <2>3. Cardinality(1..m) = m
    BY <2>2, InitialSegment
  <2> QED
    BY <2>2, <2>3
<1> QED
  BY <1>1, <1>2

-----------------------------------------------------------------------------
(***************************************************************************)
(* Ascending lists each number once, smaller ones first.                   *)
(***************************************************************************)
Rank(S, n) == Cardinality({m \in S : m < n})

LEMMA RankGrows ==
    ASSUME NEW S \in SUBSET Nat, IsFiniteSet(S), NEW n \in S
    PROVE  /\ Rank(S, n) \in 0..(Cardinality(S) - 1)
           /\ \A k \in S : n < k => Rank(S, n) < Rank(S, k)
<1> DEFINE Below(k) == {m \in S : m < k}
<1>1. ASSUME NEW k \in S
      PROVE  IsFiniteSet(Below(k)) /\ Cardinality(Below(k)) \in Nat
  BY FS_Subset, FS_CardinalityType
<1>2. Cardinality(S) \in Nat
  BY FS_CardinalityType
<1>3. Rank(S, n) < Cardinality(S)
  <2>1. Below(n) \subseteq S /\ Below(n) # S
    OBVIOUS
  <2>2. Cardinality(Below(n)) <= Cardinality(S) /\ Cardinality(S) # Cardinality(Below(n))
    BY <2>1, FS_Subset
  <2> QED
    BY <2>2, <1>1, <1>2 DEF Rank
<1>4. ASSUME NEW k \in S, n < k
      PROVE  Rank(S, n) < Rank(S, k)
  <2>1. Below(n) \subseteq Below(k) /\ n \in Below(k) /\ n \notin Below(n)
    <3>1. n \in Nat /\ k \in Nat /\ \A m \in S : m \in Nat
      OBVIOUS
    <3>2. \A m \in S : m < n => m < k
      BY <1>4, <3>1
    <3>3. ~(n < n)
      BY <3>1
    <3> QED
      BY <1>4, <3>2, <3>3
  <2>2. Cardinality(Below(n)) <= Cardinality(Below(k))
        /\ Cardinality(Below(k)) # Cardinality(Below(n))
    BY <2>1, <1>1, FS_Subset
  <2> QED
    BY <2>2, <1>1 DEF Rank
<1> QED
  BY <1>1, <1>2, <1>3, <1>4 DEF Rank

LEMMA AscendingOrders ==
    ASSUME NEW S \in SUBSET Nat, IsFiniteSet(S)
    PROVE  /\ Ascending(S) \in Seq(S)
           /\ Len(Ascending(S)) = Cardinality(S)
           /\ \A i, j \in DOMAIN Ascending(S) : i < j => Ascending(S)[i] < Ascending(S)[j]
           /\ Range(Ascending(S)) = S
<1> DEFINE c == Cardinality(S)
           r == [n \in S |-> Rank(S, n)]
<1>1. c \in Nat
  BY FS_CardinalityType
<1>2. r \in [S -> 0..(c - 1)]
  BY RankGrows
<1>3. \A m, n \in S : m # n => r[m] # r[n]
  <2> SUFFICES ASSUME NEW m \in S, NEW n \in S, m # n PROVE Rank(S, m) # Rank(S, n)
    OBVIOUS
  <2>1. m < n \/ n < m
    OBVIOUS
  <2>2. Rank(S, m) \in Nat /\ Rank(S, n) \in Nat
    BY <1>1, RankGrows
  <2>3. CASE m < n
    BY <2>2, <2>3, RankGrows
  <2>4. CASE n < m
    BY <2>2, <2>4, RankGrows
  <2> QED
    BY <2>1, <2>3, <2>4
<1>4. r \in Injection(S, 0..(c - 1))
  BY <1>2, <1>3 DEF Injection, IsInjective
<1>5. IsFiniteSet(0..(c - 1)) /\ Cardinality(0..(c - 1)) = c
  <2> HIDE DEF c
  <2>1. 0 \in Int /\ c - 1 \in Int
    BY <1>1
  <2>2. /\ IsFiniteSet(0..(c - 1))
        /\ Cardinality(0..(c - 1)) = IF 0 > c - 1 THEN 0 ELSE (c - 1) - 0 + 1
    BY <2>1, FS_Interval
  <2> QED
    BY <2>2, <1>1
<1>6. r \in Surjection(S, 0..(c - 1))
  BY <1>4, <1>5, FS_Injection
<1>7. \A k \in 1..c : \E n \in S : Rank(S, n) = k - 1
  <2> SUFFICES ASSUME NEW k \in 1..c PROVE \E n \in S : Rank(S, n) = k - 1
    OBVIOUS
  <2>1. k - 1 \in 0..(c - 1)
    BY <1>1
  <2>2. \E n \in S : r[n] = k - 1
    BY <2>1, <1>6 DEF Surjection
  <2> QED
    BY <2>2
<1>8. /\ DOMAIN Ascending(S) = 1..c
      /\ \A k \in 1..c : Ascending(S)[k] \in S /\ Rank(S, Ascending(S)[k]) = k - 1
  BY <1>7 DEF Ascending, Rank
<1>9. Ascending(S) \in [1..c -> S]
  BY <1>8 DEF Ascending
<1>10. \A i, j \in 1..c : i < j => Ascending(S)[i] < Ascending(S)[j]
  <2> SUFFICES ASSUME NEW i \in 1..c, NEW j \in 1..c, i < j,
                      ~(Ascending(S)[i] < Ascending(S)[j])
               PROVE  FALSE
    OBVIOUS
  <2> DEFINE m == Ascending(S)[i]
             n == Ascending(S)[j]
  <2>1. m \in S /\ n \in S /\ Rank(S, m) = i - 1 /\ Rank(S, n) = j - 1
    BY <1>8
  <2>2. m \in Nat /\ n \in Nat /\ (m = n \/ n < m)
    <3>1. m \in Nat /\ n \in Nat
      BY <2>1
    <3> QED
      BY <3>1
  <2>3. CASE n < m
    <3>1. Rank(S, n) < Rank(S, m)
      BY <2>1, <2>3, RankGrows
    <3> QED
      BY <2>1, <3>1
  <2> QED
    BY <2>1, <2>2, <2>3, <1>1
<1>11. \A n \in S : \E k \in 1..c : Ascending(S)[k] = n
  <2> SUFFICES ASSUME NEW n \in S PROVE \E k \in 1..c : Ascending(S)[k] = n
    OBVIOUS
  <2>1. Rank(S, n) + 1 \in 1..c
    BY RankGrows, <1>1
  <2> DEFINE k == Rank(S, n) + 1
  <2>2. Ascending(S)[k] \in S /\ Rank(S, Ascending(S)[k]) = Rank(S, n)
    BY <2>1, <1>8, RankGrows, <1>1
  <2>3. Ascending(S)[k] = n
    BY <2>2, <1>3
  <2> QED
    BY <2>1, <2>3
<1>12. Ascending(S) \in Seq(S) /\ Len(Ascending(S)) = c
  BY <1>1, <1>9
<1>13. Range(Ascending(S)) = S
  BY <1>8, <1>11 DEF Range
<1> QED
  BY <1>8, <1>10, <1>12, <1>13

-----------------------------------------------------------------------------
(***************************************************************************)
(* The records of a store after a batch was appended: those from before in *)
(* their places, and those of the batch behind them.                       *)
(***************************************************************************)
LEMMA PositionsArePairs ==
    ASSUME NEW R, NEW b \in Seq(Seq(R))
    PROVE  \A p : p \in Positions(b) <=>
              \E i \in 1..Len(b) : \E j \in 1..Len(b[i]) : p = <<i, j>>
<1>1. \A i \in 1..Len(b) : b[i] \in Seq(R) /\ DOMAIN b[i] = 1..Len(b[i])
  OBVIOUS
<1>2. DOMAIN b = 1..Len(b)
  OBVIOUS
<1>3. ASSUME NEW p, p \in Positions(b)
      PROVE  \E i \in 1..Len(b) : \E j \in 1..Len(b[i]) : p = <<i, j>>
  <2>1. PICK i \in DOMAIN b : p \in {i} \X DOMAIN b[i]
    BY <1>3 DEF Positions
  <2> QED
    BY <2>1, <1>1, <1>2
<1>4. ASSUME NEW i \in 1..Len(b), NEW j \in 1..Len(b[i])
      PROVE  <<i, j>> \in Positions(b)
  <2>1. i \in DOMAIN b /\ <<i, j>> \in {i} \X DOMAIN b[i]
    BY <1>1, <1>2
  <2> QED
    BY <2>1 DEF Positions
<1> QED
  BY <1>3, <1>4

LEMMA RecordsArePointwise ==
    ASSUME NEW R, NEW b \in Seq(Seq(R))
    PROVE  /\ Records(b) \subseteq R
           /\ \A r : r \in Records(b) <=>
                 \E i \in 1..Len(b) : \E j \in 1..Len(b[i]) : r = b[i][j]
<1>1. \A i \in 1..Len(b) : \A j \in 1..Len(b[i]) : b[i] \in Seq(R) /\ b[i][j] \in R
  OBVIOUS
<1>2. ASSUME NEW r, r \in Records(b)
      PROVE  \E i \in 1..Len(b) : \E j \in 1..Len(b[i]) : r = b[i][j]
  <2>1. PICK p \in Positions(b) : r = b[p[1]][p[2]]
    BY <1>2 DEF Records, RecordAt
  <2>2. PICK i \in 1..Len(b) : \E j \in 1..Len(b[i]) : p = <<i, j>>
    BY PositionsArePairs
  <2>3. PICK j \in 1..Len(b[i]) : p = <<i, j>>
    BY <2>2
  <2> QED
    BY <2>1, <2>3
<1>3. ASSUME NEW i \in 1..Len(b), NEW j \in 1..Len(b[i])
      PROVE  b[i][j] \in Records(b)
  <2>1. <<i, j>> \in Positions(b)
    BY PositionsArePairs
  <2>2. RecordAt(b, <<i, j>>) = b[i][j]
    BY DEF RecordAt
  <2> QED
    BY <2>1, <2>2 DEF Records
<1>4. Records(b) \subseteq R
  BY <1>1, <1>2
<1> QED
  BY <1>2, <1>3, <1>4

LEMMA AppendedRecords ==
    ASSUME NEW R, NEW b \in Seq(Seq(R)), NEW x \in Seq(R)
    PROVE  Records(Append(b, x)) = Records(b) \cup Range(x)
<1> DEFINE B == Append(b, x)
<1>1. /\ B \in Seq(Seq(R)) /\ Len(B) = Len(b) + 1 /\ B[Len(b) + 1] = x
      /\ \A i \in 1..Len(b) : B[i] = b[i]
  OBVIOUS
<1>2. DOMAIN x = 1..Len(x) /\ Len(b) \in Nat
  OBVIOUS
<1> HIDE DEF B
<1>3. ASSUME NEW r \in Records(B)
      PROVE  r \in Records(b) \cup Range(x)
  <2>1. PICK i \in 1..Len(B) : \E j \in 1..Len(B[i]) : r = B[i][j]
    <3>1. B \in Seq(Seq(R))
      BY <1>1
    <3>2. \A q : q \in Records(B) <=>
               \E i \in 1..Len(B) : \E j \in 1..Len(B[i]) : q = B[i][j]
      BY <3>1, RecordsArePointwise
    <3> QED
      BY <1>3, <3>2, Zenon
  <2>2. CASE i = Len(b) + 1
    BY <2>1, <2>2, <1>1, <1>2 DEF Range
  <2>3. CASE i \in 1..Len(b)
    <3>1. \E j \in 1..Len(b[i]) : r = b[i][j]
      BY <2>1, <2>3, <1>1
    <3> QED
      BY <2>3, <3>1, RecordsArePointwise
  <2> QED
    BY <2>2, <2>3, <1>1, <1>2
<1>4. ASSUME NEW r \in Records(b)
      PROVE  r \in Records(B)
  <2>1. PICK i \in 1..Len(b) : \E j \in 1..Len(b[i]) : r = b[i][j]
    BY RecordsArePointwise
  <2>2. i \in 1..Len(B) /\ \E j \in 1..Len(B[i]) : r = B[i][j]
    BY <2>1, <1>1, <1>2
  <2> QED
    BY <2>2, <1>1, RecordsArePointwise
<1>5. ASSUME NEW r \in Range(x)
      PROVE  r \in Records(B)
  <2>1. PICK j \in 1..Len(x) : r = x[j]
    BY <1>2 DEF Range
  <2>2. Len(b) + 1 \in 1..Len(B) /\ j \in 1..Len(B[Len(b) + 1])
    BY <2>1, <1>1, <1>2
  <2>3. r = B[Len(b) + 1][j]
    BY <2>1, <1>1
  <2> QED
    BY <2>2, <2>3, <1>1, RecordsArePointwise
<1> QED
  BY <1>3, <1>4, <1>5 DEF B

LEMMA AppendedPositions ==
    ASSUME NEW R, NEW b \in Seq(Seq(R)), NEW x \in Seq(R), IsFiniteSet(Positions(b))
    PROVE  /\ IsFiniteSet(Positions(Append(b, x)))
           /\ Cardinality(Positions(b)) \in Nat
           /\ Cardinality(Positions(Append(b, x))) = Cardinality(Positions(b)) + Len(x)
<1> DEFINE B == Append(b, x)
           k == Len(b) + 1
           new == {k} \X (1..Len(x))
<1>1. /\ B \in Seq(Seq(R)) /\ Len(B) = k /\ B[k] = x /\ k \in Nat /\ Len(b) \in Nat
      /\ \A i \in 1..Len(b) : B[i] = b[i]
      /\ Len(x) \in Nat
  OBVIOUS
<1> HIDE DEF B
<1>2. Positions(B) = Positions(b) \cup new
  <2>1. ASSUME NEW p, p \in Positions(B) PROVE p \in Positions(b) \cup new
    <3>1. PICK i \in 1..Len(B) : \E j \in 1..Len(B[i]) : p = <<i, j>>
      BY <2>1, <1>1, PositionsArePairs
    <3>2. CASE i = k
      BY <3>1, <3>2, <1>1
    <3>3. CASE i # k
      <4>1. i \in 1..Len(b) /\ B[i] = b[i]
        BY <3>3, <1>1
      <4> QED
        BY <3>1, <4>1, PositionsArePairs
    <3> QED
      BY <3>2, <3>3
  <2>2. ASSUME NEW p, p \in Positions(b) PROVE p \in Positions(B)
    <3>1. PICK i \in 1..Len(b) : \E j \in 1..Len(b[i]) : p = <<i, j>>
      BY <2>2, PositionsArePairs
    <3>2. i \in 1..Len(B) /\ B[i] = b[i]
      BY <1>1
    <3> QED
      BY <3>1, <3>2, <1>1, PositionsArePairs
  <2>3. ASSUME NEW p, p \in new PROVE p \in Positions(B)
    <3>1. PICK j \in 1..Len(x) : p = <<k, j>>
      BY <2>3
    <3>2. k \in 1..Len(B) /\ j \in 1..Len(B[k])
      BY <1>1
    <3> QED
      BY <3>1, <3>2, <1>1, PositionsArePairs
  <2> QED
    BY <2>1, <2>2, <2>3
<1>3. Positions(b) \cap new = {}
  <2>1. \A p \in Positions(b) : p[1] \in 1..Len(b)
    BY PositionsArePairs
  <2> QED
    BY <2>1, <1>1
<1>4. IsFiniteSet(new) /\ Cardinality(new) = Len(x)
  <2>1. IsFiniteSet({k}) /\ Cardinality({k}) = 1
    BY FS_Singleton
  <2>2. IsFiniteSet(1..Len(x)) /\ Cardinality(1..Len(x)) = Len(x)
    BY <1>1, InitialSegment
  <2>3. /\ IsFiniteSet(new)
        /\ Cardinality(new) = Cardinality({k}) * Cardinality(1..Len(x))
    BY <2>1, <2>2, FS_Product, Zenon
  <2>4. Cardinality(new) = 1 * Len(x)
    BY <2>1, <2>2, <2>3, Zenon
  <2> QED
    BY <2>3, <2>4, <1>1
<1>5. /\ IsFiniteSet(Positions(b) \cup new)
      /\ Cardinality(Positions(b) \cup new) = Cardinality(Positions(b)) + Cardinality(new)
  <2>1. Cardinality(Positions(b)) \in Nat /\ Cardinality(new) \in Nat
    BY <1>4, FS_CardinalityType
  <2>2. Cardinality({}) = 0
    BY FS_EmptySet
  <2> HIDE DEF new
  <2>3. /\ IsFiniteSet(Positions(b) \cup new)
        /\ Cardinality(Positions(b) \cup new)
              = Cardinality(Positions(b)) + Cardinality(new)
                  - Cardinality(Positions(b) \cap new)
    BY <1>4, FS_Union
  <2>4. Cardinality(Positions(b) \cap new) = 0
    BY <2>2, <1>3
  <2> QED
    BY <2>1, <2>3, <2>4
<1>6. Cardinality(Positions(b)) \in Nat
  BY FS_CardinalityType
<1> QED
  BY <1>2, <1>4, <1>5, <1>6 DEF B

(***************************************************************************)
(* What ReplayAccepts says, with two indexes for each position.            *)
(***************************************************************************)
Earlier(i, j, k, l) == i < k \/ (i = k /\ j < l)

InOrderOnce(b) ==
    \A i, k \in 1..Len(b) : \A j \in 1..Len(b[i]), l \in 1..Len(b[k]) :
        Earlier(i, j, k, l) => ~Conflict(b[i][j], b[k][l])

RolesComeFirst(b) ==
    \A k \in 1..Len(b) : \A l \in 1..Len(b[k]) : b[k][l].kind = "posit" =>
        \A a \in b[k][l].appearances :
            \E i \in 1..Len(b) : \E j \in 1..Len(b[i]) :
                /\ Earlier(i, j, k, l)
                /\ b[i][j].kind = "role" /\ b[i][j].id = a[1]

LEMMA AcceptsPointwise ==
    ASSUME NEW R, NEW b \in Seq(Seq(R))
    PROVE  ReplayAccepts(b) <=>
              /\ \A r \in Records(b) : Canonical(r)
              /\ InOrderOnce(b)
              /\ RolesComeFirst(b)
              /\ b # <<>> => Range(Bootstrap) \subseteq Records(b)
<1> DEFINE Once == \A p, q \in Positions(b) :
                      Before(p, q) => ~Conflict(RecordAt(b, p), RecordAt(b, q))
           First == \A p \in Positions(b) : RecordAt(b, p).kind = "posit" =>
                      \A a \in RecordAt(b, p).appearances :
                          \E q \in Positions(b) :
                              /\ Before(q, p) /\ RecordAt(b, q).kind = "role"
                              /\ RecordAt(b, q).id = a[1]
<1>1. ASSUME NEW i \in 1..Len(b), NEW j \in 1..Len(b[i])
      PROVE  <<i, j>> \in Positions(b) /\ RecordAt(b, <<i, j>>) = b[i][j]
  BY PositionsArePairs DEF RecordAt
<1>2. \A i, j, k, l : Before(<<i, j>>, <<k, l>>) <=> Earlier(i, j, k, l)
  BY DEF Before, Earlier
<1>3. Once => InOrderOnce(b)
  BY <1>1, <1>2 DEF InOrderOnce
<1>4. InOrderOnce(b) => Once
  <2> SUFFICES ASSUME InOrderOnce(b), NEW p \in Positions(b), NEW q \in Positions(b),
                      Before(p, q)
               PROVE  ~Conflict(RecordAt(b, p), RecordAt(b, q))
    OBVIOUS
  <2>1. PICK i \in 1..Len(b) : \E j \in 1..Len(b[i]) : p = <<i, j>>
    BY PositionsArePairs
  <2>2. PICK j \in 1..Len(b[i]) : p = <<i, j>>
    BY <2>1
  <2>3. PICK k \in 1..Len(b) : \E l \in 1..Len(b[k]) : q = <<k, l>>
    BY PositionsArePairs
  <2>4. PICK l \in 1..Len(b[k]) : q = <<k, l>>
    BY <2>3
  <2>5. Earlier(i, j, k, l)
    BY <2>2, <2>4, <1>2
  <2>6. ~Conflict(b[i][j], b[k][l])
    BY <2>5 DEF InOrderOnce
  <2> QED
    BY <2>2, <2>4, <2>6, <1>1
<1>5. First => RolesComeFirst(b)
  <2> SUFFICES ASSUME First, NEW k \in 1..Len(b), NEW l \in 1..Len(b[k]),
                      b[k][l].kind = "posit", NEW a \in b[k][l].appearances
               PROVE  \E i \in 1..Len(b) : \E j \in 1..Len(b[i]) :
                          /\ Earlier(i, j, k, l)
                          /\ b[i][j].kind = "role" /\ b[i][j].id = a[1]
    BY DEF RolesComeFirst
  <2>1. PICK q \in Positions(b) : /\ Before(q, <<k, l>>)
                                  /\ RecordAt(b, q).kind = "role"
                                  /\ RecordAt(b, q).id = a[1]
    BY <1>1
  <2>2. PICK i \in 1..Len(b) : \E j \in 1..Len(b[i]) : q = <<i, j>>
    BY PositionsArePairs
  <2>3. PICK j \in 1..Len(b[i]) : q = <<i, j>>
    BY <2>2
  <2>4. Earlier(i, j, k, l)
    BY <2>1, <2>3, <1>2
  <2>5. b[i][j].kind = "role" /\ b[i][j].id = a[1]
    BY <2>1, <2>3, <1>1
  <2> QED
    BY <2>4, <2>5
<1>6. RolesComeFirst(b) => First
  <2> SUFFICES ASSUME RolesComeFirst(b), NEW p \in Positions(b),
                      RecordAt(b, p).kind = "posit", NEW a \in RecordAt(b, p).appearances
               PROVE  \E q \in Positions(b) :
                          /\ Before(q, p) /\ RecordAt(b, q).kind = "role"
                          /\ RecordAt(b, q).id = a[1]
    OBVIOUS
  <2>1. PICK k \in 1..Len(b) : \E l \in 1..Len(b[k]) : p = <<k, l>>
    BY PositionsArePairs
  <2>2. PICK l \in 1..Len(b[k]) : p = <<k, l>>
    BY <2>1
  <2>3. PICK i \in 1..Len(b) : \E j \in 1..Len(b[i]) :
            /\ Earlier(i, j, k, l)
            /\ b[i][j].kind = "role" /\ b[i][j].id = a[1]
    BY <2>2, <1>1 DEF RolesComeFirst
  <2>4. PICK j \in 1..Len(b[i]) :
            /\ Earlier(i, j, k, l)
            /\ b[i][j].kind = "role" /\ b[i][j].id = a[1]
    BY <2>3
  <2>5. Before(<<i, j>>, p)
    BY <2>2, <2>4, <1>2
  <2> QED
    BY <2>4, <2>5, <1>1
<1>7. ReplayAccepts(b) <=>
          /\ \A r \in Records(b) : Canonical(r)
          /\ Once
          /\ First
          /\ b # <<>> => Range(Bootstrap) \subseteq Records(b)
  BY DEF ReplayAccepts
<1> HIDE DEF Once, First
<1> QED
  BY <1>3, <1>4, <1>5, <1>6, <1>7

(***************************************************************************)
(* A batch fits behind a store: its records are canonical, conflict        *)
(* neither with those of the store nor with each other, its posits use     *)
(* roles of the store, and the first batch brings the built-in roles.      *)
(***************************************************************************)
Fits(b, x) ==
    /\ \A i \in DOMAIN x : Canonical(x[i])
    /\ \A r \in Records(b) : \A i \in DOMAIN x : ~Conflict(r, x[i])
    /\ \A i, j \in DOMAIN x : i < j => ~Conflict(x[i], x[j])
    /\ \A i \in DOMAIN x : x[i].kind = "posit" =>
          \A a \in x[i].appearances : \E r \in RolesOf(Records(b)) : r.id = a[1]
    /\ b = <<>> => Range(Bootstrap) \subseteq Range(x)

LEMMA FittingBatchIsAccepted ==
    ASSUME NEW R, NEW b \in Seq(Seq(R)), NEW x \in Seq(R),
           ReplayAccepts(b), Fits(b, x)
    PROVE  ReplayAccepts(Append(b, x))
<1> DEFINE B == Append(b, x)
<1>1. /\ B \in Seq(Seq(R)) /\ Len(B) = Len(b) + 1 /\ B[Len(b) + 1] = x
      /\ \A i \in 1..Len(b) : B[i] = b[i]
      /\ Len(b) \in Nat /\ DOMAIN x = 1..Len(x)
  OBVIOUS
<1>2. Records(B) = Records(b) \cup Range(x)
  BY AppendedRecords
<1>3. b # <<>> => Range(Bootstrap) \subseteq Records(b)
  BY AcceptsPointwise
<1>4. /\ \A r \in Records(b) : Canonical(r)
      /\ InOrderOnce(b)
      /\ RolesComeFirst(b)
  BY AcceptsPointwise
<1> HIDE DEF B
<1>5. \A r \in Records(B) : Canonical(r)
  BY <1>2, <1>4 DEF Fits, Range
<1>6. InOrderOnce(B)
  <2> SUFFICES ASSUME NEW i \in 1..Len(B), NEW k \in 1..Len(B),
                      NEW j \in 1..Len(B[i]), NEW l \in 1..Len(B[k]),
                      Earlier(i, j, k, l)
               PROVE  ~Conflict(B[i][j], B[k][l])
    BY DEF InOrderOnce
  <2>1. CASE k \in 1..Len(b)
    <3>1. i \in 1..Len(b)
      BY <2>1, <1>1 DEF Earlier
    <3> QED
      BY <2>1, <3>1, <1>1, <1>4 DEF InOrderOnce
  <2>2. CASE k = Len(b) + 1 /\ i \in 1..Len(b)
    <3>1. B[i][j] \in Records(b)
      <4>1. j \in 1..Len(b[i]) /\ B[i][j] = b[i][j]
        BY <2>2, <1>1
      <4> QED
        BY <2>2, <4>1, RecordsArePointwise
    <3> QED
      BY <2>2, <3>1, <1>1 DEF Fits
  <2>3. CASE k = Len(b) + 1 /\ i = Len(b) + 1
    <3>1. j \in DOMAIN x /\ l \in DOMAIN x /\ B[i] = x /\ B[k] = x
      BY <2>3, <1>1
    <3>2. j < l
      BY <2>3, <1>1 DEF Earlier
    <3> QED
      BY <3>1, <3>2 DEF Fits
  <2> QED
    BY <2>1, <2>2, <2>3, <1>1
<1>7. RolesComeFirst(B)
  <2> SUFFICES ASSUME NEW k \in 1..Len(B), NEW l \in 1..Len(B[k]),
                      B[k][l].kind = "posit", NEW a \in B[k][l].appearances
               PROVE  \E i \in 1..Len(B) : \E j \in 1..Len(B[i]) :
                          /\ Earlier(i, j, k, l)
                          /\ B[i][j].kind = "role" /\ B[i][j].id = a[1]
    BY DEF RolesComeFirst
  <2>1. CASE k \in 1..Len(b)
    <3>1. l \in 1..Len(b[k]) /\ b[k][l].kind = "posit" /\ a \in b[k][l].appearances
      BY <2>1, <1>1
    <3>2. PICK i \in 1..Len(b) : \E j \in 1..Len(b[i]) :
              /\ Earlier(i, j, k, l)
              /\ b[i][j].kind = "role" /\ b[i][j].id = a[1]
      BY <2>1, <3>1, <1>4 DEF RolesComeFirst
    <3>3. i \in 1..Len(B) /\ B[i] = b[i]
      BY <1>1
    <3> QED
      BY <3>2, <3>3
  <2>2. CASE k = Len(b) + 1
    <3>1. l \in DOMAIN x /\ B[k][l] = x[l]
      BY <2>2, <1>1
    <3>2. PICK r \in RolesOf(Records(b)) : r.id = a[1]
      BY <3>1 DEF Fits
    <3>3. r \in Records(b) /\ r.kind = "role"
      BY DEF RolesOf
    <3>4. PICK i \in 1..Len(b) : \E j \in 1..Len(b[i]) : r = b[i][j]
      BY <3>3, RecordsArePointwise
    <3>5. i \in 1..Len(B) /\ B[i] = b[i]
      BY <1>1
    <3>6. \A j : Earlier(i, j, k, l)
      BY <2>2, <1>1 DEF Earlier
    <3> QED
      BY <3>2, <3>3, <3>4, <3>5, <3>6
  <2> QED
    BY <2>1, <2>2, <1>1
<1>8. Range(Bootstrap) \subseteq Records(B)
  BY <1>2, <1>3 DEF Fits
<1>9. ReplayAccepts(B)
  BY <1>1, <1>5, <1>6, <1>7, <1>8, AcceptsPointwise
<1> QED
  BY <1>9 DEF B

(***************************************************************************)
(* In a store that replays, no two records conflict.                       *)
(***************************************************************************)
LEMMA ConflictIsSymmetric == \A r, s : Conflict(r, s) <=> Conflict(s, r)
  BY DEF Conflict

LEMMA NoTwoConflict ==
    ASSUME NEW R, NEW b \in Seq(Seq(R)), ReplayAccepts(b),
           NEW r \in Records(b), NEW s \in Records(b), r # s
    PROVE  ~Conflict(r, s)
<1>1. InOrderOnce(b)
  BY AcceptsPointwise
<1>2. PICK i \in 1..Len(b) : \E j \in 1..Len(b[i]) : r = b[i][j]
  BY RecordsArePointwise
<1>3. PICK j \in 1..Len(b[i]) : r = b[i][j]
  BY <1>2
<1>4. PICK k \in 1..Len(b) : \E l \in 1..Len(b[k]) : s = b[k][l]
  BY RecordsArePointwise
<1>5. PICK l \in 1..Len(b[k]) : s = b[k][l]
  BY <1>4
<1>6. Earlier(i, j, k, l) \/ Earlier(k, l, i, j)
  BY <1>3, <1>5 DEF Earlier
<1>7. CASE Earlier(i, j, k, l)
  BY <1>1, <1>3, <1>5, <1>7 DEF InOrderOnce
<1>8. CASE Earlier(k, l, i, j)
  <2>1. ~Conflict(s, r)
    BY <1>1, <1>3, <1>5, <1>8 DEF InOrderOnce
  <2> QED
    BY <2>1, ConflictIsSymmetric
<1> QED
  BY <1>6, <1>7, <1>8

(***************************************************************************)
(* What a snapshot reads of a store that replays is consistent, which is   *)
(* what Transfer asks of the stores that it exports.                       *)
(***************************************************************************)
LEMMA ReplayIsConsistent ==
    ASSUME NEW R, NEW b \in Seq(Seq(R)), ReplayAccepts(b), b # <<>>
    PROVE  Consistent(Records(b))
<1>1. /\ \A r \in Records(b) : Canonical(r)
      /\ RolesComeFirst(b)
      /\ Range(Bootstrap) \subseteq Records(b)
  BY AcceptsPointwise
<1>2. \A r, s \in Records(b) : r # s => ~Conflict(r, s)
  BY NoTwoConflict
<1>3. ASSUME NEW p \in PositsOf(Records(b)), NEW a \in p.appearances
      PROVE  \E r \in RolesOf(Records(b)) : r.id = a[1]
  <2>1. p \in Records(b) /\ p.kind = "posit"
    BY DEF PositsOf
  <2>2. PICK k \in 1..Len(b) : \E l \in 1..Len(b[k]) : p = b[k][l]
    BY <2>1, RecordsArePointwise
  <2>3. PICK l \in 1..Len(b[k]) : p = b[k][l]
    BY <2>2
  <2>4. PICK i \in 1..Len(b) : \E j \in 1..Len(b[i]) :
            b[i][j].kind = "role" /\ b[i][j].id = a[1]
    BY <2>1, <2>3, <1>1 DEF RolesComeFirst
  <2>5. PICK j \in 1..Len(b[i]) : b[i][j].kind = "role" /\ b[i][j].id = a[1]
    BY <2>4
  <2>6. b[i][j] \in Records(b)
    BY RecordsArePointwise
  <2> QED
    BY <2>5, <2>6 DEF RolesOf
<1> QED
  BY <1>1, <1>2, <1>3 DEF Consistent


(***************************************************************************)
(* The identities that sets of records mention.                            *)
(***************************************************************************)
LEMMA ThingsAre ==
    ASSUME NEW records
    PROVE  \A t : t \in Things(records) <=>
              \/ \E r \in records : t = r.id
              \/ \E p \in PositsOf(records) : \E a \in p.appearances : t = a[2]
  BY DEF Things

LEMMA ThingsOfUnion ==
    ASSUME NEW A, NEW B
    PROVE  Things(A \cup B) = Things(A) \cup Things(B)
<1>1. PositsOf(A \cup B) = PositsOf(A) \cup PositsOf(B)
  BY DEF PositsOf
<1>2. ASSUME NEW t \in Things(A \cup B) PROVE t \in Things(A) \cup Things(B)
  <2>1. CASE \E r \in A \cup B : t = r.id
    BY <2>1, ThingsAre
  <2>2. CASE \E p \in PositsOf(A \cup B) : \E a \in p.appearances : t = a[2]
    BY <2>2, <1>1, ThingsAre
  <2>3. \/ \E r \in A \cup B : t = r.id
        \/ \E p \in PositsOf(A \cup B) : \E a \in p.appearances : t = a[2]
    BY DEF Things
  <2> QED
    BY <2>1, <2>2, <2>3
<1>3. ASSUME NEW t \in Things(A) PROVE t \in Things(A \cup B)
  <2>1. CASE \E r \in A : t = r.id
    BY <2>1, ThingsAre
  <2>2. CASE \E p \in PositsOf(A) : \E a \in p.appearances : t = a[2]
    BY <2>2, <1>1, ThingsAre
  <2> QED
    BY <2>1, <2>2, ThingsAre
<1>4. ASSUME NEW t \in Things(B) PROVE t \in Things(A \cup B)
  <2>1. CASE \E r \in B : t = r.id
    BY <2>1, ThingsAre
  <2>2. CASE \E p \in PositsOf(B) : \E a \in p.appearances : t = a[2]
    BY <2>2, <1>1, ThingsAre
  <2> QED
    BY <2>1, <2>2, ThingsAre
<1> QED
  BY <1>2, <1>3, <1>4

LEMMA FollowsTargetsAmongMore ==
    ASSUME NEW A, NEW B, A \subseteq B, NEW p, FollowsTargets(p, A)
    PROVE  FollowsTargets(p, B)
  BY DEF FollowsTargets, PositsOf

LEMMA NothingReplays ==
    /\ Records(<<>>) = {}
    /\ ReplayAccepts(<<>>)
    /\ Things({}) = {}
<1>1. Positions(<<>>) = {}
  BY DEF Positions
<1>2. Records(<<>>) = {}
  BY <1>1 DEF Records
<1>3. ReplayAccepts(<<>>)
  BY <1>1, <1>2 DEF ReplayAccepts
<1>4. PositsOf({}) = {}
  BY DEF PositsOf
<1> QED
  BY <1>2, <1>3, <1>4 DEF Things

(***************************************************************************)
(* The first batch: the built-in roles.                                    *)
(***************************************************************************)
LEMMA BootstrapFits ==
    /\ Fits(<<>>, Bootstrap)
    /\ PositsOf(Range(Bootstrap)) = {}
    /\ Things(Range(Bootstrap)) \subseteq 1..Len(BuiltinNames)
    /\ Range(Bootstrap) # {}
<1>1. /\ DOMAIN BuiltinNames = 1..5 /\ Len(BuiltinNames) = 5
      /\ \A i, j \in 1..5 : i # j => BuiltinNames[i] # BuiltinNames[j]
  BY DEF BuiltinNames
<1>2. /\ DOMAIN Bootstrap = 1..5
      /\ \A i \in 1..5 : Bootstrap[i] = NewRole(i, BuiltinNames[i])
  BY <1>1 DEF Bootstrap
<1>3. \A i \in 1..5 : /\ Bootstrap[i].kind = "role" /\ Bootstrap[i].id = i
                      /\ Bootstrap[i].name = BuiltinNames[i]
  BY <1>2 DEF NewRole
<1>4. PositsOf(Range(Bootstrap)) = {}
  BY <1>2, <1>3 DEF PositsOf, Range
<1>5. Things(Range(Bootstrap)) \subseteq 1..5
  <2>1. \A r \in Range(Bootstrap) : r.id \in 1..5
    BY <1>2, <1>3 DEF Range
  <2> QED
    BY <2>1, <1>4, ThingsAre
<1>6. \A i \in DOMAIN Bootstrap : Canonical(Bootstrap[i])
  BY <1>2, <1>3 DEF Canonical
<1>7. \A i, j \in DOMAIN Bootstrap : i < j => ~Conflict(Bootstrap[i], Bootstrap[j])
  BY <1>1, <1>2, <1>3 DEF Conflict
<1>8. \A i \in DOMAIN Bootstrap : Bootstrap[i].kind # "posit"
  BY <1>2, <1>3
<1>9. Fits(<<>>, Bootstrap)
  BY <1>6, <1>7, <1>8, NothingReplays DEF Fits
<1>10. Bootstrap[1] \in Range(Bootstrap)
  BY <1>2 DEF Range
<1> QED
  BY <1>1, <1>4, <1>5, <1>9, <1>10
=============================================================================
