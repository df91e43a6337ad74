---------------------------- MODULE TerrainProofs ---------------------------
(***************************************************************************)
(* Proofs about Terrain, for any databases, commands, cutoffs and limits:  *)
(* a report is of one state of the database, its internal errors never     *)
(* occur, and its isopleths count what they say.                           *)
(***************************************************************************)
EXTENDS Terrain, FiniteSetTheorems, WellFoundedInduction, TLAPS

(***************************************************************************)
(* What the writer does.  Outside its commands the three indexes agree,    *)
(* and of every command they have all posits or none.  While it keeps a    *)
(* command, the next posit may be in some of the indexes only.             *)
(***************************************************************************)
Stored == (UNION Databases) \cup (UNION {Range(c) : c \in Commands})

IndexesFit ==
    /\ byTime \subseteq bySet /\ bySet \subseteq keeper
    /\ keeper \subseteq byTime \cup (IF command = <<>> THEN {} ELSE {Head(command)})

CommandsAreWhole ==
    \A c \in Commands :
        /\ c \in begun => Range(c) \subseteq byTime \cup Range(command)
        /\ c \notin begun => Range(c) \cap (keeper \cup Range(command)) = {}

WriterInv ==
    /\ owner \in {"none", "writer", "terrain"}
    /\ begun \subseteq Commands
    /\ command \in Seq(Stored)
    /\ owner # "writer" => command = <<>>
    /\ keeper \subseteq Stored /\ IsFiniteSet(keeper)
    /\ IndexesFit
    /\ CommandsAreWhole

CaptureInv ==
    /\ pc \in {"count", "capture"} => owner = "terrain"
    /\ pc = "capture" => posits = Cardinality(keeper)
    /\ captured \subseteq Stored /\ IsFiniteSet(captured)
    /\ CaptureIsCoherent

Pcs == {"wait", "count", "capture", "group", "frames", "populate", "sum", "done",
        "limit", "invariant", "interrupted"}

CoherentInv == pc \in Pcs /\ WriterInv /\ CaptureInv

LEMMA RangeOfSequence ==
    ASSUME NEW S, NEW s \in Seq(S)
    PROVE  /\ Range(s) \subseteq S
           /\ s = <<>> => Range(s) = {}
           /\ s # <<>> => /\ Head(s) \in S /\ Tail(s) \in Seq(S)
                          /\ Range(s) = {Head(s)} \cup Range(Tail(s))
<1>1. Range(s) \subseteq S
  BY DEF Range
<1>2. s = <<>> => Range(s) = {}
  BY DEF Range
<1>3. ASSUME s # <<>>
      PROVE  /\ Head(s) \in S /\ Tail(s) \in Seq(S)
             /\ Range(s) = {Head(s)} \cup Range(Tail(s))
  <2>1. /\ Len(s) \in Nat \ {0} /\ DOMAIN s = 1..Len(s) /\ Head(s) = s[1]
        /\ Tail(s) \in Seq(S) /\ DOMAIN Tail(s) = 1..(Len(s) - 1)
        /\ \A i \in 1..(Len(s) - 1) : Tail(s)[i] = s[i + 1]
    BY <1>3
  <2>2. Head(s) \in S /\ Head(s) \in Range(s)
    BY <2>1 DEF Range
  <2>3. ASSUME NEW i \in DOMAIN s PROVE s[i] \in {Head(s)} \cup Range(Tail(s))
    <3>1. CASE i = 1
      BY <2>1, <3>1
    <3>2. CASE i # 1
      <4>1. i - 1 \in DOMAIN Tail(s) /\ Tail(s)[i - 1] = s[i]
        BY <2>1, <3>2
      <4> QED
        BY <4>1 DEF Range
    <3> QED
      BY <3>1, <3>2
  <2>4. ASSUME NEW i \in DOMAIN Tail(s) PROVE Tail(s)[i] \in Range(s)
    <3>1. i + 1 \in DOMAIN s /\ Tail(s)[i] = s[i + 1]
      BY <2>1
    <3> QED
      BY <3>1 DEF Range
  <2>5. Range(s) \subseteq {Head(s)} \cup Range(Tail(s))
    BY <2>3 DEF Range
  <2>6. Range(Tail(s)) \subseteq Range(s)
    BY <2>4 DEF Range
  <2> QED
    BY <2>1, <2>2, <2>5, <2>6
<1> QED
  BY <1>1, <1>2, <1>3

LEMMA InitIsCoherent == Init => CoherentInv
<1> SUFFICES ASSUME Init PROVE CoherentInv
  OBVIOUS
<1>1. /\ keeper \in Databases /\ bySet = keeper /\ byTime = keeper /\ IsFiniteSet(keeper)
      /\ keeper \subseteq UNION Databases
  BY TerrainAssumption DEF Init
<1>2. /\ owner = "none" /\ command = <<>> /\ begun = {} /\ pc = "wait" /\ captured = {}
  BY DEF Init
<1>3. Range(command) = {}
  BY <1>2 DEF Range
<1>4. CommandsAreWhole
  <2>1. \A c \in Commands : Range(c) \cap keeper = {}
    BY <1>1, TerrainAssumption
  <2> QED
    BY <1>2, <1>3, <2>1 DEF CommandsAreWhole
<1>5. WriterInv
  BY <1>1, <1>2, <1>4 DEF WriterInv, IndexesFit, Stored
<1>6. CaptureInv
  BY <1>2, FS_EmptySet DEF CaptureInv, CaptureIsCoherent
<1> QED
  BY <1>2, <1>5, <1>6 DEF CoherentInv, Pcs

(***************************************************************************)
(* A step of the writer: the report neither owns the database nor looks at *)
(* it.                                                                     *)
(***************************************************************************)
LEMMA WriterOwns ==
    ASSUME CoherentInv, WriterStep
    PROVE  /\ owner # "terrain"
           /\ UNCHANGED <<pc, cutoff, posits, captured, frames, finishing, report>>
<1>1. command # <<>> => owner = "writer"
  BY DEF CoherentInv, WriterInv
<1> QED
  BY <1>1 DEF WriterStep, BeginCommand, KeepPosit, IndexSet, IndexTime, EndCommand

LEMMA WriterKeepsCapture ==
    ASSUME CoherentInv, WriterStep PROVE pc' \in Pcs /\ CaptureInv'
<1>1. /\ owner # "terrain"
      /\ pc' = pc /\ captured' = captured /\ posits' = posits
  BY WriterOwns
<1>2. pc \notin {"count", "capture"}
  BY <1>1 DEF CoherentInv, CaptureInv
<1> QED
  BY <1>1, <1>2 DEF CoherentInv, CaptureInv, CaptureIsCoherent

LEMMA BeginCommandKeeps ==
    ASSUME CoherentInv, BeginCommand PROVE WriterInv'
<1>1. PICK c \in Commands \ begun : command' = c /\ begun' = begun \cup {c}
  BY DEF BeginCommand
<1>2. /\ owner' = "writer" /\ command = <<>> /\ keeper' = keeper /\ bySet' = bySet
      /\ byTime' = byTime /\ owner = "none" /\ Range(command) = {}
  BY DEF BeginCommand, CoherentInv, WriterInv, database, Range
<1>3. c \in Seq(Stored) /\ begun' \subseteq Commands
  <2>1. c \in Seq(Posit)
    BY TerrainAssumption
  <2>2. Range(c) \subseteq Stored
    <3>1. c \in Commands /\ Range(c) \in {Range(d) : d \in Commands}
      BY <1>1
    <3> QED
      BY <3>1 DEF Stored
  <2>3. c \in [1..Len(c) -> Stored] /\ Len(c) \in Nat
    BY <2>1, <2>2 DEF Range
  <2> QED
    BY <1>1, <2>3 DEF CoherentInv, WriterInv
<1>4. IndexesFit'
  BY <1>2 DEF CoherentInv, WriterInv, IndexesFit
<1>5. CommandsAreWhole'
  <2> SUFFICES ASSUME NEW d \in Commands
               PROVE  /\ d \in begun' => Range(d) \subseteq byTime \cup Range(c)
                      /\ d \notin begun' => Range(d) \cap (keeper \cup Range(c)) = {}
    BY <1>1, <1>2 DEF CommandsAreWhole
  <2>1. /\ d \in begun => Range(d) \subseteq byTime
        /\ d \notin begun => Range(d) \cap keeper = {}
    BY <1>2 DEF CoherentInv, WriterInv, CommandsAreWhole
  <2>2. d # c => Range(d) \cap Range(c) = {}
    BY TerrainAssumption
  <2> QED
    BY <1>1, <2>1, <2>2
<1> QED
  BY <1>1, <1>2, <1>3, <1>4, <1>5 DEF CoherentInv, WriterInv

LEMMA KeepingKeeps ==
    ASSUME CoherentInv, KeepPosit \/ IndexSet \/ IndexTime PROVE WriterInv'
<1> DEFINE p == Head(command)
<1>1. /\ command # <<>> /\ owner' = owner /\ begun' = begun
      /\ command \in Seq(Stored) /\ owner = "writer"
      /\ keeper' = keeper \cup {p} \/ keeper' = keeper
  BY DEF KeepPosit, IndexSet, IndexTime, writer, CoherentInv, WriterInv
<1>2. /\ p \in Stored /\ Tail(command) \in Seq(Stored)
      /\ Range(command) = {p} \cup Range(Tail(command))
  BY <1>1, RangeOfSequence
<1>3. /\ command' \in Seq(Stored)
      /\ keeper' \subseteq Stored /\ IsFiniteSet(keeper')
  <2>1. keeper \subseteq Stored /\ IsFiniteSet(keeper) /\ IsFiniteSet(keeper \cup {p})
    BY FS_AddElement DEF CoherentInv, WriterInv
  <2> QED
    BY <1>1, <1>2, <2>1 DEF KeepPosit, IndexSet, IndexTime, writer
<1>4. /\ byTime \subseteq bySet /\ bySet \subseteq keeper /\ keeper \subseteq byTime \cup {p}
      /\ \A c \in Commands :
            /\ c \in begun => Range(c) \subseteq byTime \cup Range(command)
            /\ c \notin begun => Range(c) \cap (keeper \cup Range(command)) = {}
  BY <1>1 DEF CoherentInv, WriterInv, IndexesFit, CommandsAreWhole
<1>5. CASE KeepPosit \/ IndexSet
  <2>1. /\ command' = command /\ byTime' = byTime
        /\ bySet \subseteq bySet' /\ bySet' \subseteq keeper' /\ keeper' \subseteq byTime \cup {p}
    BY <1>4, <1>5 DEF KeepPosit, IndexSet, writer
  <2>2. IndexesFit'
    BY <1>1, <1>4, <2>1 DEF IndexesFit
  <2>3. CommandsAreWhole'
    BY <1>1, <1>2, <1>4, <2>1 DEF CommandsAreWhole
  <2> QED
    BY <1>1, <1>3, <2>2, <2>3 DEF CoherentInv, WriterInv
<1>6. CASE IndexTime
  <2>1. /\ command' = Tail(command) /\ byTime' = byTime \cup {p} /\ p \in bySet
        /\ bySet' = bySet /\ keeper' = keeper
    BY <1>6 DEF IndexTime
  <2>2. IndexesFit'
    BY <1>4, <2>1 DEF IndexesFit
  <2>3. CommandsAreWhole'
    BY <1>1, <1>2, <1>4, <2>1 DEF CommandsAreWhole
  <2> QED
    BY <1>1, <1>3, <2>2, <2>3 DEF CoherentInv, WriterInv
<1> QED
  BY <1>5, <1>6

LEMMA EndCommandKeeps ==
    ASSUME CoherentInv, EndCommand PROVE WriterInv'
<1>1. /\ command' = command /\ command = <<>> /\ begun' = begun /\ keeper' = keeper
      /\ bySet' = bySet /\ byTime' = byTime /\ owner' = "none"
  BY DEF EndCommand, database, writer
<1> QED
  BY <1>1 DEF CoherentInv, WriterInv, IndexesFit, CommandsAreWhole

LEMMA WriterKeepsCoherent ==
    ASSUME CoherentInv, WriterStep PROVE CoherentInv'
BY BeginCommandKeeps, KeepingKeeps, EndCommandKeeps, WriterKeepsCapture
   DEF WriterStep, CoherentInv

-----------------------------------------------------------------------------
(***************************************************************************)
(* Sums.  Total is defined by a recursive function on the subsets of the   *)
(* domain; that there is one, and what it is, follows by taking a least    *)
(* size for which it fails.                                                *)
(***************************************************************************)
LEMMA LeastNumber ==
    ASSUME NEW S \in SUBSET Nat, S # {}
    PROVE  \E n \in S : \A m \in S : n <= m
<1>1. PICK n \in S : \A m \in S : ~(<<m, n>> \in OpToRel(<, Nat))
  BY NatLessThanWellFounded, WFMin
<1>2. \A m \in S : ~(m < n)
  BY <1>1 DEF OpToRel
<1> QED
  BY <1>2

AnyOf(s) == CHOOSE x \in s : TRUE

SubsetsUpTo(D, n) == {s \in SUBSET D : Cardinality(s) <= n}

Accumulates(g, D, counts) ==
    g = [s \in D |-> IF s = {} THEN 0 ELSE counts[AnyOf(s)] + g[s \ {AnyOf(s)}]]

LEMMA SmallerSubset ==
    ASSUME NEW D, IsFiniteSet(D), NEW s \in SUBSET D, s # {}
    PROVE  /\ AnyOf(s) \in s
           /\ s \ {AnyOf(s)} \in SUBSET D
           /\ Cardinality(s) \in Nat \ {0}
           /\ Cardinality(s \ {AnyOf(s)}) = Cardinality(s) - 1
<1>1. AnyOf(s) \in s
  BY DEF AnyOf
<1>2. IsFiniteSet(s) /\ Cardinality(s) \in Nat
  BY FS_Subset, FS_CardinalityType
<1>3. Cardinality(s \ {AnyOf(s)}) = Cardinality(s) - 1
  BY <1>1, <1>2, FS_RemoveElement
<1>4. Cardinality(s) # 0
  BY <1>2, FS_EmptySet
<1> QED
  BY <1>1, <1>2, <1>3, <1>4

LEMMA AccumulatorUpTo ==
    ASSUME NEW D, IsFiniteSet(D), NEW counts
    PROVE  \A n \in Nat : \E g : Accumulates(g, SubsetsUpTo(D, n), counts)
<1> DEFINE Exists(n) == \E g : Accumulates(g, SubsetsUpTo(D, n), counts)
           Bad == {n \in Nat : ~Exists(n)}
<1> SUFFICES ASSUME Bad # {} PROVE FALSE
  OBVIOUS
<1>1. PICK n \in Bad : \A m \in Bad : n <= m
  BY LeastNumber
<1>2. n \in Nat /\ ~Exists(n)
  OBVIOUS
<1>3. CASE n = 0
  <2> DEFINE g == [s \in SubsetsUpTo(D, 0) |-> 0]
  <2>1. ASSUME NEW s \in SubsetsUpTo(D, 0) PROVE s = {}
    <3>1. s \in SUBSET D /\ Cardinality(s) <= 0
      BY DEF SubsetsUpTo
    <3>2. ASSUME s # {} PROVE FALSE
      <4>1. Cardinality(s) \in Nat \ {0}
        BY <3>1, <3>2, SmallerSubset
      <4> QED
        BY <3>1, <4>1
    <3> QED
      BY <3>2
  <2>2. Accumulates(g, SubsetsUpTo(D, 0), counts)
    BY <2>1 DEF Accumulates
  <2> QED
    BY <1>2, <1>3, <2>2
<1>4. CASE n # 0
  <2>1. n - 1 \in Nat /\ n - 1 \notin Bad
    BY <1>1, <1>2, <1>4
  <2>2. PICK g : Accumulates(g, SubsetsUpTo(D, n - 1), counts)
    BY <2>1
  <2> DEFINE h == [s \in SubsetsUpTo(D, n) |->
                      IF s = {} THEN 0 ELSE counts[AnyOf(s)] + g[s \ {AnyOf(s)}]]
  <2>3. ASSUME NEW s \in SubsetsUpTo(D, n - 1)
        PROVE  /\ g[s] = IF s = {} THEN 0 ELSE counts[AnyOf(s)] + g[s \ {AnyOf(s)}]
               /\ h[s] = g[s]
    <3>1. g[s] = IF s = {} THEN 0 ELSE counts[AnyOf(s)] + g[s \ {AnyOf(s)}]
      BY <2>2 DEF Accumulates
    <3>2. s \in SUBSET D /\ Cardinality(s) <= n - 1 /\ Cardinality(s) \in Nat
      BY FS_Subset, FS_CardinalityType DEF SubsetsUpTo
    <3>3. s \in SubsetsUpTo(D, n)
      BY <1>2, <3>2 DEF SubsetsUpTo
    <3> QED
      BY <3>1, <3>3
  <2>4. ASSUME NEW s \in SubsetsUpTo(D, n), s # {}
        PROVE  h[s \ {AnyOf(s)}] = g[s \ {AnyOf(s)}]
    <3>1. s \ {AnyOf(s)} \in SubsetsUpTo(D, n - 1)
      BY <1>2, <2>4, SmallerSubset DEF SubsetsUpTo
    <3> QED
      BY <2>3, <3>1
  <2>5. \A s \in SubsetsUpTo(D, n) :
            h[s] = IF s = {} THEN 0 ELSE counts[AnyOf(s)] + h[s \ {AnyOf(s)}]
    BY <2>4
  <2>6. h = [s \in SubsetsUpTo(D, n) |-> h[s]]
    OBVIOUS
  <2> HIDE DEF h
  <2>7. Accumulates(h, SubsetsUpTo(D, n), counts)
    BY <2>5, <2>6 DEF Accumulates
  <2> QED
    BY <1>2, <2>7
<1> QED
  BY <1>3, <1>4

LEMMA TotalAccumulates ==
    ASSUME NEW counts, IsFiniteSet(DOMAIN counts)
    PROVE  \E g : /\ Accumulates(g, SUBSET DOMAIN counts, counts)
                  /\ Total(counts) = g[DOMAIN counts]
<1> DEFINE D == DOMAIN counts
           n == Cardinality(D)
           iter == CHOOSE g : Accumulates(g, SUBSET D, counts)
<1>1. SubsetsUpTo(D, n) = SUBSET D /\ n \in Nat
  BY FS_Subset, FS_CardinalityType DEF SubsetsUpTo
<1>2. \E g : Accumulates(g, SUBSET D, counts)
  <2>1. \E g : Accumulates(g, SubsetsUpTo(D, n), counts)
    BY <1>1, AccumulatorUpTo
  <2> QED
    BY <1>1, <2>1
<1>3. Accumulates(iter, SUBSET D, counts)
  BY <1>2
<1>4. Total(counts) = iter[D]
  BY DEF Total, MapThenSumSet, MapThenFoldSet, Accumulates, AnyOf
<1> QED
  BY <1>3, <1>4

(***************************************************************************)
(* The elements of a set, counted by what a function maps them to, are as  *)
(* many as the set has.                                                    *)
(***************************************************************************)
LEMMA TotalOfParts ==
    ASSUME NEW T, IsFiniteSet(T), NEW M, IsFiniteSet(M), NEW f \in [T -> M]
    PROVE  Total([m \in M |-> Cardinality({t \in T : f[t] = m})]) = Cardinality(T)
<1> DEFINE counts == [m \in M |-> Cardinality({t \in T : f[t] = m})]
           Into(s) == {t \in T : f[t] \in s}
<1>1. PICK g : Accumulates(g, SUBSET M, counts) /\ Total(counts) = g[M]
  <2>1. DOMAIN counts = M
    OBVIOUS
  <2> HIDE DEF counts
  <2> QED
    BY <2>1, TotalAccumulates
<1>2. \A s : /\ IsFiniteSet(Into(s))
             /\ Cardinality(Into(s)) \in Nat
  BY FS_Subset, FS_CardinalityType
<1> DEFINE Bad == {n \in Nat : \E s \in SUBSET M : Cardinality(s) = n /\ g[s] # Cardinality(Into(s))}
<1>3. ASSUME Bad # {} PROVE FALSE
  <2>1. PICK n \in Bad : \A m \in Bad : n <= m
    BY <1>3, LeastNumber
  <2>2. PICK s \in SUBSET M : Cardinality(s) = n /\ g[s] # Cardinality(Into(s))
    OBVIOUS
  <2>3. g[s] = IF s = {} THEN 0 ELSE counts[AnyOf(s)] + g[s \ {AnyOf(s)}]
    BY <1>1 DEF Accumulates
  <2>4. CASE s = {}
    <3>1. Into(s) = {}
      BY <2>4
    <3> QED
      BY <2>2, <2>3, <2>4, <3>1, FS_EmptySet
  <2>5. CASE s # {}
    <3> DEFINE x == AnyOf(s)
               u == s \ {x}
    <3>1. x \in s /\ u \in SUBSET M /\ Cardinality(u) = n - 1 /\ n - 1 \in Nat /\ n \in Nat
      BY <2>2, <2>5, SmallerSubset
    <3>2. g[u] = Cardinality(Into(u))
      <4>1. n - 1 \notin Bad
        BY <2>1, <3>1
      <4> QED
        BY <3>1, <4>1
    <3>3. Into(s) = Into(u) \cup Into({x}) /\ Into(u) \cap Into({x}) = {}
      BY <3>1
    <3>4. Cardinality(Into(s)) = Cardinality(Into(u)) + Cardinality(Into({x}))
      <4>1. Cardinality(Into(u) \cap Into({x})) = 0
        BY <3>3, FS_EmptySet
      <4>2. Cardinality(Into(u) \cup Into({x})) =
                Cardinality(Into(u)) + Cardinality(Into({x})) - Cardinality(Into(u) \cap Into({x}))
        <5> HIDE DEF Into
        <5> QED
          BY <1>2, FS_Union
      <4>3. Cardinality(Into(u)) \in Nat /\ Cardinality(Into({x})) \in Nat
        BY <1>2
      <4>4. Cardinality(Into(s)) = Cardinality(Into(u) \cup Into({x}))
        BY <3>3
      <4> HIDE DEF Into
      <4> QED
        BY <4>1, <4>2, <4>3, <4>4
    <3>5. counts[x] = Cardinality(Into({x}))
      <4>1. {t \in T : f[t] = x} = Into({x})
        OBVIOUS
      <4> QED
        BY <3>1, <4>1
    <3>6. g[s] = counts[x] + g[u]
      BY <2>3, <2>5
    <3> HIDE DEF Into, counts
    <3> QED
      BY <1>2, <2>2, <3>2, <3>4, <3>5, <3>6
  <2> QED
    BY <2>4, <2>5
<1>4. g[M] = Cardinality(Into(M))
  <2>1. Cardinality(M) \in Nat
    BY FS_CardinalityType
  <2> QED
    BY <1>3, <2>1
<1>5. Into(M) = T
  OBVIOUS
<1> QED
  BY <1>1, <1>4, <1>5

-----------------------------------------------------------------------------
(***************************************************************************)
(* The steps of the report leave the database alone; it owns it from its   *)
(* first step to its capture, while no command is under way.               *)
(***************************************************************************)
LEMMA ReportKeepsWriter ==
    ASSUME CoherentInv, UNCHANGED <<database, writer>>,
           \/ owner' = owner
           \/ owner = "none" /\ owner' = "terrain"
           \/ ReleaseOwner
    PROVE  WriterInv'
<1>1. /\ keeper' = keeper /\ bySet' = bySet /\ byTime' = byTime
      /\ command' = command /\ begun' = begun
  BY DEF database, writer
<1>2. /\ owner' \in {"none", "writer", "terrain"}
      /\ owner' # "writer" => command = <<>>
  BY DEF CoherentInv, WriterInv, ReleaseOwner
<1> QED
  BY <1>1, <1>2 DEF CoherentInv, WriterInv, IndexesFit, CommandsAreWhole

LEMMA OwnedIsWhole ==
    ASSUME CoherentInv, owner = "terrain"
    PROVE  /\ bySet = keeper /\ byTime = keeper
           /\ \A c \in Commands : Range(c) \subseteq keeper \/ Range(c) \cap keeper = {}
<1>1. command = <<>> /\ Range(command) = {}
  BY DEF CoherentInv, WriterInv, Range
<1>2. bySet = keeper /\ byTime = keeper
  BY <1>1 DEF CoherentInv, WriterInv, IndexesFit
<1> QED
  BY <1>1, <1>2 DEF CoherentInv, WriterInv, CommandsAreWhole

LEMMA OwningKeepsCoherent ==
    ASSUME CoherentInv, AcquireOwner \/ CountPosits PROVE CoherentInv'
<1>1. UNCHANGED <<database, writer>> /\ captured' = captured /\ pc' \in {"count", "capture"}
  BY DEF AcquireOwner, CountPosits
<1>2. /\ owner' = "terrain"
      /\ owner' = owner \/ owner = "none"
  BY DEF AcquireOwner, CountPosits, CoherentInv, CaptureInv
<1>3. WriterInv'
  BY <1>1, <1>2, ReportKeepsWriter
<1>4. pc' = "capture" => posits' = Cardinality(keeper')
  BY DEF AcquireOwner, CountPosits, database
<1>5. CaptureInv'
  BY <1>1, <1>2, <1>4 DEF CoherentInv, CaptureInv, CaptureIsCoherent
<1> QED
  BY <1>1, <1>3, <1>5 DEF CoherentInv, Pcs

LEMMA CaptureKeepsCoherent ==
    ASSUME CoherentInv, Capture PROVE CoherentInv' /\ pc' = "group"
<1>1. /\ pc = "capture" /\ owner = "terrain" /\ posits = Cardinality(keeper)
      /\ UNCHANGED <<database, writer, posits>> /\ ReleaseOwner
  BY DEF Capture, CoherentInv, CaptureInv
<1>2. /\ bySet = keeper /\ byTime = keeper
      /\ \A c \in Commands : Range(c) \subseteq keeper \/ Range(c) \cap keeper = {}
  BY <1>1, OwnedIsWhole
<1>3. captured' = keeper /\ pc' = "group"
  BY <1>1, <1>2 DEF Capture, Mismatched
<1>4. keeper \subseteq Stored /\ IsFiniteSet(keeper)
  BY DEF CoherentInv, WriterInv
<1>5. CaptureInv'
  BY <1>1, <1>2, <1>3, <1>4 DEF CaptureInv, CaptureIsCoherent
<1>6. WriterInv'
  BY <1>1, ReportKeepsWriter
<1> QED
  BY <1>3, <1>5, <1>6 DEF CoherentInv, Pcs

(***************************************************************************)
(* Any later step of the report, and its end.                              *)
(***************************************************************************)
Captured == {"group", "frames", "populate", "sum", "done"}

LEMMA OtherStepsKeepCoherent ==
    ASSUME CoherentInv, UNCHANGED <<database, writer, posits, captured>>,
           \/ owner' = owner
           \/ ReleaseOwner,
           \/ pc' = pc
           \/ pc \in Captured /\ pc' \in Captured
           \/ pc' \in {"limit", "invariant", "interrupted"},
           owner' = owner \/ pc' \notin {"count", "capture"}
    PROVE  CoherentInv'
<1>1. WriterInv'
  BY ReportKeepsWriter
<1>2. /\ keeper' = keeper /\ posits' = posits /\ captured' = captured
  BY DEF database
<1>3. pc' \in Pcs /\ CaptureInv'
  BY <1>2 DEF CoherentInv, CaptureInv, CaptureIsCoherent, Captured, Pcs
<1> QED
  BY <1>1, <1>3 DEF CoherentInv

LEMMA EndKeepsCoherent ==
    ASSUME CoherentInv, NEW outcome \in {"limit", "invariant", "interrupted"}, End(outcome)
    PROVE  CoherentInv'
BY OtherStepsKeepCoherent DEF End

LEMMA AggregateKeepsCoherent ==
    ASSUME CoherentInv, AggregateStep PROVE CoherentInv'
<1>1. CASE TooMuchToGroup \/ FramesTooLarge \/ TooManyAllocations
  BY <1>1, EndKeepsCoherent DEF TooMuchToGroup, FramesTooLarge, TooManyAllocations
<1>2. CASE SelectCurrent \/ BuildFrames \/ Populate \/ SumBit \/ FinishFrame
  <2>1. UNCHANGED <<database, writer, posits, captured, owner>>
    BY <1>2 DEF SelectCurrent, BuildFrames, Populate, SumBit, FinishFrame
  <2>2. \/ pc' = pc
        \/ pc \in Captured /\ pc' \in Captured
        \/ pc' \in {"limit", "invariant", "interrupted"}
    BY <1>2 DEF SelectCurrent, BuildFrames, Populate, SumBit, FinishFrame, AfterFrame,
                Captured
  <2> QED
    BY <2>1, <2>2, OtherStepsKeepCoherent
<1> QED
  BY <1>1, <1>2 DEF AggregateStep

LEMMA StepKeepsCoherent ==
    ASSUME CoherentInv, [Next]_vars PROVE CoherentInv'
<1>1. CASE WriterStep
  BY <1>1, WriterKeepsCoherent
<1>2. CASE CaptureStep
  <2>1. CASE TooManyPosits
    BY <2>1, EndKeepsCoherent DEF TooManyPosits
  <2> QED
    BY <1>2, <2>1, OwningKeepsCoherent, CaptureKeepsCoherent DEF CaptureStep
<1>3. CASE AggregateStep
  BY <1>3, AggregateKeepsCoherent
<1>4. CASE Interrupt
  BY <1>4, EndKeepsCoherent DEF Interrupt
<1>5. CASE Finished \/ UNCHANGED vars
  <2>1. UNCHANGED <<database, writer, posits, captured, owner, pc>>
    BY <1>5 DEF Finished, vars
  <2> QED
    BY <2>1, OtherStepsKeepCoherent
<1> QED
  BY <1>1, <1>2, <1>3, <1>4, <1>5 DEF Next

(***************************************************************************)
(* A report is about one state of the database between two commands, with  *)
(* as many posits as it counted, whatever the writer does meanwhile        *)
(* (capture_terrain, under the owner that keep_posit_arc's callers hold).  *)
(***************************************************************************)
THEOREM CaptureAlwaysCoherent == Spec => []CaptureIsCoherent
<1>1. CoherentInv => CaptureIsCoherent
  BY DEF CoherentInv, CaptureInv
<1> QED
  BY InitIsCoherent, StepKeepsCoherent, <1>1, PTL DEF Spec

-----------------------------------------------------------------------------
(***************************************************************************)
(* What the report has when it aggregates.  The bits of a mask are the     *)
(* places of the projected roles; a thing's profile is what it has of      *)
(* them.  The sums of a mask count, so far, the things that have the mask  *)
(* and, beyond it, only bits that are summed.  A finished frame is exact   *)
(* and stays so: nothing that it is about changes any more.                *)
(***************************************************************************)
RoleCount == Len(projected)

FramesBuilt ==
    /\ RoleCount \in Nat /\ DOMAIN projected = 1..RoleCount
    /\ profiles = [s \in Scopes |-> Profiles(Records(s), projected)]

HasMask(s, mask, n) ==
    {t \in DOMAIN profiles[s] :
        mask \subseteq profiles[s][t] /\ \A i \in profiles[s][t] \ mask : i <= n}

SummedUp ==
    /\ bit \in 0..RoleCount
    /\ \A mask \in Masks : sums[mask] = Cardinality(HasMask(scope, mask, bit))

RecordsOf(n) == IF n = 1 THEN captured ELSE current

HavingAll(n, mask) ==
    {t \in Endpoints(RecordsOf(n)) : \A i \in mask : HasRole(RecordsOf(n), t, projected[i])}

FrameIsExact(n) ==
    /\ DOMAIN report[n].isopleths \subseteq SUBSET DOMAIN projected
    /\ \A mask \in DOMAIN report[n].isopleths :
          report[n].isopleths[mask] = Cardinality(HavingAll(n, mask))

AggregateInv ==
    /\ scope \in Scopes
    /\ current \subseteq captured
    /\ pc \in {"wait", "count", "capture", "group"} => current = {}
    /\ pc \in {"wait", "count", "capture", "group", "frames"} =>
          scope = "history" /\ report = <<>>
    /\ pc \in {"populate", "sum"} =>
          /\ FramesBuilt
          /\ IF scope = "history" THEN report = <<>> ELSE report = <<report[1]>>
    /\ pc = "sum" => SummedUp
    /\ pc # "invariant"
    /\ \A n \in DOMAIN report : FrameIsExact(n)

TerrainInv == CoherentInv /\ AggregateInv

LEMMA ImageIsFinite ==
    ASSUME NEW S, IsFiniteSet(S), NEW f, f = [x \in S |-> f[x]]
    PROVE  IsFiniteSet({f[x] : x \in S})
<1> DEFINE T == {f[x] : x \in S}
<1>1. f \in Surjection(S, T)
  BY DEF Surjection
<1> HIDE DEF T
<1>2. IsFiniteSet(T)
  BY <1>1, FS_Surjection
<1> QED
  BY <1>2 DEF T

(***************************************************************************)
(* What the aggregates of a set of posits range over is finite.            *)
(***************************************************************************)
LEMMA RecordsAreFinite ==
    ASSUME NEW records, records \subseteq Stored, IsFiniteSet(records)
    PROVE  /\ IsFiniteSet(ActiveSets(records)) /\ IsFiniteSet(Relationships(records))
           /\ IsFiniteSet(UNION ActiveSets(records)) /\ IsFiniteSet(Endpoints(records))
           /\ UNION ActiveSets(records) \subseteq Role \X Endpoints(records)
<1>1. \A p \in records : p.set \subseteq Role \X Nat /\ IsFiniteSet(p.set)
  <2>1. Stored \subseteq Posit
    <3>1. \A c \in Commands : Range(c) \subseteq Posit
      BY TerrainAssumption, RangeOfSequence
    <3> QED
      BY <3>1, TerrainAssumption DEF Stored
  <2>2. \A p \in Stored : IsFiniteSet(p.set)
    BY TerrainAssumption DEF Stored
  <2> QED
    BY <2>1, <2>2 DEF Posit
<1>2. IsFiniteSet(ActiveSets(records))
  <2> DEFINE f == [p \in records |-> p.set]
  <2>1. ActiveSets(records) = {f[p] : p \in records} /\ f = [p \in records |-> f[p]]
    BY DEF ActiveSets
  <2> HIDE DEF f
  <2> QED
    BY <2>1, ImageIsFinite
<1>3. \A set \in ActiveSets(records) : IsFiniteSet(set) /\ set \subseteq Role \X Nat
  BY <1>1 DEF ActiveSets
<1>4. IsFiniteSet(UNION ActiveSets(records))
  BY <1>2, <1>3, FS_UNION
<1>5. IsFiniteSet(Endpoints(records))
  <2> DEFINE A == UNION ActiveSets(records)
             f == [a \in A |-> a[2]]
  <2>1. Endpoints(records) = {f[a] : a \in A} /\ f = [a \in A |-> f[a]]
    BY DEF Endpoints
  <2>2. IsFiniteSet(A)
    BY <1>4
  <2> HIDE DEF A, f
  <2> QED
    BY <2>1, <2>2, ImageIsFinite
<1>6. UNION ActiveSets(records) \subseteq Role \X Endpoints(records)
  BY <1>3 DEF Endpoints
<1>7. IsFiniteSet(Relationships(records))
  BY <1>2, FS_Subset DEF Relationships
<1> QED
  BY <1>2, <1>4, <1>5, <1>6, <1>7

LEMMA BitsAreFinite ==
    ASSUME FramesBuilt
    PROVE  /\ IsFiniteSet(DOMAIN projected) /\ IsFiniteSet(Masks)
           /\ DOMAIN projected = 1..RoleCount /\ RoleCount \in Nat
<1>1. DOMAIN projected = 1..RoleCount /\ RoleCount \in Nat
  BY DEF FramesBuilt
<1>2. IsFiniteSet(1..RoleCount)
  BY <1>1, FS_Interval
<1> QED
  BY <1>1, <1>2, FS_SUBSET DEF Masks

(***************************************************************************)
(* Every thing of a frame has one profile, a mask.                         *)
(***************************************************************************)
LEMMA ThingsHaveProfiles ==
    ASSUME TerrainInv, FramesBuilt, NEW s \in Scopes
    PROVE  /\ Records(s) \subseteq Stored /\ IsFiniteSet(Records(s))
           /\ DOMAIN profiles[s] = Endpoints(Records(s))
           /\ IsFiniteSet(Endpoints(Records(s)))
           /\ \A t \in Endpoints(Records(s)) :
                 profiles[s][t] =
                    {i \in DOMAIN projected : t \in AttributeThings(Records(s), projected[i])}
<1>1. captured \subseteq Stored /\ IsFiniteSet(captured) /\ current \subseteq captured
  BY DEF TerrainInv, CoherentInv, CaptureInv, AggregateInv
<1>2. Records(s) \subseteq Stored /\ IsFiniteSet(Records(s))
  BY <1>1, FS_Subset DEF Records
<1>3. profiles[s] = Profiles(Records(s), projected)
  BY DEF FramesBuilt
<1> QED
  BY <1>2, <1>3, RecordsAreFinite DEF Profiles

(***************************************************************************)
(* The sums that the code checks add up: the things of a frame, and those  *)
(* of a role of a signature, are spread over the profiles.                 *)
(***************************************************************************)
LEMMA PopulationsReconcile ==
    ASSUME TerrainInv, FramesBuilt, NEW s \in Scopes PROVE PopulationsAddUp(s)
<1> DEFINE T == Endpoints(Records(s))
           f == [t \in T |-> profiles[s][t]]
<1>1. DOMAIN profiles[s] = T /\ IsFiniteSet(T) /\ \A t \in T : profiles[s][t] \in Masks
  BY ThingsHaveProfiles DEF Masks
<1>2. IsFiniteSet(Masks)
  BY BitsAreFinite
<1>3. f \in [T -> Masks]
  BY <1>1
<1>4. \A mask \in Masks : {t \in T : f[t] = mask} = WithMask(s, mask)
  BY <1>1 DEF WithMask
<1>5. [mask \in Masks |-> Population(s, mask)] =
          [mask \in Masks |-> Cardinality({t \in T : f[t] = mask})]
  BY <1>4 DEF Population
<1>6. Total([mask \in Masks |-> Cardinality({t \in T : f[t] = mask})]) = Cardinality(T)
  <2> HIDE DEF T, f
  <2> QED
    BY <1>1, <1>2, <1>3, TotalOfParts
<1> QED
  BY <1>5, <1>6 DEF PopulationsAddUp

LEMMA AllocationsReconcile ==
    ASSUME TerrainInv, FramesBuilt, NEW s \in Scopes PROVE AllocationsAddUp(s)
<1> DEFINE R == Records(s)
<1>1. /\ R \subseteq Stored /\ IsFiniteSet(R)
      /\ DOMAIN profiles[s] = Endpoints(R) /\ IsFiniteSet(Endpoints(R))
      /\ \A t \in Endpoints(R) : profiles[s][t] \in Masks
  BY ThingsHaveProfiles DEF Masks
<1>2. /\ IsFiniteSet(Masks)
      /\ IsFiniteSet(Relationships(R)) /\ UNION ActiveSets(R) \subseteq Role \X Endpoints(R)
  BY <1>1, BitsAreFinite, RecordsAreFinite
<1> HIDE DEF R
<1> SUFFICES ASSUME NEW signature \in Range(catalog)
             PROVE  /\ UNION SetsOf(R, signature) \subseteq Role \X DOMAIN profiles[s]
                    /\ \A role \in signature :
                          /\ Total([mask \in Masks |->
                                      Cardinality(Allocated(s, signature, role, mask))])
                                = Cardinality(Participants(s, signature, role))
                          /\ Total([mask \in Masks |->
                                      Cardinality({p \in Participations(s, signature, role) :
                                                      p[2] \in WithMask(s, mask)})])
                                = Cardinality(Participations(s, signature, role))
  BY DEF AllocationsAddUp, R
<1>3. UNION SetsOf(R, signature) \subseteq Role \X DOMAIN profiles[s]
  BY <1>1, <1>2 DEF SetsOf, Relationships
<1> SUFFICES ASSUME NEW role \in signature
             PROVE  /\ Total([mask \in Masks |->
                                Cardinality(Allocated(s, signature, role, mask))])
                          = Cardinality(Participants(s, signature, role))
                    /\ Total([mask \in Masks |->
                                Cardinality({p \in Participations(s, signature, role) :
                                                p[2] \in WithMask(s, mask)})])
                          = Cardinality(Participations(s, signature, role))
  BY <1>3
<1>4. Total([mask \in Masks |-> Cardinality(Allocated(s, signature, role, mask))])
          = Cardinality(Participants(s, signature, role))
  <2> DEFINE T == Participants(s, signature, role)
             f == [t \in T |-> profiles[s][t]]
  <2>1. T \subseteq Endpoints(R) /\ IsFiniteSet(T)
    BY <1>1, FS_Subset DEF Participants, R
  <2>2. f \in [T -> Masks]
    BY <1>1, <2>1
  <2>3. \A mask \in Masks : {t \in T : f[t] = mask} = Allocated(s, signature, role, mask)
    BY <1>1, <2>1 DEF Allocated, WithMask
  <2>4. [mask \in Masks |-> Cardinality(Allocated(s, signature, role, mask))] =
            [mask \in Masks |-> Cardinality({t \in T : f[t] = mask})]
    BY <2>3
  <2>5. Total([mask \in Masks |-> Cardinality({t \in T : f[t] = mask})]) = Cardinality(T)
    <3> HIDE DEF T, f
    <3> QED
      BY <1>2, <2>1, <2>2, TotalOfParts
  <2> QED
    BY <2>4, <2>5
<1>5. Total([mask \in Masks |-> Cardinality({p \in Participations(s, signature, role) :
                                                p[2] \in WithMask(s, mask)})])
          = Cardinality(Participations(s, signature, role))
  <2> DEFINE T == Participations(s, signature, role)
             f == [p \in T |-> profiles[s][p[2]]]
  <2>1. \A p \in T : p[2] \in Endpoints(R)
    BY DEF Participations, R
  <2>2. IsFiniteSet(T)
    <3>1. IsFiniteSet(SetsOf(R, signature))
      BY <1>2, FS_Subset DEF SetsOf
    <3>2. IsFiniteSet(SetsOf(R, signature) \X Endpoints(R))
      BY <1>1, <3>1, FS_Product
    <3>3. T \subseteq SetsOf(R, signature) \X Endpoints(R)
      BY DEF Participations, R
    <3> QED
      BY <3>2, <3>3, FS_Subset
  <2>3. f \in [T -> Masks]
    BY <1>1, <2>1
  <2>4. \A mask \in Masks : {p \in T : f[p] = mask} = {p \in T : p[2] \in WithMask(s, mask)}
    BY <1>1, <2>1 DEF WithMask
  <2>5. [mask \in Masks |-> Cardinality({p \in T : p[2] \in WithMask(s, mask)})] =
            [mask \in Masks |-> Cardinality({p \in T : f[p] = mask})]
    BY <2>4
  <2>6. Total([mask \in Masks |-> Cardinality({p \in T : f[p] = mask})]) = Cardinality(T)
    <3> HIDE DEF T, f
    <3> QED
      BY <1>2, <2>2, <2>3, TotalOfParts
  <2> QED
    BY <2>5, <2>6
<1> QED
  BY <1>4, <1>5

LEMMA FramesReconcile ==
    ASSUME TerrainInv, FramesBuilt, NEW s \in Scopes PROVE Reconciles(s)
BY PopulationsReconcile, AllocationsReconcile DEF Reconciles

(***************************************************************************)
(* The steps.  Before the frames are built the report is empty.            *)
(***************************************************************************)
LEMMA InitEstablishesTerrain == Init => TerrainInv
<1> SUFFICES ASSUME Init PROVE AggregateInv
  BY InitIsCoherent DEF TerrainInv
<1> QED
  BY DEF Init, AggregateInv, Scopes

LEMMA ExactnessStays ==
    ASSUME UNCHANGED <<captured, current, projected>>, NEW n \in DOMAIN report,
           FrameIsExact(n), n \in DOMAIN report', report'[n] = report[n]
    PROVE  FrameIsExact(n)'
BY DEF FrameIsExact, HavingAll, RecordsOf

LEMMA SameAggregates ==
    ASSUME AggregateInv,
           UNCHANGED <<current, projected, profiles, scope, sums, bit, report>>,
           \/ captured' = captured /\ (pc' = pc \/ pc' \in {"limit", "interrupted"})
           \/ /\ pc \in {"wait", "count", "capture"}
              /\ pc' \in {"count", "capture", "group"}
              /\ captured' = captured \/ current = {}
    PROVE  AggregateInv'
<1>1. CASE captured' = captured
  <2>1. FramesBuilt => FramesBuilt'
    BY <1>1 DEF FramesBuilt, RoleCount, Profiles, Endpoints, ActiveSets, AttributeThings,
                Records
  <2>2. SummedUp => SummedUp'
    BY <1>1 DEF SummedUp, HasMask, Masks, RoleCount
  <2>3. \A n \in DOMAIN report' : FrameIsExact(n)'
    BY <1>1, ExactnessStays DEF AggregateInv
  <2> QED
    BY <1>1, <2>1, <2>2, <2>3 DEF AggregateInv
<1>2. CASE captured' # captured
  <2>1. report' = <<>> /\ current' = {} /\ scope' = "history"
    BY <1>2 DEF AggregateInv
  <2> QED
    BY <1>2, <2>1 DEF AggregateInv, Scopes
<1> QED
  BY <1>1, <1>2

LEMMA CaptureStepKeepsAggregates ==
    ASSUME TerrainInv, CaptureStep PROVE AggregateInv'
<1>1. UNCHANGED <<current, projected, profiles, scope, sums, bit, report>>
  BY DEF CaptureStep, AcquireOwner, CountPosits, TooManyPosits, Capture, End, frames, finishing
<1>2. CASE AcquireOwner \/ CountPosits \/ TooManyPosits
  BY <1>1, <1>2, SameAggregates
     DEF TerrainInv, AcquireOwner, CountPosits, TooManyPosits, End
<1>3. CASE Capture
  <2>1. pc = "capture" /\ pc' = "group" /\ current = {}
    BY <1>3, CaptureKeepsCoherent DEF TerrainInv, AggregateInv, Capture
  <2> QED
    BY <1>1, <2>1, SameAggregates DEF TerrainInv
<1> QED
  BY <1>2, <1>3 DEF CaptureStep

LEMMA SelectCurrentKeepsAggregates ==
    ASSUME TerrainInv, SelectCurrent PROVE AggregateInv'
<1>1. /\ pc = "group" /\ pc' = "frames" /\ UNCHANGED <<captured, scope, report>>
      /\ current' = UNION {Maxima(EligibleOf(set)) : set \in ActiveSets(captured)}
  BY DEF SelectCurrent, finishing
<1>2. current' \subseteq captured'
  BY <1>1 DEF Maxima, EligibleOf
<1>3. report = <<>> /\ scope = "history"
  BY <1>1 DEF TerrainInv, AggregateInv
<1> QED
  BY <1>1, <1>2, <1>3 DEF AggregateInv, Scopes

LEMMA TruncatedDomain ==
    ASSUME NEW k \in Nat, NEW s, s = [i \in 1..k |-> s[i]], NEW limit \in Nat
    PROVE  LET t == Truncated(s, limit)
           IN  Len(t) \in Nat /\ DOMAIN t = 1..Len(t)
<1> DEFINE n == IF limit < k THEN limit ELSE k
<1>1. s \in [1..k -> {s[i] : i \in 1..k}]
  OBVIOUS
<1>2. Len(s) = k
  <2> HIDE DEF n
  <2> QED
    BY <1>1
<1>3. Truncated(s, limit) = SubSeq(s, 1, n)
  BY <1>2 DEF Truncated
<1>4. SubSeq(s, 1, n) = [i \in 1..n |-> s[i]]
  BY <1>1
<1> QED
  BY <1>3, <1>4

LEMMA OrderIsSequence ==
    ASSUME NEW key
    PROVE  InOrder(key) = [i \in 1..Cardinality(DOMAIN key) |-> InOrder(key)[i]]
<1> DEFINE Placed(i) ==
        CHOOSE x \in DOMAIN key :
            Cardinality({y \in DOMAIN key : LexBefore(key[y], key[x])}) = i - 1
<1>1. InOrder(key) = [i \in 1..Cardinality(DOMAIN key) |-> Placed(i)]
  BY DEF InOrder
<1> HIDE DEF Placed
<1> QED
  BY <1>1

LEMMA BuildFramesKeepsAggregates ==
    ASSUME TerrainInv, BuildFrames PROVE AggregateInv'
<1>1. /\ pc = "frames" /\ pc' = "populate" /\ UNCHANGED <<captured, current, scope, report>>
      /\ projected' = Truncated(InOrder(RoleKey), RoleLimit)
      /\ profiles' = [s \in Scopes |-> Profiles(Records(s), projected')]
  BY DEF BuildFrames, finishing
<1>2. report = <<>> /\ scope = "history" /\ current \subseteq captured
  BY <1>1 DEF TerrainInv, AggregateInv
<1>3. IsFiniteSet(AttributeRoles)
  <2> DEFINE A == UNION ActiveSets(captured \cup current)
             f == [a \in A |-> a[1]]
  <2>1. IsFiniteSet(A)
    <3>1. captured \cup current = captured
      BY <1>2
    <3> QED
      BY <3>1, RecordsAreFinite DEF TerrainInv, CoherentInv, CaptureInv
  <2>2. AttributeRoles \subseteq {f[a] : a \in A}
    <3> SUFFICES ASSUME NEW r \in AttributeRoles PROVE \E a \in A : f[a] = r
      OBVIOUS
    <3>1. PICK t : {<<r, t>>} \in ActiveSets(captured \cup current)
      BY DEF AttributeRoles, AttributeThings
    <3>2. <<r, t>> \in A
      BY <3>1
    <3> QED
      BY <3>2
  <2>3. f = [a \in A |-> f[a]]
    OBVIOUS
  <2>4. IsFiniteSet({f[a] : a \in A})
    <3> HIDE DEF f, A
    <3> QED
      BY <2>1, <2>3, ImageIsFinite
  <2> HIDE DEF f, A
  <2> QED
    BY <2>2, <2>4, FS_Subset
<1>4. Len(projected') \in Nat /\ DOMAIN projected' = 1..Len(projected')
  <2>1. RoleLimit \in Nat /\ Cardinality(AttributeRoles) \in Nat
    BY <1>3, TerrainAssumption, FS_CardinalityType
  <2>2. DOMAIN RoleKey = AttributeRoles
    BY DEF RoleKey
  <2>3. PICK s : s = InOrder(RoleKey)
    OBVIOUS
  <2>4. s = [i \in 1..Cardinality(AttributeRoles) |-> s[i]]
    BY <2>2, <2>3, OrderIsSequence
  <2> QED
    BY <1>1, <2>1, <2>3, <2>4, TruncatedDomain
<1>5. FramesBuilt'
  BY <1>1, <1>4 DEF FramesBuilt, RoleCount, Profiles, Endpoints, ActiveSets,
                    AttributeThings, Records
<1> QED
  BY <1>1, <1>2, <1>5 DEF AggregateInv, Scopes

(***************************************************************************)
(* The sums: a mask without the next bit gains the things that have that   *)
(* bit as well, which it did not count yet.                                *)
(***************************************************************************)
LEMMA MasksAreFinite ==
    ASSUME TerrainInv, FramesBuilt, NEW mask, NEW n
    PROVE  IsFiniteSet(HasMask(scope, mask, n)) /\ Cardinality(HasMask(scope, mask, n)) \in Nat
<1>1. scope \in Scopes
  BY DEF TerrainInv, AggregateInv
<1>2. IsFiniteSet(DOMAIN profiles[scope])
  BY <1>1, ThingsHaveProfiles
<1>3. IsFiniteSet(HasMask(scope, mask, n))
  BY <1>2, FS_Subset DEF HasMask
<1> QED
  BY <1>3, FS_CardinalityType

LEMMA PopulateKeepsAggregates ==
    ASSUME TerrainInv, Populate PROVE AggregateInv'
<1>1. /\ pc = "populate" /\ pc' = "sum" /\ bit' = 0
      /\ UNCHANGED <<captured, current, projected, profiles, scope, report>>
      /\ sums' = [mask \in Masks |-> Population(scope, mask)]
  BY DEF Populate, frames
<1>2. FramesBuilt /\ scope \in Scopes
  BY <1>1 DEF TerrainInv, AggregateInv
<1>3. ASSUME NEW mask \in Masks PROVE HasMask(scope, mask, 0) = WithMask(scope, mask)
  <2>1. \A t \in DOMAIN profiles[scope] :
            profiles[scope][t] \subseteq 1..RoleCount /\ RoleCount \in Nat
    BY <1>2, ThingsHaveProfiles DEF FramesBuilt
  <2>2. ASSUME NEW t \in DOMAIN profiles[scope]
        PROVE  (mask \subseteq profiles[scope][t] /\ \A i \in profiles[scope][t] \ mask : i <= 0)
                  <=> profiles[scope][t] = mask
    <3>1. \A i \in profiles[scope][t] : i \in Nat /\ i # 0
      BY <2>1
    <3>2. \A i \in profiles[scope][t] : ~(i <= 0)
      BY <3>1
    <3> QED
      BY <3>2
  <2> QED
    BY <2>2 DEF HasMask, WithMask
<1>4. FramesBuilt'
  BY <1>1, <1>2 DEF FramesBuilt, RoleCount, Profiles, Endpoints, ActiveSets,
                    AttributeThings, Records
<1>5. SummedUp'
  <2>1. \A mask \in Masks : sums'[mask] = Cardinality(HasMask(scope, mask, 0))
    BY <1>1, <1>3 DEF Population
  <2>2. \A mask \in Masks : HasMask(scope, mask, bit)' = HasMask(scope, mask, 0)
    BY <1>1 DEF HasMask
  <2>3. bit' \in 0..RoleCount' /\ Masks' = Masks
    BY <1>1, <1>2 DEF FramesBuilt, RoleCount, Masks
  <2> QED
    BY <2>1, <2>2, <2>3 DEF SummedUp
<1>6. \A n \in DOMAIN report' : FrameIsExact(n)'
  BY <1>1, ExactnessStays DEF TerrainInv, AggregateInv
<1> QED
  BY <1>1, <1>4, <1>5, <1>6 DEF TerrainInv, AggregateInv

LEMMA SumBitKeepsAggregates ==
    ASSUME TerrainInv, SumBit PROVE AggregateInv'
<1> DEFINE b == bit + 1
           P(t) == profiles[scope][t]
<1>1. /\ pc = "sum" /\ pc' = "sum" /\ bit < RoleCount /\ bit' = b
      /\ UNCHANGED <<captured, current, projected, profiles, scope, report>>
      /\ sums' = [mask \in Masks |->
                    IF b \in mask THEN sums[mask] ELSE sums[mask] + sums[mask \cup {b}]]
  BY DEF SumBit, frames, RoleCount
<1>2. FramesBuilt /\ scope \in Scopes /\ SummedUp
  BY <1>1 DEF TerrainInv, AggregateInv
<1>3. /\ RoleCount \in Nat /\ DOMAIN projected = 1..RoleCount /\ bit \in Nat
      /\ b \in DOMAIN projected
  BY <1>1, <1>2 DEF FramesBuilt, SummedUp
<1>4. \A t \in DOMAIN profiles[scope] : P(t) \subseteq DOMAIN projected
  BY <1>2, ThingsHaveProfiles
<1>5. ASSUME NEW mask \in Masks PROVE sums'[mask] = Cardinality(HasMask(scope, mask, b))
  <2>1. CASE b \in mask
    <3>1. ASSUME NEW t \in DOMAIN profiles[scope]
          PROVE  (\A i \in P(t) \ mask : i <= b) <=> (\A i \in P(t) \ mask : i <= bit)
      BY <1>3, <1>4, <2>1
    <3>2. HasMask(scope, mask, b) = HasMask(scope, mask, bit)
      BY <3>1 DEF HasMask
    <3> QED
      BY <1>1, <1>2, <2>1, <3>2 DEF SummedUp
  <2>2. CASE b \notin mask
    <3> DEFINE A == HasMask(scope, mask, bit)
               B == HasMask(scope, mask \cup {b}, bit)
    <3>1. mask \cup {b} \in Masks
      BY <1>3 DEF Masks
    <3>2. sums'[mask] = Cardinality(A) + Cardinality(B)
      BY <1>1, <1>2, <2>2, <3>1 DEF SummedUp
    <3>3. HasMask(scope, mask, b) = A \cup B
      <4>1. ASSUME NEW t \in DOMAIN profiles[scope]
            PROVE  (mask \subseteq P(t) /\ \A i \in P(t) \ mask : i <= b)
                   <=> \/ mask \subseteq P(t) /\ \A i \in P(t) \ mask : i <= bit
                       \/ /\ mask \cup {b} \subseteq P(t)
                          /\ \A i \in P(t) \ (mask \cup {b}) : i <= bit
        <5>1. \A i \in P(t) : i \in Nat /\ (i <= b <=> i <= bit \/ i = b)
          BY <1>3, <1>4
        <5> QED
          BY <5>1
      <4> QED
        BY <4>1 DEF HasMask
    <3>4. A \cap B = {}
      <4>1. ~(b <= bit)
        BY <1>3
      <4> QED
        BY <2>2, <4>1 DEF HasMask
    <3>5. /\ IsFiniteSet(A) /\ IsFiniteSet(B)
          /\ Cardinality(A) \in Nat /\ Cardinality(B) \in Nat
      BY <1>2, MasksAreFinite
    <3> HIDE DEF A, B
    <3>6. Cardinality(A \cup B) = Cardinality(A) + Cardinality(B)
      BY <3>4, <3>5, FS_Union, FS_EmptySet
    <3> QED
      BY <3>2, <3>3, <3>6
  <2> QED
    BY <2>1, <2>2
<1>6. FramesBuilt'
  BY <1>1, <1>2 DEF FramesBuilt, RoleCount, Profiles, Endpoints, ActiveSets,
                    AttributeThings, Records
<1>7. SummedUp'
  <2>1. \A mask \in Masks : HasMask(scope, mask, bit)' = HasMask(scope, mask, b)
    BY <1>1 DEF HasMask
  <2>2. bit' \in 0..RoleCount' /\ Masks' = Masks
    BY <1>1, <1>3 DEF RoleCount, Masks
  <2> QED
    BY <1>5, <2>1, <2>2 DEF SummedUp
<1>8. \A n \in DOMAIN report' : FrameIsExact(n)'
  BY <1>1, ExactnessStays DEF TerrainInv, AggregateInv
<1> QED
  BY <1>1, <1>6, <1>7, <1>8 DEF TerrainInv, AggregateInv

(***************************************************************************)
(* A frame is finished when the sums have all bits: they then count the    *)
(* things with all bits of the mask, whatever else they have.              *)
(***************************************************************************)
LEMMA SumsCountHaving ==
    ASSUME TerrainInv, pc = "sum", bit = RoleCount, NEW mask \in Masks,
           NEW n \in {1, 2}, RecordsOf(n) = Records(scope)
    PROVE  sums[mask] = Cardinality(HavingAll(n, mask))
<1>1. FramesBuilt /\ scope \in Scopes /\ SummedUp
  BY DEF TerrainInv, AggregateInv
<1>2. DOMAIN projected = 1..RoleCount /\ RoleCount \in Nat
  BY <1>1 DEF FramesBuilt
<1> DEFINE R == Records(scope)
<1>3. /\ DOMAIN profiles[scope] = Endpoints(R)
      /\ \A t \in Endpoints(R) :
            profiles[scope][t] =
                {i \in DOMAIN projected : t \in AttributeThings(R, projected[i])}
  BY <1>1, ThingsHaveProfiles
<1>4. ASSUME NEW t \in Endpoints(R), NEW role
      PROVE  t \in AttributeThings(R, role) <=> HasRole(R, t, role)
  BY DEF AttributeThings, ActiveSets, HasRole
<1>5. ASSUME NEW t \in Endpoints(R)
      PROVE  (mask \subseteq profiles[scope][t]
                 /\ \A i \in profiles[scope][t] \ mask : i <= bit)
             <=> \A i \in mask : HasRole(R, t, projected[i])
  <2>1. mask \subseteq DOMAIN projected /\ \A i \in DOMAIN projected : i <= bit
    BY <1>2 DEF Masks
  <2>2. \A i : i \in profiles[scope][t]
                 <=> i \in DOMAIN projected /\ HasRole(R, t, projected[i])
    BY <1>3, <1>4
  <2> QED
    BY <2>1, <2>2
<1>6. HasMask(scope, mask, bit) = HavingAll(n, mask)
  BY <1>3, <1>5 DEF HasMask, HavingAll
<1> QED
  BY <1>1, <1>6 DEF SummedUp

LEMMA FinishFrameKeepsAggregates ==
    ASSUME TerrainInv, FinishFrame PROVE AggregateInv'
<1>1. /\ pc = "sum" /\ bit = RoleCount
      /\ UNCHANGED <<captured, current, projected, profiles>>
      /\ report' = Append(report, Frame) /\ pc' = AfterFrame /\ scope' = "current"
  BY DEF FinishFrame, frames, RoleCount
<1>2. /\ FramesBuilt /\ scope \in Scopes /\ current \subseteq captured
      /\ IF scope = "history" THEN report = <<>> ELSE report = <<report[1]>>
      /\ \A n \in DOMAIN report : FrameIsExact(n)
  BY <1>1 DEF TerrainInv, AggregateInv
<1>3. pc' = IF scope = "current" THEN "done" ELSE "populate"
  BY <1>1, <1>2, FramesReconcile DEF AfterFrame
<1>4. PICK n \in {1, 2} :
          /\ n = IF scope = "history" THEN 1 ELSE 2
          /\ RecordsOf(n) = Records(scope)
  BY <1>2 DEF RecordsOf, Records, Scopes
<1>5. PICK f : f = Frame
  OBVIOUS
<1>6. /\ DOMAIN f.isopleths \subseteq SUBSET DOMAIN projected
      /\ \A mask \in DOMAIN f.isopleths : f.isopleths[mask] = Cardinality(HavingAll(n, mask))
  <2>1. f.isopleths = [mask \in {m \in Masks \ {{}} : Population(scope, m) # 0} |-> sums[mask]]
    BY <1>5 DEF Frame
  <2> QED
    BY <1>1, <1>4, <2>1, SumsCountHaving DEF Masks
<1>7. /\ DOMAIN report' = 1..n /\ report'[n] = f
      /\ scope = "history" => report' = <<f>>
      /\ \A k \in 1..n : k # n => k \in DOMAIN report /\ report'[k] = report[k]
  <2>1. CASE scope = "history"
    <3>1. report' = <<f>> /\ n = 1
      BY <1>1, <1>2, <1>4, <1>5, <2>1
    <3> QED
      BY <3>1
  <2>2. CASE scope # "history"
    <3>1. PICK first : report = <<first>> /\ first = report[1]
      BY <1>2, <2>2
    <3>2. n = 2
      BY <1>4, <2>2
    <3>3. report' = Append(<<first>>, f)
      BY <1>1, <1>5, <3>1
    <3>4. report' = <<first, f>>
      <4>1. <<first>> \in Seq({first, f}) /\ Len(<<first>>) = 1
        OBVIOUS
      <4>2. /\ report' \in Seq({first, f}) /\ Len(report') = 2
            /\ report'[1] = first /\ report'[2] = f
        BY <3>3, <4>1
      <4> QED
        BY <4>2
    <3> QED
      BY <2>2, <3>1, <3>2, <3>4
  <2> QED
    BY <2>1, <2>2
<1>8. FrameIsExact(n)'
  <2>1. \A mask : HavingAll(n, mask)' = HavingAll(n, mask)
    BY <1>1 DEF HavingAll, RecordsOf
  <2> QED
    BY <1>1, <1>6, <1>7, <2>1 DEF FrameIsExact
<1>9. \A k \in DOMAIN report' : FrameIsExact(k)'
  BY <1>1, <1>2, <1>7, <1>8, ExactnessStays
<1>10. FramesBuilt'
  BY <1>1, <1>2 DEF FramesBuilt, RoleCount, Profiles, Endpoints, ActiveSets,
                    AttributeThings, Records
<1>11. pc' = "populate" => report' = <<report'[1]>>
  <2>1. pc' = "populate" => scope = "history"
    BY <1>3, <1>2 DEF Scopes
  <2> QED
    BY <1>7, <2>1
<1> QED
  BY <1>1, <1>2, <1>3, <1>9, <1>10, <1>11 DEF AggregateInv, Scopes

LEMMA StepKeepsTerrain ==
    ASSUME TerrainInv, [Next]_vars PROVE TerrainInv'
<1> SUFFICES AggregateInv'
  BY StepKeepsCoherent DEF TerrainInv
<1>1. CASE WriterStep
  BY <1>1, WriterOwns, SameAggregates DEF TerrainInv, frames, finishing
<1>2. CASE CaptureStep
  BY <1>2, CaptureStepKeepsAggregates
<1>3. CASE AggregateStep
  <2>1. CASE TooMuchToGroup \/ FramesTooLarge \/ TooManyAllocations
    BY <2>1, SameAggregates
       DEF TerrainInv, TooMuchToGroup, FramesTooLarge, TooManyAllocations, End, frames,
           finishing
  <2> QED
    BY <1>3, <2>1, SelectCurrentKeepsAggregates, BuildFramesKeepsAggregates,
       PopulateKeepsAggregates, SumBitKeepsAggregates, FinishFrameKeepsAggregates
       DEF AggregateStep
<1>4. CASE Interrupt
  BY <1>4, SameAggregates DEF TerrainInv, Interrupt, End, frames, finishing
<1>5. CASE Finished \/ UNCHANGED vars
  BY <1>5, SameAggregates DEF TerrainInv, Finished, vars, frames, finishing
<1> QED
  BY <1>1, <1>2, <1>3, <1>4, <1>5 DEF Next

(***************************************************************************)
(* None of the internal errors of the report (Terrain's "invariant"        *)
(* errors) is ever returned: what the report reads under the owner         *)
(* matches, and its own sums add up.                                       *)
(***************************************************************************)
THEOREM InternalErrorsNeverOccur == Spec => []NoInternalError
<1>1. TerrainInv => NoInternalError
  BY DEF TerrainInv, AggregateInv, NoInternalError
<1> QED
  BY InitEstablishesTerrain, StepKeepsTerrain, <1>1, PTL DEF Spec

LEMMA FramesAreExact == TerrainInv => SupportIsExact
<1> SUFFICES ASSUME TerrainInv, NEW n \in DOMAIN report
             PROVE  LET records == IF n = 1 THEN captured ELSE current
                        isopleths == report[n].isopleths
                    IN  /\ \A mask \in DOMAIN isopleths :
                              isopleths[mask] = Cardinality({t \in Endpoints(records) :
                                  \A i \in mask : HasRole(records, t, projected[i])})
                        /\ \A mask, larger \in DOMAIN isopleths :
                              mask \subseteq larger => isopleths[larger] <= isopleths[mask]
  BY DEF SupportIsExact
<1> DEFINE isopleths == report[n].isopleths
<1>1. \A mask \in DOMAIN isopleths : isopleths[mask] = Cardinality(HavingAll(n, mask))
  BY DEF TerrainInv, AggregateInv, FrameIsExact
<1>2. IsFiniteSet(Endpoints(RecordsOf(n)))
  <2>1. /\ captured \subseteq Stored /\ IsFiniteSet(captured)
        /\ current \subseteq captured
    BY DEF TerrainInv, CoherentInv, CaptureInv, AggregateInv
  <2>2. RecordsOf(n) \subseteq Stored /\ IsFiniteSet(RecordsOf(n))
    BY <2>1, FS_Subset DEF RecordsOf
  <2> QED
    BY <2>2, RecordsAreFinite
<1>3. ASSUME NEW mask, NEW larger, mask \subseteq larger
      PROVE  Cardinality(HavingAll(n, larger)) <= Cardinality(HavingAll(n, mask))
  <2>1. IsFiniteSet(HavingAll(n, mask))
    BY <1>2, FS_Subset DEF HavingAll
  <2>2. HavingAll(n, larger) \subseteq HavingAll(n, mask)
    BY <1>3 DEF HavingAll
  <2> QED
    BY <2>1, <2>2, FS_Subset
<1> DEFINE records == IF n = 1 THEN captured ELSE current
<1>4. \A mask : HavingAll(n, mask) =
          {t \in Endpoints(records) : \A i \in mask : HasRole(records, t, projected[i])}
  BY DEF HavingAll, RecordsOf
<1> HIDE DEF records, isopleths
<1>5. \A mask, larger \in DOMAIN isopleths :
          mask \subseteq larger => isopleths[larger] <= isopleths[mask]
  BY <1>1, <1>3
<1>6. \A mask \in DOMAIN isopleths :
          isopleths[mask] = Cardinality({t \in Endpoints(records) :
              \A i \in mask : HasRole(records, t, projected[i])})
  BY <1>1, <1>4
<1> QED
  BY <1>5, <1>6 DEF records, isopleths

(***************************************************************************)
(* Every isopleth of every finished frame, History or Current, counts      *)
(* exactly the things that have all of its roles, and a further role never *)
(* raises the support; also when the report is interrupted after it        *)
(* (finish_frame's support_sums).                                          *)
(***************************************************************************)
THEOREM SupportAlwaysExact == Spec => []SupportIsExact
BY InitEstablishesTerrain, StepKeepsTerrain, FramesAreExact, PTL DEF Spec
=============================================================================
