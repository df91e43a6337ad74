------------------------ MODULE ScriptExecutionProofs -----------------------
(***************************************************************************)
(* Proofs about ScriptExecution, for any clients, scripts, limits and      *)
(* channel capacities: its types, the execution owner, the order of the    *)
(* additions, that `search ... or add` adds only what is absent and hands  *)
(* on all that it found, the registry of queries, the addition that is     *)
(* still made after an interruption, and the events of a result stream.    *)
(***************************************************************************)
EXTENDS ScriptExecution, FiniteSetTheorems, SequenceTheorems, TLAPS

Sinks == [matches: Nat, left: Nat, count: 0..Limit,
          limited: BOOLEAN, stopped: BOOLEAN, added: BOOLEAN]

Places == Running \cup {"ready", "waiting", "report", "close", "done"}

Results == [rows: Nat, limited: BOOLEAN]

-----------------------------------------------------------------------------
(***************************************************************************)
(* The inductive invariant.  What is known of a client and its script:     *)
(* it has the owner while it runs; its additions are of the commands it is *)
(* past, or the fallback of the one it is at; from the search to the       *)
(* fallback, what was absent stays absent; and while it runs, nobody adds  *)
(* after it.                                                               *)
(***************************************************************************)
Absent(key) == \A i \in DOMAIN store : store[i].key # key

OwnsWhileRunning(c) == owner = c <=> pc[c] \in Running

InItsScript(c) == pc[c] \in Running \ {"head"} => ip[c] \in DOMAIN Script[c]

RowsAreLeft(c) ==
    /\ pc[c] = "rows" => sink[c].left > 0
    /\ pc[c] = "meta" => ~sink[c].added

BeforeItRuns(c) ==
    pc[c] \in {"ready", "waiting"} => \A i \in DOMAIN store : store[i].by # c

AddedBefore(c) ==
    \A i \in DOMAIN store : store[i].by = c =>
        \/ store[i].command < ip[c]
        \/ /\ store[i].command = ip[c]
           /\ sink[c].added
           /\ pc[c] \notin {"head", "add", "commit", "search", "meta"}

StillAbsent(c) ==
    /\ pc[c] \in {"add", "commit"} /\ Current(c).op = "oradd" => Absent(Current(c).key)
    /\ pc[c] \in {"meta", "rows"} /\ sink[c].matches = 0 /\ ~sink[c].added
            => Absent(Current(c).key)

AddsLast(c) ==
    pc[c] \in Running =>
        \A i, k \in DOMAIN store : i <= k /\ store[i].by = c => store[k].by = c

ClientInv(c) ==
    /\ OwnsWhileRunning(c)
    /\ InItsScript(c)
    /\ RowsAreLeft(c)
    /\ BeforeItRuns(c)
    /\ AddedBefore(c)
    /\ StillAbsent(c)
    /\ AddsLast(c)

IInv ==
    /\ TypeOK
    /\ \A c \in Clients : ClientInv(c)
    /\ ScriptsAreSerial
    /\ AddedOnce

-----------------------------------------------------------------------------
LEMMA ConstantFacts ==
    /\ NoOwner \notin Clients
    /\ Limit \in Nat \ {0} /\ Capacity \in Nat \ {0}
    /\ Crowds \subseteq SUBSET Clients
    /\ \A c \in Clients : Script[c] \in Seq(Command)
BY ScriptExecutionAssumption

LEMMA CurrentIsCommand ==
    ASSUME NEW c \in Clients, ip[c] \in DOMAIN Script[c]
    PROVE  Current(c) \in Command /\ Current(c).key \in Keys
<1>1. Script[c] \in Seq(Command)
  BY ConstantFacts
<1>2. Current(c) \in Command
  BY <1>1 DEF Current
<1> QED
  BY <1>2 DEF Command

LEMMA TypeFacts ==
    ASSUME TypeOK, NEW c \in Clients
    PROVE  /\ pc[c] \in Places /\ pc \in [Clients -> Places]
           /\ ip[c] \in Nat \ {0} /\ ip \in [Clients -> Nat \ {0}]
           /\ sink[c] \in Sinks /\ sink \in [Clients -> Sinks]
           /\ result[c] \in Results /\ result \in [Clients -> Results]
           /\ store \in Seq(Addition)
           /\ channel \in [Clients -> Seq(Event)] /\ channel[c] \in Seq(Event)
           /\ token \in [Clients -> BOOLEAN] /\ expired \in [Clients -> BOOLEAN]
BY DEF TypeOK, Places, Sinks, Results

LEMMA MatchesIsNat ==
    ASSUME TypeOK, NEW key
    PROVE  /\ Matches(key) \in Nat
           /\ Matches(key) = 0 => Absent(key)
<1> DEFINE M == {i \in DOMAIN store : store[i].key = key}
<1>1. Len(store) \in Nat /\ DOMAIN store = 1..Len(store)
  BY DEF TypeOK
<1>2. IsFiniteSet(DOMAIN store)
  BY <1>1, FS_Interval
<1>3. IsFiniteSet(M)
  BY <1>2, FS_Subset
<1>4. Cardinality(M) \in Nat /\ (Cardinality(M) = 0 => M = {})
  BY <1>3, FS_CardinalityType, FS_EmptySet
<1> QED
  BY <1>4 DEF Matches, Found, Absent

LEMMA BindAlsoKeepsTypes ==
    ASSUME TypeOK, NEW c \in Clients, NEW things \in SUBSET Nat, BindAlso(c, things)
    PROVE  variables' \in [Clients -> [Keys -> SUBSET Nat]]
<1>1. variables \in [Clients -> [Keys -> SUBSET Nat]]
  BY DEF TypeOK
<1> DEFINE names == [variables[c] EXCEPT ![Current(c).key] = @ \cup things]
<1>2. names \in [Keys -> SUBSET Nat]
  BY <1>1
<1>3. variables' = [variables EXCEPT ![c] = names]
  BY DEF BindAlso
<1> HIDE DEF names
<1> QED
  BY <1>1, <1>2, <1>3

LEMMA ResultSetsIsNat ==
    ASSUME NEW c \in Clients PROVE ResultSets(c) \in Nat
<1> DEFINE R == {i \in DOMAIN Script[c] : Script[c][i].returns}
<1>1. Len(Script[c]) \in Nat /\ DOMAIN Script[c] = 1..Len(Script[c])
  BY ConstantFacts
<1>2. IsFiniteSet(DOMAIN Script[c])
  BY <1>1, FS_Interval
<1>3. IsFiniteSet(R)
  BY <1>2, FS_Subset
<1> QED
  BY <1>3, FS_CardinalityType DEF ResultSets

LEMMA InitEstablishesIInv == Init => IInv
<1> SUFFICES ASSUME Init PROVE IInv
  OBVIOUS
<1>1. store = <<>> /\ DOMAIN store = {} /\ owner \notin Clients
  BY ConstantFacts DEF Init
<1>2. \A c \in Clients : pc[c] \in {"ready", "done"} /\ channel[c] = <<>>
  BY DEF Init
<1>3. pc \in [Clients -> {"ready", "done"}]
  BY DEF Init
<1>4. TypeOK
  <2>1. NoSearch \in Sinks
    BY ConstantFacts DEF NoSearch, Sinks
  <2>2. sink \in [Clients -> Sinks]
    BY <2>1 DEF Init
  <2>3. pc \in [Clients -> Places] /\ owner \in Clients \cup {NoOwner}
    BY <1>3 DEF Init, Places
  <2>4. channel \in [Clients -> Seq(Event)] /\ received \in [Clients -> Seq(Event)]
    BY DEF Init
  <2>5. \A c \in Clients : Len(channel[c]) <= Capacity
    BY <1>2, ConstantFacts
  <2>6. connected \in [Clients -> BOOLEAN]
    BY DEF Init
  <2> QED
    BY <1>1, <2>2, <2>3, <2>4, <2>5, <2>6 DEF Init, TypeOK, Sinks, Places
<1>5. \A c \in Clients : ClientInv(c)
  BY <1>1, <1>2 DEF ClientInv, OwnsWhileRunning, InItsScript, RowsAreLeft, BeforeItRuns,
     AddedBefore, StillAbsent, AddsLast, Running
<1> QED
  BY <1>1, <1>4, <1>5 DEF IInv, ScriptsAreSerial, AddedOnce

-----------------------------------------------------------------------------
(***************************************************************************)
(* A step of one client leaves the others where they are.                  *)
(***************************************************************************)
OthersStay(c) ==
    \A d \in Clients \ {c} :
        /\ pc'[d] = pc[d] /\ ip'[d] = ip[d] /\ sink'[d] = sink[d]
        /\ owner' = d <=> owner = d

LEMMA OthersKeepInv ==
    ASSUME IInv, NEW c \in Clients, NEW d \in Clients \ {c}, OthersStay(c), store' = store
    PROVE  ClientInv(d)'
<1>1. /\ pc'[d] = pc[d] /\ ip'[d] = ip[d] /\ sink'[d] = sink[d]
      /\ owner' = d <=> owner = d
  BY DEF OthersStay
<1>2. ClientInv(d)
  BY DEF IInv
<1>3. Current(d)' = Current(d)
  BY <1>1 DEF Current
<1> QED
  BY <1>1, <1>2, <1>3 DEF ClientInv, OwnsWhileRunning, InItsScript, RowsAreLeft,
     BeforeItRuns, AddedBefore, StillAbsent, AddsLast, Absent

(***************************************************************************)
(* So a step without an addition keeps the invariant if it keeps the types *)
(* and what is known of its own client.                                    *)
(***************************************************************************)
LEMMA QuietStep ==
    ASSUME IInv, NEW c \in Clients, OthersStay(c), store' = store, TypeOK', ClientInv(c)'
    PROVE  IInv'
<1>1. \A d \in Clients : ClientInv(d)'
  BY OthersKeepInv
<1>2. ScriptsAreSerial' /\ AddedOnce'
  BY DEF IInv, ScriptsAreSerial, AddedOnce
<1> QED
  BY <1>1, <1>2 DEF IInv

-----------------------------------------------------------------------------
(***************************************************************************)
(* Sending an event.                                                       *)
(***************************************************************************)
StreamTypes ==
    /\ connected \in [Clients -> BOOLEAN]
    /\ channel \in [Clients -> Seq(Event)]
    /\ \A c \in Clients : Len(channel[c]) <= Capacity
    /\ received \in [Clients -> Seq(Event)]

LEMMA SendKeepsTypes ==
    ASSUME TypeOK, NEW c \in Clients, NEW event \in Event, Send(c, event)
    PROVE  StreamTypes'
<1>1. channel \in [Clients -> Seq(Event)] /\ connected \in [Clients -> BOOLEAN]
      /\ received \in [Clients -> Seq(Event)]
  BY DEF TypeOK
<1>2. channel' = [channel EXCEPT ![c] = IF connected[c] THEN Append(channel[c], event)
                                                        ELSE channel[c]]
      /\ connected' = connected /\ received' = received
  BY DEF Send
<1>3. Append(channel[c], event) \in Seq(Event)
      /\ Len(Append(channel[c], event)) = Len(channel[c]) + 1
  BY <1>1
<1>4. channel' \in [Clients -> Seq(Event)]
  BY <1>1, <1>2, <1>3
<1>5. connected[c] => Len(channel[c]) + 1 <= Capacity
  BY <1>1, ConstantFacts DEF Send, HasRoom
<1>6. \A d \in Clients : Len(channel'[d]) <= Capacity
  <2> TAKE d \in Clients
  <2>1. Len(channel[d]) <= Capacity
    BY DEF TypeOK
  <2> QED
    BY <1>1, <1>2, <1>3, <1>5, <2>1
<1> QED
  BY <1>1, <1>2, <1>4, <1>6 DEF StreamTypes

LEMMA EmitKeepsTypes ==
    ASSUME TypeOK, NEW c \in Clients, NEW event \in Event, Emit(c, event)
    PROVE  StreamTypes' /\ token' \in [Clients -> BOOLEAN]
<1>1. StreamTypes'
  BY SendKeepsTypes DEF Emit
<1>2. token \in [Clients -> BOOLEAN] /\ Gone(c) \in BOOLEAN
  BY DEF TypeOK, Gone
<1> QED
  BY <1>1, <1>2 DEF Emit

LEMMA EventTypes ==
    /\ \A kind \in {"meta", "row", "error", "aborted"} : Mark(kind) \in Event
    /\ \A kind \in {"setend", "end"}, count \in Nat, limited \in BOOLEAN :
          Tally(kind, count, limited) \in Event
BY DEF Mark, Tally, Event

(***************************************************************************)
(* Where a search goes on, and with what.                                  *)
(***************************************************************************)
LEMMA ContinueMoves ==
    ASSUME TypeOK, NEW c \in Clients, NEW s \in Sinks, Continue(c, s)
    PROVE  /\ sink' = [sink EXCEPT ![c] = s]
           /\ \/ pc' = [pc EXCEPT ![c] = "add"] /\ ip' = ip /\ NeedsFallback(c, s)
              \/ pc' = [pc EXCEPT ![c] = "setend"] /\ ip' = ip
              \/ pc' = [pc EXCEPT ![c] = "head"] /\ ip' = [ip EXCEPT ![c] = @ + 1]
           /\ result' \in [Clients -> Results]
<1>1. result \in [Clients -> Results] /\ result[c] \in Results
  BY TypeFacts
<1>2. s.count \in Nat /\ s.limited \in BOOLEAN
  BY ConstantFacts DEF Sinks
<1>3. Tallied(c, s) \in Results
  BY <1>1, <1>2 DEF Tallied, Results
<1>4. result' = result \/ result' = [result EXCEPT ![c] = Tallied(c, s)]
  BY DEF Continue
<1>5. result' \in [Clients -> Results]
  BY <1>1, <1>3, <1>4
<1> QED
  BY <1>5 DEF Continue, Goto

LEMMA ContinueKeepsTypes ==
    ASSUME TypeOK, NEW c \in Clients, NEW s \in Sinks, Continue(c, s)
    PROVE  /\ pc' \in [Clients -> Places]
           /\ ip' \in [Clients -> Nat \ {0}]
           /\ sink' \in [Clients -> Sinks]
           /\ result' \in [Clients -> Results]
<1>1. /\ pc \in [Clients -> Places] /\ ip \in [Clients -> Nat \ {0}]
      /\ sink \in [Clients -> Sinks] /\ ip[c] + 1 \in Nat \ {0}
      /\ \A to \in {"add", "setend", "head"} : to \in Places
  BY TypeFacts DEF Places, Running
<1>2. /\ sink' = [sink EXCEPT ![c] = s]
      /\ \/ pc' = [pc EXCEPT ![c] = "add"] /\ ip' = ip
         \/ pc' = [pc EXCEPT ![c] = "setend"] /\ ip' = ip
         \/ pc' = [pc EXCEPT ![c] = "head"] /\ ip' = [ip EXCEPT ![c] = @ + 1]
      /\ result' \in [Clients -> Results]
  BY ContinueMoves
<1>3. ip' \in [Clients -> Nat \ {0}]
  BY <1>1, <1>2
<1>4. pc' \in [Clients -> Places]
  BY <1>1, <1>2
<1> QED
  BY <1>1, <1>2, <1>3, <1>4

(***************************************************************************)
(* Going on keeps what is known of the client, if what the search saw as   *)
(* absent is, and a fallback that was added is not added again.            *)
(***************************************************************************)
LEMMA ContinueKeepsClient ==
    ASSUME IInv, NEW c \in Clients, NEW s \in Sinks, Continue(c, s),
           pc[c] \in {"search", "meta", "rows"}, store' = store, owner' = owner,
           s.added = (pc[c] = "rows" /\ sink[c].added),
           s.matches = 0 /\ ~s.added => Absent(Current(c).key)
    PROVE  ClientInv(c)' /\ OthersStay(c)
<1>1. /\ pc \in [Clients -> Places] /\ ip \in [Clients -> Nat \ {0}]
      /\ sink \in [Clients -> Sinks] /\ ip[c] \in Nat
  BY TypeFacts DEF IInv
<1>2. /\ sink' = [sink EXCEPT ![c] = s]
      /\ \/ pc' = [pc EXCEPT ![c] = "add"] /\ ip' = ip /\ NeedsFallback(c, s)
         \/ pc' = [pc EXCEPT ![c] = "setend"] /\ ip' = ip
         \/ pc' = [pc EXCEPT ![c] = "head"] /\ ip' = [ip EXCEPT ![c] = @ + 1]
  BY ContinueMoves DEF IInv
<1>3. OthersStay(c)
  BY <1>1, <1>2 DEF OthersStay
<1>4. ClientInv(c) /\ pc[c] \in Running /\ pc'[c] \in Running
  BY <1>1, <1>2 DEF IInv, Running
<1>5. OwnsWhileRunning(c)' /\ BeforeItRuns(c)' /\ AddsLast(c)'
  BY <1>4 DEF ClientInv, OwnsWhileRunning, BeforeItRuns, AddsLast, Running
<1>6. InItsScript(c)' /\ RowsAreLeft(c)'
  BY <1>1, <1>2, <1>4 DEF ClientInv, InItsScript, RowsAreLeft, Running
<1>7. AddedBefore(c)'
  <2> SUFFICES ASSUME NEW i \in DOMAIN store, store[i].by = c
               PROVE  \/ store[i].command < ip'[c]
                      \/ /\ store[i].command = ip'[c]
                         /\ s.added
                         /\ pc'[c] \notin {"head", "add", "commit", "search", "meta"}
    BY <1>1, <1>2 DEF AddedBefore
  <2>1. store[i].command \in Nat
    <3>1. store \in Seq(Addition)
      BY TypeFacts DEF IInv
    <3>2. store[i] \in Addition
      BY <3>1
    <3> QED
      BY <3>2 DEF Addition
  <2>2. \/ store[i].command < ip[c]
        \/ store[i].command = ip[c] /\ sink[c].added /\ pc[c] = "rows"
    BY <1>4 DEF ClientInv, AddedBefore
  <2>3. CASE pc' = [pc EXCEPT ![c] = "add"] /\ ip' = ip /\ NeedsFallback(c, s)
    BY <1>1, <2>1, <2>2, <2>3 DEF NeedsFallback
  <2>4. CASE pc' = [pc EXCEPT ![c] = "setend"] /\ ip' = ip
    BY <1>1, <2>1, <2>2, <2>4
  <2>5. CASE pc' = [pc EXCEPT ![c] = "head"] /\ ip' = [ip EXCEPT ![c] = @ + 1]
    BY <1>1, <2>1, <2>2, <2>5
  <2> QED
    BY <1>2, <2>3, <2>4, <2>5
<1>8. StillAbsent(c)'
  <2>1. pc'[c] \notin {"commit", "meta", "rows"}
    BY <1>1, <1>2
  <2>2. pc'[c] = "add" => NeedsFallback(c, s) /\ ip' = ip
    BY <1>1, <1>2
  <2>3. pc'[c] = "add" => Absent(Current(c).key) /\ Current(c)' = Current(c)
    BY <2>2 DEF NeedsFallback, Current
  <2> QED
    BY <2>1, <2>3 DEF StillAbsent, Absent
<1> QED
  BY <1>3, <1>5, <1>6, <1>7, <1>8 DEF ClientInv

-----------------------------------------------------------------------------
(***************************************************************************)
(* Each step keeps the invariant.  Those outside of an execution first.    *)
(***************************************************************************)
LEMMA EnvironmentKeepsIInv ==
    ASSUME IInv, NEW c \in Clients, Environment(c)
    PROVE  IInv'
<1> USE DEF IInv
<1>1. CASE Start(c)
  <2>1. pc' = [pc EXCEPT ![c] = "waiting"] /\ pc[c] = "ready"
        /\ UNCHANGED <<store, owner, ip, sink>> /\ active' \in SUBSET Clients
    BY <1>1 DEF Start, At, Goto, work, TypeOK
  <2>2. TypeOK'
    BY <1>1, <2>1 DEF Start, Goto, work, stream, TypeOK
  <2>3. pc'[c] = "waiting" /\ OthersStay(c)
    BY <2>1, TypeFacts DEF OthersStay
  <2>4. ClientInv(c)'
    BY <2>1, <2>3 DEF ClientInv, OwnsWhileRunning, InItsScript, RowsAreLeft, BeforeItRuns,
       AddedBefore, StillAbsent, AddsLast, Running
  <2> QED
    BY <2>1, <2>2, <2>3, <2>4, QuietStep
<1>2. CASE Expire(c) \/ Cancel(c) \/ Read(c) \/ Disconnect(c)
  <2>1. UNCHANGED <<store, owner, pc, ip, sink>>
    BY <1>2 DEF Expire, Cancel, Read, Disconnect, work
  <2>2. TypeOK'
    <3>1. CASE Expire(c) \/ Cancel(c)
      BY <3>1 DEF Expire, Cancel, TypeOK, work, stream
    <3>2. CASE Read(c)
      <4>1. /\ channel[c] \in Seq(Event) /\ channel[c] # <<>>
            /\ received \in [Clients -> Seq(Event)] /\ channel \in [Clients -> Seq(Event)]
        BY <3>2 DEF Read, TypeOK
      <4>2. Head(channel[c]) \in Event /\ Tail(channel[c]) \in Seq(Event)
            /\ Len(Tail(channel[c])) <= Len(channel[c])
        BY <4>1
      <4>3. channel' = [channel EXCEPT ![c] = Tail(channel[c])]
            /\ received' = [received EXCEPT ![c] = Append(received[c], Head(channel[c]))]
        BY <3>2 DEF Read
      <4>4. channel' \in [Clients -> Seq(Event)] /\ received' \in [Clients -> Seq(Event)]
        BY <4>1, <4>2, <4>3
      <4>5. \A d \in Clients : Len(channel'[d]) <= Capacity
        <5> TAKE d \in Clients
        <5>1. Len(channel[d]) <= Capacity /\ Len(channel[c]) <= Capacity
          BY DEF TypeOK
        <5> QED
          BY <4>1, <4>2, <4>3, <5>1, ConstantFacts
      <4> QED
        BY <3>2, <4>4, <4>5 DEF Read, TypeOK, work
    <3>3. CASE Disconnect(c)
      <4>1. channel \in [Clients -> Seq(Event)] /\ channel' = [channel EXCEPT ![c] = <<>>]
        BY <3>3 DEF Disconnect, TypeOK
      <4>2. channel' \in [Clients -> Seq(Event)]
        BY <4>1
      <4>3. \A d \in Clients : Len(channel'[d]) <= Capacity
        BY <4>1, ConstantFacts DEF TypeOK
      <4> QED
        BY <3>3, <4>2, <4>3 DEF Disconnect, TypeOK, work
    <3> QED
      BY <1>2, <3>1, <3>2, <3>3
  <2>3. ClientInv(c)' /\ OthersStay(c)
    BY <2>1 DEF OthersStay, ClientInv, OwnsWhileRunning, InItsScript, RowsAreLeft,
       BeforeItRuns, AddedBefore, StillAbsent, AddsLast, Absent, Current
  <2> QED
    BY <2>1, <2>2, <2>3, QuietStep
<1> QED
  BY <1>1, <1>2 DEF Environment

(***************************************************************************)
(* A client that is neither waiting nor running: only its additions count. *)
(***************************************************************************)
LEMMA LeavingKeepsIInv ==
    ASSUME IInv, NEW c \in Clients, NEW to \in {"report", "close", "done"},
           pc[c] # "ready", pc' = [pc EXCEPT ![c] = to], UNCHANGED <<store, ip, sink>>,
           owner' # c, \A d \in Clients \ {c} : owner' = d <=> owner = d, TypeOK'
    PROVE  IInv'
<1>1. pc'[c] = to /\ OthersStay(c)
  BY TypeFacts DEF OthersStay, IInv
<1>2. ClientInv(c)
  BY DEF IInv
<1>3. AddedBefore(c)'
  BY <1>1, <1>2 DEF ClientInv, AddedBefore
<1>4. ClientInv(c)'
  BY <1>1, <1>3 DEF ClientInv, OwnsWhileRunning, InItsScript, RowsAreLeft, BeforeItRuns,
     StillAbsent, AddsLast, Running
<1> QED
  BY <1>1, <1>4, QuietStep

LEMMA FinishKeepsIInv ==
    ASSUME IInv, NEW c \in Clients, NEW verdict \in {"ok", "cancelled", "timeout", "error"},
           pc[c] \in Running, Finish(c, verdict)
    PROVE  IInv'
<1>1. /\ pc' = [pc EXCEPT ![c] = "report"] /\ owner' = NoOwner
      /\ UNCHANGED <<store, ip, sink>> /\ pc[c] # "ready"
  BY DEF Finish, Goto, work, Running
<1>2. owner = c /\ NoOwner \notin Clients
  BY ConstantFacts DEF IInv, ClientInv, OwnsWhileRunning
<1>3. TypeOK'
  BY <1>1 DEF Finish, IInv, TypeOK, work, stream
<1> QED
  BY <1>1, <1>2, <1>3, LeavingKeepsIInv

LEMMA ReportKeepsIInv ==
    ASSUME IInv, NEW c \in Clients,
           GiveUp(c) \/ ReportEnd(c) \/ ReportError(c) \/ ReportAborted(c) \/ Respond(c)
    PROVE  IInv'
<1>1. /\ \E to \in {"report", "close", "done"} : pc' = [pc EXCEPT ![c] = to]
      /\ UNCHANGED <<store, owner, ip, sink>>
      /\ pc[c] \in {"waiting", "report", "close"}
  BY DEF GiveUp, ReportEnd, ReportError, ReportAborted, Respond, At, Goto, work
<1>2. pc' \in [Clients -> Places]
  BY <1>1, TypeFacts DEF IInv, Places
<1>3. owner' # c
  BY <1>1 DEF IInv, ClientInv, OwnsWhileRunning, Running
<1>4. TypeOK'
  <2>1. CASE GiveUp(c) \/ Respond(c)
    <3>1. active' \subseteq Clients
      BY <2>1 DEF IInv, TypeOK, GiveUp, Respond
    <3>2. outcome' \in [Clients -> {"none", "ok", "cancelled", "timeout", "error"}]
      BY <2>1 DEF IInv, TypeOK, GiveUp, Respond, Verdict
    <3> QED
      BY <1>1, <1>2, <2>1, <3>1, <3>2
         DEF GiveUp, Respond, IInv, TypeOK, Places, work, stream
  <2>2. CASE ReportEnd(c) \/ ReportError(c) \/ ReportAborted(c)
    <3>1. result[c].rows \in Nat /\ result[c].limited \in BOOLEAN
      BY TypeFacts DEF IInv, Results
    <3>2. \E event \in Event : Send(c, event)
      BY <2>2, <3>1, EventTypes DEF ReportEnd, ReportError, ReportAborted
    <3>3. StreamTypes'
      BY <3>2, SendKeepsTypes DEF IInv
    <3> QED
      BY <1>1, <1>2, <2>2, <3>3 DEF ReportEnd, ReportError, ReportAborted,
         IInv, TypeOK, Places, work, StreamTypes
  <2> QED
    BY <2>1, <2>2
<1> QED
  BY <1>1, <1>3, <1>4, LeavingKeepsIInv

(***************************************************************************)
(* Taking the owner, which nobody has.                                     *)
(***************************************************************************)
LEMMA AcquireKeepsIInv ==
    ASSUME IInv, NEW c \in Clients, Acquire(c)
    PROVE  IInv'
<1>1. /\ pc' = [pc EXCEPT ![c] = "head"] /\ pc[c] = "waiting"
      /\ owner = NoOwner /\ owner' = c /\ UNCHANGED <<store, ip, sink>>
  BY DEF Acquire, At, Goto, work
<1>2. pc'[c] = "head" /\ OthersStay(c)
  BY <1>1, TypeFacts, ConstantFacts DEF OthersStay, IInv
<1>3. TypeOK'
  BY <1>1 DEF Acquire, IInv, TypeOK, work, stream, Running
<1>4. \A i \in DOMAIN store : store[i].by # c
  BY <1>1 DEF IInv, ClientInv, BeforeItRuns
<1>5. ClientInv(c)'
  BY <1>1, <1>2, <1>4 DEF ClientInv, OwnsWhileRunning, InItsScript, RowsAreLeft, BeforeItRuns,
     AddedBefore, StillAbsent, AddsLast, Running
<1> QED
  BY <1>1, <1>2, <1>3, <1>5, QuietStep

-----------------------------------------------------------------------------
(***************************************************************************)
(* The steps of a running script.                                          *)
(***************************************************************************)
LEMMA NextCommandKeepsIInv ==
    ASSUME IInv, NEW c \in Clients, NextCommand(c) \/ Prepare(c)
    PROVE  IInv'
<1>1. /\ UNCHANGED <<store, owner, ip, sink>> /\ ip[c] \in Nat \ {0}
      /\ pc[c] \in {"head", "add"}
      /\ \E to \in {"commit", "add", "search"} : pc' = [pc EXCEPT ![c] = to]
  BY TypeFacts DEF NextCommand, Prepare, At, Goto, FirstStep, work, IInv
<1>2. pc'[c] \in {"commit", "add", "search"} /\ OthersStay(c)
  BY <1>1, TypeFacts DEF OthersStay, IInv
<1>3. ip[c] \in DOMAIN Script[c]
  <2>1. Script[c] \in Seq(Command)
    BY ConstantFacts
  <2>2. CASE NextCommand(c)
    <3>1. ~(ip[c] > Len(Script[c]))
      BY <2>2 DEF NextCommand, Done
    <3> QED
      BY <1>1, <2>1, <3>1
  <2>3. CASE Prepare(c)
    BY <2>3 DEF Prepare, At, IInv, ClientInv, InItsScript, Running
  <2> QED
    BY <2>2, <2>3
<1>4. TypeOK'
  <2>1. pc' \in [Clients -> Places]
    BY <1>1, TypeFacts DEF IInv, Places, Running
  <2> QED
    BY <2>1 DEF NextCommand, Prepare, IInv, TypeOK, Places, work, stream
<1>5. ClientInv(c)
  BY DEF IInv
<1>6. AddedBefore(c)'
  BY <1>1, <1>2, <1>5 DEF ClientInv, AddedBefore
<1>7. StillAbsent(c)'
  <2>1. CASE NextCommand(c)
    <3>1. Current(c).op = "oradd" => pc' = [pc EXCEPT ![c] = "search"]
      BY <2>1 DEF NextCommand, Goto, FirstStep
    <3>2. Current(c).op = "oradd" => pc'[c] = "search"
      BY <1>1, <3>1, TypeFacts DEF IInv
    <3>3. Current(c)' = Current(c)
      BY <1>1 DEF Current
    <3> QED
      BY <1>2, <3>2, <3>3 DEF StillAbsent
  <2>2. CASE Prepare(c)
    <3>1. pc[c] = "add" /\ Current(c)' = Current(c)
      BY <1>1, <2>2 DEF Prepare, At, Current
    <3> QED
      BY <1>1, <1>2, <1>5, <3>1 DEF ClientInv, StillAbsent, Absent
  <2> QED
    BY <2>1, <2>2
<1>8. ClientInv(c)'
  BY <1>1, <1>2, <1>3, <1>5, <1>6, <1>7 DEF ClientInv, OwnsWhileRunning, InItsScript,
     RowsAreLeft, BeforeItRuns, AddsLast, Running
<1> QED
  BY <1>1, <1>2, <1>4, <1>8, QuietStep

(***************************************************************************)
(* Going on to "meta" or "rows" with a sink that knows what is absent.     *)
(***************************************************************************)
LEMMA SinkStepKeepsClient ==
    ASSUME IInv, NEW c \in Clients, NEW s \in Sinks, NEW to \in {"meta", "rows"},
           pc[c] \in {"search", "meta", "rows"}, to = "rows" => s.left > 0,
           pc' = [pc EXCEPT ![c] = to], sink' = [sink EXCEPT ![c] = s],
           UNCHANGED <<store, owner, ip>>,
           s.added = (pc[c] = "rows" /\ sink[c].added), s.added => to = "rows",
           s.matches = 0 /\ ~s.added => Absent(Current(c).key)
    PROVE  ClientInv(c)' /\ OthersStay(c)
<1>1. pc'[c] = to /\ sink'[c] = s /\ OthersStay(c)
  BY TypeFacts DEF OthersStay, IInv
<1>2. ClientInv(c) /\ pc[c] \in Running
  BY DEF IInv, Running
<1>3. Current(c)' = Current(c)
  BY DEF Current
<1>4. AddedBefore(c)'
  BY <1>1, <1>2 DEF ClientInv, AddedBefore
<1>5. StillAbsent(c)'
  BY <1>1, <1>3 DEF StillAbsent, Absent
<1> QED
  BY <1>1, <1>2, <1>4, <1>5 DEF ClientInv, OwnsWhileRunning, InItsScript,
     RowsAreLeft, BeforeItRuns, AddsLast, Running

(***************************************************************************)
(* Either of the two ways to go on keeps the types of the worker.          *)
(***************************************************************************)
WorkTypes ==
    /\ pc \in [Clients -> Places]
    /\ ip \in [Clients -> Nat \ {0}]
    /\ sink \in [Clients -> Sinks]
    /\ result \in [Clients -> Results]

LEMMA SinkStepKeepsTypes ==
    ASSUME TypeOK, NEW c \in Clients, NEW s \in Sinks, NEW to \in {"meta", "rows"},
           pc' = [pc EXCEPT ![c] = to], sink' = [sink EXCEPT ![c] = s],
           UNCHANGED <<ip, result>>
    PROVE  WorkTypes'
<1>1. to \in Places
  BY DEF Places, Running
<1> QED
  BY <1>1, TypeFacts DEF WorkTypes

LEMMA FoundIsSink ==
    ASSUME NEW n \in Nat
    PROVE  LET s == [NoSearch EXCEPT !.matches = n, !.left = n]
           IN  s \in Sinks /\ s.added = FALSE /\ s.matches = n
<1>1. NoSearch \in Sinks /\ NoSearch.added = FALSE
  BY ConstantFacts DEF NoSearch, Sinks
<1> QED
  BY <1>1 DEF Sinks

LEMMA SearchKeepsIInv ==
    ASSUME IInv, NEW c \in Clients, Search(c)
    PROVE  IInv'
<1> DEFINE found == Matches(Current(c).key)
           s == [NoSearch EXCEPT !.matches = found, !.left = found]
<1>1. found \in Nat /\ (found = 0 => Absent(Current(c).key))
  BY MatchesIsNat DEF IInv
<1>2. s \in Sinks /\ s.added = FALSE /\ s.matches = found
  BY <1>1, FoundIsSink
<1>3. /\ UNCHANGED <<store, owner, token, expired, outcome, active, stream, late>>
      /\ pc[c] = "search"
      /\ \/ /\ sink' = [sink EXCEPT ![c] = s]
            /\ pc' = [pc EXCEPT ![c] = "meta"] /\ UNCHANGED <<ip, result>>
         \/ Continue(c, s)
  BY DEF Search, At, Goto
<1> HIDE DEF s, found
<1>4. ClientInv(c)' /\ OthersStay(c)
  <2>1. s.added = (pc[c] = "rows" /\ sink[c].added)
    BY <1>2, <1>3
  <2>2. s.matches = 0 /\ ~s.added => Absent(Current(c).key)
    BY <1>1, <1>2
  <2>3. CASE Continue(c, s)
    BY <1>2, <1>3, <2>1, <2>2, <2>3, ContinueKeepsClient
  <2>4. CASE ~Continue(c, s)
    BY <1>2, <1>3, <2>1, <2>2, <2>4, SinkStepKeepsClient
  <2> QED
    BY <2>3, <2>4
<1>5. WorkTypes'
  <2>1. CASE Continue(c, s)
    BY <1>2, <2>1, ContinueKeepsTypes DEF IInv, WorkTypes
  <2>2. CASE ~Continue(c, s)
    BY <1>2, <1>3, <2>2, SinkStepKeepsTypes DEF IInv
  <2> QED
    BY <2>1, <2>2
<1>6. variables' \in [Clients -> [Keys -> SUBSET Nat]]
  <2>1. store \in Seq(Addition)
    BY TypeFacts DEF IInv
  <2>2. Promoted(c) \in SUBSET Nat
    BY <2>1 DEF Promoted, Found
  <2>3. BindAlso(c, Promoted(c))
    BY DEF Search
  <2> QED
    BY <2>2, <2>3, BindAlsoKeepsTypes DEF IInv
<1>7. TypeOK'
  BY <1>3, <1>5, <1>6 DEF IInv, TypeOK, WorkTypes, Places, Sinks, Results, stream
<1> QED
  BY <1>3, <1>4, <1>7, QuietStep

(***************************************************************************)
(* Rows and columns: s is the sink afterwards.                             *)
(***************************************************************************)
LEMMA DeliveryKeepsIInv ==
    ASSUME IInv, NEW c \in Clients, NEW s \in Sinks, pc[c] \in {"meta", "rows"},
           s.matches = sink[c].matches,
           s.added = (pc[c] = "rows" /\ sink[c].added),
           s.matches = 0 /\ ~s.added => Absent(Current(c).key),
           \/ Continue(c, s)
           \/ /\ s.left > 0
              /\ sink' = [sink EXCEPT ![c] = s]
              /\ pc' = [pc EXCEPT ![c] = "rows"] /\ UNCHANGED <<ip, result>>,
           UNCHANGED <<store, owner, variables, expired, outcome, active, late>>,
           StreamTypes', token' \in [Clients -> BOOLEAN]
    PROVE  IInv'
<1>1. ClientInv(c)' /\ OthersStay(c)
  <2>1. CASE Continue(c, s)
    BY <2>1, ContinueKeepsClient
  <2>2. CASE ~Continue(c, s)
    BY <2>2, SinkStepKeepsClient
  <2> QED
    BY <2>1, <2>2
<1>2. WorkTypes'
  <2>1. CASE Continue(c, s)
    BY <2>1, ContinueKeepsTypes DEF IInv, WorkTypes
  <2>2. CASE ~Continue(c, s)
    BY <2>2, SinkStepKeepsTypes DEF IInv
  <2> QED
    BY <2>1, <2>2
<1>3. TypeOK'
  BY <1>2 DEF IInv, TypeOK, WorkTypes, StreamTypes, Places, Sinks, Results
<1> QED
  BY <1>1, <1>3, QuietStep

LEMMA EmitMetaKeepsIInv ==
    ASSUME IInv, NEW c \in Clients, EmitMeta(c)
    PROVE  IInv'
<1> DEFINE s == [sink[c] EXCEPT !.stopped = Gone(c) /\ ~MultiSet(c)]
<1>1. sink[c] \in Sinks /\ pc[c] = "meta"
  BY TypeFacts DEF EmitMeta, At, IInv
<1>2. Gone(c) \in BOOLEAN /\ MultiSet(c) \in BOOLEAN
  BY DEF Gone, MultiSet
<1>3. s \in Sinks /\ s.added = sink[c].added /\ s.matches = sink[c].matches
  BY <1>1, <1>2 DEF Sinks
<1>4. \/ Continue(c, s)
      \/ /\ s.left # 0
         /\ sink' = [sink EXCEPT ![c] = s]
         /\ pc' = [pc EXCEPT ![c] = "rows"] /\ UNCHANGED <<ip, result>>
  BY DEF EmitMeta, Goto
<1>5. /\ UNCHANGED <<store, owner, variables, expired, outcome, active, late>>
      /\ StreamTypes' /\ token' \in [Clients -> BOOLEAN]
  BY EmitKeepsTypes, EventTypes DEF EmitMeta, IInv
<1> HIDE DEF s
<1>6. s.left # 0 => s.left > 0
  BY <1>3 DEF Sinks
<1>7. ClientInv(c)
  BY DEF IInv
<1>8. s.added = FALSE /\ sink[c].added = FALSE
  BY <1>1, <1>3, <1>7 DEF ClientInv, RowsAreLeft, Sinks
<1>9. s.matches = 0 /\ ~s.added => Absent(Current(c).key)
  BY <1>1, <1>3, <1>7 DEF ClientInv, StillAbsent
<1> QED
  BY <1>1, <1>3, <1>4, <1>5, <1>6, <1>8, <1>9, DeliveryKeepsIInv

LEMMA StopAtLimitKeepsIInv ==
    ASSUME IInv, NEW c \in Clients, StopAtLimit(c)
    PROVE  IInv'
<1> DEFINE s == [sink[c] EXCEPT !.limited = TRUE, !.stopped = TRUE]
<1>1. sink[c] \in Sinks /\ pc[c] = "rows"
  BY TypeFacts DEF StopAtLimit, At, IInv
<1>2. s \in Sinks /\ s.added = sink[c].added /\ s.matches = sink[c].matches
  BY <1>1 DEF Sinks
<1>3. /\ Continue(c, s)
      /\ UNCHANGED <<store, owner, variables, token, expired, outcome, active, stream, late>>
  BY DEF StopAtLimit
<1>4. StreamTypes' /\ token' \in [Clients -> BOOLEAN]
  BY <1>3 DEF IInv, TypeOK, StreamTypes, stream
<1> HIDE DEF s
<1>5. ClientInv(c)
  BY DEF IInv
<1>6. s.added = (pc[c] = "rows" /\ sink[c].added)
  BY <1>1, <1>2 DEF Sinks
<1>7. s.matches = 0 /\ ~s.added => Absent(Current(c).key)
  BY <1>1, <1>2, <1>5 DEF ClientInv, StillAbsent
<1> QED
  BY <1>1, <1>2, <1>3, <1>4, <1>6, <1>7, DeliveryKeepsIInv

LEMMA EmitRowKeepsIInv ==
    ASSUME IInv, NEW c \in Clients, EmitRow(c)
    PROVE  IInv'
<1> DEFINE s == IF Gone(c) THEN [sink[c] EXCEPT !.stopped = TRUE] ELSE RowPushed(sink[c])
<1>1. sink[c] \in Sinks /\ pc[c] = "rows" /\ ClientInv(c) /\ sink[c].count < Limit
  BY TypeFacts DEF EmitRow, At, IInv
<1>2. sink[c].left > 0 /\ sink[c].left \in Nat /\ sink[c].count \in 0..Limit
  BY <1>1 DEF ClientInv, RowsAreLeft, Sinks
<1>3. sink[c].left - 1 \in Nat /\ sink[c].count + 1 \in 0..Limit
  BY <1>1, <1>2, ConstantFacts
<1>4. s \in Sinks /\ s.added = sink[c].added /\ s.matches = sink[c].matches
  BY <1>1, <1>3 DEF Sinks, RowPushed
<1>5. \/ Continue(c, s)
      \/ /\ s.left # 0 /\ sink' = [sink EXCEPT ![c] = s]
         /\ pc' = pc /\ UNCHANGED <<ip, result>>
  BY DEF EmitRow
<1>6. /\ UNCHANGED <<store, owner, variables, expired, outcome, active, late>>
      /\ StreamTypes' /\ token' \in [Clients -> BOOLEAN]
  BY EmitKeepsTypes, EventTypes DEF EmitRow, IInv
<1> HIDE DEF s
<1>7. pc = [pc EXCEPT ![c] = "rows"]
  BY <1>1, TypeFacts DEF IInv
<1>8. s.left # 0 => s.left > 0
  BY <1>4 DEF Sinks
<1>9. s.added = (pc[c] = "rows" /\ sink[c].added)
  BY <1>1, <1>4 DEF Sinks
<1>10. s.matches = 0 /\ ~s.added => Absent(Current(c).key)
  BY <1>1, <1>4 DEF ClientInv, StillAbsent
<1> QED
  BY <1>1, <1>4, <1>5, <1>6, <1>7, <1>8, <1>9, <1>10, DeliveryKeepsIInv

LEMMA EndSetKeepsIInv ==
    ASSUME IInv, NEW c \in Clients, EndSet(c)
    PROVE  IInv'
<1>1. /\ sink[c] \in Sinks /\ pc[c] = "setend" /\ ClientInv(c)
      /\ ip[c] \in Nat /\ ip \in [Clients -> Nat \ {0}] /\ result[c] \in Results
  BY TypeFacts DEF EndSet, At, IInv
<1>2. /\ pc' = [pc EXCEPT ![c] = "head"] /\ ip' = [ip EXCEPT ![c] = @ + 1]
      /\ UNCHANGED <<store, owner, sink, variables, expired, outcome, active, late>>
      /\ result' = [result EXCEPT ![c] = Tallied(c, sink[c])]
  BY DEF EndSet, Goto
<1>3. sink[c].count \in Nat /\ sink[c].limited \in BOOLEAN
  BY <1>1, ConstantFacts DEF Sinks
<1>4. Tally("setend", sink[c].count, sink[c].limited) \in Event
  BY <1>3, EventTypes
<1>5. StreamTypes' /\ token' \in [Clients -> BOOLEAN]
  BY <1>4, EmitKeepsTypes DEF EndSet, IInv
<1>6. Tallied(c, sink[c]) \in Results
  BY <1>1, <1>3 DEF Tallied, Results
<1>7. WorkTypes'
  <2>1. "head" \in Places
    BY DEF Places, Running
  <2> QED
    BY <1>1, <1>2, <1>6, <2>1, TypeFacts DEF WorkTypes, IInv
<1>8. TypeOK'
  BY <1>2, <1>5, <1>7 DEF IInv, TypeOK, WorkTypes, StreamTypes, Places, Sinks, Results
<1>9. pc'[c] = "head" /\ ip'[c] = ip[c] + 1 /\ OthersStay(c)
  BY <1>1, <1>2, TypeFacts DEF OthersStay, IInv
<1>10. AddedBefore(c)'
  <2> SUFFICES ASSUME NEW i \in DOMAIN store, store[i].by = c
               PROVE  store[i].command < ip'[c]
    BY <1>2 DEF AddedBefore
  <2>1. store \in Seq(Addition)
    BY TypeFacts DEF IInv
  <2>2. store[i] \in Addition
    BY <2>1
  <2>3. store[i].command \in Nat
    BY <2>2 DEF Addition
  <2> QED
    BY <1>1, <1>9, <2>3 DEF ClientInv, AddedBefore
<1>11. ClientInv(c)'
  BY <1>1, <1>2, <1>9, <1>10 DEF ClientInv, OwnsWhileRunning, InItsScript,
     RowsAreLeft, BeforeItRuns, StillAbsent, AddsLast, Running
<1> QED
  BY <1>2, <1>8, <1>9, <1>11, QuietStep

-----------------------------------------------------------------------------
(***************************************************************************)
(* After a fallback: n rows of its own, or nothing more to send.           *)
(***************************************************************************)
OwnRows(c, n) ==
    /\ Current(c).returns /\ ~sink[c].stopped
    /\ sink' = [sink EXCEPT ![c].added = TRUE, ![c].matches = n, ![c].left = n]
    /\ pc' = [pc EXCEPT ![c] = "rows"]
    /\ UNCHANGED <<ip, result>>

AfterAll(c) == Continue(c, [sink[c] EXCEPT !.added = TRUE])

LEMMA FallbackGoesOn ==
    ASSUME NEW c \in Clients, Commit(c), Current(c).op = "oradd"
    PROVE  AfterAll(c) \/ \E n \in 1..FallbackRows : OwnRows(c, n)
  BY DEF Commit, AfterFallback, AfterAll, OwnRows, Goto

(***************************************************************************)
(* An addition.  The others do not run, so that they have not looked.      *)
(***************************************************************************)
LEMMA CommitMoves ==
    ASSUME IInv, NEW c \in Clients, Commit(c)
    PROVE  /\ WorkTypes' /\ OthersStay(c)
           /\ \/ pc'[c] = "head" /\ ip'[c] = ip[c] + 1
              \/ /\ pc'[c] \in {"rows", "setend"} /\ ip'[c] = ip[c]
                 /\ sink'[c].added
                 /\ pc'[c] = "rows" => sink'[c].left > 0
<1> DEFINE s == [sink[c] EXCEPT !.added = TRUE]
<1>1. /\ sink[c] \in Sinks /\ sink \in [Clients -> Sinks] /\ pc \in [Clients -> Places]
      /\ ip \in [Clients -> Nat \ {0}] /\ ip[c] + 1 \in Nat \ {0} /\ ip[c] \in Nat
      /\ result \in [Clients -> Results] /\ pc[c] = "commit"
  BY TypeFacts DEF Commit, At, IInv
<1>2. s \in Sinks /\ s.added
  BY <1>1 DEF Sinks
<1>3. \/ AfterAddition(c)
      \/ \E n \in 1..FallbackRows : OwnRows(c, n)
      \/ Continue(c, s)
  BY FallbackGoesOn DEF Commit, AfterAll
<1>4. owner' = owner /\ "rows" \in Places /\ "head" \in Places
  BY DEF Commit, Places, Running
<1> HIDE DEF s
<1>5. CASE AfterAddition(c)
  <2>1. pc' = [pc EXCEPT ![c] = "head"] /\ ip' = [ip EXCEPT ![c] = @ + 1]
        /\ sink' = sink /\ result' = result
    BY <1>5 DEF AfterAddition, Goto
  <2> QED
    BY <1>1, <1>4, <2>1 DEF WorkTypes, OthersStay
<1>6. ASSUME NEW n \in 1..FallbackRows, OwnRows(c, n)
      PROVE  /\ WorkTypes' /\ OthersStay(c)
             /\ pc'[c] = "rows" /\ ip'[c] = ip[c] /\ sink'[c].added /\ sink'[c].left > 0
  <2> DEFINE t == [sink[c] EXCEPT !.added = TRUE, !.matches = n, !.left = n]
  <2>1. n \in Nat /\ n > 0
    BY ConstantFacts
  <2>2. t \in Sinks /\ t.added /\ t.left = n
    BY <1>1, <2>1 DEF Sinks
  <2>3. /\ sink' = [sink EXCEPT ![c] = t] /\ pc' = [pc EXCEPT ![c] = "rows"]
        /\ ip' = ip /\ result' = result
    BY <1>1, <1>6 DEF OwnRows, Sinks
  <2> HIDE DEF t
  <2>4. WorkTypes' /\ OthersStay(c)
    BY <1>1, <1>4, <2>2, <2>3 DEF WorkTypes, OthersStay
  <2> QED
    BY <1>1, <2>1, <2>2, <2>3, <2>4
<1>7. CASE Continue(c, s)
  <2>1. ~NeedsFallback(c, s)
    BY <1>2 DEF NeedsFallback
  <2>2. /\ sink' = [sink EXCEPT ![c] = s]
        /\ \/ pc' = [pc EXCEPT ![c] = "setend"] /\ ip' = ip
           \/ pc' = [pc EXCEPT ![c] = "head"] /\ ip' = [ip EXCEPT ![c] = @ + 1]
    BY <1>2, <1>7, <2>1, ContinueMoves DEF IInv
  <2>3. WorkTypes'
    BY <1>2, <1>7, ContinueKeepsTypes DEF IInv, WorkTypes
  <2>4. OthersStay(c)
    BY <1>1, <1>4, <2>2 DEF OthersStay
  <2>5. sink'[c] = s
    BY <1>1, <2>2
  <2>6. \/ pc'[c] = "setend" /\ ip'[c] = ip[c]
        \/ pc'[c] = "head" /\ ip'[c] = ip[c] + 1
    BY <1>1, <2>2
  <2> QED
    BY <1>2, <2>3, <2>4, <2>5, <2>6
<1> QED
  BY <1>3, <1>5, <1>6, <1>7

LEMMA CommitKeepsIInv ==
    ASSUME IInv, NEW c \in Clients, Commit(c)
    PROVE  IInv'
<1>1. /\ WorkTypes' /\ OthersStay(c)
      /\ \/ pc'[c] = "head" /\ ip'[c] = ip[c] + 1
         \/ /\ pc'[c] \in {"rows", "setend"} /\ ip'[c] = ip[c]
            /\ sink'[c].added
            /\ pc'[c] = "rows" => sink'[c].left > 0
  BY CommitMoves
<1>2. /\ pc[c] = "commit" /\ pc[c] \in Running /\ pc'[c] \in Running
      /\ UNCHANGED <<owner, token, expired, outcome, active, stream>>
  BY <1>1 DEF Commit, At, Running
<1>3. ClientInv(c) /\ owner = c /\ ip[c] \in DOMAIN Script[c]
  BY <1>2 DEF IInv, ClientInv, OwnsWhileRunning, InItsScript
<1>4. store \in Seq(Addition) /\ ip[c] \in Nat \ {0}
  BY TypeFacts DEF IInv
<1> DEFINE a == Added(c)
           n == Len(store)
<1>5. /\ a \in Addition /\ a.by = c /\ a.command = ip[c] /\ a.key = Current(c).key
      /\ a.conditional = (Current(c).op = "oradd")
  <2>1. Current(c).recalls \subseteq Keys
    BY <1>3, CurrentIsCommand DEF Command
  <2>2. \A key \in Keys : variables[c][key] \subseteq Nat
    BY DEF IInv, TypeOK
  <2>3. a.about \in SUBSET Nat
    BY <2>1, <2>2 DEF Added
  <2> QED
    BY <1>3, <1>4, <2>3, CurrentIsCommand DEF Added, Addition
<1>6. store' = store \/ store' = Append(store, a)
  BY DEF Commit
<1> HIDE DEF a
<1>7. /\ n \in Nat /\ DOMAIN store = 1..n
      /\ DOMAIN Append(store, a) = 1..(n + 1)
      /\ Append(store, a)[n + 1] = a
      /\ \A i \in 1..n : Append(store, a)[i] = store[i]
      /\ Append(store, a) \in Seq(Addition)
  BY <1>4, <1>5
<1> HIDE DEF n
<1>8. TypeOK'
  <2>1. late' \in [Clients -> Nat]
    <3>1. late \in [Clients -> Nat] /\ late[c] + 1 \in Nat /\ late[c] + 0 \in Nat
      <4>1. late \in [Clients -> Nat]
        BY Zenon DEF IInv, TypeOK
      <4> QED
        BY <4>1
    <3>2. \/ late' = [late EXCEPT ![c] = @ + 1] \/ late' = [late EXCEPT ![c] = @ + 0]
      BY DEF Commit
    <3> QED
      BY <3>1, <3>2
  <2>2. store' \in Seq(Addition)
    BY <1>4, <1>6, <1>7
  <2>3. variables' \in [Clients -> [Keys -> SUBSET Nat]]
    <3>1. variables' = variables \/ BindAlso(c, {Len(store) + 1})
      BY DEF Commit
    <3>2. {Len(store) + 1} \in SUBSET Nat
      BY <1>4
    <3> QED
      BY <3>1, <3>2, BindAlsoKeepsTypes DEF IInv, TypeOK
  <2> QED
    BY <1>1, <1>2, <2>1, <2>2, <2>3 DEF IInv, TypeOK, WorkTypes, Places, Sinks, Results, stream
<1>9. \A i \in DOMAIN store : store[i].by = c =>
          store[i].command < ip[c] /\ \A k \in i..n : store[k].by = c
  BY <1>2, <1>3, <1>7 DEF ClientInv, AddedBefore, AddsLast
<1>10. Current(c).op = "oradd" => Absent(Current(c).key)
  BY <1>2, <1>3 DEF ClientInv, StillAbsent
<1>11. ClientInv(c)'
  <2>1. AddedBefore(c)'
    <3> SUFFICES ASSUME NEW i \in DOMAIN store', store'[i].by = c
                 PROVE  \/ store'[i].command < ip'[c]
                        \/ /\ store'[i].command = ip'[c]
                           /\ sink'[c].added
                           /\ pc'[c] \notin {"head", "add", "commit", "search", "meta"}
      BY DEF AddedBefore
    <3>1. store'[i].command \in Nat /\ store'[i].command <= ip[c]
      <4>1. store'[i] = a \/ (i \in DOMAIN store /\ store'[i] = store[i])
        BY <1>6, <1>7
      <4>2. \A j \in DOMAIN store : store[j].command \in Nat
        <5> TAKE j \in DOMAIN store
        <5>1. store[j] \in Addition
          BY <1>4
        <5> QED
          BY <5>1 DEF Addition
      <4> QED
        BY <1>4, <1>5, <1>9, <4>1, <4>2
    <3>2. store'[i].command < ip[c] \/ store'[i].command = ip[c]
      BY <1>4, <3>1
    <3> QED
      BY <1>1, <1>4, <3>1, <3>2
  <2>2. AddsLast(c)'
    <3> SUFFICES ASSUME NEW i \in DOMAIN store', NEW k \in DOMAIN store', i <= k,
                        store'[i].by = c
                 PROVE  store'[k].by = c
      BY DEF AddsLast
    <3>1. CASE store' = store
      BY <1>7, <1>9, <3>1
    <3>2. CASE store' = Append(store, a)
      <4>1. CASE k = n + 1
        BY <1>5, <1>7, <3>2, <4>1
      <4>2. CASE k # n + 1
        <5>1. k \in 1..n /\ i \in 1..n
          BY <1>7, <3>2, <4>2
        <5> QED
          BY <1>7, <1>9, <3>2, <5>1
      <4> QED
        BY <4>1, <4>2
    <3> QED
      BY <1>6, <3>1, <3>2
  <2> QED
    BY <1>1, <1>2, <1>3, <2>1, <2>2 DEF ClientInv, OwnsWhileRunning, InItsScript,
       RowsAreLeft, BeforeItRuns, StillAbsent, Running
<1>12. ASSUME NEW d \in Clients \ {c} PROVE ClientInv(d)'
  <2>1. /\ pc'[d] = pc[d] /\ ip'[d] = ip[d] /\ sink'[d] = sink[d]
        /\ owner' = d <=> owner = d
    BY <1>1 DEF OthersStay
  <2>2. ClientInv(d) /\ pc[d] \notin Running /\ owner # d
    BY <1>3 DEF IInv, ClientInv, OwnsWhileRunning
  <2>3. \A i \in DOMAIN store' : store'[i].by = d => i \in DOMAIN store /\ store'[i] = store[i]
    BY <1>5, <1>6, <1>7
  <2>4. BeforeItRuns(d)' /\ AddedBefore(d)'
    BY <2>1, <2>2, <2>3 DEF ClientInv, BeforeItRuns, AddedBefore
  <2> QED
    BY <2>1, <2>2, <2>4 DEF ClientInv, OwnsWhileRunning, InItsScript, RowsAreLeft,
       StillAbsent, AddsLast, Running
<1>13. ScriptsAreSerial'
  <2> SUFFICES ASSUME NEW i \in DOMAIN store', NEW j \in DOMAIN store', i < j,
                      store'[i].by = store'[j].by
               PROVE  /\ store'[i].command < store'[j].command
                      /\ \A k \in i..j : store'[k].by = store'[i].by
    BY DEF ScriptsAreSerial
  <2>1. ScriptsAreSerial
    BY DEF IInv
  <2>2. CASE store' = store
    BY <2>1, <2>2 DEF ScriptsAreSerial
  <2>3. CASE store' = Append(store, a)
    <3>1. i \in 1..n
      BY <1>7, <2>3
    <3>2. CASE j = n + 1
      <4>1. store'[i] = store[i] /\ store'[j] = a /\ store[i].by = c
        BY <1>5, <1>7, <2>3, <3>1, <3>2
      <4>2. \A k \in i..j : k = n + 1 \/ (k \in 1..n /\ k \in i..n)
        BY <1>7, <3>1, <3>2
      <4>3. \A k \in i..j : store'[k].by = c
        BY <1>5, <1>7, <1>9, <2>3, <3>1, <4>1, <4>2
      <4> QED
        BY <1>5, <1>7, <1>9, <3>1, <4>1, <4>3
    <3>3. CASE j # n + 1
      <4>1. j \in 1..n /\ \A k \in i..j : k \in 1..n
        BY <1>7, <2>3, <3>1, <3>3
      <4>2. store'[i] = store[i] /\ store'[j] = store[j]
            /\ \A k \in i..j : store'[k] = store[k]
        BY <1>7, <2>3, <3>1, <4>1
      <4> QED
        BY <1>7, <2>1, <3>1, <4>1, <4>2 DEF ScriptsAreSerial
    <3> QED
      BY <3>2, <3>3
  <2> QED
    BY <1>6, <2>2, <2>3
<1>14. AddedOnce'
  <2> SUFFICES ASSUME NEW i \in DOMAIN store', NEW j \in DOMAIN store', i < j,
                      store'[i].key = store'[j].key
               PROVE  ~store'[j].conditional
    BY DEF AddedOnce
  <2>1. AddedOnce
    BY DEF IInv
  <2>2. CASE store' = store
    BY <2>1, <2>2 DEF AddedOnce
  <2>3. CASE store' = Append(store, a)
    <3>1. i \in 1..n /\ store'[i] = store[i]
      BY <1>7, <2>3
    <3>2. CASE j = n + 1
      BY <1>5, <1>7, <1>10, <2>3, <3>1, <3>2 DEF Absent
    <3>3. CASE j # n + 1
      BY <1>7, <2>1, <2>3, <3>1, <3>3 DEF AddedOnce
    <3> QED
      BY <3>2, <3>3
  <2> QED
    BY <1>6, <2>2, <2>3
<1>15. \A d \in Clients : ClientInv(d)'
  BY <1>11, <1>12
<1> QED
  BY <1>8, <1>13, <1>14, <1>15 DEF IInv

-----------------------------------------------------------------------------
LEMMA WorkerKeepsIInv ==
    ASSUME IInv, NEW c \in Clients, Worker(c)
    PROVE  IInv'
<1>1. CASE Succeed(c) \/ Interrupt(c) \/ CommandFails(c)
  <2>1. pc[c] \in Running
    BY <1>1 DEF Succeed, Interrupt, CommandFails, At, Running
  <2>2. \E verdict \in {"ok", "cancelled", "timeout", "error"} : Finish(c, verdict)
    BY <1>1 DEF Succeed, Interrupt, CommandFails, Verdict
  <2> QED
    BY <2>1, <2>2, FinishKeepsIInv
<1> QED
  BY <1>1, AcquireKeepsIInv, ReportKeepsIInv, NextCommandKeepsIInv, SearchKeepsIInv,
     EmitMetaKeepsIInv, EmitRowKeepsIInv, StopAtLimitKeepsIInv, EndSetKeepsIInv,
     CommitKeepsIInv DEF Worker

LEMMA StutterKeepsIInv ==
    ASSUME IInv, UNCHANGED vars PROVE IInv'
<1>1. /\ store' = store /\ owner' = owner /\ pc' = pc /\ ip' = ip /\ sink' = sink
      /\ result' = result /\ variables' = variables /\ token' = token /\ expired' = expired
      /\ outcome' = outcome /\ active' = active /\ connected' = connected
      /\ channel' = channel /\ received' = received /\ late' = late
  BY DEF vars, work, stream
<1>2. TypeOK'
  BY <1>1 DEF IInv, TypeOK
<1>3. \A c \in Clients : ClientInv(c)'
  BY <1>1 DEF IInv, ClientInv, OwnsWhileRunning, InItsScript, RowsAreLeft, BeforeItRuns,
     AddedBefore, StillAbsent, AddsLast, Absent, Current
<1>4. ScriptsAreSerial' /\ AddedOnce'
  BY <1>1 DEF IInv, ScriptsAreSerial, AddedOnce
<1> QED
  BY <1>2, <1>3, <1>4 DEF IInv

LEMMA StepKeepsIInv == IInv /\ [Next]_vars => IInv'
<1> SUFFICES ASSUME IInv, [Next]_vars PROVE IInv'
  OBVIOUS
<1>1. CASE UNCHANGED vars
  BY <1>1, StutterKeepsIInv
<1>2. CASE Finished
  BY <1>2, StutterKeepsIInv DEF Finished
<1>3. CASE \E c \in Clients : Worker(c) \/ Environment(c)
  BY <1>3, WorkerKeepsIInv, EnvironmentKeepsIInv
<1> QED
  BY <1>1, <1>2, <1>3 DEF Next

LEMMA SpecKeepsIInv == Spec => []IInv
BY InitEstablishesIInv, StepKeepsIInv, PTL DEF Spec

(***************************************************************************)
(* The variables of the engine keep their types; in particular no stream   *)
(* has more events under way than its channel holds.                       *)
(***************************************************************************)
THEOREM ExecutionTypeCorrect == Spec => []TypeOK
<1>1. IInv => TypeOK
  BY DEF IInv
<1> QED
  BY <1>1, SpecKeepsIInv, PTL

(***************************************************************************)
(* The guard of the execution owner: whoever runs has it, and whoever has  *)
(* returned, failed or given up does not, for any number of clients.       *)
(***************************************************************************)
THEOREM OwnerIsReleased == Spec => []OwnerRuns
<1>1. IInv => OwnerRuns
  BY DEF IInv, ClientInv, OwnsWhileRunning, OwnerRuns
<1> QED
  BY <1>1, SpecKeepsIInv, PTL

(***************************************************************************)
(* The additions of two scripts are never interleaved, however long the    *)
(* scripts and wherever they are cancelled, expire or fail.                *)
(***************************************************************************)
THEOREM ScriptsRunSerially == Spec => []ScriptsAreSerial
<1>1. IInv => ScriptsAreSerial
  BY DEF IInv
<1> QED
  BY <1>1, SpecKeepsIInv, PTL

(***************************************************************************)
(* `search ... or add` is atomic: between its search and its addition      *)
(* nobody else adds, and one command adds no more than once.               *)
(***************************************************************************)
THEOREM ConditionalAdditionsAreUnique == Spec => []AddedOnce
<1>1. IInv => AddedOnce
  BY DEF IInv
<1> QED
  BY <1>1, SpecKeepsIInv, PTL

-----------------------------------------------------------------------------
(***************************************************************************)
(* A second invariant on top of the first one: the commands that a script  *)
(* is past have been published, and what was published of the command it   *)
(* is at is a fallback.                                                    *)
(***************************************************************************)
Searching == {"search", "meta", "rows", "setend"}

SearchesSearch(c) == pc[c] \in Searching => Current(c).op \in {"search", "oradd"}

OnlyFallbacksAhead(c) ==
    \A i \in DOMAIN store :
        store[i].by = c /\ store[i].command = ip[c] => Current(c).op = "oradd"

PastAreMade(c) ==
    \A i \in DOMAIN Script[c] :
        i < ip[c] /\ Script[c][i].op = "add" =>
            \E j \in DOMAIN store : store[j].by = c /\ store[j].command = i

OkIsDone(c) == outcome[c] = "ok" => Done(c)

Progress(c) ==
    SearchesSearch(c) /\ OnlyFallbacksAhead(c) /\ PastAreMade(c) /\ OkIsDone(c)

ProgressInv == IInv /\ \A c \in Clients : Progress(c)

LEMMA ScriptLength ==
    ASSUME NEW c \in Clients
    PROVE  Len(Script[c]) \in Nat /\ DOMAIN Script[c] = 1..Len(Script[c])
BY ConstantFacts

LEMMA CommandIsNat ==
    ASSUME IInv, NEW i \in DOMAIN store PROVE store[i].command \in Nat
<1>1. store \in Seq(Addition)
  BY DEF IInv, TypeOK
<1>2. store[i] \in Addition
  BY <1>1
<1> QED
  BY <1>2 DEF Addition

LEMMA ProgressStep ==
    ASSUME ProgressInv, NEW c \in Clients, OthersStay(c), store' = store,
           \A d \in Clients \ {c} : outcome'[d] = outcome[d],
           \/ ip'[c] = ip[c]
           \/ ip'[c] = ip[c] + 1 /\ pc[c] \in Searching /\ pc'[c] \notin Searching,
           pc'[c] \in Searching => Current(c).op \in {"search", "oradd"},
           outcome'[c] = "ok" => outcome[c] = "ok" \/ Done(c)
    PROVE  \A d \in Clients : Progress(d)'
<1> USE DEF ProgressInv
<1>1. ASSUME NEW d \in Clients \ {c} PROVE Progress(d)'
  BY DEF OthersStay, Progress, SearchesSearch, OnlyFallbacksAhead, PastAreMade,
     OkIsDone, Done, Current
<1>2. Progress(c)'
  <2>1. Progress(c) /\ ip[c] \in Nat \ {0}
    BY TypeFacts DEF IInv
  <2>2. CASE ip'[c] = ip[c]
    BY <2>1, <2>2 DEF Progress, SearchesSearch, OnlyFallbacksAhead, PastAreMade,
       OkIsDone, Done, Current
  <2>3. CASE ip'[c] = ip[c] + 1 /\ pc[c] \in Searching /\ pc'[c] \notin Searching
    <3>1. Current(c).op # "add"
      BY <2>1, <2>3 DEF Progress, SearchesSearch
    <3>2. \A i \in DOMAIN store : store[i].by = c => store[i].command # ip[c] + 1
      <4> TAKE i \in DOMAIN store
      <4>1. store[i].command \in Nat
        BY CommandIsNat
      <4>2. store[i].by = c => store[i].command < ip[c] \/ store[i].command = ip[c]
        BY DEF IInv, ClientInv, AddedBefore
      <4> QED
        BY <2>1, <4>1, <4>2
    <3>3. \A i \in DOMAIN Script[c] : i < ip[c] + 1 /\ Script[c][i].op = "add" => i < ip[c]
      BY <2>1, <3>1, ScriptLength DEF Current
    <3>4. Done(c) => Done(c)'
      BY <2>1, <2>3, ScriptLength DEF Done
    <3>5. OnlyFallbacksAhead(c)'
      BY <2>3, <3>2 DEF OnlyFallbacksAhead
    <3>6. PastAreMade(c)'
      BY <2>1, <2>3, <3>3 DEF Progress, PastAreMade
    <3>7. OkIsDone(c)'
      BY <2>1, <3>4 DEF Progress, OkIsDone
    <3> QED
      BY <2>3, <3>5, <3>6, <3>7 DEF Progress, SearchesSearch
  <2> QED
    BY <2>2, <2>3
<1> QED
  BY <1>1, <1>2

LEMMA EnvironmentKeepsProgress ==
    ASSUME ProgressInv, NEW c \in Clients, Environment(c)
    PROVE  \A d \in Clients : Progress(d)'
<1>1. UNCHANGED <<store, owner, ip, sink, outcome>>
  BY DEF Environment, Start, Expire, Cancel, Read, Disconnect, work
<1>2. pc' = [pc EXCEPT ![c] = "waiting"] \/ pc' = pc
  BY DEF Environment, Start, Expire, Cancel, Read, Disconnect, Goto
<1>3. OthersStay(c)
  BY <1>1, <1>2, TypeFacts DEF OthersStay, ProgressInv, IInv
<1>4. pc'[c] = "waiting" \/ pc'[c] = pc[c]
  BY <1>2, TypeFacts DEF ProgressInv, IInv
<1>5. pc'[c] \in Searching => Current(c).op \in {"search", "oradd"}
  BY <1>4 DEF ProgressInv, Progress, SearchesSearch, Searching
<1> QED
  BY <1>1, <1>3, <1>5, ProgressStep

LEMMA ControlKeepsProgress ==
    ASSUME ProgressInv, NEW c \in Clients,
           \/ Acquire(c) \/ GiveUp(c) \/ NextCommand(c) \/ Prepare(c)
           \/ Succeed(c) \/ Interrupt(c) \/ CommandFails(c)
           \/ ReportEnd(c) \/ ReportError(c) \/ ReportAborted(c) \/ Respond(c)
    PROVE  \A d \in Clients : Progress(d)'
<1>1. UNCHANGED <<store, ip, sink>>
  BY DEF Acquire, GiveUp, NextCommand, Prepare, Succeed, Interrupt, CommandFails, Finish,
     ReportEnd, ReportError, ReportAborted, Respond, work
<1>2. \E to \in Places : pc' = [pc EXCEPT ![c] = to]
                          /\ (to \in Searching => Current(c).op \in {"search", "oradd"})
  <2>1. CASE NextCommand(c)
    <3>1. pc' = [pc EXCEPT ![c] = FirstStep(Current(c))] /\ ~(ip[c] > Len(Script[c]))
      BY <2>1 DEF NextCommand, Goto, Done
    <3>2. ip[c] \in DOMAIN Script[c]
      BY <3>1, ScriptLength, TypeFacts DEF ProgressInv, IInv
    <3>3. Current(c).op \in {"role", "add", "search", "oradd"}
      BY <3>2, CurrentIsCommand DEF Command
    <3>4. /\ FirstStep(Current(c)) \in {"commit", "add", "search"}
          /\ FirstStep(Current(c)) = "search" => Current(c).op \in {"search", "oradd"}
      BY <3>3 DEF FirstStep
    <3> DEFINE to == FirstStep(Current(c))
    <3>5. to \in Places /\ (to \in Searching => Current(c).op \in {"search", "oradd"})
      BY <3>4 DEF Places, Running, Searching
    <3> HIDE DEF to
    <3>6. pc' = [pc EXCEPT ![c] = to]
      BY <3>1 DEF to
    <3> QED
      BY <3>5, <3>6
  <2>2. CASE ~NextCommand(c)
    BY <2>2 DEF Acquire, GiveUp, Prepare, Succeed, Interrupt, CommandFails, Finish,
       ReportEnd, ReportError, ReportAborted, Respond, Goto, Places, Running, Searching
  <2> QED
    BY <2>1, <2>2
<1>3. \A d \in Clients \ {c} : owner' = d <=> owner = d
  <2>1. CASE Acquire(c)
    BY <2>1, ConstantFacts DEF Acquire
  <2>2. CASE Succeed(c) \/ Interrupt(c) \/ CommandFails(c)
    <3>1. pc[c] \in Running /\ owner' = NoOwner
      BY <2>2 DEF Succeed, Interrupt, CommandFails, Finish, At, Running
    <3>2. owner = c
      BY <3>1 DEF ProgressInv, IInv, ClientInv, OwnsWhileRunning
    <3> QED
      BY <3>1, <3>2, ConstantFacts
  <2>3. CASE ~(Acquire(c) \/ Succeed(c) \/ Interrupt(c) \/ CommandFails(c))
    BY <2>3 DEF GiveUp, NextCommand, Prepare, ReportEnd, ReportError, ReportAborted, Respond
  <2> QED
    BY <2>1, <2>2, <2>3
<1>4. OthersStay(c) /\ (pc'[c] \in Searching => Current(c).op \in {"search", "oradd"})
  BY <1>1, <1>2, <1>3, TypeFacts DEF OthersStay, ProgressInv, IInv
<1>5. /\ \A d \in Clients \ {c} : outcome'[d] = outcome[d]
      /\ outcome'[c] = "ok" => outcome[c] = "ok" \/ Done(c)
  <2>1. outcome \in [Clients -> {"none", "ok", "cancelled", "timeout", "error"}]
    BY DEF ProgressInv, IInv, TypeOK
  <2>2. \/ outcome' = outcome
        \/ \E verdict \in {"cancelled", "timeout", "error"} :
              outcome' = [outcome EXCEPT ![c] = verdict]
        \/ Done(c) /\ outcome' = [outcome EXCEPT ![c] = "ok"]
    BY DEF Acquire, GiveUp, NextCommand, Prepare, Succeed, Interrupt, CommandFails, Finish,
       ReportEnd, ReportError, ReportAborted, Respond, Verdict
  <2> QED
    BY <2>1, <2>2
<1> QED
  BY <1>1, <1>4, <1>5, ProgressStep

LEMMA SearchKeepsProgress ==
    ASSUME ProgressInv, NEW c \in Clients,
           Search(c) \/ EmitMeta(c) \/ EmitRow(c) \/ StopAtLimit(c) \/ EndSet(c)
    PROVE  \A d \in Clients : Progress(d)'
<1>1. /\ pc[c] \in Searching /\ UNCHANGED <<store, owner, outcome>>
      /\ pc \in [Clients -> Places] /\ ip \in [Clients -> Nat \ {0}]
      /\ sink \in [Clients -> Sinks]
  BY TypeFacts DEF Search, EmitMeta, EmitRow, StopAtLimit, EndSet, At, Searching,
     ProgressInv, IInv
<1>2. Current(c).op \in {"search", "oradd"}
  BY <1>1 DEF ProgressInv, Progress, SearchesSearch
<1>3. /\ \/ /\ \E to \in {"meta", "rows", "add", "setend"} : pc' = [pc EXCEPT ![c] = to]
            /\ ip' = ip
         \/ pc' = [pc EXCEPT ![c] = "head"] /\ ip' = [ip EXCEPT ![c] = @ + 1]
         \/ pc' = pc /\ ip' = ip
      /\ sink' = sink \/ \E s : sink' = [sink EXCEPT ![c] = s]
  BY Zenon DEF Search, EmitMeta, EmitRow, StopAtLimit, EndSet, Continue, Goto
<1>4. OthersStay(c)
  BY <1>1, <1>3 DEF OthersStay
<1>5. \/ ip'[c] = ip[c]
      \/ ip'[c] = ip[c] + 1 /\ pc'[c] = "head"
  BY <1>1, <1>3
<1> QED
  BY <1>1, <1>2, <1>4, <1>5, ProgressStep DEF Searching

LEMMA CommitKeepsProgress ==
    ASSUME ProgressInv, NEW c \in Clients, Commit(c)
    PROVE  \A d \in Clients : Progress(d)'
<1>1. /\ WorkTypes' /\ OthersStay(c)
      /\ \/ pc'[c] = "head" /\ ip'[c] = ip[c] + 1
         \/ /\ pc'[c] \in {"rows", "setend"} /\ ip'[c] = ip[c]
            /\ sink'[c].added
            /\ pc'[c] = "rows" => sink'[c].left > 0
  BY CommitMoves DEF ProgressInv
<1>2. /\ pc[c] = "commit" /\ ClientInv(c) /\ Progress(c) /\ outcome' = outcome
      /\ ip[c] \in Nat \ {0} /\ store \in Seq(Addition) /\ pc \in [Clients -> Places]
      /\ ip \in [Clients -> Nat \ {0}]
  BY TypeFacts DEF Commit, At, ProgressInv, IInv
<1>3. ip'[c] = ip[c] => Current(c).op = "oradd"
  <2> SUFFICES ASSUME Current(c).op # "oradd" PROVE ip'[c] # ip[c]
    OBVIOUS
  <2>1. ip' = [ip EXCEPT ![c] = @ + 1]
    BY DEF Commit, AfterAddition
  <2> QED
    BY <1>2, <2>1
<1> DEFINE a == Added(c)
           n == Len(store)
<1>4. a.by = c /\ a.command = ip[c]
  BY DEF Added
<1>5. \/ store' = store /\ Current(c).op = "role"
      \/ store' = Append(store, a)
  BY DEF Commit, Redundant
<1> HIDE DEF a
<1>6. /\ n \in Nat /\ DOMAIN store = 1..n
      /\ DOMAIN Append(store, a) = 1..(n + 1)
      /\ Append(store, a)[n + 1] = a
      /\ \A i \in 1..n : Append(store, a)[i] = store[i]
  BY <1>2
<1> HIDE DEF n
<1>7. /\ \A i \in DOMAIN store : i \in DOMAIN store' /\ store'[i] = store[i]
      /\ \A i \in DOMAIN store' : store'[i] = a \/ (i \in DOMAIN store /\ store'[i] = store[i])
  BY <1>5, <1>6
<1>8. Current(c).op = "role" \/ \E j \in DOMAIN store' : store'[j] = a
  BY <1>5, <1>6
<1>9. ASSUME NEW d \in Clients \ {c} PROVE Progress(d)'
  <2>1. pc'[d] = pc[d] /\ ip'[d] = ip[d] /\ outcome'[d] = outcome[d] /\ Progress(d)
    BY <1>1, <1>2 DEF OthersStay, ProgressInv
  <2>2. SearchesSearch(d)' /\ OkIsDone(d)'
    BY <2>1 DEF Progress, SearchesSearch, OkIsDone, Done, Current
  <2>3. OnlyFallbacksAhead(d)'
    BY <1>4, <1>7, <2>1 DEF Progress, OnlyFallbacksAhead, Current
  <2>4. PastAreMade(d)'
    <3> SUFFICES ASSUME NEW i \in DOMAIN Script[d], i < ip[d], Script[d][i].op = "add"
                 PROVE  \E j \in DOMAIN store' : store'[j].by = d /\ store'[j].command = i
      BY <2>1 DEF PastAreMade
    <3>1. PICK j \in DOMAIN store : store[j].by = d /\ store[j].command = i
      BY <2>1 DEF Progress, PastAreMade
    <3> QED
      BY <1>7, <3>1
  <2> QED
    BY <2>2, <2>3, <2>4 DEF Progress
<1>10. \A i \in DOMAIN store' : store'[i].by = c => store'[i].command <= ip[c]
  <2> TAKE i \in DOMAIN store'
  <2>1. CASE store'[i] = a
    BY <1>2, <1>4, <2>1
  <2>2. CASE i \in DOMAIN store /\ store'[i] = store[i]
    <3>1. store[i].command \in Nat
      BY <2>2, CommandIsNat DEF ProgressInv
    <3>2. store[i].by = c => store[i].command < ip[c]
      BY <1>2, <2>2 DEF ClientInv, AddedBefore
    <3> QED
      BY <1>2, <2>2, <3>1, <3>2
  <2> QED
    BY <1>7, <2>1, <2>2
<1>11. Progress(c)'
  <2>1. SearchesSearch(c)'
    BY <1>1, <1>3 DEF SearchesSearch, Searching, Current
  <2>2. OkIsDone(c)'
    <3>1. ip'[c] >= ip[c]
      BY <1>1, <1>2
    <3> QED
      BY <1>1, <1>2, <3>1, ScriptLength DEF Progress, OkIsDone, Done
  <2>3. OnlyFallbacksAhead(c)'
    <3> SUFFICES ASSUME NEW i \in DOMAIN store', store'[i].by = c, store'[i].command = ip'[c]
                 PROVE  Current(c)'.op = "oradd"
      BY DEF OnlyFallbacksAhead
    <3>1. ip'[c] = ip[c]
      BY <1>1, <1>2, <1>10
    <3> QED
      BY <1>3, <3>1 DEF Current
  <2>4. PastAreMade(c)'
    <3> SUFFICES ASSUME NEW i \in DOMAIN Script[c], i < ip'[c], Script[c][i].op = "add"
                 PROVE  \E j \in DOMAIN store' : store'[j].by = c /\ store'[j].command = i
      BY DEF PastAreMade
    <3>1. i < ip[c] \/ i = ip[c]
      BY <1>1, <1>2, ScriptLength
    <3>2. CASE i < ip[c]
      <4>1. PICK j \in DOMAIN store : store[j].by = c /\ store[j].command = i
        BY <1>2, <3>2 DEF Progress, PastAreMade
      <4> QED
        BY <1>7, <4>1
    <3>3. CASE i = ip[c]
      BY <1>4, <1>8, <3>3 DEF Current
    <3> QED
      BY <3>1, <3>2, <3>3
  <2> QED
    BY <2>1, <2>2, <2>3, <2>4 DEF Progress
<1> QED
  BY <1>9, <1>11

LEMMA StepKeepsProgress == ProgressInv /\ [Next]_vars => ProgressInv'
<1> SUFFICES ASSUME ProgressInv, [Next]_vars PROVE ProgressInv'
  OBVIOUS
<1>1. IInv'
  BY StepKeepsIInv DEF ProgressInv
<1>2. CASE UNCHANGED vars \/ Finished
  <2>1. store' = store /\ pc' = pc /\ ip' = ip /\ outcome' = outcome
    BY <1>2 DEF Finished, vars, work
  <2>2. \A c \in Clients : Progress(c)'
    BY <2>1 DEF ProgressInv, Progress, SearchesSearch, OnlyFallbacksAhead, PastAreMade,
       OkIsDone, Done, Current
  <2> QED
    BY <1>1, <2>2 DEF ProgressInv
<1>3. ASSUME NEW c \in Clients, Worker(c) \/ Environment(c) PROVE ProgressInv'
  BY <1>1, <1>3, EnvironmentKeepsProgress, ControlKeepsProgress, SearchKeepsProgress,
     CommitKeepsProgress DEF ProgressInv, Worker
<1> QED
  BY <1>2, <1>3 DEF Next

LEMMA InitEstablishesProgress == Init => ProgressInv
<1> SUFFICES ASSUME Init PROVE ProgressInv
  OBVIOUS
<1>1. DOMAIN store = {}
  BY DEF Init
<1>2. \A c \in Clients : pc[c] \in {"ready", "done"} /\ ip[c] = 1 /\ outcome[c] = "none"
  BY DEF Init
<1>3. \A c \in Clients : \A i \in DOMAIN Script[c] : ~(i < 1)
  BY ScriptLength
<1>4. \A c \in Clients : Progress(c)
  BY <1>1, <1>2, <1>3 DEF Progress, SearchesSearch, OnlyFallbacksAhead, PastAreMade,
     OkIsDone, Searching
<1> QED
  BY <1>4, InitEstablishesIInv DEF ProgressInv

LEMMA ProgressIsEnough == ProgressInv => CommandsPublishedOnce
<1> SUFFICES ASSUME ProgressInv, NEW c \in Clients, NEW i \in DOMAIN Script[c]
             PROVE  /\ Published(c, i) <= 1
                    /\ Script[c][i].op = "add" => (Published(c, i) = 1 <=> i < ip[c])
                    /\ Published(c, i) = 1 => i < ip[c] \/ (i = ip[c] /\ sink[c].added)
                    /\ outcome[c] = "ok" => i < ip[c]
  BY DEF CommandsPublishedOnce
<1> DEFINE P == {j \in DOMAIN store : store[j].by = c /\ store[j].command = i}
<1>1. store \in Seq(Addition) /\ ip[c] \in Nat \ {0} /\ i \in Nat /\ ClientInv(c)
      /\ Progress(c) /\ ScriptsAreSerial
  BY TypeFacts, ScriptLength DEF ProgressInv, IInv
<1>2. DOMAIN store \subseteq Nat
  BY <1>1
<1>3. \A j, k \in P : j = k
  <2> SUFFICES ASSUME NEW j \in P, NEW k \in P, j < k PROVE FALSE
    BY <1>2
  <2>1. store[j].command < store[k].command /\ store[j].command = store[k].command
    BY <1>1 DEF ScriptsAreSerial
  <2>2. store[j].command \in Nat /\ store[k].command \in Nat
    BY CommandIsNat DEF ProgressInv
  <2> QED
    BY <2>1, <2>2
<1>4. P = {} \/ \E j \in P : P = {j}
  BY <1>3
<1>5. (P = {} => Published(c, i) = 0) /\ (P # {} => Published(c, i) = 1)
  BY <1>4, FS_EmptySet, FS_Singleton DEF Published
<1>6. P # {} => i < ip[c] \/ (i = ip[c] /\ sink[c].added /\ Script[c][i].op = "oradd")
  <2> SUFFICES ASSUME NEW j \in P
               PROVE  i < ip[c] \/ (i = ip[c] /\ sink[c].added /\ Script[c][i].op = "oradd")
    OBVIOUS
  <2>1. i < ip[c] \/ (i = ip[c] /\ sink[c].added)
    BY <1>1 DEF ClientInv, AddedBefore
  <2>2. i = ip[c] => Script[c][i].op = "oradd"
    BY <1>1 DEF Progress, OnlyFallbacksAhead, Current
  <2> QED
    BY <2>1, <2>2
<1>7. i < ip[c] /\ Script[c][i].op = "add" => P # {}
  BY <1>1 DEF Progress, PastAreMade
<1>8. outcome[c] = "ok" => i < ip[c]
  BY <1>1, ScriptLength DEF Progress, OkIsDone, Done
<1> HIDE DEF P
<1> QED
  BY <1>5, <1>6, <1>7, <1>8

(***************************************************************************)
(* Commands are all or nothing and in order: an addition is published once *)
(* and exactly when the script is past it, and a script that is reported   *)
(* as ok has published all of them.                                        *)
(***************************************************************************)
THEOREM CommandsAreAtomic == Spec => []CommandsPublishedOnce
<1>1. Spec => []ProgressInv
  BY InitEstablishesProgress, StepKeepsProgress, PTL DEF Spec
<1> QED
  BY <1>1, ProgressIsEnough, PTL
-----------------------------------------------------------------------------
(***************************************************************************)
(* A third invariant: what a running script's names stand for is what a    *)
(* search with a fallback has found by them and what the script added,     *)
(* and a script that waits has no names yet.                               *)
(***************************************************************************)
Named ==
    {key \in Keys : \A c \in Clients : \A i \in DOMAIN Script[c] :
        Script[c][i].key = key => Script[c][i].op # "role"}

HasSearched(c, key) ==
    \E m \in DOMAIN Script[c] :
        /\ m < ip[c] \/ (m = ip[c] /\ pc[c] \notin {"head", "search"})
        /\ Script[c][m].op = "oradd" /\ Script[c][m].key = key

StandsFor(c, key) ==
    {i \in DOMAIN store :
        store[i].key = key /\ (store[i].by = c \/ HasSearched(c, key))}

NamesAreNew(c) ==
    pc[c] \in {"ready", "waiting"} =>
        ip[c] = 1 /\ \A key \in Named : variables[c][key] = {}

NamesAreExact(c) ==
    pc[c] \in Running => \A key \in Named : variables[c][key] = StandsFor(c, key)

Names(c) == NamesAreNew(c) /\ NamesAreExact(c)

NamesInv == IInv /\ RecallsAreComplete /\ \A c \in Clients : Names(c)

LEMMA NamesStep ==
    ASSUME NamesInv, NEW c \in Clients, OthersStay(c), store' = store, Names(c)',
           \A d \in Clients \ {c} : variables'[d] = variables[d]
    PROVE  RecallsAreComplete' /\ \A d \in Clients : Names(d)'
<1>1. ASSUME NEW d \in Clients \ {c} PROVE Names(d)'
  BY DEF NamesInv, OthersStay, Names, NamesAreNew, NamesAreExact, StandsFor, HasSearched
<1>2. RecallsAreComplete'
  BY DEF NamesInv, RecallsAreComplete
<1> QED
  BY <1>1, <1>2

(***************************************************************************)
(* Once it is past its search, a command counts as one that has searched.  *)
(***************************************************************************)
SearchedUpTo(c, n, key) ==
    \E m \in DOMAIN Script[c] :
        m <= n /\ Script[c][m].op = "oradd" /\ Script[c][m].key = key

LEMMA SearchedOnceAhead ==
    ASSUME NEW c \in Clients, NEW key, ip[c] \in Nat
    PROVE  /\ pc[c] \notin {"head", "search"} =>
                 (HasSearched(c, key) <=> SearchedUpTo(c, ip[c], key))
           /\ \/ ip'[c] = ip[c] /\ pc'[c] \notin {"head", "search"}
              \/ ip'[c] = ip[c] + 1 /\ pc'[c] = "head"
              => (HasSearched(c, key)' <=> SearchedUpTo(c, ip[c], key))
<1>1. \A m \in DOMAIN Script[c] : m \in Nat
  BY ScriptLength
<1> QED
  BY <1>1 DEF HasSearched, SearchedUpTo

LEMMA BindAlsoBinds ==
    ASSUME IInv, NEW c \in Clients, NEW things, BindAlso(c, things)
    PROVE  /\ \A d \in Clients \ {c} : variables'[d] = variables[d]
           /\ \A key \in Keys :
                 variables'[c][key] = IF key = Current(c).key
                                      THEN variables[c][key] \cup things
                                      ELSE variables[c][key]
<1>1. variables \in [Clients -> [Keys -> SUBSET Nat]]
  BY DEF IInv, TypeOK
<1> QED
  BY <1>1 DEF BindAlso

LEMMA EnvironmentKeepsNames ==
    ASSUME NamesInv, NEW c \in Clients, Environment(c)
    PROVE  RecallsAreComplete' /\ \A d \in Clients : Names(d)'
<1>1. UNCHANGED <<store, owner, ip, sink, variables>>
  BY DEF Environment, Start, Expire, Cancel, Read, Disconnect, work
<1>2. (pc' = [pc EXCEPT ![c] = "waiting"] /\ pc[c] = "ready") \/ pc' = pc
  BY DEF Environment, Start, Expire, Cancel, Read, Disconnect, Goto, At
<1>3. OthersStay(c)
  BY <1>1, <1>2, TypeFacts DEF OthersStay, NamesInv, IInv
<1>4. (pc'[c] = "waiting" /\ pc[c] = "ready") \/ pc'[c] = pc[c]
  BY <1>2, TypeFacts DEF NamesInv, IInv
<1>5. Names(c)'
  BY <1>1, <1>4 DEF NamesInv, Names, NamesAreNew, NamesAreExact, StandsFor, HasSearched,
     Running
<1> QED
  BY <1>1, <1>3, <1>5, NamesStep

LEMMA LeavingKeepsNames ==
    ASSUME NamesInv, NEW c \in Clients,
           \/ GiveUp(c) \/ Succeed(c) \/ Interrupt(c) \/ CommandFails(c)
           \/ ReportEnd(c) \/ ReportError(c) \/ ReportAborted(c) \/ Respond(c)
    PROVE  RecallsAreComplete' /\ \A d \in Clients : Names(d)'
<1>1. UNCHANGED <<store, ip, sink, variables>>
  BY DEF GiveUp, Succeed, Interrupt, CommandFails, Finish,
     ReportEnd, ReportError, ReportAborted, Respond, work
<1>2. \E to \in {"report", "close", "done"} : pc' = [pc EXCEPT ![c] = to]
  BY DEF GiveUp, Succeed, Interrupt, CommandFails, Finish,
     ReportEnd, ReportError, ReportAborted, Respond, Goto
<1>3. \A d \in Clients \ {c} : owner' = d <=> owner = d
  <2>1. CASE Succeed(c) \/ Interrupt(c) \/ CommandFails(c)
    <3>1. pc[c] \in Running /\ owner' = NoOwner
      BY <2>1 DEF Succeed, Interrupt, CommandFails, Finish, At, Running
    <3>2. owner = c
      BY <3>1 DEF NamesInv, IInv, ClientInv, OwnsWhileRunning
    <3> QED
      BY <3>1, <3>2, ConstantFacts
  <2>2. CASE ~(Succeed(c) \/ Interrupt(c) \/ CommandFails(c))
    BY <2>2 DEF GiveUp, ReportEnd, ReportError, ReportAborted, Respond
  <2> QED
    BY <2>1, <2>2
<1>4. OthersStay(c) /\ pc'[c] \in {"report", "close", "done"}
  BY <1>1, <1>2, <1>3, TypeFacts DEF OthersStay, NamesInv, IInv
<1>5. Names(c)'
  BY <1>4 DEF Names, NamesAreNew, NamesAreExact, Running
<1> QED
  BY <1>1, <1>4, <1>5, NamesStep

LEMMA AcquireKeepsNames ==
    ASSUME NamesInv, NEW c \in Clients, Acquire(c)
    PROVE  RecallsAreComplete' /\ \A d \in Clients : Names(d)'
<1>1. /\ pc' = [pc EXCEPT ![c] = "head"] /\ pc[c] = "waiting" /\ owner = NoOwner
      /\ owner' = c /\ UNCHANGED <<store, ip, sink, variables>>
  BY DEF Acquire, At, Goto, work
<1>2. pc'[c] = "head" /\ OthersStay(c)
  BY <1>1, TypeFacts, ConstantFacts DEF OthersStay, NamesInv, IInv
<1>3. ip'[c] = 1 /\ \A key \in Named : variables'[c][key] = {}
  BY <1>1 DEF NamesInv, Names, NamesAreNew
<1>4. \A key : ~HasSearched(c, key)'
  <2>1. \A m \in DOMAIN Script[c] : m \in Nat /\ m >= 1
    BY ScriptLength
  <2> QED
    BY <1>2, <1>3, <2>1 DEF HasSearched
<1>5. \A i \in DOMAIN store : store[i].by # c
  BY <1>1 DEF NamesInv, IInv, ClientInv, BeforeItRuns
<1>6. \A key : StandsFor(c, key)' = {}
  BY <1>1, <1>4, <1>5 DEF StandsFor
<1>7. Names(c)'
  BY <1>2, <1>3, <1>6 DEF Names, NamesAreNew, NamesAreExact
<1> QED
  BY <1>1, <1>2, <1>7, NamesStep

LEMMA NextCommandKeepsNames ==
    ASSUME NamesInv, NEW c \in Clients, NextCommand(c) \/ Prepare(c)
    PROVE  RecallsAreComplete' /\ \A d \in Clients : Names(d)'
<1>1. /\ UNCHANGED <<store, owner, ip, sink, variables>>
      /\ pc \in [Clients -> Places] /\ ip[c] \in Nat
      /\ \A m \in DOMAIN Script[c] : m \in Nat
  BY TypeFacts, ScriptLength DEF NextCommand, Prepare, work, NamesInv, IInv
<1>2. \/ pc[c] = "head" /\ pc' = [pc EXCEPT ![c] = FirstStep(Current(c))]
      \/ pc[c] = "add" /\ pc' = [pc EXCEPT ![c] = "commit"]
  BY DEF NextCommand, Prepare, At, Goto
<1>3. \/ pc[c] = "head" /\ Current(c).op = "oradd" /\ pc'[c] = "search"
      \/ pc[c] = "head" /\ Current(c).op # "oradd" /\ pc'[c] \in {"search", "add", "commit"}
      \/ pc[c] = "add" /\ pc'[c] = "commit"
  BY <1>1, <1>2 DEF FirstStep
<1>4. OthersStay(c) /\ pc[c] \in Running /\ pc'[c] \in Running \ {"ready", "waiting"}
  BY <1>1, <1>2, <1>3 DEF OthersStay, Running
<1>5. \A key : HasSearched(c, key)' <=> HasSearched(c, key)
  BY <1>1, <1>3 DEF HasSearched, Current
<1>6. Names(c)'
  BY <1>1, <1>4, <1>5 DEF NamesInv, Names, NamesAreNew, NamesAreExact, StandsFor
<1> QED
  BY <1>1, <1>4, <1>6, NamesStep

(***************************************************************************)
(* Where a step of a search goes.                                          *)
(***************************************************************************)
LEMMA SearchMoves ==
    ASSUME IInv, NEW c \in Clients,
           Search(c) \/ EmitMeta(c) \/ EmitRow(c) \/ StopAtLimit(c) \/ EndSet(c)
    PROVE  /\ store' = store /\ OthersStay(c) /\ ip[c] \in Nat
           /\ pc[c] \in Searching /\ pc'[c] \in Running
           /\ \/ ip'[c] = ip[c] /\ pc'[c] \notin {"head", "search"}
              \/ ip'[c] = ip[c] + 1 /\ pc'[c] = "head"
<1>1. /\ pc[c] \in Searching /\ UNCHANGED <<store, owner>>
      /\ EmitRow(c) => pc[c] = "rows"
      /\ pc \in [Clients -> Places] /\ ip \in [Clients -> Nat \ {0}]
      /\ sink \in [Clients -> Sinks] /\ ip[c] \in Nat
  BY TypeFacts DEF Search, EmitMeta, EmitRow, StopAtLimit, EndSet, At, Searching, IInv
<1>2. /\ \/ /\ \E to \in {"meta", "rows", "add", "setend"} : pc' = [pc EXCEPT ![c] = to]
            /\ ip' = ip
         \/ pc' = [pc EXCEPT ![c] = "head"] /\ ip' = [ip EXCEPT ![c] = @ + 1]
         \/ pc' = pc /\ ip' = ip /\ EmitRow(c)
      /\ sink' = sink \/ \E s : sink' = [sink EXCEPT ![c] = s]
  BY Zenon DEF Search, EmitMeta, EmitRow, StopAtLimit, EndSet, Continue, Goto
<1>3. OthersStay(c)
  BY <1>1, <1>2 DEF OthersStay
<1>4. \/ pc'[c] \in {"meta", "rows", "add", "setend"} /\ ip'[c] = ip[c]
      \/ pc'[c] = "head" /\ ip'[c] = ip[c] + 1
  BY <1>1, <1>2
<1> QED
  BY <1>1, <1>3, <1>4 DEF Running

LEMMA DeliveryKeepsNames ==
    ASSUME NamesInv, NEW c \in Clients,
           EmitMeta(c) \/ EmitRow(c) \/ StopAtLimit(c) \/ EndSet(c)
    PROVE  RecallsAreComplete' /\ \A d \in Clients : Names(d)'
<1>1. /\ store' = store /\ OthersStay(c) /\ ip[c] \in Nat /\ pc'[c] \in Running
      /\ \/ ip'[c] = ip[c] /\ pc'[c] \notin {"head", "search"}
         \/ ip'[c] = ip[c] + 1 /\ pc'[c] = "head"
  BY SearchMoves DEF NamesInv
<1>2. variables' = variables /\ pc[c] \in {"meta", "rows", "setend"}
  BY DEF EmitMeta, EmitRow, StopAtLimit, EndSet, At
<1>3. \A key : HasSearched(c, key)' <=> HasSearched(c, key)
  BY <1>1, <1>2, SearchedOnceAhead
<1>4. Names(c)'
  BY <1>1, <1>2, <1>3 DEF NamesInv, Names, NamesAreNew, NamesAreExact, StandsFor, Running
<1> QED
  BY <1>1, <1>2, <1>4, NamesStep

(***************************************************************************)
(* The search of a search-or-add: from now on its name stands for all that *)
(* it found.                                                               *)
(***************************************************************************)
LEMMA SearchKeepsNames ==
    ASSUME NamesInv, NEW c \in Clients, Search(c)
    PROVE  RecallsAreComplete' /\ \A d \in Clients : Names(d)'
<1>1. /\ store' = store /\ OthersStay(c) /\ ip[c] \in Nat /\ pc'[c] \in Running
      /\ \/ ip'[c] = ip[c] /\ pc'[c] \notin {"head", "search"}
         \/ ip'[c] = ip[c] + 1 /\ pc'[c] = "head"
  BY SearchMoves DEF NamesInv
<1>2. pc[c] = "search" /\ BindAlso(c, Promoted(c))
  BY DEF Search, At
<1>3. ip[c] \in DOMAIN Script[c] /\ \A m \in DOMAIN Script[c] : m \in Nat
  BY <1>2, ScriptLength DEF NamesInv, IInv, ClientInv, InItsScript, Running
<1>4. ASSUME NEW key \in Named PROVE variables'[c][key] = StandsFor(c, key)'
  <2>1. variables[c][key] = StandsFor(c, key) /\ key \in Keys
    BY <1>2 DEF NamesInv, Names, NamesAreExact, Running, Named
  <2>2. variables'[c][key] = IF key = Current(c).key
                             THEN variables[c][key] \cup Promoted(c)
                             ELSE variables[c][key]
    BY <1>2, <2>1, BindAlsoBinds DEF NamesInv
  <2>3. HasSearched(c, key)' <=> SearchedUpTo(c, ip[c], key)
    BY <1>1, SearchedOnceAhead
  <2>4. CASE key = Current(c).key /\ Current(c).op = "oradd"
    <3>1. HasSearched(c, key)'
      BY <1>1, <1>3, <2>3, <2>4 DEF SearchedUpTo, Current
    <3>2. StandsFor(c, key)' = Found(key)
      BY <1>1, <3>1 DEF StandsFor, Found
    <3>3. Promoted(c) = Found(key) /\ StandsFor(c, key) \subseteq Found(key)
      BY <2>4 DEF Promoted, Found, StandsFor
    <3> QED
      BY <2>1, <2>2, <2>4, <3>2, <3>3
  <2>5. CASE ~(key = Current(c).key /\ Current(c).op = "oradd")
    <3>1. HasSearched(c, key)' <=> HasSearched(c, key)
      BY <1>1, <1>2, <1>3, <2>3, <2>5 DEF HasSearched, SearchedUpTo, Current
    <3>2. key = Current(c).key => Promoted(c) = {}
      BY <2>5 DEF Promoted
    <3> QED
      BY <1>1, <2>1, <2>2, <3>1, <3>2 DEF StandsFor
  <2> QED
    BY <2>4, <2>5
<1>5. Names(c)'
  BY <1>1, <1>4 DEF Names, NamesAreNew, NamesAreExact, Running
<1>6. \A d \in Clients \ {c} : variables'[d] = variables[d]
  BY <1>2, BindAlsoBinds DEF NamesInv
<1> QED
  BY <1>1, <1>5, <1>6, NamesStep

LEMMA RecalledAreNamed ==
    ASSUME NEW c \in Clients, NEW n \in DOMAIN Script[c], NEW key \in Script[c][n].recalls
    PROVE  key \in Named /\ Script[c][n].op = "add"
<1>1. Script[c][n] \in Command
  BY ConstantFacts
<1> QED
  BY <1>1, ScriptExecutionAssumption DEF Named, Command

(***************************************************************************)
(* An addition: its name stands for it as well, and it is about all that   *)
(* the recalled names stand for.                                           *)
(***************************************************************************)
LEMMA CommitKeepsNames ==
    ASSUME NamesInv, NEW c \in Clients, Commit(c)
    PROVE  RecallsAreComplete' /\ \A d \in Clients : Names(d)'
<1>1. /\ OthersStay(c)
      /\ \/ pc'[c] = "head" /\ ip'[c] = ip[c] + 1
         \/ pc'[c] \in {"rows", "setend"} /\ ip'[c] = ip[c]
  BY CommitMoves DEF NamesInv
<1>2. /\ pc[c] = "commit" /\ pc[c] \in Running /\ pc'[c] \in Running
      /\ ClientInv(c) /\ store \in Seq(Addition) /\ ip[c] \in Nat
      /\ NamesAreExact(c)
  BY <1>1, TypeFacts DEF Commit, At, NamesInv, IInv, Names, Running
<1>3. ip[c] \in DOMAIN Script[c] /\ owner = c
      /\ \A m \in DOMAIN Script[c] : m \in Nat
  BY <1>2, ScriptLength DEF ClientInv, InItsScript, OwnsWhileRunning
<1> DEFINE a == Added(c)
           n == Len(store)
           key0 == Current(c).key
<1>4. /\ a.by = c /\ a.command = ip[c] /\ a.key = key0
      /\ a.about = UNION {variables[c][key] : key \in Current(c).recalls}
  BY DEF Added
<1>5. \/ /\ Current(c).op = "role" /\ variables' = variables
         /\ store' = store \/ store' = Append(store, a)
      \/ Current(c).op # "role" /\ store' = Append(store, a) /\ BindAlso(c, {n + 1})
  BY DEF Commit, Redundant
<1> HIDE DEF a
<1>6. /\ n \in Nat /\ DOMAIN store = 1..n
      /\ DOMAIN Append(store, a) = 1..(n + 1)
      /\ Append(store, a)[n + 1] = a
      /\ \A i \in 1..n : Append(store, a)[i] = store[i]
  BY <1>2
<1> HIDE DEF n
<1>7. \A key : /\ HasSearched(c, key) <=> SearchedUpTo(c, ip[c], key)
               /\ HasSearched(c, key)' <=> SearchedUpTo(c, ip[c], key)
  BY <1>1, <1>2, SearchedOnceAhead
<1>8. Current(c).op = "role" => key0 \notin Named
  BY <1>3 DEF Named, Current
<1>9. ASSUME NEW key \in Named PROVE variables'[c][key] = StandsFor(c, key)'
  <2>1. variables[c][key] = StandsFor(c, key) /\ key \in Keys
    BY <1>2 DEF NamesAreExact, Named
  <2>2. CASE store' = store /\ Current(c).op = "role"
    BY <1>5, <1>7, <2>1, <2>2 DEF StandsFor
  <2>3. CASE store' = Append(store, a)
    <3>1. StandsFor(c, key)' = StandsFor(c, key) \cup {i \in {n + 1} : key = key0}
      <4>1. StandsFor(c, key)' = {i \in 1..(n + 1) : store'[i].key = key
                                     /\ (store'[i].by = c \/ HasSearched(c, key))}
        BY <1>6, <1>7, <2>3 DEF StandsFor
      <4>2. StandsFor(c, key) = {i \in 1..n : store'[i].key = key
                                     /\ (store'[i].by = c \/ HasSearched(c, key))}
        BY <1>6, <2>3 DEF StandsFor
      <4>3. store'[n + 1].key = key0 /\ store'[n + 1].by = c
        BY <1>4, <1>6, <2>3
      <4>4. 1..(n + 1) = 1..n \cup {n + 1}
        BY <1>6
      <4> QED
        BY <4>1, <4>2, <4>3, <4>4
    <3>2. CASE Current(c).op = "role"
      BY <1>5, <1>8, <2>1, <3>1, <3>2
    <3>3. CASE Current(c).op # "role"
      <4>1. variables'[c][key] = IF key = key0 THEN variables[c][key] \cup {n + 1}
                                               ELSE variables[c][key]
        <5>1. BindAlso(c, {n + 1}) /\ IInv
          BY <1>5, <3>3, Zenon DEF NamesInv
        <5>2. \A k \in Keys :
                 variables'[c][k] = IF k = Current(c).key THEN variables[c][k] \cup {n + 1}
                                                          ELSE variables[c][k]
          BY <5>1, BindAlsoBinds, Zenon
        <5> QED
          BY <5>2, <2>1, Zenon
      <4> QED
        BY <2>1, <3>1, <4>1
    <3> QED
      BY <3>2, <3>3
  <2> QED
    BY <1>5, <2>2, <2>3
<1>10. Names(c)'
  BY <1>2, <1>9 DEF Names, NamesAreNew, NamesAreExact, Running
<1>11. ASSUME NEW d \in Clients \ {c} PROVE Names(d)'
  <2>1. pc'[d] = pc[d] /\ ip'[d] = ip[d] /\ variables'[d] = variables[d] /\ Names(d)
    BY <1>1, <1>5, BindAlsoBinds DEF OthersStay, NamesInv
  <2>2. pc[d] \notin Running
    BY <1>3 DEF NamesInv, IInv, ClientInv, OwnsWhileRunning
  <2> QED
    BY <2>1, <2>2 DEF Names, NamesAreNew, NamesAreExact
<1>12. RecallsAreComplete'
  <2>1. RecallsAreComplete
    BY DEF NamesInv
  <2>2. CASE store' = store
    BY <2>1, <2>2 DEF RecallsAreComplete
  <2>3. CASE store' = Append(store, a)
    <3> SUFFICES ASSUME NEW j \in 1..(n + 1)
                 PROVE  store'[j].about =
                            {i \in 1..(n + 1) :
                                /\ i < j
                                /\ store'[i].key \in Script[store'[j].by][store'[j].command].recalls
                                /\ \/ store'[i].by = store'[j].by
                                   \/ SearchedBefore(store'[j].by, store'[j].command,
                                                     store'[i].key)}
      BY <1>6, <2>3 DEF RecallsAreComplete
    <3>1. CASE j \in 1..n
      <4>1. store'[j] = store[j] /\ \A i \in 1..n : store'[i] = store[i]
        BY <1>6, <2>3, <3>1
      <4>2. store[j].about =
                {i \in 1..n :
                    /\ i < j
                    /\ store[i].key \in Script[store[j].by][store[j].command].recalls
                    /\ \/ store[i].by = store[j].by
                       \/ SearchedBefore(store[j].by, store[j].command, store[i].key)}
        BY <1>6, <2>1, <3>1 DEF RecallsAreComplete
      <4>3. \A i \in 1..(n + 1) : i < j => i \in 1..n
        BY <1>6, <3>1
      <4>4. \A i \in 1..n : i \in 1..(n + 1)
        BY <1>6
      <4> QED
        BY <4>1, <4>2, <4>3, <4>4
    <3>2. CASE j = n + 1
      <4>1. store'[j] = a /\ \A i \in 1..n : store'[i] = store[i]
        BY <1>6, <2>3, <3>2
      <4>2. \A key \in Current(c).recalls :
                /\ variables[c][key] = StandsFor(c, key)
                /\ HasSearched(c, key) <=> SearchedBefore(c, ip[c], key)
        <5> TAKE key \in Current(c).recalls
        <5>1. key \in Named /\ Current(c).op = "add"
          BY <1>3, RecalledAreNamed DEF Current
        <5>2. SearchedUpTo(c, ip[c], key) <=> SearchedBefore(c, ip[c], key)
          BY <1>2, <1>3, <5>1 DEF SearchedUpTo, SearchedBefore, Current
        <5> QED
          BY <1>2, <1>7, <5>1, <5>2 DEF NamesAreExact
      <4>3. a.about = {i \in 1..n :
                          /\ store[i].key \in Current(c).recalls
                          /\ store[i].by = c \/ SearchedBefore(c, ip[c], store[i].key)}
        BY <1>4, <1>6, <4>2 DEF StandsFor
      <4>4. \A i \in 1..(n + 1) : i < j <=> i \in 1..n
        BY <1>6, <3>2
      <4>5. \A i \in 1..n : i \in 1..(n + 1)
        BY <1>6
      <4>6. Current(c) = Script[c][ip[c]]
        BY DEF Current
      <4> QED
        BY <1>4, <4>1, <4>3, <4>4, <4>5, <4>6
    <3> QED
      BY <1>6, <3>1, <3>2
  <2> QED
    BY <1>5, <2>2, <2>3
<1> QED
  BY <1>10, <1>11, <1>12

LEMMA StepKeepsNames == NamesInv /\ [Next]_vars => NamesInv'
<1> SUFFICES ASSUME NamesInv, [Next]_vars PROVE NamesInv'
  OBVIOUS
<1>1. IInv'
  BY StepKeepsIInv DEF NamesInv
<1>2. CASE UNCHANGED vars \/ Finished
  <2>1. UNCHANGED <<store, pc, ip, variables>>
    BY <1>2 DEF Finished, vars, work
  <2>2. RecallsAreComplete'
    BY <2>1 DEF NamesInv, RecallsAreComplete
  <2>3. \A c \in Clients : Names(c)'
    BY <2>1 DEF NamesInv, Names, NamesAreNew, NamesAreExact, StandsFor, HasSearched
  <2> QED
    BY <1>1, <2>2, <2>3 DEF NamesInv
<1>3. ASSUME NEW c \in Clients, Worker(c) \/ Environment(c) PROVE NamesInv'
  BY <1>1, <1>3, EnvironmentKeepsNames, LeavingKeepsNames, AcquireKeepsNames,
     NextCommandKeepsNames, SearchKeepsNames, DeliveryKeepsNames, CommitKeepsNames
     DEF NamesInv, Worker
<1> QED
  BY <1>2, <1>3 DEF Next

LEMMA InitEstablishesNames == Init => NamesInv
<1> SUFFICES ASSUME Init PROVE NamesInv
  OBVIOUS
<1>1. DOMAIN store = {}
  BY DEF Init
<1>2. \A c \in Clients : pc[c] \in {"ready", "done"} /\ ip[c] = 1
                         /\ \A key \in Keys : variables[c][key] = {}
  BY DEF Init
<1>3. \A c \in Clients : Names(c)
  BY <1>2 DEF Names, NamesAreNew, NamesAreExact, Named, Running
<1> QED
  BY <1>1, <1>3, InitEstablishesIInv DEF NamesInv, RecallsAreComplete

(***************************************************************************)
(* What a search-or-add hands to later commands is complete and current,   *)
(* for any clients, scripts and limits: an addition that recalls a name is *)
(* about everything found or added by that name, and nothing else.         *)
(***************************************************************************)
THEOREM RecallsAlwaysComplete == Spec => []RecallsAreComplete
<1>1. Spec => []NamesInv
  BY InitEstablishesNames, StepKeepsNames, PTL DEF Spec
<1>2. NamesInv => RecallsAreComplete
  BY DEF NamesInv
<1> QED
  BY <1>1, <1>2, PTL

-----------------------------------------------------------------------------
(***************************************************************************)
(* A step of one client leaves all that is another's alone, the store and  *)
(* the owner apart.                                                        *)
(***************************************************************************)
Untouched(d) ==
    /\ pc'[d] = pc[d] /\ ip'[d] = ip[d] /\ sink'[d] = sink[d] /\ result'[d] = result[d]
    /\ token'[d] = token[d] /\ expired'[d] = expired[d] /\ outcome'[d] = outcome[d]
    /\ connected'[d] = connected[d] /\ channel'[d] = channel[d]
    /\ received'[d] = received[d] /\ late'[d] = late[d]
    /\ d \in active' <=> d \in active

LEMMA ContinueTouchesOne ==
    ASSUME NEW c \in Clients, NEW d \in Clients \ {c}, NEW s, Continue(c, s),
           TypeOK
    PROVE  /\ pc'[d] = pc[d] /\ ip'[d] = ip[d] /\ sink'[d] = sink[d]
           /\ result'[d] = result[d]
BY TypeFacts DEF Continue, Goto

LEMMA SendTouchesOne ==
    ASSUME TypeOK, NEW c \in Clients, NEW d \in Clients \ {c}, NEW event, Send(c, event)
    PROVE  /\ connected'[d] = connected[d] /\ channel'[d] = channel[d]
           /\ received'[d] = received[d]
BY DEF Send, TypeOK

LEMMA StepTouchesOne ==
    ASSUME TypeOK, NEW c \in Clients, NEW d \in Clients \ {c}, Worker(c) \/ Environment(c)
    PROVE  Untouched(d)
<1>1. /\ pc \in [Clients -> Places] /\ ip \in [Clients -> Nat \ {0}]
      /\ sink \in [Clients -> Sinks] /\ result \in [Clients -> Results]
      /\ token \in [Clients -> BOOLEAN] /\ expired \in [Clients -> BOOLEAN]
      /\ outcome \in [Clients -> {"none", "ok", "cancelled", "timeout", "error"}]
      /\ connected \in [Clients -> BOOLEAN]
      /\ channel \in [Clients -> Seq(Event)] /\ received \in [Clients -> Seq(Event)]
      /\ late \in [Clients -> Nat]
  BY TypeFacts DEF TypeOK
<1>2. CASE Environment(c)
  BY <1>1, <1>2 DEF Environment, Start, Expire, Cancel, Read, Disconnect, Goto, work,
     stream, Untouched
<1>3. CASE Acquire(c) \/ GiveUp(c) \/ NextCommand(c) \/ Prepare(c) \/ Respond(c)
  BY <1>1, <1>3 DEF Acquire, GiveUp, NextCommand, Prepare, Respond, Goto, work, stream,
     Untouched
<1>4. CASE Succeed(c) \/ Interrupt(c) \/ CommandFails(c)
  BY <1>1, <1>4 DEF Succeed, Interrupt, CommandFails, Finish, Goto, work, stream, Untouched
<1>5. CASE ReportEnd(c) \/ ReportError(c) \/ ReportAborted(c)
  <2>1. /\ connected'[d] = connected[d] /\ channel'[d] = channel[d]
        /\ received'[d] = received[d]
    BY <1>5, SendTouchesOne DEF ReportEnd, ReportError, ReportAborted
  <2> QED
    BY <1>1, <1>5, <2>1 DEF ReportEnd, ReportError, ReportAborted, Goto, work, Untouched
<1>6. CASE Search(c) \/ EmitMeta(c) \/ StopAtLimit(c) \/ EmitRow(c)
  <2>1. /\ pc'[d] = pc[d] /\ ip'[d] = ip[d] /\ sink'[d] = sink[d]
        /\ result'[d] = result[d]
    <3>1. \/ \E s : Continue(c, s)
          \/ /\ (\E s : sink' = [sink EXCEPT ![c] = s]) /\ UNCHANGED <<ip, result>>
             /\ pc' = pc \/ \E to : pc' = [pc EXCEPT ![c] = to]
      BY <1>6, Zenon DEF Search, EmitMeta, StopAtLimit, EmitRow, Goto
    <3> QED
      BY <1>1, <3>1, ContinueTouchesOne
  <2>2. /\ UNCHANGED <<expired, outcome, active, late>>
        /\ \/ UNCHANGED <<token, stream>>
           \/ \E e : Emit(c, e)
    BY <1>6, Zenon DEF Search, EmitMeta, StopAtLimit, EmitRow
  <2>3. /\ connected'[d] = connected[d] /\ channel'[d] = channel[d]
        /\ received'[d] = received[d] /\ token'[d] = token[d]
    BY <1>1, <2>2, SendTouchesOne DEF Emit, stream
  <2> QED
    BY <2>1, <2>2, <2>3 DEF Untouched
<1>7. CASE EndSet(c)
  <2>1. /\ connected'[d] = connected[d] /\ channel'[d] = channel[d]
        /\ received'[d] = received[d]
    BY <1>7, SendTouchesOne DEF EndSet, Emit
  <2> QED
    BY <1>1, <1>7, <2>1 DEF EndSet, Emit, Goto, Untouched
<1>8. CASE Commit(c)
  <2>1. /\ pc'[d] = pc[d] /\ ip'[d] = ip[d] /\ sink'[d] = sink[d]
        /\ result'[d] = result[d]
    <3>1. \/ \E s : Continue(c, s)
          \/ /\ sink' = sink \/ \E s : sink' = [sink EXCEPT ![c] = s]
             /\ ip' = ip \/ \E n : ip' = [ip EXCEPT ![c] = n]
             /\ UNCHANGED result
             /\ \E to : pc' = [pc EXCEPT ![c] = to]
      BY <1>8, Zenon DEF Commit, AfterFallback, AfterAddition, Goto
    <3> QED
      BY <1>1, <3>1, ContinueTouchesOne
  <2> QED
    BY <1>1, <1>8, <2>1 DEF Commit, stream, Untouched
<1> QED
  BY <1>2, <1>3, <1>4, <1>5, <1>6, <1>7, <1>8 DEF Worker

(***************************************************************************)
(* The registry, and what is added after an interruption: an execution     *)
(* that is interrupted does not begin another addition.                    *)
(***************************************************************************)
RegistryKnown(c) ==
    /\ c \in active <=> Mode[c] = "handle" /\ pc[c] \notin {"ready", "done"}
    /\ pc[c] = "close" => Mode[c] = "stream"

LateOnce(c) ==
    /\ late[c] \in {0, 1}
    /\ late[c] = 1 => Interrupted(c) /\ pc[c] # "commit"

ControlInv == IInv /\ \A c \in Clients : RegistryKnown(c) /\ LateOnce(c)

(***************************************************************************)
(* Where the steps of a worker go, and what they leave alone.              *)
(***************************************************************************)
Leaves(c) ==
    \/ pc[c] = "report" /\ pc'[c] = "close" /\ active' = active /\ Mode[c] = "stream"
    \/ pc[c] = "report" /\ pc'[c] = "done" /\ active' = active /\ Mode[c] = "stream"
    \/ pc[c] = "close" /\ pc'[c] = "done" /\ active' = active
    \/ pc[c] = "report" /\ pc'[c] = "done" /\ active' = active \ {c} /\ Mode[c] # "stream"

GoesOn(c) ==
    /\ pc[c] \in Running \cup {"waiting"} /\ pc'[c] \in Running \cup {"report"}
    /\ active' = active

LEMMA WorkerControl ==
    ASSUME IInv, NEW c \in Clients, Worker(c)
    PROVE  /\ expired' = expired /\ (token[c] => token'[c])
           /\ GoesOn(c) \/ Leaves(c)
           /\ ~Commit(c) => late' = late /\ (pc'[c] = "commit" => ~Interrupted(c))
<1>1. pc \in [Clients -> Places] /\ token \in [Clients -> BOOLEAN]
  BY TypeFacts DEF IInv
<1>2. CASE Acquire(c) \/ GiveUp(c) \/ NextCommand(c) \/ Prepare(c)
  <2>1. \A command : FirstStep(command) \in Running
    BY DEF FirstStep, Running
  <2> QED
    BY <1>1, <1>2, <2>1 DEF Acquire, GiveUp, NextCommand, Prepare, Goto, At, GoesOn, Running,
       Commit
<1>3. CASE Succeed(c) \/ Interrupt(c) \/ CommandFails(c)
  BY <1>1, <1>3 DEF Succeed, Interrupt, CommandFails, Finish, Goto, At, GoesOn, Running
<1>4. CASE ReportEnd(c) \/ ReportError(c) \/ ReportAborted(c) \/ Respond(c)
  BY <1>1, <1>4 DEF ReportEnd, ReportError, ReportAborted, Respond, Goto, At, Leaves
<1>5. CASE Search(c) \/ EmitMeta(c) \/ EmitRow(c) \/ StopAtLimit(c) \/ EndSet(c)
  <2>1. /\ pc[c] \in Searching /\ pc'[c] \in Running
    BY <1>5, SearchMoves
  <2>2. /\ late' = late /\ expired' = expired /\ active' = active
        /\ token' = token \/ token' = [token EXCEPT ![c] = @ \/ Gone(c)]
    BY <1>5, Zenon DEF Search, EmitMeta, EmitRow, StopAtLimit, EndSet, Emit
  <2>3. pc'[c] # "commit"
    <3>1. \/ \E to \in {"meta", "rows", "add", "setend", "head"} :
                pc' = [pc EXCEPT ![c] = to]
          \/ pc' = pc /\ pc[c] = "rows"
      BY <1>5, Zenon DEF Search, EmitMeta, EmitRow, StopAtLimit, EndSet, Continue, Goto, At
    <3> QED
      BY <1>1, <3>1
  <2> QED
    BY <1>1, <2>1, <2>2, <2>3 DEF GoesOn, Searching, Running
<1>6. CASE Commit(c)
  <2>1. pc[c] = "commit" /\ UNCHANGED <<token, expired, active>>
    BY <1>6 DEF Commit, At
  <2>2. pc'[c] \in Running
    BY <1>6, CommitMoves DEF Running
  <2> QED
    BY <1>6, <2>1, <2>2 DEF GoesOn, Running
<1> QED
  BY <1>2, <1>3, <1>4, <1>5, <1>6 DEF Worker

LEMMA WorkerKeepsControl ==
    ASSUME ControlInv, NEW c \in Clients, Worker(c)
    PROVE  RegistryKnown(c)' /\ LateOnce(c)'
<1>1. IInv /\ RegistryKnown(c) /\ LateOnce(c) /\ late \in [Clients -> Nat]
  BY DEF ControlInv, IInv, TypeOK
<1>2. /\ expired' = expired /\ (token[c] => token'[c])
      /\ GoesOn(c) \/ Leaves(c)
      /\ ~Commit(c) => late' = late /\ (pc'[c] = "commit" => ~Interrupted(c))
  BY <1>1, WorkerControl
<1>3. RegistryKnown(c)'
  BY <1>1, <1>2 DEF RegistryKnown, GoesOn, Leaves, Running
<1>4. LateOnce(c)'
  <2>1. CASE Commit(c)
    <3>1. /\ pc[c] = "commit" /\ UNCHANGED <<token, expired>>
          /\ late' = [late EXCEPT ![c] =
                          @ + (IF Interrupted(c) /\ ~Redundant(c) THEN 1 ELSE 0)]
      BY <2>1 DEF Commit, At
    <3>2. late[c] = 0 /\ pc'[c] # "commit"
      BY <1>1, <2>1, <3>1, CommitMoves DEF LateOnce
    <3> QED
      BY <1>1, <3>1, <3>2 DEF LateOnce, Interrupted
  <2>2. CASE ~Commit(c)
    BY <1>1, <1>2, <2>2 DEF LateOnce, Interrupted
  <2> QED
    BY <2>1, <2>2
<1> QED
  BY <1>3, <1>4

LEMMA EnvironmentKeepsControl ==
    ASSUME ControlInv, NEW c \in Clients, Environment(c)
    PROVE  RegistryKnown(c)' /\ LateOnce(c)'
<1>1. /\ RegistryKnown(c) /\ LateOnce(c)
      /\ pc \in [Clients -> Places] /\ token \in [Clients -> BOOLEAN]
      /\ expired \in [Clients -> BOOLEAN]
  BY TypeFacts DEF ControlInv, IInv
<1>2. CASE Start(c)
  BY <1>1, <1>2 DEF Start, At, Goto, RegistryKnown, LateOnce, Interrupted
<1>3. CASE Expire(c) \/ Cancel(c) \/ Read(c) \/ Disconnect(c)
  <2>1. /\ UNCHANGED <<pc, active, late>>
        /\ (token[c] => token'[c]) /\ (expired[c] => expired'[c])
    BY <1>1, <1>3 DEF Expire, Cancel, Read, Disconnect, stream
  <2> QED
    BY <1>1, <2>1 DEF RegistryKnown, LateOnce, Interrupted
<1> QED
  BY <1>2, <1>3 DEF Environment

LEMMA StepKeepsControl == ControlInv /\ [Next]_vars => ControlInv'
<1> SUFFICES ASSUME ControlInv, [Next]_vars PROVE ControlInv'
  OBVIOUS
<1>1. IInv'
  BY StepKeepsIInv DEF ControlInv
<1>2. CASE UNCHANGED vars \/ Finished
  BY <1>1, <1>2 DEF Finished, vars, ControlInv, RegistryKnown, LateOnce, Interrupted
<1>3. ASSUME NEW c \in Clients, Worker(c) \/ Environment(c) PROVE ControlInv'
  <2>1. RegistryKnown(c)' /\ LateOnce(c)'
    BY <1>3, WorkerKeepsControl, EnvironmentKeepsControl
  <2>2. ASSUME NEW d \in Clients \ {c} PROVE RegistryKnown(d)' /\ LateOnce(d)'
    <3>1. Untouched(d)
      BY <1>3, StepTouchesOne DEF ControlInv, IInv
    <3> QED
      BY <3>1 DEF Untouched, ControlInv, RegistryKnown, LateOnce, Interrupted
  <2> QED
    BY <1>1, <2>1, <2>2 DEF ControlInv
<1> QED
  BY <1>2, <1>3 DEF Next

LEMMA SpecKeepsControl == Spec => []ControlInv
<1>1. Init => ControlInv
  <2> SUFFICES ASSUME Init PROVE ControlInv
    OBVIOUS
  <2>1. \A c \in Clients : pc[c] \in {"ready", "done"} /\ late[c] = 0
    BY DEF Init
  <2> QED
    BY <2>1, InitEstablishesIInv DEF Init, ControlInv, RegistryKnown, LateOnce
<1> QED
  BY <1>1, StepKeepsControl, PTL DEF Spec

(***************************************************************************)
(* The registry of queries has exactly those that a cancellation still     *)
(* reaches: they are in it from their start to their answer, however they  *)
(* end (QueryInterface::start_query and its worker).                       *)
(***************************************************************************)
THEOREM RegistryAlwaysExact == Spec => []RegistryIsExact
<1>1. ControlInv => RegistryIsExact
  BY DEF ControlInv, RegistryKnown, RegistryIsExact
<1> QED
  BY <1>1, SpecKeepsControl, PTL

(***************************************************************************)
(* After a cancellation, a deadline or the loss of its client, at most the *)
(* addition in progress is still made: between the last check and the      *)
(* commit there is only one, and no way back to it without another check.  *)
(***************************************************************************)
THEOREM InterruptionAlwaysPrompt == Spec => []InterruptionIsPrompt
<1>1. ControlInv => InterruptionIsPrompt
  BY DEF ControlInv, LateOnce, InterruptionIsPrompt
<1> QED
  BY <1>1, SpecKeepsControl, PTL

-----------------------------------------------------------------------------
(***************************************************************************)
(* Sequences of events.  A result set is open from its columns to its      *)
(* tally: its rows are the latest events.                                  *)
(***************************************************************************)
SetKinds == {"meta", "row", "setend"}

KindsAre(E, kinds) == \A i \in DOMAIN E : E[i].kind \in kinds

RowsEndWith(E, n) ==
    /\ n < Len(E) /\ E[Len(E) - n].kind = "meta"
    /\ \A i \in DOMAIN E : i > Len(E) - n => E[i].kind = "row"

SetIsClosed(E) == E = <<>> \/ E[Len(E)].kind = "setend"

CountsRows(E, i) ==
    \E first \in DOMAIN E :
        /\ first < i /\ E[first].kind # "row"
        /\ \A j \in DOMAIN E : first < j /\ j < i => E[j].kind = "row"
        /\ E[i].count = i - first - 1

FollowsKind(E, i, kinds) == i > 1 /\ E[i - 1].kind \in kinds

GoodAt(verdict, E, i) ==
    /\ E[i].kind = "meta" => i = 1 \/ FollowsKind(E, i, {"setend"})
    /\ E[i].kind = "row" => FollowsKind(E, i, {"meta", "row"})
    /\ E[i].kind = "setend" =>
          /\ FollowsKind(E, i, {"meta", "row"}) /\ CountsRows(E, i)
          /\ E[i].limited => E[i].count = Limit
    /\ E[i].kind = "end" => i = Len(E) /\ verdict = "ok"
    /\ E[i].kind = "error" => verdict # "ok"
    /\ E[i].kind = "aborted" => i = Len(E) /\ FollowsKind(E, i, {"error"})

Good(verdict, E) == \A i \in DOMAIN E : GoodAt(verdict, E, i)

RowCount(E) == Cardinality({i \in DOMAIN E : E[i].kind = "row"})

LEMMA Appended ==
    ASSUME NEW E \in Seq(Event), NEW e \in Event
    PROVE  /\ Len(E) \in Nat /\ DOMAIN E = 1..Len(E)
           /\ Append(E, e) \in Seq(Event) /\ Len(Append(E, e)) = Len(E) + 1
           /\ DOMAIN Append(E, e) = 1..(Len(E) + 1)
           /\ Append(E, e)[Len(E) + 1] = e
           /\ \A i \in 1..Len(E) : Append(E, e)[i] = E[i]
           /\ Append(E, e) # <<>>
           /\ E # <<>> => Len(E) > 0
           /\ \A i \in 1..Len(E) : E[i] \in Event
OBVIOUS

LEMMA GoodIsWellFormed ==
    ASSUME NEW c \in Clients, NEW E \in Seq(Event), NEW i \in DOMAIN E,
           GoodAt(outcome[c], E, i)
    PROVE  WellFormedAt(c, E, i)
<1>1. Len(E) \in Nat /\ DOMAIN E = 1..Len(E) /\ i \in Nat /\ E[i] \in Event
  OBVIOUS
<1>2. E[i].kind \in {"meta", "row", "setend", "end", "error", "aborted"}
  BY <1>1 DEF Event
<1>3. CASE E[i].kind = "setend"
  <2>1. PICK first \in DOMAIN E :
            /\ first < i /\ E[first].kind # "row"
            /\ \A j \in DOMAIN E : first < j /\ j < i => E[j].kind = "row"
            /\ E[i].count = i - first - 1
    BY <1>3 DEF GoodAt, CountsRows
  <2> DEFINE IsFirst(j) == /\ E[j].kind # "row" /\ j < i
                           /\ \A k \in (j + 1)..(i - 1) : E[k].kind = "row"
             found == CHOOSE j \in 1..i : IsFirst(j)
  <2>2. first \in 1..i /\ IsFirst(first)
    BY <1>1, <2>1
  <2>3. found \in 1..i /\ IsFirst(found)
    BY <2>2
  <2>4. found = first
    <3>1. CASE found < first
      BY <1>1, <2>2, <2>3, <3>1
    <3>2. CASE first < found
      BY <1>1, <2>2, <2>3, <3>2
    <3> QED
      BY <1>1, <2>2, <2>3, <3>1, <3>2
  <2>5. RowsBefore(E, i) = i - first - 1
    BY <2>4 DEF RowsBefore
  <2> HIDE DEF found
  <2> QED
    BY <1>1, <1>3, <2>1, <2>5 DEF GoodAt, FollowsKind, WellFormedAt
<1>4. CASE E[i].kind = "meta"
  BY <1>1, <1>4 DEF GoodAt, FollowsKind, WellFormedAt
<1>5. CASE E[i].kind = "row"
  BY <1>1, <1>5 DEF GoodAt, FollowsKind, WellFormedAt
<1>6. CASE E[i].kind = "end" \/ E[i].kind = "error"
  BY <1>1, <1>6 DEF GoodAt, WellFormedAt
<1>7. CASE E[i].kind = "aborted"
  BY <1>1, <1>7 DEF GoodAt, FollowsKind, WellFormedAt
<1> QED
  BY <1>2, <1>3, <1>4, <1>5, <1>6, <1>7

(***************************************************************************)
(* One more event.                                                         *)
(***************************************************************************)
LEMMA AppendedKinds ==
    ASSUME NEW E \in Seq(Event), NEW e \in Event, NEW kinds, KindsAre(E, kinds),
           e.kind \in kinds
    PROVE  KindsAre(Append(E, e), kinds)
BY Appended DEF KindsAre

LEMMA AppendedIsGood ==
    ASSUME NEW E \in Seq(Event), NEW e \in Event, NEW verdict, Good(verdict, E),
           KindsAre(E, SetKinds \cup {"error"}),
           GoodAt(verdict, Append(E, e), Len(E) + 1)
    PROVE  Good(verdict, Append(E, e))
<1> DEFINE F == Append(E, e)
<1>1. /\ Len(E) \in Nat /\ DOMAIN E = 1..Len(E) /\ DOMAIN F = 1..(Len(E) + 1)
      /\ \A i \in 1..Len(E) : F[i] = E[i]
  BY Appended
<1> HIDE DEF F
<1>2. ASSUME NEW i \in 1..Len(E) PROVE GoodAt(verdict, F, i)
  <2>1. /\ GoodAt(verdict, E, i) /\ F[i] = E[i] /\ E[i].kind \in SetKinds \cup {"error"}
        /\ i \in DOMAIN E
    BY <1>1, <1>2 DEF Good, KindsAre
  <2>2. \A kinds : FollowsKind(E, i, kinds) => FollowsKind(F, i, kinds)
    BY <1>1 DEF FollowsKind
  <2>3. CountsRows(E, i) => CountsRows(F, i)
    <3> SUFFICES ASSUME CountsRows(E, i) PROVE CountsRows(F, i)
      OBVIOUS
    <3>1. PICK first \in DOMAIN E :
            /\ first < i /\ E[first].kind # "row"
            /\ \A j \in DOMAIN E : first < j /\ j < i => E[j].kind = "row"
            /\ E[i].count = i - first - 1
      BY DEF CountsRows
    <3>2. first \in DOMAIN F /\ F[first].kind # "row" /\ F[i].count = i - first - 1
      BY <1>1, <3>1
    <3>3. \A j \in DOMAIN F : first < j /\ j < i => F[j].kind = "row"
      BY <1>1, <3>1
    <3> QED
      BY <3>1, <3>2, <3>3 DEF CountsRows
  <2> QED
    BY <2>1, <2>2, <2>3 DEF GoodAt, SetKinds
<1>3. DOMAIN F = 1..Len(E) \cup {Len(E) + 1}
  BY <1>1
<1> QED
  BY <1>2, <1>3 DEF Good, F

LEMMA AppendedCount ==
    ASSUME NEW E \in Seq(Event), NEW e \in Event
    PROVE  /\ RowCount(E) \in Nat
           /\ RowCount(Append(E, e)) = RowCount(E) + IF e.kind = "row" THEN 1 ELSE 0
<1> DEFINE F == Append(E, e)
           n == Len(E)
           R == {i \in 1..n : E[i].kind = "row"}
<1>1. /\ n \in Nat /\ DOMAIN E = 1..n /\ DOMAIN F = 1..(n + 1)
      /\ F[n + 1] = e /\ \A i \in 1..n : F[i] = E[i]
  BY Appended
<1>2. IsFiniteSet(R) /\ n + 1 \notin R
  <2>1. IsFiniteSet(1..n)
    BY <1>1, FS_Interval
  <2> QED
    BY <1>1, <2>1, FS_Subset
<1>3. {i \in DOMAIN F : F[i].kind = "row"} = IF e.kind = "row" THEN R \cup {n + 1} ELSE R
  <2> HIDE DEF F, n
  <2>1. 1..(n + 1) = 1..n \cup {n + 1}
    BY <1>1
  <2> QED
    BY <1>1, <2>1
<1>4. Cardinality(R) \in Nat /\ Cardinality(R \cup {n + 1}) = Cardinality(R) + 1
  BY <1>2, FS_CardinalityType, FS_AddElement
<1>5. RowCount(E) = Cardinality(R)
  BY <1>1 DEF RowCount
<1>6. RowCount(F) = Cardinality(IF e.kind = "row" THEN R \cup {n + 1} ELSE R)
  BY <1>3 DEF RowCount
<1> HIDE DEF F, R, n
<1>7. RowCount(F) = RowCount(E) + IF e.kind = "row" THEN 1 ELSE 0
  BY <1>4, <1>5, <1>6
<1> QED
  BY <1>4, <1>5, <1>7 DEF F

LEMMA NoEvents ==
    /\ <<>> \in Seq(Event) /\ RowCount(<<>>) = 0
    /\ \A kinds : KindsAre(<<>>, kinds)
    /\ \A verdict : Good(verdict, <<>>)
<1>1. {i \in DOMAIN <<>> : <<>>[i].kind = "row"} = {}
  OBVIOUS
<1> QED
  BY <1>1, FS_EmptySet DEF RowCount, KindsAre, Good

(***************************************************************************)
(* Columns open a result set, rows go on with it, and its tally closes it. *)
(***************************************************************************)
LEMMA ColumnsOpen ==
    ASSUME NEW E \in Seq(Event), NEW verdict, Good(verdict, E), KindsAre(E, SetKinds),
           SetIsClosed(E)
    PROVE  /\ Good(verdict, Append(E, Mark("meta")))
           /\ KindsAre(Append(E, Mark("meta")), SetKinds)
           /\ RowsEndWith(Append(E, Mark("meta")), 0)
           /\ RowCount(Append(E, Mark("meta"))) = RowCount(E)
<1> DEFINE e == Mark("meta")
           F == Append(E, e)
<1>1. e \in Event /\ e.kind = "meta"
  BY EventTypes DEF Mark
<1> HIDE DEF e
<1>2. /\ Len(E) \in Nat /\ DOMAIN E = 1..Len(E) /\ Len(F) = Len(E) + 1
      /\ DOMAIN F = 1..(Len(E) + 1)
      /\ F[Len(E) + 1] = e /\ \A i \in 1..Len(E) : F[i] = E[i]
      /\ E # <<>> => Len(E) > 0
  BY <1>1, Appended
<1>3. KindsAre(F, SetKinds) /\ KindsAre(E, SetKinds \cup {"error"})
  BY <1>1, AppendedKinds DEF SetKinds, KindsAre
<1>4. RowCount(F) = RowCount(E)
  BY <1>1, AppendedCount
<1>5. GoodAt(verdict, F, Len(E) + 1)
  <2> HIDE DEF F
  <2>1. Len(E) = 0 \/ (Len(E) > 0 /\ F[Len(E)].kind = "setend")
    BY <1>2 DEF SetIsClosed
  <2> QED
    BY <1>1, <1>2, <2>1 DEF GoodAt, FollowsKind
<1>6. Good(verdict, F)
  BY <1>1, <1>3, <1>5, AppendedIsGood
<1>7. RowsEndWith(F, 0)
  <2> HIDE DEF F
  <2> QED
    BY <1>1, <1>2 DEF RowsEndWith
<1> QED
  BY <1>3, <1>4, <1>6, <1>7 DEF e

LEMMA RowGoesOn ==
    ASSUME NEW E \in Seq(Event), NEW verdict, Good(verdict, E), KindsAre(E, SetKinds),
           NEW n \in Nat, RowsEndWith(E, n)
    PROVE  /\ Good(verdict, Append(E, Mark("row")))
           /\ KindsAre(Append(E, Mark("row")), SetKinds)
           /\ RowsEndWith(Append(E, Mark("row")), n + 1)
           /\ RowCount(Append(E, Mark("row"))) = RowCount(E) + 1
<1> DEFINE e == Mark("row")
           F == Append(E, e)
<1>1. e \in Event /\ e.kind = "row"
  BY EventTypes DEF Mark
<1> HIDE DEF e
<1>2. /\ Len(E) \in Nat /\ DOMAIN E = 1..Len(E) /\ Len(F) = Len(E) + 1
      /\ DOMAIN F = 1..(Len(E) + 1)
      /\ F[Len(E) + 1] = e /\ \A i \in 1..Len(E) : F[i] = E[i]
  BY <1>1, Appended
<1>3. KindsAre(F, SetKinds) /\ KindsAre(E, SetKinds \cup {"error"})
  BY <1>1, AppendedKinds DEF SetKinds, KindsAre
<1>4. RowCount(F) = RowCount(E) + 1
  BY <1>1, AppendedCount
<1>5. GoodAt(verdict, F, Len(E) + 1)
  <2> HIDE DEF F
  <2>1. Len(E) > 0 /\ F[Len(E)].kind \in {"meta", "row"}
    BY <1>2 DEF RowsEndWith
  <2> QED
    BY <1>1, <1>2, <2>1 DEF GoodAt, FollowsKind
<1>6. Good(verdict, F)
  BY <1>1, <1>3, <1>5, AppendedIsGood
<1>7. RowsEndWith(F, n + 1)
  <2> HIDE DEF F
  <2> QED
    BY <1>1, <1>2 DEF RowsEndWith
<1> QED
  BY <1>3, <1>4, <1>6, <1>7 DEF e

LEMMA TallyCloses ==
    ASSUME NEW E \in Seq(Event), NEW verdict, Good(verdict, E), KindsAre(E, SetKinds),
           NEW n \in Nat, RowsEndWith(E, n), NEW limited \in BOOLEAN, limited => n = Limit
    PROVE  /\ Good(verdict, Append(E, Tally("setend", n, limited)))
           /\ KindsAre(Append(E, Tally("setend", n, limited)), SetKinds)
           /\ SetIsClosed(Append(E, Tally("setend", n, limited)))
           /\ RowCount(Append(E, Tally("setend", n, limited))) = RowCount(E)
<1> DEFINE e == Tally("setend", n, limited)
           F == Append(E, e)
<1>1. e \in Event /\ e.kind = "setend" /\ e.count = n /\ e.limited = limited
  BY EventTypes DEF Tally
<1> HIDE DEF e
<1>2. /\ Len(E) \in Nat /\ DOMAIN E = 1..Len(E) /\ Len(F) = Len(E) + 1
      /\ DOMAIN F = 1..(Len(E) + 1)
      /\ F[Len(E) + 1] = e /\ \A i \in 1..Len(E) : F[i] = E[i]
  BY <1>1, Appended
<1>3. KindsAre(F, SetKinds) /\ KindsAre(E, SetKinds \cup {"error"})
  BY <1>1, AppendedKinds DEF SetKinds, KindsAre
<1>4. RowCount(F) = RowCount(E)
  BY <1>1, AppendedCount
<1>5. GoodAt(verdict, F, Len(E) + 1)
  <2> HIDE DEF F
  <2>1. Len(E) > 0 /\ F[Len(E)].kind \in {"meta", "row"}
    BY <1>2 DEF RowsEndWith
  <2>2. CountsRows(F, Len(E) + 1)
    <3>1. Len(E) - n \in 1..Len(E)
      BY <1>2 DEF RowsEndWith
    <3>2. F[Len(E) - n].kind # "row"
      BY <1>2, <3>1 DEF RowsEndWith
    <3>3. \A j \in DOMAIN F : Len(E) - n < j /\ j < Len(E) + 1 => F[j].kind = "row"
      BY <1>2 DEF RowsEndWith
    <3>4. F[Len(E) + 1].count = (Len(E) + 1) - (Len(E) - n) - 1
      BY <1>1, <1>2
    <3>5. Len(E) - n \in DOMAIN F /\ Len(E) - n < Len(E) + 1
      BY <1>2, <3>1
    <3> QED
      BY <3>2, <3>3, <3>4, <3>5 DEF CountsRows
  <2> QED
    BY <1>1, <1>2, <2>1, <2>2 DEF GoodAt, FollowsKind
<1>6. Good(verdict, F)
  BY <1>1, <1>3, <1>5, AppendedIsGood
<1>7. SetIsClosed(F)
  BY <1>1, <1>2 DEF SetIsClosed
<1> QED
  BY <1>3, <1>4, <1>6, <1>7 DEF e

(***************************************************************************)
(* While there are only result sets, it does not matter how it ends.       *)
(***************************************************************************)
LEMMA VerdictIsLast ==
    ASSUME NEW E, KindsAre(E, SetKinds), NEW v, NEW w, Good(v, E)
    PROVE  Good(w, E)
BY DEF Good, GoodAt, KindsAre, SetKinds

-----------------------------------------------------------------------------
(***************************************************************************)
(* What a search knows of itself: where it is, it has a result set or not; *)
(* its sink has counted what is no longer left, of its own rows or of its  *)
(* fallback's; and it comes to its fallback only if it has found nothing   *)
(* and sent nothing.                                                       *)
(***************************************************************************)
SearchesKnown(c) ==
    /\ pc[c] \in {"search", "meta", "rows", "setend"} => Current(c).op \notin Additions
    /\ pc[c] \in {"add", "commit"} => Current(c).op # "search"
    /\ pc[c] \in {"meta", "rows", "setend"} => Current(c).returns
    /\ pc[c] = "setend" => MultiSet(c)

FallbackIsFresh(c) ==
    pc[c] \in {"add", "commit"} /\ Current(c).op = "oradd" =>
        sink[c].matches = 0 /\ sink[c].count = 0 /\ ~sink[c].limited /\ ~sink[c].added

SinkCounts(c) ==
    /\ pc[c] = "meta" =>
          /\ sink[c].left = sink[c].matches /\ sink[c].count = 0
          /\ ~sink[c].limited /\ ~sink[c].added
    /\ pc[c] = "rows" =>
          /\ ~sink[c].limited /\ ~sink[c].stopped
          /\ sink[c].matches > 0 /\ sink[c].left + sink[c].count = sink[c].matches
    /\ pc[c] = "setend" /\ sink[c].limited => sink[c].count = Limit

SinkInv(c) == SearchesKnown(c) /\ FallbackIsFresh(c) /\ SinkCounts(c)

(***************************************************************************)
(* What a search goes on with: nothing counted if nothing was found, and   *)
(* the limit if there was more.                                            *)
(***************************************************************************)
MayGoOn(s) ==
    /\ s.matches = 0 /\ ~s.added => s.count = 0 /\ ~s.limited
    /\ s.limited => s.count = Limit

LEMMA ContinueKeepsSink ==
    ASSUME IInv, NEW c \in Clients, NEW s \in Sinks, Continue(c, s), MayGoOn(s),
           Current(c).op \notin Additions
    PROVE  SinkInv(c)'
<1>1. /\ pc \in [Clients -> Places] /\ ip \in [Clients -> Nat \ {0}]
      /\ sink \in [Clients -> Sinks]
  BY TypeFacts DEF IInv
<1>2. sink'[c] = s
  BY <1>1 DEF Continue
<1>3. \/ /\ NeedsFallback(c, s) /\ pc'[c] = "add" /\ ip' = ip
      \/ /\ MultiSet(c) /\ Current(c).returns /\ pc'[c] = "setend" /\ ip' = ip
      \/ pc'[c] = "head"
  BY <1>1 DEF Continue, Goto
<1>4. ip' = ip => Current(c)' = Current(c)
  BY DEF Current
<1> QED
  BY <1>2, <1>3, <1>4 DEF SinkInv, SearchesKnown, FallbackIsFresh, SinkCounts, MayGoOn,
     NeedsFallback, Additions

LEMMA SearchesStayKnown ==
    ASSUME IInv, NEW c \in Clients, SinkInv(c), Search(c) \/ EmitMeta(c) \/ StopAtLimit(c)
    PROVE  SinkInv(c)'
<1>1. /\ pc \in [Clients -> Places] /\ ip \in [Clients -> Nat \ {0}]
      /\ sink \in [Clients -> Sinks] /\ sink[c] \in Sinks
      /\ Limit \in Nat \ {0}
  BY TypeFacts, ConstantFacts DEF IInv
<1>2. CASE Search(c)
  <2> DEFINE s == [NoSearch EXCEPT !.matches = Matches(Current(c).key),
                                   !.left = Matches(Current(c).key)]
  <2>1. s \in Sinks /\ MayGoOn(s) /\ s.left = s.matches /\ s.count = 0
        /\ ~s.limited /\ ~s.added
    <3>1. Matches(Current(c).key) \in Nat
      BY MatchesIsNat DEF IInv
    <3>2. ASSUME NEW n \in Nat, NEW t, t = [NoSearch EXCEPT !.matches = n, !.left = n]
          PROVE  /\ t \in Sinks /\ t.left = t.matches /\ t.count = 0
                 /\ ~t.limited /\ ~t.added
      <4>1. t = [matches |-> n, left |-> n, count |-> 0,
                 limited |-> FALSE, stopped |-> FALSE, added |-> FALSE]
        BY <3>2 DEF NoSearch
      <4> QED
        BY <1>1, <4>1 DEF Sinks
    <3> QED
      BY <3>1, <3>2 DEF MayGoOn
  <2>2. pc[c] = "search" /\ Current(c).op \notin Additions
    BY <1>2 DEF Search, At, SinkInv, SearchesKnown
  <2>3. \/ /\ Current(c).returns /\ sink' = [sink EXCEPT ![c] = s]
           /\ pc' = [pc EXCEPT ![c] = "meta"] /\ ip' = ip
        \/ Continue(c, s)
    BY <1>2 DEF Search, Goto
  <2> HIDE DEF s
  <2>4. CASE sink' = [sink EXCEPT ![c] = s] /\ Current(c).returns
             /\ pc' = [pc EXCEPT ![c] = "meta"] /\ ip' = ip
    <3>1. pc'[c] = "meta" /\ sink'[c] = s /\ Current(c)' = Current(c)
      BY <1>1, <2>4 DEF Current
    <3> QED
      BY <2>1, <2>2, <2>4, <3>1 DEF SinkInv, SearchesKnown, FallbackIsFresh, SinkCounts
  <2> QED
    BY <2>1, <2>2, <2>3, <2>4, ContinueKeepsSink
<1>3. CASE EmitMeta(c)
  <2> DEFINE s == [sink[c] EXCEPT !.stopped = Gone(c) /\ ~MultiSet(c)]
  <2>1. /\ s \in Sinks /\ s.matches = sink[c].matches /\ s.left = sink[c].left
        /\ s.count = sink[c].count /\ s.limited = sink[c].limited /\ s.added = sink[c].added
    <3>1. (Gone(c) /\ ~MultiSet(c)) \in BOOLEAN
      OBVIOUS
    <3> QED
      BY <1>1, <3>1 DEF Sinks
  <2>2. /\ pc[c] = "meta" /\ Current(c).op \notin Additions /\ Current(c).returns
        /\ s.left = s.matches /\ s.count = 0 /\ ~s.limited /\ ~s.added
    BY <1>3, <2>1 DEF EmitMeta, At, SinkInv, SearchesKnown, SinkCounts
  <2>3. \/ /\ sink' = [sink EXCEPT ![c] = s] /\ s.left # 0 /\ ~s.stopped
           /\ pc' = [pc EXCEPT ![c] = "rows"] /\ ip' = ip
        \/ Continue(c, s)
    BY <1>3 DEF EmitMeta, Goto
  <2> HIDE DEF s
  <2>4. CASE sink' = [sink EXCEPT ![c] = s] /\ s.left # 0 /\ ~s.stopped
             /\ pc' = [pc EXCEPT ![c] = "rows"] /\ ip' = ip
    <3>1. pc'[c] = "rows" /\ sink'[c] = s /\ Current(c)' = Current(c)
      BY <1>1, <2>4 DEF Current
    <3>2. s.matches > 0 /\ s.left + s.count = s.matches
      BY <2>1, <2>2, <2>4 DEF Sinks
    <3> QED
      BY <2>2, <2>4, <3>1, <3>2 DEF SinkInv, SearchesKnown, FallbackIsFresh, SinkCounts
  <2>5. MayGoOn(s)
    BY <2>2 DEF MayGoOn
  <2> QED
    BY <2>1, <2>2, <2>3, <2>4, <2>5, ContinueKeepsSink
<1>4. CASE StopAtLimit(c)
  <2> DEFINE s == [sink[c] EXCEPT !.limited = TRUE, !.stopped = TRUE]
  <2>1. /\ s \in Sinks /\ s.matches = sink[c].matches /\ s.count = Limit
        /\ s.added = sink[c].added /\ pc[c] = "rows"
    BY <1>1, <1>4 DEF StopAtLimit, At, Sinks
  <2>2. /\ Current(c).op \notin Additions /\ ~(s.matches = 0 /\ ~s.added)
    BY <2>1 DEF SinkInv, SearchesKnown, SinkCounts, Sinks
  <2>3. Continue(c, s)
    BY <1>4 DEF StopAtLimit
  <2>4. MayGoOn(s)
    BY <2>1, <2>2 DEF MayGoOn
  <2> HIDE DEF s
  <2> QED
    BY <2>1, <2>2, <2>3, <2>4, ContinueKeepsSink
<1> QED
  BY <1>2, <1>3, <1>4

LEMMA RowsStayKnown ==
    ASSUME IInv, NEW c \in Clients, SinkInv(c), EmitRow(c)
    PROVE  SinkInv(c)'
<1>1. /\ pc \in [Clients -> Places] /\ ip \in [Clients -> Nat \ {0}]
      /\ sink \in [Clients -> Sinks] /\ sink[c] \in Sinks
      /\ Limit \in Nat \ {0}
  BY TypeFacts, ConstantFacts DEF IInv
<1> DEFINE s == IF Gone(c) THEN [sink[c] EXCEPT !.stopped = TRUE] ELSE RowPushed(sink[c])
<1>2. /\ pc[c] = "rows" /\ Current(c).op \notin Additions /\ Current(c).returns
      /\ sink[c].left > 0 /\ sink[c].count < Limit /\ ~sink[c].limited
      /\ sink[c].matches > 0 /\ sink[c].left + sink[c].count = sink[c].matches
  BY DEF EmitRow, At, SinkInv, SearchesKnown, SinkCounts, IInv, ClientInv, RowsAreLeft
<1>3. /\ s \in Sinks /\ s.matches = sink[c].matches /\ s.limited = sink[c].limited
      /\ s.added = sink[c].added
      /\ ~s.stopped /\ ~Gone(c) => s.left = sink[c].left - 1 /\ s.count = sink[c].count + 1
      /\ Gone(c) => s.stopped
  <2>1. /\ sink[c].left \in Nat /\ sink[c].count \in 0..Limit /\ sink[c].stopped \in BOOLEAN
        /\ sink[c].matches \in Nat /\ sink[c].limited \in BOOLEAN /\ sink[c].added \in BOOLEAN
    BY <1>1 DEF Sinks
  <2>2. sink[c].left - 1 \in Nat /\ sink[c].count + 1 \in 0..Limit
    BY <1>1, <1>2, <2>1
  <2>3. CASE Gone(c)
    BY <1>1, <2>3 DEF Sinks
  <2>4. CASE ~Gone(c)
    <3>1. s = [sink[c] EXCEPT !.left = sink[c].left - 1, !.count = sink[c].count + 1]
      BY <2>4 DEF RowPushed
    <3> HIDE DEF s
    <3> QED
      BY <1>1, <2>2, <2>4, <3>1 DEF Sinks
  <2> QED
    BY <2>3, <2>4
<1>4. \/ /\ sink' = [sink EXCEPT ![c] = s] /\ ~s.stopped /\ s.left # 0
         /\ pc' = pc /\ ip' = ip
      \/ Continue(c, s)
  BY DEF EmitRow
<1> HIDE DEF s
<1>5. CASE sink' = [sink EXCEPT ![c] = s] /\ ~s.stopped /\ s.left # 0 /\ pc' = pc /\ ip' = ip
  <2>1. pc'[c] = "rows" /\ sink'[c] = s /\ Current(c)' = Current(c)
    BY <1>1, <1>2, <1>5 DEF Current
  <2>2. s.matches > 0 /\ s.left + s.count = s.matches
    <3>1. /\ sink[c].left \in Nat /\ sink[c].count \in Nat /\ sink[c].matches \in Nat
      BY <1>1 DEF Sinks
    <3>2. s.left = sink[c].left - 1 /\ s.count = sink[c].count + 1
      BY <1>3, <1>5
    <3> QED
      BY <1>2, <1>3, <3>1, <3>2
  <2> QED
    BY <1>2, <1>3, <1>5, <2>1, <2>2 DEF SinkInv, SearchesKnown, FallbackIsFresh, SinkCounts
<1>6. MayGoOn(s)
  BY <1>1, <1>2, <1>3 DEF MayGoOn, Sinks
<1> QED
  BY <1>2, <1>3, <1>4, <1>5, <1>6, ContinueKeepsSink

LEMMA AdditionsStayKnown ==
    ASSUME IInv, NEW c \in Clients, SinkInv(c), Commit(c)
    PROVE  SinkInv(c)'
<1>1. /\ pc \in [Clients -> Places] /\ ip \in [Clients -> Nat \ {0}]
      /\ sink \in [Clients -> Sinks] /\ sink[c] \in Sinks
  BY TypeFacts DEF IInv
<1>2. CASE Current(c).op = "oradd"
  <2>1. /\ pc[c] = "commit" /\ Current(c).op \notin Additions
        /\ sink[c].matches = 0 /\ sink[c].count = 0 /\ ~sink[c].limited
    BY <1>2 DEF Commit, At, SinkInv, FallbackIsFresh, Additions
  <2>2. CASE AfterAll(c)
    <3> DEFINE s == [sink[c] EXCEPT !.added = TRUE]
    <3>1. Continue(c, s)
      BY <2>2 DEF AfterAll
    <3>2. s \in Sinks /\ s.added /\ ~s.limited
      BY <1>1, <2>1 DEF Sinks
    <3>3. MayGoOn(s)
      BY <3>2 DEF MayGoOn
    <3> HIDE DEF s
    <3> QED
      BY <2>1, <3>1, <3>2, <3>3, ContinueKeepsSink
  <2>3. ASSUME NEW n \in 1..FallbackRows, OwnRows(c, n)
        PROVE  SinkInv(c)'
    <3>1. /\ sink'[c].matches = n /\ sink'[c].left = n /\ sink'[c].count = 0
          /\ ~sink'[c].limited /\ ~sink'[c].stopped
          /\ pc'[c] = "rows" /\ Current(c)' = Current(c) /\ Current(c).returns
      BY <1>1, <2>1, <2>3 DEF OwnRows, Current, Sinks
    <3>2. n > 0 /\ n + 0 = n
      BY ConstantFacts
    <3> QED
      BY <2>1, <3>1, <3>2 DEF SinkInv, SearchesKnown, FallbackIsFresh, SinkCounts
  <2> QED
    BY <1>2, <2>2, <2>3, FallbackGoesOn
<1>3. CASE Current(c).op # "oradd"
  <2>1. pc'[c] = "head"
    BY <1>1, <1>3 DEF Commit, AfterAddition, Goto
  <2> QED
    BY <2>1 DEF SinkInv, SearchesKnown, FallbackIsFresh, SinkCounts
<1> QED
  BY <1>2, <1>3

LEMMA StepKeepsSink ==
    ASSUME IInv, NEW c \in Clients, SinkInv(c), Worker(c) \/ Environment(c)
    PROVE  SinkInv(c)'
<1>1. /\ pc \in [Clients -> Places]
  BY TypeFacts DEF IInv
<1>2. CASE \/ Acquire(c) \/ GiveUp(c) \/ Succeed(c) \/ Interrupt(c) \/ CommandFails(c)
           \/ EndSet(c) \/ ReportEnd(c) \/ ReportError(c) \/ ReportAborted(c) \/ Respond(c)
           \/ Start(c)
  <2>1. pc'[c] \in {"head", "report", "done", "close", "waiting"}
    BY <1>1, <1>2 DEF Acquire, GiveUp, Succeed, Interrupt, CommandFails, Finish, EndSet,
       ReportEnd, ReportError, ReportAborted, Respond, Start, Goto
  <2> QED
    BY <2>1 DEF SinkInv, SearchesKnown, FallbackIsFresh, SinkCounts
<1>3. CASE Expire(c) \/ Cancel(c) \/ Read(c) \/ Disconnect(c)
  <2>1. UNCHANGED <<pc, ip, sink>>
    BY <1>3 DEF Expire, Cancel, Read, Disconnect, work
  <2> QED
    BY <2>1 DEF SinkInv, SearchesKnown, FallbackIsFresh, SinkCounts, Current
<1>4. CASE NextCommand(c)
  <2>1. pc'[c] = FirstStep(Current(c)) /\ Current(c)' = Current(c)
    BY <1>1, <1>4 DEF NextCommand, Goto, Current, work
  <2> QED
    BY <2>1 DEF FirstStep, SinkInv, SearchesKnown, FallbackIsFresh, SinkCounts, Additions
<1>5. CASE Prepare(c)
  <2>1. pc[c] = "add" /\ pc'[c] = "commit" /\ Current(c)' = Current(c) /\ sink' = sink
    BY <1>1, <1>5 DEF Prepare, At, Goto, Current, work
  <2> QED
    BY <2>1 DEF SinkInv, SearchesKnown, FallbackIsFresh, SinkCounts
<1> QED
  BY <1>2, <1>3, <1>4, <1>5, SearchesStayKnown, RowsStayKnown, AdditionsStayKnown
     DEF Worker, Environment

-----------------------------------------------------------------------------
(***************************************************************************)
(* What a client has sent, E, and where its worker is.  InSet: its result  *)
(* set is open.  PastSet: it is past a command with one.                   *)
(***************************************************************************)
InSet(c) == pc[c] \in {"rows", "setend"} \/ (pc[c] \in {"add", "commit"} /\ Current(c).returns)

PastSet(c) == \E i \in DOMAIN Script[c] : i < ip[c] /\ Script[c][i].returns

EventsFit(c, E) ==
    /\ pc[c] \in {"ready", "waiting"} => E = <<>>
    /\ pc[c] \notin {"close", "done"} => KindsAre(E, SetKinds)
    /\ pc[c] = "close" => /\ outcome[c] # "ok" /\ KindsAre(E, SetKinds \cup {"error"})
                          /\ E # <<>> /\ E[Len(E)].kind = "error"
    /\ InSet(c) => RowsEndWith(E, sink[c].count)
    /\ pc[c] \in Running /\ ~InSet(c) =>
          IF MultiSet(c) THEN SetIsClosed(E) ELSE ~PastSet(c) => E = <<>>

Counted(c) == pc[c] \in Running \/ (pc[c] = "report" /\ outcome[c] = "ok")

TallyFits(c, E) ==
    /\ pc[c] \in {"ready", "waiting"} => ip[c] = 1 /\ result[c].rows = 0
    /\ pc[c] = "report" /\ outcome[c] = "ok" => Done(c)
    /\ Counted(c) /\ MultiSet(c) =>
          RowCount(E) = result[c].rows + IF InSet(c) THEN sink[c].count ELSE 0
    /\ Counted(c) /\ ~MultiSet(c) /\ InSet(c) => RowCount(E) = sink[c].count
    /\ Counted(c) /\ ~MultiSet(c) /\ ~InSet(c) /\ PastSet(c) /\ ResultSetIsLast(c) =>
          RowCount(E) = result[c].rows /\ (result[c].limited <=> sink[c].matches > Limit)

EndTallies(c, E) ==
    pc[c] = "done" /\ E # <<>> /\ E[Len(E)].kind = "end" /\ ResultSetIsLast(c) =>
        /\ E[Len(E)].count = RowCount(E)
        /\ ~MultiSet(c) => (E[Len(E)].limited <=> sink[c].matches > Limit)

StreamFits(c, E) ==
    /\ Mode[c] = "stream"
    /\ Good(outcome[c], E)
    /\ EventsFit(c, E)
    /\ TallyFits(c, E)
    /\ EndTallies(c, E)

StreamInv(c) == SinkInv(c) /\ (connected[c] => StreamFits(c, Events(c)))

(***************************************************************************)
(* Scripts with one result set, and with several.                          *)
(***************************************************************************)
LEMMA OneSet ==
    ASSUME NEW c \in Clients, ~MultiSet(c), NEW i \in DOMAIN Script[c],
           NEW j \in DOMAIN Script[c], Script[c][i].returns, Script[c][j].returns
    PROVE  i = j
<1> DEFINE R == {n \in DOMAIN Script[c] : Script[c][n].returns}
<1> SUFFICES ASSUME i # j PROVE FALSE
  OBVIOUS
<1>1. Len(Script[c]) \in Nat /\ DOMAIN Script[c] = 1..Len(Script[c])
  BY ConstantFacts
<1>2. IsFiniteSet(R) /\ {i, j} \subseteq R
  <2>1. IsFiniteSet(DOMAIN Script[c])
    BY <1>1, FS_Interval
  <2> QED
    BY <2>1, FS_Subset
<1>3. Cardinality({i, j}) = 2
  <2>1. IsFiniteSet({i}) /\ Cardinality({i}) = 1 /\ j \notin {i}
    BY FS_Singleton
  <2>2. Cardinality({i} \cup {j}) = Cardinality({i}) + 1
    BY <2>1, FS_AddElement
  <2>3. {i, j} = {i} \cup {j}
    OBVIOUS
  <2> QED
    BY <2>1, <2>2, <2>3
<1>4. Cardinality({i, j}) <= Cardinality(R)
  BY <1>2, FS_Subset
<1>5. Cardinality(R) \in Nat /\ ResultSets(c) = Cardinality(R)
  BY <1>2, FS_CardinalityType DEF ResultSets
<1> QED
  BY <1>3, <1>4, <1>5 DEF MultiSet

LEMMA StreamHasSet ==
    ASSUME NEW c \in Clients, Mode[c] = "stream", TypeOK, Done(c)
    PROVE  PastSet(c)
<1> DEFINE R == {n \in DOMAIN Script[c] : Script[c][n].returns}
<1>1. /\ Len(Script[c]) \in Nat /\ DOMAIN Script[c] = 1..Len(Script[c]) /\ ip[c] \in Nat
  BY ConstantFacts, TypeFacts
<1>2. ResultSets(c) > 0
  BY ScriptExecutionAssumption
<1>3. R # {}
  <2> SUFFICES ASSUME R = {} PROVE FALSE
    OBVIOUS
  <2>1. ResultSets(c) = 0
    BY FS_EmptySet DEF ResultSets
  <2> QED
    BY <1>2, <2>1
<1>4. PICK n \in R : TRUE
  BY <1>3
<1> QED
  BY <1>1, <1>4 DEF Done, PastSet

LEMMA AdditionsHaveNoRows ==
    ASSUME NEW c \in Clients, ip[c] \in DOMAIN Script[c], Current(c).op \in Additions
    PROVE  ~Current(c).returns
BY ScriptExecutionAssumption DEF Current

LEMMA SetsPassed ==
    ASSUME NEW c \in Clients, TypeOK, ip[c] \in DOMAIN Script[c]
    PROVE  /\ ip'[c] = ip[c] => (PastSet(c)' <=> PastSet(c))
           /\ ip'[c] = ip[c] + 1 => (PastSet(c)' <=> PastSet(c) \/ Current(c).returns)
<1>1. ip[c] \in Nat /\ \A m \in DOMAIN Script[c] : m \in Nat
  BY TypeFacts, ScriptLength
<1> QED
  BY <1>1 DEF PastSet, Current

(***************************************************************************)
(* A script with one result set and nothing but additions after it: a      *)
(* search is at the result set or before it.                               *)
(***************************************************************************)
LEMMA SearchIsBefore ==
    ASSUME NEW c \in Clients, TypeOK, ip[c] \in DOMAIN Script[c], ~MultiSet(c), PastSet(c)
    PROVE  /\ ~Current(c).returns
           /\ ResultSetIsLast(c) => Current(c).op \in Additions
<1>1. ip[c] \in Nat
  BY TypeFacts
<1>2. PICK i \in DOMAIN Script[c] : i < ip[c] /\ Script[c][i].returns
  BY DEF PastSet
<1>3. ~Current(c).returns
  BY <1>1, <1>2, OneSet DEF Current
<1>4. ResultSetIsLast(c) => Current(c).op \in Additions
  BY <1>2, <1>3 DEF ResultSetIsLast, Current
<1> QED
  BY <1>3, <1>4

(***************************************************************************)
(* The events of a client.                                                 *)
(***************************************************************************)
LEMMA EventsAreEvents ==
    ASSUME TypeOK, NEW c \in Clients PROVE Events(c) \in Seq(Event)
<1>1. received[c] \in Seq(Event) /\ channel[c] \in Seq(Event)
  BY DEF TypeOK
<1> QED
  BY <1>1, ConcatProperties DEF Events

LEMMA SendAppends ==
    ASSUME TypeOK, NEW c \in Clients, NEW event \in Event, Send(c, event), connected[c]
    PROVE  Events(c)' = Append(Events(c), event)
<1>1. received[c] \in Seq(Event) /\ channel[c] \in Seq(Event)
  BY DEF TypeOK
<1>2. channel'[c] = Append(channel[c], event) /\ received' = received
  BY DEF Send, TypeOK
<1>3. ASSUME NEW r \in Seq(Event), NEW q \in Seq(Event)
      PROVE  r \o Append(q, event) = Append(r \o q, event)
  BY <1>3
<1>4. Events(c)' = received[c] \o Append(channel[c], event)
  BY <1>2 DEF Events
<1>5. received[c] \o Append(channel[c], event) = Append(received[c] \o channel[c], event)
  BY <1>1, <1>3, Zenon
<1> QED
  BY <1>4, <1>5, Zenon DEF Events

LEMMA ReadMoves ==
    ASSUME TypeOK, NEW c \in Clients, Read(c)
    PROVE  Events(c)' = Events(c)
<1>1. received[c] \in Seq(Event) /\ channel[c] \in Seq(Event) /\ channel[c] # <<>>
  BY DEF TypeOK, Read
<1>2. /\ received'[c] = Append(received[c], Head(channel[c]))
      /\ channel'[c] = Tail(channel[c])
  BY DEF Read, TypeOK
<1>3. ASSUME NEW r \in Seq(Event), NEW q \in Seq(Event), q # <<>>
      PROVE  Append(r, Head(q)) \o Tail(q) = r \o q
  BY <1>3
<1> QED
  BY <1>1, <1>2, <1>3 DEF Events

(***************************************************************************)
(* What a search may go on with, once E has been sent.                     *)
(***************************************************************************)
SentFor(c, s, E) ==
    /\ Current(c).returns => RowsEndWith(E, s.count)
    /\ ~Current(c).returns =>
          s.count = 0 /\ IF MultiSet(c) THEN SetIsClosed(E) ELSE ~PastSet(c) => E = <<>>
    /\ MultiSet(c) => RowCount(E) = result[c].rows + s.count
    /\ ~MultiSet(c) /\ Current(c).returns =>
          RowCount(E) = s.count /\ (s.limited <=> s.matches > Limit)

LEMMA ContinueFits ==
    ASSUME TypeOK, NEW c \in Clients, NEW s \in Sinks, NEW E \in Seq(Event), Continue(c, s),
           ip[c] \in DOMAIN Script[c], outcome' = outcome, Current(c).op \notin Additions,
           Mode[c] = "stream", Good(outcome[c], E), KindsAre(E, SetKinds), SentFor(c, s, E)
    PROVE  StreamFits(c, E)'
<1>1. /\ pc \in [Clients -> Places] /\ ip \in [Clients -> Nat \ {0}] /\ ip[c] \in Nat
      /\ sink \in [Clients -> Sinks] /\ result \in [Clients -> Results]
      /\ result[c] \in Results /\ result[c].rows \in Nat
      /\ s.count \in Nat /\ s.matches \in Nat /\ Limit \in Nat /\ s.limited \in BOOLEAN
  BY TypeFacts, ConstantFacts DEF Sinks, Results
<1>2. sink'[c] = s
  BY <1>1 DEF Continue
<1>3. ip'[c] = ip[c] => Current(c)' = Current(c)
  BY DEF Current
<1>4. /\ ip'[c] = ip[c] => (PastSet(c)' <=> PastSet(c))
      /\ ip'[c] = ip[c] + 1 => (PastSet(c)' <=> PastSet(c) \/ Current(c).returns)
  BY SetsPassed
<1>5. ~MultiSet(c) /\ PastSet(c) => ~Current(c).returns /\ ~ResultSetIsLast(c)
  BY SearchIsBefore
<1>6. EndTallies(c, E)' /\ Good(outcome[c], E)'
  <2>1. pc'[c] \in {"add", "setend", "head"}
    BY <1>1 DEF Continue, Goto
  <2> QED
    BY <2>1 DEF EndTallies
<1>7. CASE pc'[c] = "add" /\ UNCHANGED <<ip, result>>
  <2>1. InSet(c)' <=> Current(c).returns
    BY <1>3, <1>7 DEF InSet
  <2>2. EventsFit(c, E)'
    BY <1>2, <1>4, <1>7, <2>1 DEF EventsFit, SentFor
  <2>3. TallyFits(c, E)'
    BY <1>1, <1>2, <1>4, <1>5, <1>7, <2>1 DEF TallyFits, SentFor
  <2> QED
    BY <1>6, <2>2, <2>3 DEF StreamFits
<1>8. CASE pc'[c] = "setend" /\ MultiSet(c) /\ Current(c).returns /\ UNCHANGED <<ip, result>>
  <2>1. InSet(c)'
    BY <1>8 DEF InSet
  <2>2. EventsFit(c, E)'
    BY <1>2, <1>8, <2>1 DEF EventsFit, SentFor
  <2>3. TallyFits(c, E)'
    BY <1>1, <1>2, <1>8, <2>1 DEF TallyFits, SentFor
  <2> QED
    BY <1>6, <2>2, <2>3 DEF StreamFits
<1>9. CASE /\ pc'[c] = "head" /\ ~(MultiSet(c) /\ Current(c).returns)
           /\ ip'[c] = ip[c] + 1 /\ result'[c] = Tallied(c, s)
  <2>1. ~InSet(c)'
    BY <1>9 DEF InSet
  <2>2. EventsFit(c, E)'
    BY <1>4, <1>9, <2>1 DEF EventsFit, SentFor
  <2>3. /\ MultiSet(c) => result'[c].rows = result[c].rows + s.count
        /\ ~MultiSet(c) => result'[c].rows = s.count /\ result'[c].limited = s.limited
    BY <1>1, <1>9 DEF Tallied, Results
  <2>4. TallyFits(c, E)'
    BY <1>1, <1>2, <1>4, <1>5, <1>9, <2>1, <2>3 DEF TallyFits, SentFor
  <2> QED
    BY <1>6, <2>2, <2>4 DEF StreamFits
<1> QED
  BY <1>1, <1>7, <1>8, <1>9 DEF Continue, Goto

(***************************************************************************)
(* The steps that send nothing.  A script starts with nothing sent, and    *)
(* ends after its last command, unless it fails.                           *)
(***************************************************************************)
LEMMA ControlFits ==
    ASSUME IInv, NEW c \in Clients, SinkInv(c), NEW E \in Seq(Event), StreamFits(c, E),
           \/ Start(c) \/ Acquire(c) \/ GiveUp(c) \/ Succeed(c) \/ Interrupt(c)
           \/ CommandFails(c) \/ NextCommand(c) \/ Prepare(c)
    PROVE  StreamFits(c, E)'
<1>1. /\ pc \in [Clients -> Places] /\ UNCHANGED <<ip, sink, result>>
      /\ outcome \in [Clients -> {"none", "ok", "cancelled", "timeout", "error"}]
      /\ PastSet(c)' <=> PastSet(c)
      /\ Current(c)' = Current(c) /\ Done(c)' = Done(c)
  BY TypeFacts DEF Start, Acquire, GiveUp, Succeed, Interrupt, CommandFails, Finish,
     NextCommand, Prepare, work, IInv, TypeOK, PastSet, Current, Done
<1>2. /\ Mode[c] = "stream" /\ Good(outcome[c], E) /\ EventsFit(c, E) /\ TallyFits(c, E)
  BY DEF StreamFits
<1>3. pc[c] \notin {"close", "done", "report"} /\ pc'[c] \notin {"close", "done", "ready"}
  <2>1. \A command : FirstStep(command) \in Running
    BY DEF FirstStep, Running
  <2> QED
    BY <1>1, <2>1 DEF Start, Acquire, GiveUp, Succeed, Interrupt, CommandFails, Finish,
       NextCommand, Prepare, At, Goto, Running
<1>4. KindsAre(E, SetKinds) /\ Good(outcome'[c], E) /\ EndTallies(c, E)'
  BY <1>2, <1>3, VerdictIsLast DEF EventsFit, EndTallies
<1>5. CASE Start(c)
  <2>1. pc[c] = "ready" /\ pc'[c] = "waiting"
    BY <1>1, <1>5 DEF Start, At, Goto
  <2>2. EventsFit(c, E)' /\ TallyFits(c, E)'
    BY <1>1, <1>2, <1>4, <2>1 DEF EventsFit, TallyFits, InSet, Counted, Running
  <2> QED
    BY <1>2, <1>4, <2>2 DEF StreamFits
<1>6. CASE Acquire(c)
  <2>1. pc[c] = "waiting" /\ pc'[c] = "head" /\ ~InSet(c)'
    BY <1>1, <1>6 DEF Acquire, At, Goto, InSet
  <2>2. E = <<>> /\ ip[c] = 1 /\ result[c].rows = 0
    BY <1>2, <2>1 DEF EventsFit, TallyFits
  <2>3. ~PastSet(c)
    BY <2>2, ScriptLength DEF PastSet
  <2>4. EventsFit(c, E)'
    BY <1>4, <2>1, <2>2 DEF EventsFit, SetIsClosed
  <2>5. TallyFits(c, E)'
    BY <1>1, <2>1, <2>2, <2>3, NoEvents DEF TallyFits
  <2> QED
    BY <1>2, <1>4, <2>4, <2>5 DEF StreamFits
<1>7. CASE GiveUp(c) \/ Interrupt(c) \/ CommandFails(c)
  <2>1. pc'[c] = "report" /\ outcome'[c] # "ok"
    BY <1>1, <1>7 DEF GiveUp, Interrupt, CommandFails, Finish, Goto, Verdict
  <2>2. EventsFit(c, E)' /\ TallyFits(c, E)'
    BY <1>4, <2>1 DEF EventsFit, TallyFits, InSet, Counted, Running
  <2> QED
    BY <1>2, <1>4, <2>2 DEF StreamFits
<1>8. CASE Succeed(c)
  <2>1. pc[c] = "head" /\ pc'[c] = "report" /\ Done(c) /\ ~InSet(c) /\ ~InSet(c)'
    BY <1>1, <1>8 DEF Succeed, Finish, At, Goto, InSet
  <2>2. EventsFit(c, E)'
    BY <1>4, <2>1 DEF EventsFit, Running
  <2>3. TallyFits(c, E)'
    BY <1>1, <1>2, <2>1 DEF TallyFits, Counted, Running
  <2> QED
    BY <1>2, <1>4, <2>2, <2>3 DEF StreamFits
<1>9. CASE NextCommand(c) \/ Prepare(c)
  <2>1. /\ pc[c] \in Running /\ pc'[c] \in Running
        /\ outcome' = outcome
    BY <1>1, <1>9 DEF NextCommand, Prepare, FirstStep, At, Goto, Running
  <2>2. InSet(c)' <=> InSet(c)
    <3>1. CASE Prepare(c)
      <4>1. pc[c] = "add" /\ pc'[c] = "commit"
        BY <1>1, <3>1 DEF Prepare, At, Goto
      <4> QED
        BY <1>1, <4>1 DEF InSet
    <3>2. CASE NextCommand(c)
      <4>1. pc[c] = "head" /\ pc'[c] = FirstStep(Current(c)) /\ ip[c] \in DOMAIN Script[c]
        <5>1. ip[c] \in Nat \ {0} /\ Len(Script[c]) \in Nat
              /\ DOMAIN Script[c] = 1..Len(Script[c]) /\ ~(ip[c] > Len(Script[c]))
          BY <3>2, TypeFacts, ScriptLength, ConstantFacts DEF NextCommand, Done, IInv
        <5> QED
          BY <1>1, <3>2, <5>1 DEF NextCommand, At, Goto
      <4>2. pc'[c] \in {"add", "commit"} => Current(c).op \in Additions
        BY <4>1 DEF FirstStep, Additions
      <4>3. pc'[c] \in {"add", "commit", "search"}
        BY <4>1 DEF FirstStep
      <4>4. ~InSet(c)' /\ ~InSet(c)
        BY <1>1, <4>1, <4>2, <4>3, AdditionsHaveNoRows DEF InSet
      <4> QED
        BY <4>4
    <3> QED
      BY <1>9, <3>1, <3>2
  <2>3. EventsFit(c, E)'
    BY <1>1, <1>2, <1>4, <2>1, <2>2 DEF EventsFit, Running
  <2>4. TallyFits(c, E)'
    BY <1>1, <1>2, <2>1, <2>2 DEF TallyFits, Counted, Running
  <2> QED
    BY <1>2, <1>4, <2>3, <2>4 DEF StreamFits
<1> QED
  BY <1>5, <1>6, <1>7, <1>8, <1>9

LEMMA RunningFits ==
    ASSUME IInv, NEW c \in Clients, SinkInv(c), NEW E, StreamFits(c, E), pc[c] \in Running \ {"head"}
    PROVE  /\ Mode[c] = "stream" /\ Good(outcome[c], E) /\ KindsAre(E, SetKinds)
           /\ ip[c] \in DOMAIN Script[c] /\ ip[c] \in Nat
           /\ InSet(c) => RowsEndWith(E, sink[c].count)
           /\ ~InSet(c) => IF MultiSet(c) THEN SetIsClosed(E) ELSE ~PastSet(c) => E = <<>>
           /\ MultiSet(c) => RowCount(E) = result[c].rows + IF InSet(c) THEN sink[c].count ELSE 0
           /\ ~MultiSet(c) /\ InSet(c) => RowCount(E) = sink[c].count
           /\ ~MultiSet(c) /\ ~InSet(c) /\ PastSet(c) /\ ResultSetIsLast(c) =>
                RowCount(E) = result[c].rows
                /\ (result[c].limited <=> sink[c].matches > Limit)
           /\ sink[c] \in Sinks /\ result[c].rows \in Nat
           /\ sink[c].count \in 0..Limit /\ sink[c].matches \in Nat /\ sink[c].left \in Nat
           /\ sink[c].limited \in BOOLEAN /\ sink[c].added \in BOOLEAN
           /\ sink[c].stopped \in BOOLEAN /\ Limit \in Nat \ {0}
<1>1. ip[c] \in DOMAIN Script[c] /\ ip[c] \in Nat
  BY TypeFacts DEF IInv, ClientInv, InItsScript
<1>2. pc[c] \notin {"close", "done"} /\ pc[c] \in Running
  BY DEF Running
<1>3. /\ sink[c] \in Sinks /\ result[c].rows \in Nat
      /\ sink[c].count \in 0..Limit /\ sink[c].matches \in Nat /\ sink[c].left \in Nat
      /\ sink[c].limited \in BOOLEAN /\ sink[c].added \in BOOLEAN
      /\ sink[c].stopped \in BOOLEAN /\ Limit \in Nat \ {0}
  BY TypeFacts, ConstantFacts DEF IInv, Sinks, Results
<1> QED
  BY <1>1, <1>2, <1>3 DEF StreamFits, EventsFit, TallyFits, Counted

(***************************************************************************)
(* The search itself, and the end of its rows at the limit.                *)
(***************************************************************************)
LEMMA SearchFits ==
    ASSUME IInv, NEW c \in Clients, SinkInv(c), NEW E \in Seq(Event), StreamFits(c, E),
           Search(c)
    PROVE  StreamFits(c, E)'
<1>1. /\ pc \in [Clients -> Places] /\ sink \in [Clients -> Sinks] /\ outcome' = outcome
      /\ pc[c] = "search" /\ pc[c] \in Running \ {"head"} /\ ~InSet(c)
      /\ Current(c).op \notin Additions
  BY TypeFacts DEF IInv, Search, At, SinkInv, SearchesKnown, Running, InSet
<1>2. /\ Mode[c] = "stream" /\ Good(outcome[c], E) /\ KindsAre(E, SetKinds)
      /\ ip[c] \in DOMAIN Script[c] /\ ip[c] \in Nat
      /\ IF MultiSet(c) THEN SetIsClosed(E) ELSE ~PastSet(c) => E = <<>>
      /\ MultiSet(c) => RowCount(E) = result[c].rows + 0
      /\ Limit \in Nat \ {0}
  BY <1>1, RunningFits
<1> DEFINE s == [NoSearch EXCEPT !.matches = Matches(Current(c).key),
                                 !.left = Matches(Current(c).key)]
<1>3. s \in Sinks /\ s.count = 0
  <2>1. Matches(Current(c).key) \in Nat
    BY MatchesIsNat DEF IInv
  <2>2. ASSUME NEW n \in Nat, NEW t, t = [NoSearch EXCEPT !.matches = n, !.left = n]
        PROVE  t \in Sinks /\ t.count = 0
    <3>1. t = [matches |-> n, left |-> n, count |-> 0,
               limited |-> FALSE, stopped |-> FALSE, added |-> FALSE]
      BY <2>2 DEF NoSearch
    <3> QED
      BY <1>2, <3>1 DEF Sinks
  <2> QED
    BY <2>1, <2>2
<1>4. \/ /\ Current(c).returns /\ sink' = [sink EXCEPT ![c] = s]
         /\ pc' = [pc EXCEPT ![c] = "meta"] /\ UNCHANGED <<ip, result>>
      \/ ~Current(c).returns /\ Continue(c, s)
  BY DEF Search, Goto
<1> HIDE DEF s
<1>5. CASE /\ Current(c).returns /\ sink' = [sink EXCEPT ![c] = s]
           /\ pc' = [pc EXCEPT ![c] = "meta"] /\ UNCHANGED <<ip, result>>
  <2>1. /\ pc'[c] = "meta" /\ ~InSet(c)' /\ (PastSet(c)' <=> PastSet(c))
    BY <1>1, <1>5 DEF InSet, PastSet
  <2>2. ~MultiSet(c) => ~PastSet(c)
    BY <1>2, <1>5, SearchIsBefore DEF IInv
  <2>3. EventsFit(c, E)'
    BY <1>2, <2>1 DEF EventsFit
  <2>4. TallyFits(c, E)'
    BY <1>2, <1>5, <2>1, <2>2 DEF TallyFits
  <2>5. EndTallies(c, E)'
    BY <2>1 DEF EndTallies
  <2> QED
    BY <1>1, <1>2, <2>3, <2>4, <2>5 DEF StreamFits
<1>6. CASE ~Current(c).returns /\ Continue(c, s)
  <2>1. SentFor(c, s, E)
    BY <1>2, <1>3, <1>6 DEF SentFor
  <2> QED
    BY <1>1, <1>2, <1>3, <1>6, <2>1, ContinueFits DEF IInv
<1> QED
  BY <1>4, <1>5, <1>6

LEMMA StopFits ==
    ASSUME IInv, NEW c \in Clients, SinkInv(c), NEW E \in Seq(Event), StreamFits(c, E),
           StopAtLimit(c)
    PROVE  StreamFits(c, E)'
<1>1. /\ outcome' = outcome /\ pc[c] = "rows" /\ pc[c] \in Running \ {"head"} /\ InSet(c)
      /\ Current(c).op \notin Additions /\ Current(c).returns /\ sink[c].count = Limit
      /\ sink[c].left + sink[c].count = sink[c].matches
      /\ sink[c].left > 0
  BY DEF StopAtLimit, At, SinkInv, SearchesKnown, SinkCounts, Running, InSet, IInv,
     ClientInv, RowsAreLeft
<1>2. /\ Mode[c] = "stream" /\ Good(outcome[c], E) /\ KindsAre(E, SetKinds)
      /\ ip[c] \in DOMAIN Script[c]
      /\ RowsEndWith(E, sink[c].count)
      /\ MultiSet(c) => RowCount(E) = result[c].rows + sink[c].count
      /\ ~MultiSet(c) => RowCount(E) = sink[c].count
      /\ sink[c] \in Sinks /\ sink[c].matches \in Nat /\ sink[c].left \in Nat
      /\ Limit \in Nat \ {0}
  BY <1>1, RunningFits
<1> DEFINE s == [sink[c] EXCEPT !.limited = TRUE, !.stopped = TRUE]
<1>3. s \in Sinks /\ s.count = sink[c].count /\ s.matches = sink[c].matches /\ s.limited
  BY <1>2 DEF Sinks
<1>4. Continue(c, s)
  BY DEF StopAtLimit
<1> HIDE DEF s
<1>5. sink[c].matches > Limit
  BY <1>1, <1>2
<1>6. SentFor(c, s, E)
  BY <1>1, <1>2, <1>3, <1>5 DEF SentFor
<1> QED
  BY <1>1, <1>2, <1>3, <1>4, <1>6, ContinueFits DEF IInv

(***************************************************************************)
(* An addition: a fallback goes on with its result set, or with the next   *)
(* command; any other addition has none.                                   *)
(***************************************************************************)
LEMMA AdditionFits ==
    ASSUME IInv, NEW c \in Clients, SinkInv(c), NEW E \in Seq(Event), StreamFits(c, E),
           Commit(c)
    PROVE  StreamFits(c, E)'
<1>1. /\ pc \in [Clients -> Places] /\ sink \in [Clients -> Sinks]
      /\ ip \in [Clients -> Nat \ {0}] /\ outcome' = outcome
      /\ pc[c] = "commit" /\ pc[c] \in Running \ {"head"}
      /\ InSet(c) <=> Current(c).returns
      /\ Current(c).op # "search"
  BY TypeFacts DEF IInv, Commit, At, SinkInv, SearchesKnown, Running, InSet
<1>2. /\ Mode[c] = "stream" /\ Good(outcome[c], E) /\ KindsAre(E, SetKinds)
      /\ ip[c] \in DOMAIN Script[c] /\ ip[c] \in Nat
      /\ InSet(c) => RowsEndWith(E, sink[c].count)
      /\ ~InSet(c) => IF MultiSet(c) THEN SetIsClosed(E) ELSE ~PastSet(c) => E = <<>>
      /\ MultiSet(c) => RowCount(E) = result[c].rows + IF InSet(c) THEN sink[c].count ELSE 0
      /\ ~MultiSet(c) /\ InSet(c) => RowCount(E) = sink[c].count
      /\ ~MultiSet(c) /\ ~InSet(c) /\ PastSet(c) /\ ResultSetIsLast(c) =>
            RowCount(E) = result[c].rows /\ (result[c].limited <=> sink[c].matches > Limit)
      /\ sink[c] \in Sinks /\ Limit \in Nat \ {0}
  BY <1>1, RunningFits
<1>3. CASE Current(c).op = "oradd"
  <2>1. /\ sink[c].matches = 0 /\ sink[c].count = 0 /\ ~sink[c].limited
        /\ Current(c).op \notin Additions
    BY <1>1, <1>3 DEF SinkInv, FallbackIsFresh, Additions
  <2>2. ASSUME NEW n \in 1..FallbackRows, OwnRows(c, n)
        PROVE  StreamFits(c, E)'
    <3>1. /\ pc'[c] = "rows" /\ sink'[c].count = 0 /\ InSet(c)' /\ InSet(c)
          /\ UNCHANGED <<ip, result>>
      BY <1>1, <1>2, <2>1, <2>2 DEF OwnRows, InSet, Sinks
    <3>2. EventsFit(c, E)'
      BY <1>1, <1>2, <2>1, <3>1 DEF EventsFit
    <3>3. TallyFits(c, E)'
      BY <1>1, <1>2, <2>1, <3>1 DEF TallyFits
    <3>4. EndTallies(c, E)'
      BY <3>1 DEF EndTallies
    <3> QED
      BY <1>1, <1>2, <3>2, <3>3, <3>4 DEF StreamFits
  <2>3. CASE AfterAll(c)
    <3> DEFINE s == [sink[c] EXCEPT !.added = TRUE]
    <3>1. Continue(c, s)
      BY <2>3 DEF AfterAll
    <3>2. s \in Sinks /\ s.matches = 0 /\ s.count = 0 /\ ~s.limited
      BY <1>2, <2>1 DEF Sinks
    <3> HIDE DEF s
    <3>3. SentFor(c, s, E)
      BY <1>1, <1>2, <2>1, <3>2 DEF SentFor
    <3> QED
      BY <1>1, <1>2, <2>1, <3>1, <3>2, <3>3, ContinueFits DEF IInv
  <2> QED
    BY <1>3, <2>2, <2>3, FallbackGoesOn
<1>4. CASE Current(c).op # "oradd"
  <2>1. Current(c).op \in Additions
    <3>1. Current(c) \in Command
      BY <1>2, CurrentIsCommand
    <3> QED
      BY <1>1, <1>4, <3>1 DEF Command, Additions
  <2>2. ~Current(c).returns /\ ~InSet(c)
    BY <1>1, <1>2, <2>1, AdditionsHaveNoRows
  <2>3. /\ pc'[c] = "head" /\ ip'[c] = ip[c] + 1 /\ UNCHANGED <<sink, result>>
    BY <1>1, <1>4 DEF Commit, AfterAddition, Goto
  <2>4. PastSet(c)' <=> PastSet(c)
    BY <1>2, <2>2, <2>3, SetsPassed DEF IInv
  <2>5. ~InSet(c)'
    BY <2>3 DEF InSet
  <2>6. EventsFit(c, E)'
    BY <1>2, <2>2, <2>3, <2>4, <2>5 DEF EventsFit
  <2>7. TallyFits(c, E)'
    BY <1>2, <2>2, <2>3, <2>4, <2>5 DEF TallyFits
  <2>8. EndTallies(c, E)'
    BY <2>3 DEF EndTallies
  <2> QED
    BY <1>1, <1>2, <2>6, <2>7, <2>8 DEF StreamFits
<1> QED
  BY <1>3, <1>4

(***************************************************************************)
(* The steps that send an event, to a client that is there.                *)
(***************************************************************************)
LEMMA ColumnsFit ==
    ASSUME IInv, NEW c \in Clients, SinkInv(c), NEW E \in Seq(Event), StreamFits(c, E),
           EmitMeta(c), connected[c]
    PROVE  StreamFits(c, Append(E, Mark("meta")))'
<1>1. /\ pc \in [Clients -> Places] /\ sink \in [Clients -> Sinks] /\ outcome' = outcome
      /\ pc[c] = "meta" /\ pc[c] \in Running \ {"head"} /\ ~InSet(c)
      /\ Current(c).op \notin Additions /\ Current(c).returns
      /\ sink[c].left = sink[c].matches /\ sink[c].count = 0 /\ ~sink[c].limited
  BY TypeFacts DEF IInv, EmitMeta, At, SinkInv, SearchesKnown, SinkCounts, Running, InSet
<1>2. /\ Mode[c] = "stream" /\ Good(outcome[c], E) /\ KindsAre(E, SetKinds)
      /\ ip[c] \in DOMAIN Script[c]
      /\ IF MultiSet(c) THEN SetIsClosed(E) ELSE ~PastSet(c) => E = <<>>
      /\ MultiSet(c) => RowCount(E) = result[c].rows + 0
      /\ sink[c] \in Sinks /\ sink[c].matches \in Nat /\ sink[c].left \in Nat
      /\ Limit \in Nat \ {0}
  BY <1>1, RunningFits
<1>3. ~MultiSet(c) => ~PastSet(c) /\ E = <<>>
  BY <1>1, <1>2, SearchIsBefore DEF IInv
<1>4. SetIsClosed(E) /\ RowCount(E) = IF MultiSet(c) THEN result[c].rows + 0 ELSE 0
  BY <1>2, <1>3, NoEvents DEF SetIsClosed
<1> DEFINE F == Append(E, Mark("meta"))
           s == [sink[c] EXCEPT !.stopped = Gone(c) /\ ~MultiSet(c)]
<1>5. /\ Good(outcome[c], F) /\ KindsAre(F, SetKinds) /\ RowsEndWith(F, 0)
      /\ RowCount(F) = RowCount(E) /\ F \in Seq(Event)
  BY <1>2, <1>4, ColumnsOpen, EventTypes, Appended
<1>6. /\ s \in Sinks /\ s.matches = sink[c].matches /\ s.left = sink[c].left
      /\ s.count = 0 /\ ~s.limited /\ ~s.stopped
  <2>1. ~Gone(c) /\ (Gone(c) /\ ~MultiSet(c)) = FALSE
    BY DEF Gone
  <2> QED
    BY <1>1, <1>2, <2>1 DEF Sinks
<1>7. \/ /\ sink' = [sink EXCEPT ![c] = s] /\ pc' = [pc EXCEPT ![c] = "rows"]
         /\ UNCHANGED <<ip, result>>
      \/ Continue(c, s) /\ (s.stopped \/ s.left = 0)
  BY DEF EmitMeta, Goto
<1> HIDE DEF F, s
<1>8. CASE /\ sink' = [sink EXCEPT ![c] = s] /\ pc' = [pc EXCEPT ![c] = "rows"]
           /\ UNCHANGED <<ip, result>>
  <2>1. pc'[c] = "rows" /\ sink'[c] = s /\ InSet(c)'
    BY <1>1, <1>8 DEF InSet
  <2>2. EventsFit(c, F)'
    BY <1>5, <1>6, <2>1 DEF EventsFit
  <2>3. TallyFits(c, F)'
    BY <1>4, <1>5, <1>6, <1>8, <2>1 DEF TallyFits
  <2>4. EndTallies(c, F)'
    BY <2>1 DEF EndTallies
  <2> QED
    BY <1>1, <1>2, <1>5, <2>2, <2>3, <2>4 DEF StreamFits, F
<1>9. CASE Continue(c, s) /\ (s.stopped \/ s.left = 0)
  <2>1. SentFor(c, s, F)
    BY <1>1, <1>2, <1>4, <1>5, <1>6, <1>9 DEF SentFor
  <2>2. StreamFits(c, F)'
    BY <1>1, <1>2, <1>5, <1>6, <1>9, <2>1, ContinueFits DEF IInv
  <2> QED
    BY <2>2 DEF F
<1> QED
  BY <1>7, <1>8, <1>9

LEMMA RowFits ==
    ASSUME IInv, NEW c \in Clients, SinkInv(c), NEW E \in Seq(Event), StreamFits(c, E),
           EmitRow(c), connected[c]
    PROVE  StreamFits(c, Append(E, Mark("row")))'
<1>1. /\ pc \in [Clients -> Places] /\ sink \in [Clients -> Sinks] /\ outcome' = outcome
      /\ pc[c] = "rows" /\ pc[c] \in Running \ {"head"} /\ InSet(c) /\ sink[c].left > 0
      /\ Current(c).op \notin Additions /\ Current(c).returns
      /\ sink[c].count < Limit /\ ~sink[c].limited
      /\ sink[c].left + sink[c].count = sink[c].matches
      /\ ~sink[c].stopped
  BY TypeFacts DEF IInv, EmitRow, At, SinkInv, SearchesKnown, SinkCounts, Running, InSet,
     ClientInv, RowsAreLeft
<1>2. /\ Mode[c] = "stream" /\ Good(outcome[c], E) /\ KindsAre(E, SetKinds)
      /\ ip[c] \in DOMAIN Script[c]
      /\ RowsEndWith(E, sink[c].count)
      /\ MultiSet(c) => RowCount(E) = result[c].rows + sink[c].count
      /\ ~MultiSet(c) => RowCount(E) = sink[c].count
      /\ sink[c] \in Sinks /\ sink[c].matches \in Nat /\ sink[c].left \in Nat
      /\ result[c].rows \in Nat /\ sink[c].count \in 0..Limit /\ Limit \in Nat \ {0}
  BY <1>1, RunningFits
<1> DEFINE F == Append(E, Mark("row"))
           s == RowPushed(sink[c])
<1>3. /\ Good(outcome[c], F) /\ KindsAre(F, SetKinds) /\ RowsEndWith(F, sink[c].count + 1)
      /\ RowCount(F) = RowCount(E) + 1 /\ F \in Seq(Event)
  <2>1. sink[c].count \in Nat
    BY <1>2
  <2> QED
    BY <1>2, <2>1, RowGoesOn, EventTypes, Appended
<1>4. /\ s \in Sinks /\ s.matches = sink[c].matches /\ s.added = sink[c].added
      /\ s.left = sink[c].left - 1 /\ s.count = sink[c].count + 1 /\ ~s.limited
  <2>1. sink[c].left - 1 \in Nat /\ sink[c].count + 1 \in 0..Limit
    BY <1>1, <1>2
  <2> QED
    BY <1>1, <1>2, <2>1 DEF Sinks, RowPushed
<1>5. \/ /\ sink' = [sink EXCEPT ![c] = s] /\ UNCHANGED <<pc, ip, result>>
      \/ Continue(c, s) /\ (s.stopped \/ s.left = 0)
  BY DEF EmitRow, Gone
<1>6. s.stopped = sink[c].stopped
  BY <1>2 DEF Sinks, RowPushed
<1> HIDE DEF F, s
<1>7. /\ MultiSet(c) => RowCount(F) = result[c].rows + s.count
      /\ ~MultiSet(c) => RowCount(F) = s.count
  <2>1. ASSUME NEW r \in Nat, NEW n \in Nat PROVE (r + n) + 1 = r + (n + 1)
    OBVIOUS
  <2>2. sink[c].count \in Nat
    BY <1>2
  <2> QED
    BY <1>2, <1>3, <1>4, <2>1, <2>2
<1>8. CASE sink' = [sink EXCEPT ![c] = s] /\ UNCHANGED <<pc, ip, result>>
  <2>1. pc'[c] = "rows" /\ sink'[c] = s /\ InSet(c)'
    BY <1>1, <1>8 DEF InSet
  <2>2. EventsFit(c, F)'
    BY <1>3, <1>4, <2>1 DEF EventsFit
  <2>3. TallyFits(c, F)'
    BY <1>8, <1>7, <2>1 DEF TallyFits
  <2>4. EndTallies(c, F)'
    BY <2>1 DEF EndTallies
  <2> QED
    BY <1>1, <1>2, <1>3, <2>2, <2>3, <2>4 DEF StreamFits, F
<1>9. CASE Continue(c, s) /\ (s.stopped \/ s.left = 0)
  <2>1. s.matches <= Limit
    BY <1>1, <1>2, <1>4, <1>6, <1>9
  <2>2. SentFor(c, s, F)
    BY <1>1, <1>2, <1>3, <1>4, <1>7, <2>1 DEF SentFor
  <2>3. StreamFits(c, F)'
    BY <1>1, <1>2, <1>3, <1>4, <1>9, <2>2, ContinueFits DEF IInv
  <2> QED
    BY <2>3 DEF F
<1> QED
  BY <1>5, <1>8, <1>9

LEMMA SetEndFits ==
    ASSUME IInv, NEW c \in Clients, SinkInv(c), NEW E \in Seq(Event), StreamFits(c, E),
           EndSet(c)
    PROVE  StreamFits(c, Append(E, Tally("setend", sink[c].count, sink[c].limited)))'
<1>1. /\ pc \in [Clients -> Places] /\ ip \in [Clients -> Nat \ {0}]
      /\ result \in [Clients -> Results] /\ result[c] \in Results /\ outcome' = outcome
      /\ pc[c] = "setend" /\ pc[c] \in Running \ {"head"} /\ InSet(c) /\ MultiSet(c)
      /\ sink[c].limited => sink[c].count = Limit
  BY TypeFacts DEF IInv, EndSet, At, SinkInv, SearchesKnown, SinkCounts, Running, InSet
<1>2. /\ Mode[c] = "stream" /\ Good(outcome[c], E) /\ KindsAre(E, SetKinds)
      /\ RowsEndWith(E, sink[c].count)
      /\ RowCount(E) = result[c].rows + sink[c].count
      /\ sink[c].count \in 0..Limit /\ sink[c].limited \in BOOLEAN /\ Limit \in Nat \ {0}
  BY <1>1, RunningFits
<1>3. PICK n, limited : n = sink[c].count /\ limited = sink[c].limited
  OBVIOUS
<1> DEFINE F == Append(E, Tally("setend", n, limited))
<1>4. /\ Good(outcome[c], F) /\ KindsAre(F, SetKinds) /\ SetIsClosed(F)
      /\ RowCount(F) = RowCount(E)
  <2>1. n \in Nat /\ limited \in BOOLEAN /\ RowsEndWith(E, n) /\ (limited => n = Limit)
    BY <1>1, <1>2, <1>3
  <2> QED
    BY <1>2, <2>1, TallyCloses
<1>5. /\ pc'[c] = "head" /\ result'[c] = Tallied(c, sink[c])
  BY <1>1 DEF EndSet, Goto
<1>6. result'[c].rows = result[c].rows + sink[c].count
  BY <1>1, <1>5 DEF Tallied, Results
<1> HIDE DEF F
<1>7. ~InSet(c)'
  BY <1>5 DEF InSet
<1>8. EventsFit(c, F)'
  BY <1>1, <1>4, <1>5, <1>7 DEF EventsFit
<1>9. TallyFits(c, F)'
  <2>1. result'[c].rows \in Nat /\ RowCount(F) = result'[c].rows + 0
    BY <1>1, <1>2, <1>4, <1>6 DEF Results
  <2> QED
    BY <1>1, <1>5, <1>7, <2>1 DEF TallyFits
<1>10. EndTallies(c, F)'
  BY <1>5 DEF EndTallies
<1>11. StreamFits(c, F)'
  BY <1>1, <1>2, <1>4, <1>8, <1>9, <1>10 DEF StreamFits
<1>12. sink' = sink
  BY DEF EndSet
<1> QED
  BY <1>3, <1>11, <1>12 DEF F

(***************************************************************************)
(* The reports.                                                            *)
(***************************************************************************)
LEMMA EndFits ==
    ASSUME IInv, NEW c \in Clients, NEW E \in Seq(Event), StreamFits(c, E), ReportEnd(c),
           NEW e, e = Tally("end", result[c].rows, result[c].limited)
    PROVE  StreamFits(c, Append(E, e))'
<1>1. /\ pc \in [Clients -> Places] /\ UNCHANGED <<outcome, ip, sink, result>>
      /\ pc[c] = "report" /\ outcome[c] = "ok" /\ pc'[c] = "done"
      /\ result[c].rows \in Nat /\ result[c].limited \in BOOLEAN
  BY TypeFacts DEF IInv, ReportEnd, At, Goto, work, Results
<1>2. /\ Mode[c] = "stream" /\ Good(outcome[c], E) /\ KindsAre(E, SetKinds)
      /\ PastSet(c) /\ Counted(c) /\ ~InSet(c)
  BY <1>1, StreamHasSet DEF IInv, StreamFits, EventsFit, TallyFits, Counted, InSet
<1>3. /\ MultiSet(c) => RowCount(E) = result[c].rows + 0
      /\ ~MultiSet(c) /\ ResultSetIsLast(c) =>
            RowCount(E) = result[c].rows /\ (result[c].limited <=> sink[c].matches > Limit)
  BY <1>2 DEF StreamFits, TallyFits
<1>4. /\ e \in Event /\ e.kind = "end" /\ e.count = result[c].rows
      /\ e.limited = result[c].limited
  BY <1>1, EventTypes DEF Tally
<1> DEFINE F == Append(E, e)
<1>5. /\ Len(F) = Len(E) + 1 /\ F[Len(E) + 1] = e
  BY <1>4, Appended
<1>6. RowCount(F) = RowCount(E) /\ RowCount(E) \in Nat
  BY <1>4, AppendedCount
<1>7. KindsAre(E, SetKinds \cup {"error"})
  BY <1>2 DEF KindsAre
<1>8. GoodAt(outcome[c], F, Len(E) + 1)
  <2> HIDE DEF F
  <2> QED
    BY <1>1, <1>4, <1>5 DEF GoodAt
<1>9. Good(outcome[c], F)
  BY <1>2, <1>4, <1>7, <1>8, AppendedIsGood
<1> HIDE DEF F
<1>10. EndTallies(c, F)'
  BY <1>1, <1>3, <1>4, <1>5, <1>6 DEF EndTallies
<1>11. EventsFit(c, F)' /\ TallyFits(c, F)'
  BY <1>1 DEF EventsFit, TallyFits, InSet, Counted, Running
<1>12. StreamFits(c, F)'
  BY <1>1, <1>2, <1>9, <1>10, <1>11 DEF StreamFits
<1> QED
  BY <1>12 DEF F

LEMMA FailureFits ==
    ASSUME IInv, NEW c \in Clients, NEW E \in Seq(Event), StreamFits(c, E),
           NEW kind \in {"error", "aborted"},
           \/ ReportError(c) /\ kind = "error"
           \/ ReportAborted(c) /\ kind = "aborted"
    PROVE  StreamFits(c, Append(E, Mark(kind)))'
<1>1. /\ pc \in [Clients -> Places] /\ UNCHANGED <<outcome, ip, sink, result>>
      /\ \/ pc[c] = "report" /\ outcome[c] # "ok" /\ pc'[c] = "close" /\ kind = "error"
         \/ pc[c] = "close" /\ pc'[c] = "done" /\ kind = "aborted"
  BY TypeFacts DEF IInv, ReportError, ReportAborted, At, Goto, work
<1>2. /\ Mode[c] = "stream" /\ Good(outcome[c], E) /\ outcome[c] # "ok"
      /\ KindsAre(E, SetKinds \cup {"error"})
      /\ kind = "aborted" => E # <<>> /\ E[Len(E)].kind = "error"
  BY <1>1 DEF StreamFits, EventsFit, KindsAre
<1> DEFINE e == Mark(kind)
           F == Append(E, e)
<1>3. e \in Event /\ e.kind = kind
  BY EventTypes DEF Mark
<1> HIDE DEF e
<1>4. /\ Len(F) = Len(E) + 1 /\ F[Len(E) + 1] = e /\ Len(E) \in Nat /\ F # <<>>
      /\ \A i \in 1..Len(E) : F[i] = E[i]
      /\ E # <<>> => Len(E) > 0
  BY <1>3, Appended
<1>5. kind = "error" => KindsAre(F, SetKinds \cup {"error"})
  BY <1>2, <1>3, AppendedKinds
<1>6. GoodAt(outcome[c], F, Len(E) + 1)
  <2> HIDE DEF F
  <2> QED
    BY <1>2, <1>3, <1>4 DEF GoodAt, FollowsKind
<1>7. Good(outcome[c], F)
  BY <1>2, <1>3, <1>6, AppendedIsGood
<1> HIDE DEF F
<1>8. EndTallies(c, F)'
  BY <1>1, <1>3, <1>4 DEF EndTallies
<1>9. EventsFit(c, F)' /\ TallyFits(c, F)'
  BY <1>1, <1>2, <1>3, <1>4, <1>5 DEF EventsFit, TallyFits, InSet, Counted, Running
<1>10. StreamFits(c, F)'
  BY <1>1, <1>2, <1>7, <1>8, <1>9 DEF StreamFits
<1> QED
  BY <1>10 DEF F, e

-----------------------------------------------------------------------------
(***************************************************************************)
(* The invariant of streams, for every step of the client itself.          *)
(***************************************************************************)
StreamsInv == IInv /\ \A c \in Clients : StreamInv(c)

LEMMA FitsWhatWasSent ==
    ASSUME NEW c \in Clients, NEW F, Events(c)' = F, StreamFits(c, F)'
    PROVE  StreamFits(c, Events(c))'
BY DEF StreamFits, EventsFit, TallyFits, EndTallies, InSet, Counted, SetIsClosed,
   RowsEndWith, KindsAre, Good, GoodAt, CountsRows, FollowsKind, RowCount

LEMMA QuietStepFits ==
    ASSUME StreamsInv, NEW c \in Clients, connected[c], connected'[c],
           \/ Start(c) \/ Acquire(c) \/ GiveUp(c) \/ Succeed(c) \/ Interrupt(c)
           \/ CommandFails(c) \/ NextCommand(c) \/ Prepare(c) \/ Search(c) \/ StopAtLimit(c)
           \/ Commit(c) \/ Respond(c) \/ Expire(c) \/ Cancel(c) \/ Read(c)
    PROVE  StreamFits(c, Events(c))'
<1>1. PICK E : E = Events(c)
  OBVIOUS
<1>2. E \in Seq(Event) /\ IInv /\ SinkInv(c) /\ StreamFits(c, E)
  BY <1>1, EventsAreEvents DEF StreamsInv, StreamInv, IInv
<1>3. Events(c)' = E
  <2>1. CASE Read(c)
    BY <1>1, <1>2, <2>1, ReadMoves DEF IInv
  <2>2. CASE ~Read(c)
    <3>1. UNCHANGED <<channel, received>>
      BY <2>2 DEF Start, Acquire, GiveUp, Succeed, Interrupt, CommandFails, Finish,
         NextCommand, Prepare, Search, StopAtLimit, Commit, Respond, Expire, Cancel, stream
    <3> QED
      BY <1>1, <3>1 DEF Events
  <2> QED
    BY <2>1, <2>2
<1>4. CASE Expire(c) \/ Cancel(c) \/ Read(c)
  <2>1. UNCHANGED <<pc, ip, sink, result, outcome>>
    BY <1>4 DEF Expire, Cancel, Read, work
  <2>2. StreamFits(c, E)'
    BY <1>2, <2>1 DEF StreamFits, EventsFit, TallyFits, EndTallies, InSet, PastSet, Counted,
       Done, Current
  <2> QED
    BY <1>3, <2>2, FitsWhatWasSent
<1>5. CASE Respond(c)
  BY <1>2, <1>5 DEF Respond, StreamFits
<1> QED
  BY <1>2, <1>3, <1>4, <1>5, ControlFits, SearchFits, StopFits, AdditionFits,
     FitsWhatWasSent

LEMMA SendingStepFits ==
    ASSUME StreamsInv, NEW c \in Clients, connected[c], connected'[c],
           \/ EmitMeta(c) \/ EmitRow(c) \/ EndSet(c)
           \/ ReportEnd(c) \/ ReportError(c) \/ ReportAborted(c)
    PROVE  StreamFits(c, Events(c))'
<1>1. PICK E : E = Events(c)
  OBVIOUS
<1>2. TypeOK /\ E \in Seq(Event) /\ IInv /\ SinkInv(c) /\ StreamFits(c, E)
  BY <1>1, EventsAreEvents DEF StreamsInv, StreamInv, IInv
<1>3. ASSUME NEW e \in Event, Send(c, e), StreamFits(c, Append(E, e))'
      PROVE  StreamFits(c, Events(c))'
  <2>1. PICK F : F = Append(E, e)
    OBVIOUS
  <2>2. Events(c)' = F
    BY <1>1, <1>2, <1>3, <2>1, SendAppends
  <2>3. StreamFits(c, F)'
    BY <1>3, <2>1
  <2> QED
    BY <2>2, <2>3, FitsWhatWasSent
<1>4. CASE EmitMeta(c)
  <2>1. Send(c, Mark("meta")) /\ Mark("meta") \in Event
    BY <1>4, EventTypes DEF EmitMeta, Emit
  <2> QED
    BY <1>2, <1>3, <1>4, <2>1, ColumnsFit
<1>5. CASE EmitRow(c)
  <2>1. Send(c, Mark("row")) /\ Mark("row") \in Event
    BY <1>5, EventTypes DEF EmitRow, Emit
  <2> QED
    BY <1>2, <1>3, <1>5, <2>1, RowFits
<1>6. CASE EndSet(c)
  <2>1. PICK e : e = Tally("setend", sink[c].count, sink[c].limited)
    OBVIOUS
  <2>2. Send(c, e) /\ e \in Event
    <3>1. sink[c].count \in Nat /\ sink[c].limited \in BOOLEAN
      BY <1>2, TypeFacts, ConstantFacts DEF Sinks
    <3> QED
      BY <1>6, <2>1, <3>1, EventTypes DEF EndSet, Emit
  <2>3. sink' = sink
    BY <1>6 DEF EndSet
  <2>4. StreamFits(c, Append(E, e))'
    BY <1>2, <1>6, <2>1, <2>3, SetEndFits
  <2> QED
    BY <1>3, <2>2, <2>4
<1>7. CASE ReportEnd(c)
  <2>1. PICK e : e = Tally("end", result[c].rows, result[c].limited)
    OBVIOUS
  <2>2. Send(c, e) /\ e \in Event
    <3>1. result[c].rows \in Nat /\ result[c].limited \in BOOLEAN
      BY <1>2, TypeFacts DEF Results
    <3> QED
      BY <1>7, <2>1, <3>1, EventTypes DEF ReportEnd
  <2>3. StreamFits(c, Append(E, e))'
    BY <1>2, <1>7, <2>1, EndFits
  <2> QED
    BY <1>3, <2>2, <2>3
<1>8. CASE ReportError(c)
  <2>1. Send(c, Mark("error")) /\ Mark("error") \in Event
    BY <1>8, EventTypes DEF ReportError
  <2> QED
    BY <1>2, <1>3, <1>8, <2>1, FailureFits
<1>9. CASE ReportAborted(c)
  <2>1. Send(c, Mark("aborted")) /\ Mark("aborted") \in Event
    BY <1>9, EventTypes DEF ReportAborted
  <2> QED
    BY <1>2, <1>3, <1>9, <2>1, FailureFits
<1> QED
  BY <1>4, <1>5, <1>6, <1>7, <1>8, <1>9

LEMMA StepKeepsStream ==
    ASSUME StreamsInv, NEW c \in Clients, Worker(c) \/ Environment(c)
    PROVE  StreamInv(c)'
<1>1. SinkInv(c)'
  BY StepKeepsSink DEF StreamsInv, StreamInv
<1>2. connected'[c] => connected[c]
  <2>1. connected \in [Clients -> BOOLEAN]
    BY DEF StreamsInv, IInv, TypeOK
  <2>2. connected' = connected \/ connected' = [connected EXCEPT ![c] = FALSE]
    BY DEF Worker, Environment, Acquire, GiveUp, NextCommand, Succeed, Interrupt, Finish,
       CommandFails, Search, EmitMeta, EmitRow, StopAtLimit, EndSet, Prepare, Commit,
       ReportEnd, ReportError, ReportAborted, Respond, Emit, Send, Start, Expire, Cancel,
       Read, Disconnect, stream
  <2> QED
    BY <2>1, <2>2
<1>3. CASE ~connected'[c]
  BY <1>1, <1>3 DEF StreamInv
<1>4. CASE connected'[c]
  <2>1. ~Disconnect(c)
    BY <1>4 DEF Disconnect, StreamsInv, IInv, TypeOK
  <2>2. StreamFits(c, Events(c))'
    BY <1>2, <1>4, <2>1, QuietStepFits, SendingStepFits DEF Worker, Environment
  <2> QED
    BY <1>1, <2>2 DEF StreamInv
<1> QED
  BY <1>3, <1>4

(***************************************************************************)
(* And of another.                                                         *)
(***************************************************************************)
LEMMA UntouchedStream ==
    ASSUME StreamsInv, NEW d \in Clients, Untouched(d)
    PROVE  StreamInv(d)'
<1>1. /\ pc'[d] = pc[d] /\ ip'[d] = ip[d] /\ sink'[d] = sink[d] /\ result'[d] = result[d]
      /\ outcome'[d] = outcome[d] /\ connected'[d] = connected[d]
      /\ channel'[d] = channel[d] /\ received'[d] = received[d]
  BY DEF Untouched
<1>2. SinkInv(d)'
  BY <1>1 DEF StreamsInv, StreamInv, SinkInv, SearchesKnown, FallbackIsFresh, SinkCounts,
     Current
<1>3. ASSUME connected'[d] PROVE StreamFits(d, Events(d))'
  <2>1. PICK E : E = Events(d)
    OBVIOUS
  <2>2. StreamFits(d, E) /\ Events(d)' = E
    BY <1>1, <1>3, <2>1 DEF StreamsInv, StreamInv, Events
  <2>3. StreamFits(d, E)'
    BY <1>1, <2>2 DEF StreamFits, EventsFit, TallyFits, EndTallies, InSet, PastSet, Counted,
       Done, Current
  <2> QED
    BY <2>2, <2>3, FitsWhatWasSent
<1> QED
  BY <1>2, <1>3 DEF StreamInv

LEMMA StepKeepsStreams == StreamsInv /\ [Next]_vars => StreamsInv'
<1> SUFFICES ASSUME StreamsInv, [Next]_vars PROVE StreamsInv'
  OBVIOUS
<1>1. IInv'
  BY StepKeepsIInv DEF StreamsInv
<1>2. CASE UNCHANGED vars \/ Finished
  <2>1. \A d \in Clients : Untouched(d)
    BY <1>2 DEF Finished, vars, work, stream, Untouched
  <2> QED
    BY <1>1, <2>1, UntouchedStream DEF StreamsInv
<1>3. ASSUME NEW c \in Clients, Worker(c) \/ Environment(c) PROVE StreamsInv'
  <2>1. \A d \in Clients \ {c} : Untouched(d)
    BY <1>3, StepTouchesOne DEF StreamsInv, IInv
  <2> QED
    BY <1>1, <1>3, <2>1, StepKeepsStream, UntouchedStream DEF StreamsInv
<1> QED
  BY <1>2, <1>3 DEF Next

LEMMA SpecKeepsStreams == Spec => []StreamsInv
<1>1. Init => StreamsInv
  <2> SUFFICES ASSUME Init, NEW c \in Clients PROVE StreamInv(c)
    BY InitEstablishesIInv DEF StreamsInv
  <2>1. /\ pc[c] \in {"ready", "done"} /\ ip[c] = 1 /\ result[c].rows = 0
        /\ connected[c] => Mode[c] = "stream"
        /\ channel[c] = <<>> /\ received[c] = <<>>
    BY DEF Init
  <2>2. Events(c) = <<>>
    BY <2>1 DEF Events
  <2>3. SinkInv(c)
    BY <2>1 DEF SinkInv, SearchesKnown, FallbackIsFresh, SinkCounts
  <2>4. EventsFit(c, <<>>) /\ TallyFits(c, <<>>) /\ EndTallies(c, <<>>)
    BY <2>1, NoEvents DEF EventsFit, TallyFits, EndTallies, InSet, Counted, Running
  <2> QED
    BY <2>1, <2>2, <2>3, <2>4, NoEvents DEF StreamInv, StreamFits
<1> QED
  BY <1>1, StepKeepsStreams, PTL DEF Spec

(***************************************************************************)
(* What a client that stays connected receives is well-formed, for any     *)
(* scripts, limits and capacities: columns, then rows, then the tally that *)
(* counts exactly these rows, set by set, and one last event, which says   *)
(* how the execution ended (StreamingSink, StreamingCallbacks).            *)
(***************************************************************************)
THEOREM StreamsAlwaysWellFormed == Spec => []StreamsAreWellFormed
<1>1. StreamsInv => StreamsAreWellFormed
  <2> SUFFICES ASSUME StreamsInv, NEW c \in Clients, connected[c],
                      NEW i \in DOMAIN Events(c)
               PROVE  WellFormedAt(c, Events(c), i)
    BY DEF StreamsAreWellFormed
  <2>1. Events(c) \in Seq(Event) /\ Good(outcome[c], Events(c))
    BY EventsAreEvents DEF StreamsInv, StreamInv, StreamFits, IInv
  <2> QED
    BY <2>1, GoodIsWellFormed DEF Good
<1> QED
  BY <1>1, SpecKeepsStreams, PTL

(***************************************************************************)
(* The tally at the end of a stream counts the rows that were sent before  *)
(* it, and says `limited` exactly when there were more; of a stream with   *)
(* several result sets it counts the rows of all of them.                  *)
(***************************************************************************)
THEOREM FinalTallyAlwaysCounts == Spec => []FinalTallyCounts
<1>1. StreamsInv => FinalTallyCounts
  <2> SUFFICES ASSUME StreamsInv, NEW c \in Clients, Ended(c), ResultSetIsLast(c)
               PROVE  /\ Last(Events(c)).count = RowsOf(c)
                      /\ ~MultiSet(c) =>
                            (Last(Events(c)).limited <=> sink[c].matches > Limit)
    BY DEF FinalTallyCounts
  <2>1. PICK E : E = Events(c)
    OBVIOUS
  <2>2. E \in Seq(Event) /\ StreamFits(c, E) /\ E # <<>> /\ E[Len(E)].kind = "end"
    BY <2>1, EventsAreEvents DEF Ended, Last, StreamsInv, StreamInv, IInv
  <2>3. pc[c] = "done"
    <3>1. Len(E) \in DOMAIN E
      BY <2>2
    <3> QED
      BY <2>2, <3>1 DEF StreamFits, EventsFit, KindsAre, SetKinds
  <2>4. /\ E[Len(E)].count = RowCount(E)
        /\ ~MultiSet(c) => (E[Len(E)].limited <=> sink[c].matches > Limit)
    BY <2>2, <2>3 DEF StreamFits, EndTallies
  <2> QED
    BY <2>1, <2>4 DEF Last, RowsOf, RowCount
<1> QED
  BY <1>1, SpecKeepsStreams, PTL
=============================================================================
