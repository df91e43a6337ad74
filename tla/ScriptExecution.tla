--------------------------- MODULE ScriptExecution ---------------------------
(***************************************************************************)
(* Scripts, the execution owner and result streams: Engine of              *)
(* src/traqula.rs, QueryInterface of src/interface.rs, and the query       *)
(* handler of src/server.rs.                                               *)
(*                                                                         *)
(* Each client sends one script.  A worker thread waits for the execution  *)
(* owner by polling, runs the commands in order while it holds it, and     *)
(* releases it before it reports.  A cancellation token and a deadline are *)
(* looked at between steps, never in the middle of one.                    *)
(*                                                                         *)
(* A script is a sequence of `add role`, `add posit`, `search` and         *)
(* `search ... or add` commands about a key.  PositStore has what an       *)
(* addition does; here it is one step, and the store the sequence of       *)
(* additions.  Every posit that is added has a new identity, so that n     *)
(* additions of a key are n matching rows; a role is added once.  A command *)
(* names what it adds, or what its search finds, by its key, and a later   *)
(* one that recalls a name is about all that it stands for: such a command *)
(* adds one posit for each, which is one addition here.                    *)
(*                                                                         *)
(* Left out: warnings, `explain`, and the rows of collected results.       *)
(***************************************************************************)
EXTENDS Naturals, Sequences, FiniteSets, SequencesExt

CONSTANTS
    Clients,
    Crowds,         \* the clients that send their scripts at the same time
    NoOwner,        \* the execution owner is free
    Keys,
    Script,         \* each client's commands
    Mode,           \* "stream", "buffered" (both HTTP) or "handle" (start_query)
    Deadlines,      \* clients whose execution has a deadline
    Limit,          \* rows per search
    FallbackRows,   \* the most rows of a fallback
    Capacity        \* events in a stream's channel

Command == [op: {"role", "add", "search", "oradd"}, key: Keys, returns: BOOLEAN,
            recalls: SUBSET Keys]

Additions == {"role", "add"}

ResultSets(c) == Cardinality({i \in DOMAIN Script[c] : Script[c][i].returns})

ASSUME ScriptExecutionAssumption ==
    /\ NoOwner \notin Clients
    /\ Crowds \subseteq SUBSET Clients
    /\ Script \in [Clients -> Seq(Command)]
    /\ Mode \in [Clients -> {"stream", "buffered", "handle"}]
    /\ \A c \in Clients :
          /\ \A i \in DOMAIN Script[c] : Script[c][i].op \in Additions => ~Script[c][i].returns
          /\ Mode[c] = "stream" => ResultSets(c) > 0
          /\ Mode[c] # "handle" => c \in Deadlines
    /\ \A c, d \in Clients : \A i \in DOMAIN Script[c], j \in DOMAIN Script[d] :
          Script[c][i].key = Script[d][j].key =>
              (Script[c][i].op = "role" <=> Script[d][j].op = "role")
    /\ \A c \in Clients : \A i \in DOMAIN Script[c] : Script[c][i].recalls # {} =>
          /\ Script[c][i].op = "add"
          /\ \A d \in Clients : \A j \in DOMAIN Script[d] :
                /\ Script[d][j].key = Script[c][i].key => Script[d][j].recalls # {}
                /\ Script[d][j].key \in Script[c][i].recalls =>
                      Script[d][j].op # "role" /\ Script[d][j].recalls = {}
    /\ Limit \in Nat \ {0}
    /\ FallbackRows \in Nat \ {0}
    /\ Capacity \in Nat \ {0}

VARIABLES
    store,      \* the additions, in order
    owner,      \* Database.execution_owner
    pc,         \* where each worker is
    ip,         \* the command it is at
    sink,       \* the search it is at, or its fallback: rows and CountingSink
    result,     \* total_rows and limited of the whole script
    variables,  \* what the names of a script stand for: places in the store
    token,      \* the cancellation token is set
    expired,    \* the deadline has passed
    outcome,    \* what the execution returned
    active,     \* QueryInterface.active
    connected,  \* the receiver of a stream exists
    channel,    \* events sent and not yet received
    received,   \* events the client has read
    late        \* history: additions made after token or deadline

work == <<ip, sink, result, variables>>
stream == <<connected, channel, received>>
vars == <<store, owner, pc, work, token, expired, outcome, active, stream, late>>

Event == [kind: {"meta", "row", "setend", "end", "error", "aborted"},
          count: Nat, limited: BOOLEAN]

Mark(kind) == [kind |-> kind, count |-> 0, limited |-> FALSE]

Tally(kind, count, limited) == [kind |-> kind, count |-> count, limited |-> limited]

Addition == [by: Clients, command: Nat, key: Keys, conditional: BOOLEAN,
             about: SUBSET Nat]

NoSearch == [matches |-> 0, left |-> 0, count |-> 0,
             limited |-> FALSE, stopped |-> FALSE, added |-> FALSE]

Running == {"head", "add", "commit", "search", "meta", "rows", "setend"}

TypeOK ==
    /\ store \in Seq(Addition)
    /\ owner \in Clients \cup {NoOwner}
    /\ pc \in [Clients -> Running \cup {"ready", "waiting", "report", "close", "done"}]
    /\ ip \in [Clients -> Nat \ {0}]
    /\ sink \in [Clients -> [matches: Nat, left: Nat, count: 0..Limit,
                             limited: BOOLEAN, stopped: BOOLEAN, added: BOOLEAN]]
    /\ result \in [Clients -> [rows: Nat, limited: BOOLEAN]]
    /\ variables \in [Clients -> [Keys -> SUBSET Nat]]
    /\ token \in [Clients -> BOOLEAN]
    /\ expired \in [Clients -> BOOLEAN]
    /\ outcome \in [Clients -> {"none", "ok", "cancelled", "timeout", "error"}]
    /\ active \subseteq Clients
    /\ connected \in [Clients -> BOOLEAN]
    /\ channel \in [Clients -> Seq(Event)]
    /\ \A c \in Clients : Len(channel[c]) <= Capacity
    /\ received \in [Clients -> Seq(Event)]
    /\ late \in [Clients -> Nat]

Init ==
    /\ store = <<>>
    /\ owner = NoOwner
    /\ \E crowd \in Crowds :
          pc = [c \in Clients |-> IF c \in crowd THEN "ready" ELSE "done"]
    /\ ip = [c \in Clients |-> 1]
    /\ sink = [c \in Clients |-> NoSearch]
    /\ result = [c \in Clients |-> [rows |-> 0, limited |-> FALSE]]
    /\ variables = [c \in Clients |-> [key \in Keys |-> {}]]
    /\ token = [c \in Clients |-> FALSE]
    /\ expired = [c \in Clients |-> FALSE]
    /\ outcome = [c \in Clients |-> "none"]
    /\ active = {}
    /\ connected = [c \in Clients |-> Mode[c] = "stream"]
    /\ channel = [c \in Clients |-> <<>>]
    /\ received = [c \in Clients |-> <<>>]
    /\ late = [c \in Clients |-> 0]

-----------------------------------------------------------------------------
At(c, s) == pc[c] = s

Goto(c, s) == pc' = [pc EXCEPT ![c] = s]

Interrupted(c) == token[c] \/ expired[c]

Verdict(c) == IF token[c] THEN "cancelled" ELSE "timeout"

Done(c) == ip[c] > Len(Script[c])

Current(c) == Script[c][ip[c]]

MultiSet(c) == ResultSets(c) > 1

Found(key) == {i \in DOMAIN store : store[i].key = key}

Matches(key) == Cardinality(Found(key))

(***************************************************************************)
(* bind_identity: a name that is bound again stands for all of it.         *)
(***************************************************************************)
BindAlso(c, things) ==
    variables' = [variables EXCEPT ![c][Current(c).key] = @ \cup things]

(***************************************************************************)
(* A stream's event waits for room in the channel, unless the client has   *)
(* gone.                                                                   *)
(***************************************************************************)
Gone(c) == Mode[c] = "stream" /\ ~connected[c]

\* Mutant: the channel is not bounded.
HasRoomAlways(c) == TRUE

HasRoom(c) == connected[c] => Len(channel[c]) < Capacity

Send(c, event) ==
    /\ HasRoom(c)
    /\ channel' = [channel EXCEPT ![c] = IF connected[c] THEN Append(@, event) ELSE @]
    /\ UNCHANGED <<connected, received>>

(***************************************************************************)
(* StreamingSink::send and StreamingCallbacks::send: a client that has     *)
(* gone cancels the execution.                                             *)
(***************************************************************************)
Emit(c, event) ==
    /\ Send(c, event)
    /\ token' = [token EXCEPT ![c] = @ \/ Gone(c)]

-----------------------------------------------------------------------------
Start(c) ==
    /\ At(c, "ready")
    /\ Goto(c, "waiting")
    /\ active' = IF Mode[c] = "handle" THEN active \cup {c} ELSE active
    /\ UNCHANGED <<store, owner, work, token, expired, outcome, stream, late>>

\* Mutant: the lock is not looked at.
AcquireShared(c) ==
    /\ At(c, "waiting")
    /\ owner' = c
    /\ Goto(c, "head")
    /\ UNCHANGED <<store, work, token, expired, outcome, active, stream, late>>

(***************************************************************************)
(* acquire_owner: try_lock until it succeeds, or until a failed attempt is *)
(* followed by a check that fails.                                         *)
(***************************************************************************)
Acquire(c) ==
    /\ At(c, "waiting")
    /\ owner = NoOwner
    /\ owner' = c
    /\ Goto(c, "head")
    /\ UNCHANGED <<store, work, token, expired, outcome, active, stream, late>>

\* Mutant: only the deadline is looked at while waiting.
GiveUpExpired(c) ==
    /\ At(c, "waiting")
    /\ owner # NoOwner
    /\ expired[c]
    /\ outcome' = [outcome EXCEPT ![c] = Verdict(c)]
    /\ Goto(c, "report")
    /\ UNCHANGED <<store, owner, work, token, expired, active, stream, late>>

GiveUp(c) ==
    /\ At(c, "waiting")
    /\ owner # NoOwner
    /\ Interrupted(c)
    /\ outcome' = [outcome EXCEPT ![c] = Verdict(c)]
    /\ Goto(c, "report")
    /\ UNCHANGED <<store, owner, work, token, expired, active, stream, late>>

\* Mutant: an execution that fails keeps the owner.
FinishHolding(c, verdict) ==
    /\ outcome' = [outcome EXCEPT ![c] = verdict]
    /\ owner' = IF verdict = "ok" THEN NoOwner ELSE owner
    /\ Goto(c, "report")
    /\ UNCHANGED <<store, work, token, expired, active, stream, late>>

(***************************************************************************)
(* The execution returns: the guard of the owner is dropped.               *)
(***************************************************************************)
Finish(c, verdict) ==
    /\ outcome' = [outcome EXCEPT ![c] = verdict]
    /\ owner' = NoOwner
    /\ Goto(c, "report")
    /\ UNCHANGED <<store, work, token, expired, active, stream, late>>

FirstStep(command) ==
    CASE command.op = "role" -> "commit"
      [] command.op = "add"  -> "add"
      [] OTHER               -> "search"

\* Mutant: the owner may be given up between two commands.
NextCommandYields(c) ==
    /\ At(c, "head")
    /\ ~Interrupted(c)
    /\ ~Done(c)
    /\ \/ Goto(c, FirstStep(Current(c))) /\ UNCHANGED owner
       \/ ip[c] > 1 /\ Goto(c, "waiting") /\ owner' = NoOwner
    /\ UNCHANGED <<store, work, token, expired, outcome, active, stream, late>>

\* Mutant: no check between two commands.
NextCommandUnchecked(c) ==
    /\ At(c, "head")
    /\ ~Done(c)
    /\ Goto(c, FirstStep(Current(c)))
    /\ UNCHANGED <<store, owner, work, token, expired, outcome, active, stream, late>>

(***************************************************************************)
(* The loop over the commands: a check, then the next command.  The end of *)
(* the input is one of them, so that a script whose last command succeeded *)
(* may still be reported as cancelled.                                     *)
(***************************************************************************)
NextCommand(c) ==
    /\ At(c, "head")
    /\ ~Interrupted(c)
    /\ ~Done(c)
    /\ Goto(c, FirstStep(Current(c)))
    /\ UNCHANGED <<store, owner, work, token, expired, outcome, active, stream, late>>

Succeed(c) ==
    /\ At(c, "head")
    /\ ~Interrupted(c)
    /\ Done(c)
    /\ Finish(c, "ok")

Interrupt(c) ==
    /\ pc[c] \in {"head", "add", "search", "rows"}
    /\ Interrupted(c)
    /\ Finish(c, Verdict(c))

(***************************************************************************)
(* A command that cannot be parsed, evaluated or stored, or that exceeds   *)
(* its budget.                                                             *)
(***************************************************************************)
CommandFails(c) ==
    /\ pc[c] \in {"head", "add", "commit", "search", "rows"}
    /\ ~Done(c)
    /\ Finish(c, "error")

-----------------------------------------------------------------------------
(***************************************************************************)
(* After a search, or after its fallback: s is its sink.  Without a match  *)
(* `or add` comes next.  A single stream keeps the tally of its latest     *)
(* search, a stream of several result sets adds them up.                   *)
(***************************************************************************)
NeedsFallback(c, s) == Current(c).op = "oradd" /\ s.matches = 0 /\ ~s.added

Tallied(c, s) ==
    IF MultiSet(c) THEN [result[c] EXCEPT !.rows = @ + s.count]
                   ELSE [rows |-> s.count, limited |-> s.limited]

Continue(c, s) ==
    /\ sink' = [sink EXCEPT ![c] = s]
    /\ \/ /\ NeedsFallback(c, s)
          /\ Goto(c, "add")
          /\ UNCHANGED <<ip, result>>
       \/ /\ ~NeedsFallback(c, s)
          /\ MultiSet(c) /\ Current(c).returns
          /\ Goto(c, "setend")
          /\ UNCHANGED <<ip, result>>
       \/ /\ ~NeedsFallback(c, s)
          /\ ~(MultiSet(c) /\ Current(c).returns)
          /\ Goto(c, "head")
          /\ ip' = [ip EXCEPT ![c] = @ + 1]
          /\ result' = [result EXCEPT ![c] = Tallied(c, s)]

\* Mutant: no more is bound than rows are sent.
PromotedToLimit(c) ==
    {i \in Found(Current(c).key) :
        Current(c).op = "oradd" /\ Cardinality(Found(Current(c).key) \cap (1..i)) <= Limit}

(***************************************************************************)
(* Only a search with a fallback hands what it found to later commands:    *)
(* all of it, and before rows are sent.                                    *)
(***************************************************************************)
Promoted(c) == {i \in Found(Current(c).key) : Current(c).op = "oradd"}

(***************************************************************************)
(* execute_prepared: the rows are those of the store as it is now; the     *)
(* result set, if there is one, begins with its columns.                   *)
(***************************************************************************)
Search(c) ==
    LET found == Matches(Current(c).key)
        s == [NoSearch EXCEPT !.matches = found, !.left = found]
    IN  /\ At(c, "search")
        /\ ~Interrupted(c)
        /\ IF Current(c).returns
              THEN /\ sink' = [sink EXCEPT ![c] = s]
                   /\ Goto(c, "meta")
                   /\ UNCHANGED <<ip, result>>
              ELSE Continue(c, s)
        /\ BindAlso(c, Promoted(c))
        /\ UNCHANGED <<store, owner, token, expired, outcome, active, stream, late>>

(***************************************************************************)
(* on_meta: only a single stream stops when the client has gone.           *)
(***************************************************************************)
EmitMeta(c) ==
    LET s == [sink[c] EXCEPT !.stopped = Gone(c) /\ ~MultiSet(c)] IN
    /\ At(c, "meta")
    /\ Emit(c, Mark("meta"))
    /\ IF s.stopped \/ s.left = 0
          THEN Continue(c, s)
          ELSE /\ sink' = [sink EXCEPT ![c] = s]
               /\ Goto(c, "rows")
               /\ UNCHANGED <<ip, result>>
    /\ UNCHANGED <<store, owner, variables, expired, outcome, active, late>>

(***************************************************************************)
(* CountingSink::push: one row more than the limit stops the search.       *)
(***************************************************************************)
StopAtLimit(c) ==
    /\ At(c, "rows")
    /\ ~Interrupted(c)
    /\ sink[c].count = Limit
    /\ Continue(c, [sink[c] EXCEPT !.limited = TRUE, !.stopped = TRUE])
    /\ UNCHANGED <<store, owner, variables, token, expired, outcome, active, stream, late>>

\* Mutant: the row that reaches the limit counts as a truncation.
RowPushedEarly(s) ==
    [s EXCEPT !.left = @ - 1, !.count = @ + 1, !.limited = s.count + 1 = Limit]

RowPushed(s) == [s EXCEPT !.left = @ - 1, !.count = @ + 1]

EmitRow(c) ==
    LET s == IF Gone(c) THEN [sink[c] EXCEPT !.stopped = TRUE] ELSE RowPushed(sink[c]) IN
    /\ At(c, "rows")
    /\ ~Interrupted(c)
    /\ sink[c].count < Limit
    /\ Emit(c, Mark("row"))
    /\ IF s.stopped \/ s.left = 0
          THEN Continue(c, s)
          ELSE /\ sink' = [sink EXCEPT ![c] = s]
               /\ UNCHANGED <<pc, ip, result>>
    /\ UNCHANGED <<store, owner, variables, expired, outcome, active, late>>

\* Mutant: a result set ends with the tally of all of them.
EndSetTotal(c) ==
    /\ At(c, "setend")
    /\ Emit(c, Tally("setend", result[c].rows + sink[c].count, sink[c].limited))
    /\ ip' = [ip EXCEPT ![c] = @ + 1]
    /\ result' = [result EXCEPT ![c] = Tallied(c, sink[c])]
    /\ Goto(c, "head")
    /\ UNCHANGED <<store, owner, sink, variables, expired, outcome, active, late>>

EndSet(c) ==
    /\ At(c, "setend")
    /\ Emit(c, Tally("setend", sink[c].count, sink[c].limited))
    /\ ip' = [ip EXCEPT ![c] = @ + 1]
    /\ result' = [result EXCEPT ![c] = Tallied(c, sink[c])]
    /\ Goto(c, "head")
    /\ UNCHANGED <<store, owner, sink, variables, expired, outcome, active, late>>

-----------------------------------------------------------------------------
(***************************************************************************)
(* add_posit: a name that stands for nothing cannot be recalled, which is  *)
(* one way for CommandFails.  The last check comes before the batch is     *)
(* handed to the database; what happens after it no longer matters.        *)
(***************************************************************************)
Prepare(c) ==
    /\ At(c, "add")
    /\ ~Interrupted(c)
    /\ \A key \in Current(c).recalls : variables[c][key] # {}
    /\ Goto(c, "commit")
    /\ UNCHANGED <<store, owner, work, token, expired, outcome, active, stream, late>>

Added(c) ==
    [by |-> c, command |-> ip[c], key |-> Current(c).key,
     conditional |-> Current(c).op = "oradd",
     about |-> UNION {variables[c][key] : key \in Current(c).recalls}]

\* Mutant: the fallback is not remembered.
AfterFallbackForgetful(c) ==
    IF Current(c).returns /\ ~sink[c].stopped
      THEN /\ \E n \in 1..FallbackRows : sink' = [sink EXCEPT ![c].left = n]
           /\ Goto(c, "rows")
           /\ UNCHANGED <<ip, result>>
      ELSE Continue(c, sink[c])

(***************************************************************************)
(* A fallback goes on with the rows of what it added, if there is a result *)
(* set and the client still wants them: one for every combination of the   *)
(* identities that its names stand for.  They pass through the same limit. *)
(***************************************************************************)
AfterFallback(c) ==
    IF Current(c).returns /\ ~sink[c].stopped
      THEN /\ \E n \in 1..FallbackRows :
                sink' = [sink EXCEPT ![c].added = TRUE, ![c].matches = n, ![c].left = n]
           /\ Goto(c, "rows")
           /\ UNCHANGED <<ip, result>>
      ELSE Continue(c, [sink[c] EXCEPT !.added = TRUE])

AfterAddition(c) ==
    /\ Goto(c, "head")
    /\ ip' = [ip EXCEPT ![c] = @ + 1]
    /\ UNCHANGED <<sink, result>>

(***************************************************************************)
(* The database commits the batch of the command.                          *)
(***************************************************************************)
Redundant(c) == Current(c).op = "role" /\ Matches(Current(c).key) > 0

Commit(c) ==
    /\ At(c, "commit")
    /\ store' = IF Redundant(c) THEN store ELSE Append(store, Added(c))
    /\ late' = [late EXCEPT ![c] = @ + (IF Interrupted(c) /\ ~Redundant(c) THEN 1 ELSE 0)]
    /\ IF Current(c).op = "oradd" THEN AfterFallback(c) ELSE AfterAddition(c)
    /\ IF Current(c).op = "role" THEN UNCHANGED variables ELSE BindAlso(c, {Len(store) + 1})
    /\ UNCHANGED <<owner, token, expired, outcome, active, stream>>

-----------------------------------------------------------------------------
(***************************************************************************)
(* The owner is free; the worker reports.  A stream ends with a tally, or  *)
(* with an error and the end of an aborted stream.                         *)
(***************************************************************************)
ReportEnd(c) ==
    /\ At(c, "report")
    /\ Mode[c] = "stream"
    /\ outcome[c] = "ok"
    /\ Send(c, Tally("end", result[c].rows, result[c].limited))
    /\ Goto(c, "done")
    /\ UNCHANGED <<store, owner, work, token, expired, outcome, active, late>>

ReportError(c) ==
    /\ At(c, "report")
    /\ Mode[c] = "stream"
    /\ outcome[c] # "ok"
    /\ Send(c, Mark("error"))
    /\ Goto(c, "close")
    /\ UNCHANGED <<store, owner, work, token, expired, outcome, active, late>>

ReportAborted(c) ==
    /\ At(c, "close")
    /\ Send(c, Mark("aborted"))
    /\ Goto(c, "done")
    /\ UNCHANGED <<store, owner, work, token, expired, outcome, active, late>>

\* Mutant: only a query that succeeded leaves the registry.
RespondKeeping(c) ==
    /\ At(c, "report")
    /\ Mode[c] # "stream"
    /\ active' = IF outcome[c] = "ok" THEN active \ {c} ELSE active
    /\ Goto(c, "done")
    /\ UNCHANGED <<store, owner, work, token, expired, outcome, stream, late>>

(***************************************************************************)
(* A buffered query answers; a query of the interface hands over its rows  *)
(* and leaves the registry.                                                *)
(***************************************************************************)
Respond(c) ==
    /\ At(c, "report")
    /\ Mode[c] # "stream"
    /\ active' = active \ {c}
    /\ Goto(c, "done")
    /\ UNCHANGED <<store, owner, work, token, expired, outcome, stream, late>>

-----------------------------------------------------------------------------
(***************************************************************************)
(* The deadline passes; QueryInterface::cancel finds the query; the client *)
(* of a stream reads an event, or goes away.                               *)
(***************************************************************************)
Expire(c) ==
    /\ c \in Deadlines
    /\ pc[c] \notin {"ready", "done"}
    /\ ~expired[c]
    /\ expired' = [expired EXCEPT ![c] = TRUE]
    /\ UNCHANGED <<store, owner, pc, work, token, outcome, active, stream, late>>

Cancel(c) ==
    /\ c \in active
    /\ token' = [token EXCEPT ![c] = TRUE]
    /\ UNCHANGED <<store, owner, pc, work, expired, outcome, active, stream, late>>

Read(c) ==
    /\ channel[c] # <<>>
    /\ received' = [received EXCEPT ![c] = Append(@, Head(channel[c]))]
    /\ channel' = [channel EXCEPT ![c] = Tail(@)]
    /\ UNCHANGED <<store, owner, pc, work, token, expired, outcome, active,
                   connected, late>>

Disconnect(c) ==
    /\ connected[c]
    /\ pc[c] \notin {"ready", "done"}
    /\ connected' = [connected EXCEPT ![c] = FALSE]
    /\ channel' = [channel EXCEPT ![c] = <<>>]
    /\ UNCHANGED <<store, owner, pc, work, token, expired, outcome, active,
                   received, late>>

(***************************************************************************)
(* Every client has its answer.                                            *)
(***************************************************************************)
Finished ==
    /\ \A c \in Clients : At(c, "done") /\ channel[c] = <<>>
    /\ UNCHANGED vars

-----------------------------------------------------------------------------
Worker(c) ==
    \/ Acquire(c) \/ GiveUp(c)
    \/ NextCommand(c) \/ Succeed(c) \/ Interrupt(c) \/ CommandFails(c)
    \/ Search(c) \/ EmitMeta(c) \/ EmitRow(c) \/ StopAtLimit(c) \/ EndSet(c)
    \/ Prepare(c) \/ Commit(c)
    \/ ReportEnd(c) \/ ReportError(c) \/ ReportAborted(c) \/ Respond(c)

Environment(c) == Start(c) \/ Expire(c) \/ Cancel(c) \/ Read(c) \/ Disconnect(c)

Next ==
    \/ \E c \in Clients : Worker(c) \/ Environment(c)
    \/ Finished

Spec == Init /\ [][Next]_vars

(***************************************************************************)
(* Threads that can go on do, and deadlines pass.                          *)
(***************************************************************************)
EngineFairness == \A c \in Clients : WF_vars(Worker(c)) /\ WF_vars(Expire(c))

EngineSpec == Spec /\ EngineFairness

(***************************************************************************)
(* The clients of streams read what is there, or go away: nothing in the   *)
(* code makes them.                                                        *)
(***************************************************************************)
ReaderFairness == \A c \in Clients : WF_vars(Read(c))

-----------------------------------------------------------------------------
(***************************************************************************)
(* `search ... or add` adds only what is absent, whatever other clients do *)
(* between its search and its addition (TRAQULA.md, one script owner).     *)
(***************************************************************************)
AddedOnce ==
    \A i, j \in DOMAIN store :
        i < j /\ store[i].key = store[j].key => ~store[j].conditional

(***************************************************************************)
(* Scripts are serial: the additions of one are not interleaved with those *)
(* of another, and come in the order of its commands.                      *)
(***************************************************************************)
ScriptsAreSerial ==
    \A i, j \in DOMAIN store :
        i < j /\ store[i].by = store[j].by =>
            /\ store[i].command < store[j].command
            /\ \A k \in i..j : store[k].by = store[i].by

(***************************************************************************)
(* An addition is published if and only if the script got past it, and     *)
(* once: no script is reported as ok without all of its additions, and     *)
(* nothing is published of the command that failed or of a later one,      *)
(* unless it is a fallback whose rows could not be delivered.              *)
(***************************************************************************)
Published(c, i) == Cardinality({j \in DOMAIN store : store[j].by = c /\ store[j].command = i})

CommandsPublishedOnce ==
    \A c \in Clients : \A i \in DOMAIN Script[c] :
        /\ Published(c, i) <= 1
        /\ Script[c][i].op = "add" => (Published(c, i) = 1 <=> i < ip[c])
        /\ Published(c, i) = 1 => i < ip[c] \/ (i = ip[c] /\ sink[c].added)
        /\ outcome[c] = "ok" => i < ip[c]

(***************************************************************************)
(* What a command that recalls a name is about: everything in the store    *)
(* with that name, if a search with a fallback came before it, and only    *)
(* what the script added itself otherwise.  However few rows were sent,    *)
(* nothing is missing, and no other script has added a match since the     *)
(* search (TRAQULA.md, "Multiple matches remain a set and later posit      *)
(* construction fans out over that set").                                  *)
(***************************************************************************)
SearchedBefore(c, n, key) ==
    \E m \in DOMAIN Script[c] :
        m < n /\ Script[c][m].op = "oradd" /\ Script[c][m].key = key

RecallsAreComplete ==
    \A j \in DOMAIN store :
        LET c == store[j].by
            n == store[j].command
        IN  store[j].about =
                {i \in DOMAIN store :
                    /\ i < j
                    /\ store[i].key \in Script[c][n].recalls
                    /\ store[i].by = c \/ SearchedBefore(c, n, store[i].key)}

(***************************************************************************)
(* A cancellation, a deadline or a client that has gone stops a script     *)
(* before its next addition: at most the one in progress is still made.    *)
(***************************************************************************)
InterruptionIsPrompt == \A c \in Clients : late[c] <= 1

(***************************************************************************)
(* What a client that stays connected receives: columns, then rows, then   *)
(* the tally that counts exactly these rows, set by set; one last event;   *)
(* `limited` exactly when rows were left out (D018).                       *)
(***************************************************************************)
Events(c) == received[c] \o channel[c]

RowsBefore(events, i) ==
    LET first == CHOOSE j \in 1..i :
            /\ events[j].kind # "row" /\ j < i
            /\ \A k \in (j + 1)..(i - 1) : events[k].kind = "row"
    IN  i - first - 1

WellFormedAt(c, events, i) ==
    LET previous == IF i = 1 THEN "none" ELSE events[i - 1].kind IN
    CASE events[i].kind = "meta"    -> previous \in {"none", "setend"}
      [] events[i].kind = "row"     -> previous \in {"meta", "row"}
      [] events[i].kind = "setend"  -> /\ previous \in {"meta", "row"}
                                       /\ events[i].count = RowsBefore(events, i)
                                       /\ events[i].limited => events[i].count = Limit
      [] events[i].kind = "end"     -> i = Len(events) /\ outcome[c] = "ok"
      [] events[i].kind = "error"   -> outcome[c] # "ok"
      [] events[i].kind = "aborted" -> previous = "error" /\ i = Len(events)

StreamsAreWellFormed ==
    \A c \in Clients : connected[c] =>
        \A i \in DOMAIN Events(c) : WellFormedAt(c, Events(c), i)

RowsOf(c) == Cardinality({i \in DOMAIN Events(c) : Events(c)[i].kind = "row"})

Ended(c) == connected[c] /\ Events(c) # <<>> /\ Last(Events(c)).kind = "end"

(***************************************************************************)
(* The final tally of a stream is that of its result set, or of all of     *)
(* them.  This is said of streams whose last search has a result set: a    *)
(* single stream that searches once more without one is told the tally of  *)
(* that search, which is 0 rows.                                           *)
(***************************************************************************)
ResultSetIsLast(c) ==
    \A i, j \in DOMAIN Script[c] :
        i < j /\ Script[c][i].returns => Script[c][j].op \in Additions \/ Script[c][j].returns

FinalTallyCounts ==
    \A c \in Clients : Ended(c) /\ ResultSetIsLast(c) =>
        /\ Last(Events(c)).count = RowsOf(c)
        /\ ~MultiSet(c) => (Last(Events(c)).limited <=> sink[c].matches > Limit)

(***************************************************************************)
(* The registry has exactly the queries that a cancellation still reaches. *)
(***************************************************************************)
RegistryIsExact ==
    \A c \in Clients :
        c \in active <=> Mode[c] = "handle" /\ pc[c] \notin {"ready", "done"}

(***************************************************************************)
(* The owner is held by the script that runs, so that it is free whenever  *)
(* every script has returned, however it ended.                            *)
(***************************************************************************)
OwnerRuns == \A c \in Clients : owner = c <=> pc[c] \in Running

(***************************************************************************)
(* Every script that is sent ends: with a slow client, after a failure, or *)
(* while another client holds the owner, provided that the clients read.   *)
(***************************************************************************)
EveryScriptEnds ==
    ReaderFairness => \A c \in Clients : At(c, "waiting") ~> At(c, "done")

(***************************************************************************)
(* A script that waits for the owner ends when it is cancelled or expires, *)
(* also when the owner is stuck behind a client that does not read.        *)
(***************************************************************************)
WaitersGiveUp ==
    \A c \in Clients : At(c, "waiting") /\ Interrupted(c) ~> outcome[c] # "none"

(***************************************************************************)
(* OPERATIONS.md gives the execution time a hard maximum: a deadline that  *)
(* has passed ends the execution, whatever its client does.                *)
(***************************************************************************)
DeadlineEndsExecution == \A c \in Clients : expired[c] ~> outcome[c] # "none"
=============================================================================
