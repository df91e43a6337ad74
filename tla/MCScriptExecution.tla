------------------------- MODULE MCScriptExecution -------------------------
(***************************************************************************)
(* Small instances of ScriptExecution for TLC: a single stream that is     *)
(* truncated, a stream of two result sets with a fallback, a query of the  *)
(* interface that adds the same key, all at the same time.                 *)
(***************************************************************************)
EXTENDS ScriptExecution

CONSTANTS a, b, h, s1, s2, k, note, r

Add == [op |-> "add", key |-> k, returns |-> FALSE, recalls |-> {}]
Role == [op |-> "role", key |-> r, returns |-> FALSE, recalls |-> {}]
Find == [op |-> "search", key |-> k, returns |-> TRUE, recalls |-> {}]
FindOrAdd == [op |-> "oradd", key |-> k, returns |-> TRUE, recalls |-> {}]
Ensure == [op |-> "oradd", key |-> k, returns |-> FALSE, recalls |-> {}]
Note == [op |-> "add", key |-> note, returns |-> FALSE, recalls |-> {k}]

MCClients == {a, b, h, s1, s2}
MCKeys == {k, note, r}
MCDeadlines == {a, b, s1, s2}

(***************************************************************************)
(* a, b, h: a single stream that may be truncated, a buffered query and a  *)
(* query of the interface, the last two adding the same key.               *)
(* s1, s2: a stream of one result set and one of two.                        *)
(***************************************************************************)
MCScript ==
    (a :> <<Add, Find>>) @@ (b :> <<FindOrAdd, Role>>) @@ (h :> <<Ensure, Role>>)
    @@ (s1 :> <<FindOrAdd, Add>>) @@ (s2 :> <<FindOrAdd, Note, Find>>)

MCMode == [c \in MCClients |-> CASE c = b -> "buffered" [] c = h -> "handle"
                                   [] OTHER -> "stream"]

SafetyCrowds == {{a, b, h}, {s1, s2}}

(***************************************************************************)
(* Two result sets that need not be read, and a query without a deadline.  *)
(***************************************************************************)
LivenessCrowds == {{s1, h}, {s2, h}}
=============================================================================
