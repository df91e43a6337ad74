----------------------------- MODULE DurableLog -----------------------------
(***************************************************************************)
(* What the append-only store promises, without saying how: a sequence of  *)
(* atomic batches of which a prefix has reached the medium.                *)
(*                                                                         *)
(*   history  the batches a restart after a power failure replays          *)
(*   served   the batches a restart without a power failure replays; they  *)
(*            may run ahead of history while the operating system still    *)
(*            holds directory updates in memory                            *)
(*   acked    the batches whose append returned Ok                         *)
(*                                                                         *)
(* LogStore implements this specification; PositStore is built on it.      *)
(***************************************************************************)
EXTENDS Naturals, Sequences, SequencesExt

CONSTANT Batch          \* the contents of one batch

VARIABLES history, served, acked

dlVars == <<history, served, acked>>

DLTypeOK ==
    /\ history \in Seq(Batch)
    /\ served \in Seq(Batch)
    /\ acked \subseteq Batch

DLInit ==
    /\ history = <<>>
    /\ served = <<>>
    /\ acked = {}

(***************************************************************************)
(* A whole batch becomes visible at once.                                  *)
(***************************************************************************)
Publish(b) ==
    /\ served' = Append(served, b)
    /\ UNCHANGED <<history, acked>>

(***************************************************************************)
(* Everything visible reaches the medium.                                  *)
(***************************************************************************)
Persist ==
    /\ history' = served
    /\ UNCHANGED <<served, acked>>

(***************************************************************************)
(* Only what has reached the medium may be acknowledged.                   *)
(***************************************************************************)
Acknowledge(b) ==
    /\ acked' = acked \cup {b}
    /\ UNCHANGED <<history, served>>

(***************************************************************************)
(* A power failure drops what had not reached the medium.                  *)
(***************************************************************************)
Revert ==
    /\ served' = history
    /\ UNCHANGED <<history, acked>>

DLNext ==
    \/ \E b \in Range(served') \cap Batch : Publish(b)
    \/ \E b \in Range(history) : Acknowledge(b)
    \/ Persist
    \/ Revert

DLSpec == DLInit /\ [][DLNext]_dlVars

(***************************************************************************)
(* The promise: what is on the medium is a prefix of what is visible, and  *)
(* nothing is acknowledged that a power failure could take back.           *)
(***************************************************************************)
DurablePromise ==
    /\ IsPrefix(history, served)
    /\ acked \subseteq Range(history)
=============================================================================
