------------------------------ MODULE MCBackup ------------------------------
(***************************************************************************)
(* LogStore with its snapshot readers on small instances: two processes    *)
(* that may open the store, two kinds of batch, and one maintenance tool.  *)
(***************************************************************************)
EXTENDS Backup, TLC

CONSTANTS p1, p2, d1, d2

Symmetry == Permutations({p1, p2}) \cup Permutations({d1, d2})

(***************************************************************************)
(* A bound: what a tool left behind is not followed beside a later writer, *)
(* which cannot touch it.                                                  *)
(***************************************************************************)
CopyLeftAlone == copy.exists => owner = NoOwner
=============================================================================
