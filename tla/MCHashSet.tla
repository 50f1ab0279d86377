----------------------------- MODULE MCHashSet -----------------------------
(***************************************************************************)
(* Names that share a bucket and a name alone in its own.                  *)
(***************************************************************************)
EXTENDS HashSet, TLC

CONSTANTS o1, o2, o3, n1, n2

Shared == [o \in Names |-> IF o = o3 THEN 1 ELSE 0]
=============================================================================
