--------------------------- MODULE MCFlaskEngine ---------------------------
(***************************************************************************)
(* A few clients of one daemon, and room for a few connections in its      *)
(* life.  The clients are alike, and so are the names.                     *)
(***************************************************************************)
EXTENDS FlaskEngine, TLC

CONSTANTS c1, c2, c3, c4,    \* clients
          o1,                \* an object name
          me, n2             \* node ids

Alike == Permutations(Client)

\* A daemon that has exited, or whose clients all wait, may stop there.
Stopped == ~running /\ UNCHANGED vars

MCSpec == Init /\ [][Next \/ Stopped]_vars

MCFairSpec == MCSpec /\ WF_vars(Loop)
=============================================================================
