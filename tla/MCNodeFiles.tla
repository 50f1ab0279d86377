---------------------------- MODULE MCNodeFiles ----------------------------
(***************************************************************************)
(* A node without files, to which clients add some, under names of one to  *)
(* three words, one of them a number.  The LSA with two of the words is cut *)
(* off exactly where its unwritten bytes begin, that with all three sooner. *)
(* MAX_OBJ_LEN is what the longest of the words needs.                     *)
(***************************************************************************)
EXTENDS NodeFiles, TLC

Owl == [is |-> "owl", size |-> 3, value |-> 0]

One == [is |-> "1", size |-> 1, value |-> 1]

Athula == [is |-> "athula", size |-> 6, value |-> 0]

ThreeWords == {Owl, One, Athula}

SixNames ==
    {<<Owl>>, <<One>>, <<Athula>>, <<Owl, Athula>>, <<Owl, One>>,
     <<Athula, Owl, One>>}

Hash(n) == [is |-> "hash" \o ToString(n), size |-> 72, value |-> 0]

TwoPaths == {Hash(1), Hash(2)}

NoLines == <<>>
=============================================================================
