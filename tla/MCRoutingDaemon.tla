-------------------------- MODULE MCRoutingDaemon --------------------------
(***************************************************************************)
(* Small networks for TLC.  test.txt names the shapes the authors tried: a *)
(* pair, a line and a tree; the rings are where an LSA comes back.         *)
(***************************************************************************)
EXTENDS RoutingDaemon, TLC

CONSTANTS n1, n2, n3, n4,    \* node ids
          o1, o2             \* object names

PairConf == n1 :> <<n1, n2>> @@ n2 :> <<n2, n1>>

LineConf == n1 :> <<n1, n2>> @@ n2 :> <<n2, n1, n3>> @@ n3 :> <<n3, n2>>

Line4Conf ==
    n1 :> <<n1, n2>> @@ n2 :> <<n2, n1, n3>> @@
    n3 :> <<n3, n2, n4>> @@ n4 :> <<n4, n3>>

\* n1 is reached from n4 through n2, and the long way round through n3 and n2.
KiteConf ==
    n1 :> <<n1, n2>> @@ n2 :> <<n2, n1, n3, n4>> @@
    n3 :> <<n3, n2, n4>> @@ n4 :> <<n4, n2, n3>>

\* Every node has an address of its own.
OwnHost == [n \in Node |-> n]

\* Only n1 has a file to begin with.
FirstHasFile == [n \in Node |-> IF n = n1 THEN {o1} ELSE {}]

\* No node has a file.
NoFiles == [n \in Node |-> {}]

\* How often each daemon floods.
Floods1 == [n \in Node |-> 1]
Floods2 == [n \in Node |-> 2]
Floods3 == [n \in Node |-> 3]
Floods4 == [n \in Node |-> 4]

\* The last node of the line or of the kite only listens.
LineFloods == n1 :> 1 @@ n2 :> 1 @@ n3 :> 1 @@ n4 :> 0
KiteFloods == n1 :> 2 @@ n2 :> 2 @@ n3 :> 2 @@ n4 :> 0

\* A spent daemon stops there: that is the bound's doing and no deadlock.
AtBound ==
    /\ \E n \in Node : Spent(n)
    /\ UNCHANGED vars

MCSpec == Init /\ [][Next \/ AtBound]_vars

MCFairSpec == MCSpec /\ Fairness
=============================================================================
