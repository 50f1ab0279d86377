----------------------------- MODULE MCRequests -----------------------------
(***************************************************************************)
(* A client of the pair, each node of which may be given the same file.    *)
(***************************************************************************)
EXTENDS MCRoutingDaemon, Requests

CONSTANT c1    \* a client

\* At n2 names with spaces in them are uploaded too.
FirstTidy == n1 :> {"file"} @@ n2 :> {"file", "empty"}

\* At the daemons' bound the clients may still go on; with nobody to ask, all stop.
ReqAtBound == AtBound /\ UNCHANGED <<paths, request, asked>>

MCReqSpec == ReqInit /\ [][ReqNext \/ ReqAtBound]_reqvars

MCReqFairSpec == MCReqSpec /\ \A c \in Client : WF_reqvars(Handling(c))
=============================================================================
