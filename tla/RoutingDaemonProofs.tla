------------------------ MODULE RoutingDaemonProofs ------------------------
(***************************************************************************)
(* Proofs about RoutingDaemon, for every network, every choice of the      *)
(* parameters and every number of crashes, losses and duplications.        *)
(***************************************************************************)
EXTENDS RoutingDaemon, FiniteSetTheorems, WellFoundedInduction, TLAPS

(***************************************************************************)
(* Links.                                                                  *)
(***************************************************************************)

\* Neighbours are other nodes, and links are configured at both ends.
LEMMA Links ==
    ASSUME NEW n \in Node
    PROVE  /\ Nbrs(n) \subseteq Node
           /\ n \notin Nbrs(n)
           /\ \A j \in Nbrs(n) : n \in Nbrs(j)
           /\ \A k \in Configured(n) : LinkIndex(n, k) \in 1 .. Len(Conf[n])
           /\ Configured(n) \subseteq Node
<1> USE ConfAssumption
<1>1. Conf[n] \in Seq(Node) /\ Len(Conf[n]) \in Nat /\ Len(Conf[n]) >= 1 /\ Conf[n][1] = n
  OBVIOUS
<1>2. \A i \in 1 .. Len(Conf[n]) : Conf[n][i] \in Node
  BY <1>1
<1>3. Nbrs(n) \subseteq Node
  BY <1>1, <1>2 DEF Nbrs
<1>4. n \notin Nbrs(n)
  BY <1>1 DEF Nbrs
<1>5. \A j \in Nbrs(n) : n \in Nbrs(j)
  BY <1>1, SMTT(30) DEF Nbrs
<1>6. ASSUME NEW k \in Configured(n)
      PROVE  LinkIndex(n, k) \in 1 .. Len(Conf[n])
  <2>1. \E i \in 1 .. Len(Conf[n]) : Conf[n][i] = k
    BY <1>1 DEF Configured, Nbrs
  <2> QED BY <2>1 DEF LinkIndex
<1> QED BY <1>3, <1>4, <1>5, <1>6 DEF Configured

\* The forwarder of a datagram from a neighbour is found among the neighbours,
\* by its address.
LEMMA ForwarderIsNeighbour ==
    ASSUME NEW n \in Node, NEW m, m.src \in Nbrs(n)
    PROVE  Forwarder(n, m) \in Nbrs(n) /\ Host[Forwarder(n, m)] = Host[m.src]
<1> DEFINE hits == {i \in 2 .. Len(Conf[n]) : Host[Conf[n][i]] = Host[m.src]}
           R == {ss \in Nat \X Nat : ss[1] < ss[2]}
<1>1. hits # {} /\ hits \in SUBSET Nat
  <2>1. Len(Conf[n]) \in Nat
    BY ConfAssumption
  <2>2. PICK i \in 2 .. Len(Conf[n]) : Conf[n][i] = m.src
    BY DEF Nbrs
  <2>3. i \in hits
    BY <2>2
  <2> QED BY <2>1, <2>3
<1>2. PICK i \in hits : \A j \in hits : ~ (<<j, i>> \in R)
  <2>1. IsWellFoundedOn(R, Nat)
    BY NatLessThanWellFounded DEF OpToRel
  <2> HIDE DEF R, hits
  <2> QED BY <1>1, <2>1, WFMin
<1>3. \A j \in hits : i <= j
  <2>1. ASSUME NEW j \in hits PROVE i <= j
    <3>1. ~ (<<j, i>> \in R)
      BY <1>2
    <3> QED BY <1>1, <3>1
  <2> QED BY <2>1
<1>4. (CHOOSE i1 \in hits : \A j \in hits : i1 <= j) \in hits
  BY <1>3
<1> QED BY <1>4 DEF Forwarder, lookup_link_entry, Nbrs

(***************************************************************************)
(* Tables: what each operator builds is a table, and has an LSA wherever   *)
(* an entry is new and not down.                                           *)
(***************************************************************************)

LEMMA FreshCheckersType ==
    ASSUME NEW n \in Node
    PROVE  FreshCheckers(n) \in Checkers(n)
BY DEF FreshCheckers, Checkers

\* What a timeout changes of an entry.
Changed(e, status, lsa, checkers) ==
    [e EXCEPT !.node_status = status, !.lsa = lsa, !.checkers = checkers]

LEMMA EntryChanged ==
    ASSUME NEW n \in Node, NEW e \in Entries(n), NEW status \in Nat,
           NEW lsa \in LSAs \cup {NULL}, NEW checkers \in Checkers(n)
    PROVE  Changed(e, status, lsa, checkers) \in Entries(n)
<1> DEFINE C == Checkers(n)
           L == LSAs \cup {NULL}
           F == Node \cup {NULL}
<1>1. Entries(n) = [slot : Nat, nexthop : Node, cost : Int, node_status : Nat, lsa : L,
                    lsa_is_new : BOOLEAN, forwarder_id : F, checkers : C]
  BY DEF Entries
<1>2. lsa \in L /\ checkers \in C
  OBVIOUS
<1> HIDE DEF C, L, F
<1> DEFINE e1 == [e EXCEPT !.node_status = status]
           e2 == [e1 EXCEPT !.lsa = lsa]
           e3 == [e2 EXCEPT !.checkers = checkers]
<1>3. e1 \in Entries(n)
  BY <1>1
<1> HIDE DEF e1
<1>4. e2 \in Entries(n)
  BY <1>1, <1>2, <1>3
<1> HIDE DEF e2
<1>5. e3 \in Entries(n)
  BY <1>1, <1>2, <1>4
<1>6. Changed(e, status, lsa, checkers) = e3
  BY DEF Changed, e1, e2
<1> QED BY <1>5, <1>6

LEMMA AwaitingType ==
    ASSUME NEW n \in Node, NEW c \in Checkers(n), NEW js
    PROVE  Awaiting(c, js) \in Checkers(n)
BY DEF Awaiting, Checkers

LEMMA LoadedTable ==
    ASSUME NEW n \in Node
    PROVE  /\ IsRoutingTable(n, load_node_conf(n))
           /\ Forwardable(load_node_conf(n))
           /\ DOMAIN load_node_conf(n) = Configured(n)
<1>1. ASSUME NEW k \in Configured(n)
      PROVE  LoadedEntry(n, k) \in Entries(n)
  <2>1. k \in Node /\ LinkIndex(n, k) - 1 \in Nat
    BY Links
  <2>2. (IF k = n THEN 0 ELSE 1) \in Int
    OBVIOUS
  <2> QED BY <2>1, <2>2, FreshCheckersType, ParameterAssumption
          DEF LoadedEntry, Entries
<1>2. Configured(n) \subseteq Node
  BY Links
<1>3. Forwardable(load_node_conf(n))
  BY DEF Forwardable, load_node_conf, LoadedEntry
<1> QED BY <1>1, <1>2, <1>3 DEF load_node_conf, IsRoutingTable

LEMMA UpdatedEntry ==
    ASSUME NEW n \in Node, NEW t, IsRoutingTable(n, t),
           NEW k \in Node, NEW lsa \in LSAs, NEW nexthop \in Node
    PROVE  /\ update_entry(n, t, k, lsa, nexthop) \in Entries(n)
           /\ update_entry(n, t, k, lsa, nexthop).lsa = lsa
           /\ update_entry(n, t, k, lsa, nexthop).node_status = RETRANSMIT_TIME
           /\ update_entry(n, t, k, lsa, nexthop).checkers = FreshCheckers(n)
<1>1. Cardinality(DOMAIN t) \in Nat
  BY NodeAssumption, FS_Subset, FS_CardinalityType DEF IsRoutingTable
<1>2. NewCost(lsa.ttl) \in Int
  BY ParameterAssumption DEF NewCost, LSAs
<1>3. k \in DOMAIN t => t[k] \in Entries(n)
  BY DEF IsRoutingTable
<1>4. RETRANSMIT_TIME \in Nat
  BY ParameterAssumption
<1> QED BY <1>1, <1>2, <1>3, <1>4, FreshCheckersType DEF update_entry, Entries

LEMMA OwnLSAType ==
    ASSUME TypeOK, NEW n \in Node
    PROVE  OwnLSA(n) \in LSAs
BY ParameterAssumption DEF TypeOK, OwnLSA, LSA, LSAs

LEMMA FloodedTable ==
    ASSUME TypeInv, NEW n \in Node
    PROVE  /\ IsRoutingTable(n, TableAfterFlood(n))
           /\ Forwardable(TableAfterFlood(n))
           /\ DOMAIN TableAfterFlood(n) = DOMAIN rt[n]
<1> DEFINE own == update_entry(n, rt[n], n, OwnLSA(n), n)
           t == TableAfterFlood(n)
<1>1. IsRoutingTable(n, rt[n]) /\ Forwardable(rt[n])
  BY DEF TypeInv, TypeOK, ForwardableHasLsa
<1>2. OwnLSA(n) \in LSAs
  BY OwnLSAType DEF TypeInv
<1>3. own \in Entries(n) /\ own.lsa = OwnLSA(n) /\ own.node_status = RETRANSMIT_TIME
  BY <1>1, <1>2, UpdatedEntry
<1>4. DOMAIN t = DOMAIN rt[n]
  BY DEF TableAfterFlood
<1>5. ASSUME n \in DOMAIN t
      PROVE  t[n] = [own EXCEPT !.checkers = Awaiting(@, FloodTo(n))]
  BY <1>5 DEF TableAfterFlood
<1>6. ASSUME NEW k \in DOMAIN t, k # n
      PROVE  t[k] = [rt[n][k] EXCEPT
                        !.node_status = Countdown(@),
                        !.lsa = IF k \in TimedOut(n) THEN NULL ELSE @,
                        !.checkers = Awaiting(@, ForwardTo(n, k))]
  BY <1>6 DEF TableAfterFlood
<1>7. ASSUME NEW k \in DOMAIN t
      PROVE  /\ t[k] \in Entries(n)
             /\ t[k].lsa_is_new /\ t[k].node_status # STATUS_DOWN => t[k].lsa # NULL
             /\ t[k].node_status = STATUS_DOWN => t[k].lsa = NULL
  <2> HIDE DEF t, own
  <2>1. CASE k = n
    <3>1. own.checkers \in Checkers(n)
      BY <1>3 DEF Entries
    <3>2. t[n] \in Entries(n)
      BY <1>3, <1>5, <2>1, <3>1, AwaitingType DEF Entries
    <3>3. t[n].lsa = OwnLSA(n) /\ t[n].node_status = RETRANSMIT_TIME
      BY <1>3, <1>5, <2>1 DEF Entries
    <3>4. OwnLSA(n) # NULL
      BY NullAssumption, <1>2
    <3> QED BY <2>1, <3>2, <3>3, <3>4, ParameterAssumption DEF STATUS_DOWN
  <2>2. CASE k # n
    <3>1. rt[n][k] \in Entries(n) /\ k \in DOMAIN rt[n]
      BY <1>1, <1>4 DEF IsRoutingTable
    <3>2. Countdown(rt[n][k].node_status) \in Nat
      BY <3>1 DEF Countdown, STATUS_DOWN, Entries
    <3>3. Awaiting(rt[n][k].checkers, ForwardTo(n, k)) \in Checkers(n)
      BY <3>1, AwaitingType DEF Entries
    <3>4. t[k] \in Entries(n)
      <4>1. (IF k \in TimedOut(n) THEN NULL ELSE rt[n][k].lsa) \in LSAs \cup {NULL}
        BY <3>1 DEF Entries
      <4> DEFINE e == rt[n][k]
                 status == Countdown(e.node_status)
                 lsa == IF k \in TimedOut(n) THEN NULL ELSE e.lsa
                 checkers == Awaiting(e.checkers, ForwardTo(n, k))
      <4>2. t[k] = Changed(e, status, lsa, checkers)
        BY <1>6, <2>2 DEF Changed
      <4>3. e \in Entries(n) /\ status \in Nat /\ lsa \in LSAs \cup {NULL}
            /\ checkers \in Checkers(n)
        BY <3>1, <3>2, <3>3, <4>1
      <4> HIDE DEF e, status, lsa, checkers
      <4> QED BY <4>2, <4>3, EntryChanged
    <3>5. /\ t[k].lsa_is_new = rt[n][k].lsa_is_new
          /\ t[k].node_status = Countdown(rt[n][k].node_status)
          /\ t[k].lsa = IF k \in TimedOut(n) THEN NULL ELSE rt[n][k].lsa
      BY <1>6, <2>2, <3>1 DEF Entries
    <3>6. k \in TimedOut(n) <=> /\ rt[n][k].node_status # STATUS_DOWN
                               /\ Countdown(rt[n][k].node_status) = STATUS_DOWN
      BY <2>2, <3>1 DEF TimedOut
    <3> QED BY <1>1, <3>1, <3>4, <3>5, <3>6 DEF Forwardable, Countdown
  <2> QED BY <2>1, <2>2
<1> QED BY <1>1, <1>4, <1>7 DEF IsRoutingTable, Forwardable, TableAfterFlood

LEMMA ResentTable ==
    ASSUME TypeInv, NEW n \in Node
    PROVE  /\ IsRoutingTable(n, TableAfterResend(n))
           /\ Forwardable(TableAfterResend(n))
           /\ DOMAIN TableAfterResend(n) = DOMAIN rt[n]
<1> DEFINE t == TableAfterResend(n)
<1>1. IsRoutingTable(n, rt[n]) /\ Forwardable(rt[n])
  BY DEF TypeInv, TypeOK, ForwardableHasLsa
<1>2. DOMAIN t = DOMAIN rt[n]
  BY DEF TableAfterResend
<1>3. ASSUME NEW k \in DOMAIN t
      PROVE  t[k] = [rt[n][k] EXCEPT
                        !.node_status = IF k \in GivenUp(n) THEN STATUS_DOWN ELSE @,
                        !.lsa = IF k \in GivenUp(n) THEN NULL ELSE @,
                        !.checkers = CheckersAfterResend(n, k)]
  BY DEF TableAfterResend
<1>4. ASSUME NEW k \in DOMAIN t
      PROVE  /\ t[k] \in Entries(n)
             /\ t[k].lsa_is_new /\ t[k].node_status # STATUS_DOWN => t[k].lsa # NULL
             /\ t[k].node_status = STATUS_DOWN => t[k].lsa = NULL
  <2> HIDE DEF t
  <2>1. rt[n][k] \in Entries(n) /\ k \in DOMAIN rt[n]
    BY <1>1, <1>2 DEF IsRoutingTable
  <2>2. CheckersAfterResend(n, k) \in Checkers(n)
    <3>1. ASSUME NEW j \in Nbrs(n)
          PROVE  CheckersAfterResend(n, k)[j]
                     \in [ack_received : BOOLEAN, retransmit : Nat]
      <4> DEFINE c == rt[n][k].checkers[j]
      <4>1. c \in [ack_received : BOOLEAN, retransmit : Nat]
        BY <2>1 DEF Checkers, Entries
      <4>2. [c EXCEPT !.ack_received = TRUE] \in [ack_received : BOOLEAN, retransmit : Nat]
        BY <4>1
      <4>3. [c EXCEPT !.retransmit = IF j \in ResendTo(n, k) THEN @ + 1 ELSE @]
                \in [ack_received : BOOLEAN, retransmit : Nat]
        BY <4>1
      <4>4. \/ CheckersAfterResend(n, k)[j] = [c EXCEPT !.ack_received = TRUE]
            \/ CheckersAfterResend(n, k)[j] =
                 [c EXCEPT !.retransmit = IF j \in ResendTo(n, k) THEN @ + 1 ELSE @]
        BY DEF CheckersAfterResend
      <4> QED BY <4>2, <4>3, <4>4
    <3> QED BY <3>1 DEF CheckersAfterResend, Checkers
  <2>3. t[k] \in Entries(n)
    <3>1. (IF k \in GivenUp(n) THEN STATUS_DOWN ELSE rt[n][k].node_status) \in Nat
      BY <2>1 DEF Entries, STATUS_DOWN
    <3>2. (IF k \in GivenUp(n) THEN NULL ELSE rt[n][k].lsa) \in LSAs \cup {NULL}
      BY <2>1 DEF Entries
    <3> DEFINE e == rt[n][k]
               status == IF k \in GivenUp(n) THEN STATUS_DOWN ELSE e.node_status
               lsa == IF k \in GivenUp(n) THEN NULL ELSE e.lsa
               checkers == CheckersAfterResend(n, k)
    <3>3. t[k] = Changed(e, status, lsa, checkers)
      BY <1>3 DEF Changed
    <3>4. e \in Entries(n) /\ status \in Nat /\ lsa \in LSAs \cup {NULL}
          /\ checkers \in Checkers(n)
      BY <2>1, <2>2, <3>1, <3>2
    <3> HIDE DEF e, status, lsa, checkers
    <3> QED BY <3>3, <3>4, EntryChanged
  <2>4. /\ t[k].lsa_is_new = rt[n][k].lsa_is_new
        /\ t[k].node_status = IF k \in GivenUp(n) THEN STATUS_DOWN
                              ELSE rt[n][k].node_status
        /\ t[k].lsa = IF k \in GivenUp(n) THEN NULL ELSE rt[n][k].lsa
    BY <1>3, <2>1 DEF Entries
  <2> QED BY <1>1, <2>1, <2>3, <2>4 DEF Forwardable
<1> QED BY <1>1, <1>2, <1>4 DEF IsRoutingTable, Forwardable, TableAfterResend

LEMMA StoredType ==
    ASSUME NEW m \in Datagrams
    PROVE  Stored(m) \in LSAs
BY DEF Datagrams, LSAs, Stored, DecTTL

LEMMA TableOfLsa ==
    ASSUME TypeInv, NEW n \in Node, NEW m \in net, m.dst = n
    PROVE  /\ IsRoutingTable(n, TableAfterLsa(n, m))
           /\ Forwardable(TableAfterLsa(n, m))
           /\ DOMAIN TableAfterLsa(n, m) = DOMAIN rt[n] \cup {m.sender_node_id}
<1> DEFINE t == TableAfterLsa(n, m)
           new == update_entry(n, rt[n], m.sender_node_id, Stored(m), Forwarder(n, m))
<1>1. IsRoutingTable(n, rt[n]) /\ Forwardable(rt[n])
  BY DEF TypeInv, TypeOK, ForwardableHasLsa
<1>2. m \in Datagrams /\ m.sender_node_id \in Node
  BY DEF TypeInv, TypeOK, Datagrams
<1>3. Stored(m) \in LSAs /\ Stored(m) # NULL
  <2>1. Stored(m) \in LSAs
    BY <1>2, StoredType
  <2> QED BY <2>1, NullAssumption
<1>4. Forwarder(n, m) \in Node
  BY ForwarderIsNeighbour, Links DEF TypeInv, DatagramsFollowLinks
<1>5. new \in Entries(n) /\ new.lsa = Stored(m) /\ new.node_status = RETRANSMIT_TIME
  BY <1>1, <1>2, <1>3, <1>4, UpdatedEntry
<1>6. /\ DOMAIN t = DOMAIN rt[n] \cup {m.sender_node_id}
      /\ t[m.sender_node_id] = new
      /\ \A k \in DOMAIN t : k # m.sender_node_id => t[k] = rt[n][k]
  BY DEF TableAfterLsa
<1>7. IsRoutingTable(n, t)
  <2> HIDE DEF new
  <2> QED BY <1>1, <1>2, <1>5, <1>6 DEF IsRoutingTable, TableAfterLsa
<1>8. Forwardable(t)
  <2> HIDE DEF new, t
  <2> QED BY <1>1, <1>3, <1>5, <1>6, ParameterAssumption DEF Forwardable, STATUS_DOWN
<1> QED BY <1>6, <1>7, <1>8

(***************************************************************************)
(* What the tables hold, field by field.                                   *)
(***************************************************************************)

LEMMA UpdatedFields ==
    ASSUME NEW n \in Node, NEW t, IsRoutingTable(n, t),
           NEW k \in Node, NEW lsa \in LSAs, NEW nexthop \in Node
    PROVE  LET e == update_entry(n, t, k, lsa, nexthop)
               cheaper == k \notin DOMAIN t \/ NewCost(lsa.ttl) < t[k].cost
           IN  /\ e.lsa = lsa
               /\ e.node_status = RETRANSMIT_TIME
               /\ e.nexthop = IF cheaper THEN nexthop ELSE t[k].nexthop
               /\ e.cost = IF cheaper THEN NewCost(lsa.ttl) ELSE t[k].cost
BY DEF update_entry

LEMMA FloodedFields ==
    ASSUME TypeInv, NEW n \in Node, NEW k \in DOMAIN rt[n]
    PROVE  LET e == TableAfterFlood(n)[k]
               own == update_entry(n, rt[n], n, OwnLSA(n), n)
           IN  IF k = n
               THEN /\ e.lsa = own.lsa /\ e.node_status = own.node_status
                    /\ e.nexthop = own.nexthop /\ e.cost = own.cost
               ELSE /\ e.lsa = IF k \in TimedOut(n) THEN NULL ELSE rt[n][k].lsa
                    /\ e.node_status = Countdown(rt[n][k].node_status)
                    /\ e.nexthop = rt[n][k].nexthop /\ e.cost = rt[n][k].cost
<1> DEFINE own == update_entry(n, rt[n], n, OwnLSA(n), n)
           e == TableAfterFlood(n)[k]
<1>1. IsRoutingTable(n, rt[n])
  BY DEF TypeInv, TypeOK
<1>2. own \in Entries(n) /\ rt[n][k] \in Entries(n)
  BY <1>1, OwnLSAType, UpdatedEntry DEF TypeInv, IsRoutingTable
<1>3. e = IF k = n
          THEN [own EXCEPT !.checkers = Awaiting(@, FloodTo(n))]
          ELSE [rt[n][k] EXCEPT
                  !.node_status = Countdown(@),
                  !.lsa = IF k \in TimedOut(n) THEN NULL ELSE @,
                  !.checkers = Awaiting(@, ForwardTo(n, k))]
  BY DEF TableAfterFlood
<1> HIDE DEF own, e
<1>4. CASE k = n
  BY <1>2, <1>3, <1>4 DEF Entries, own, e
<1>5. CASE k # n
  BY <1>2, <1>3, <1>5 DEF Entries, e
<1> QED BY <1>4, <1>5

LEMMA ResentFields ==
    ASSUME TypeInv, NEW n \in Node, NEW k \in DOMAIN rt[n]
    PROVE  LET e == TableAfterResend(n)[k]
           IN  /\ e.lsa = IF k \in GivenUp(n) THEN NULL ELSE rt[n][k].lsa
               /\ e.node_status = IF k \in GivenUp(n) THEN STATUS_DOWN
                                  ELSE rt[n][k].node_status
               /\ e.nexthop = rt[n][k].nexthop /\ e.cost = rt[n][k].cost
<1>1. rt[n][k] \in Entries(n)
  BY DEF TypeInv, TypeOK, IsRoutingTable
<1>2. TableAfterResend(n)[k] =
        [rt[n][k] EXCEPT
            !.node_status = IF k \in GivenUp(n) THEN STATUS_DOWN ELSE @,
            !.lsa = IF k \in GivenUp(n) THEN NULL ELSE @,
            !.checkers = CheckersAfterResend(n, k)]
  BY DEF TableAfterResend
<1> QED BY <1>1, <1>2 DEF Entries

\* An ACK leaves every field but the checkers.
LEMMA CreditedFields ==
    ASSUME TypeInv, NEW n \in Node, up[n], NEW f \in Nbrs(n), CreditAck(n, f),
           NEW i \in Node, NEW k \in DOMAIN rt[i]
    PROVE  /\ rt'[i][k].lsa = rt[i][k].lsa
           /\ rt'[i][k].node_status = rt[i][k].node_status
           /\ rt'[i][k].nexthop = rt[i][k].nexthop
           /\ rt'[i][k].cost = rt[i][k].cost
           /\ DOMAIN rt'[i] = DOMAIN rt[i]
<1> DEFINE c == [rt[n][n].checkers EXCEPT ![f] = [ack_received |-> TRUE, retransmit |-> 0]]
           e == [rt[n][n] EXCEPT !.checkers = c]
<1>1. rt' = [rt EXCEPT ![n] = [rt[n] EXCEPT ![n] = e]]
  BY DEF CreditAck
<1>2. n \in DOMAIN rt[n] /\ DOMAIN rt = Node
  BY DEF TypeInv, TypeOK, ConfiguredAreKnown, Configured
<1>3. rt[n][n] \in Entries(n)
  BY <1>2 DEF TypeInv, TypeOK, IsRoutingTable
<1>4. /\ e.lsa = rt[n][n].lsa /\ e.node_status = rt[n][n].node_status
      /\ e.nexthop = rt[n][n].nexthop /\ e.cost = rt[n][n].cost
  <2> HIDE DEF c
  <2> QED BY <1>3 DEF Entries
<1> HIDE DEF e
<1>5. CASE i = n /\ k = n
  BY <1>1, <1>2, <1>4, <1>5
<1>6. CASE ~(i = n /\ k = n)
  BY <1>1, <1>2, <1>6
<1> QED BY <1>5, <1>6

(***************************************************************************)
(* The table of global objects.                                            *)
(***************************************************************************)

LEMMA AddedType ==
    ASSUME NEW h, IsObjectTable(h), NEW objs \in SUBSET Names,
           NEW k \in Node, NEW cost \in Int
    PROVE  IsObjectTable(hash_add(h, objs, k, cost))
BY DEF IsObjectTable, hash_add, Path, Paths

LEMMA RemovedType ==
    ASSUME NEW h, IsObjectTable(h), NEW ids
    PROVE  IsObjectTable(hash_remove_node(h, ids))
BY DEF IsObjectTable, hash_remove_node

LEMMA EmptyTypes ==
    ASSUME NEW n \in Node
    PROVE  /\ IsObjectTable(init_hash)
           /\ IsRoutingTable(n, NoEntries)
           /\ Forwardable(NoEntries)
BY DEF IsObjectTable, IsRoutingTable, Forwardable, init_hash, NoEntries

LEMMA LoadedFileType ==
    ASSUME NEW n \in Node, NEW names \in SUBSET Names
    PROVE  IsObjectTable(load_node_file(n, names))
BY EmptyTypes, AddedType DEF load_node_file

LEMMA StoredObjectsType ==
    ASSUME NEW h, IsObjectTable(h), NEW k \in Node, NEW f, NEW lsa \in LSAs
    PROVE  IsObjectTable(store_node_objects(h, k, f, lsa))
<1>1. NewCost(lsa.ttl) \in Int /\ lsa.objects \in SUBSET Names
  BY ParameterAssumption DEF LSAs, NewCost
<1> QED BY <1>1, AddedType DEF store_node_objects

(***************************************************************************)
(* Datagrams.                                                              *)
(***************************************************************************)

LEMMA DatagramType ==
    ASSUME NEW type \in {"LSA", "ACK"}, NEW n \in Node, NEW j \in Nbrs(n),
           NEW k \in Node, NEW lsa \in LSAs
    PROVE  LET m == Datagram(type, n, j, k, lsa)
           IN  m \in Datagrams /\ m.src \in Nbrs(m.dst)
BY Links DEF Datagram, Datagrams

\* What a timeout sends: the LSA of an entry, to a neighbour.
LEMMA ForwardedType ==
    ASSUME TypeInv, NEW n \in Node, NEW k \in DOMAIN rt[n], rt[n][k].lsa # NULL,
           NEW j \in Nbrs(n)
    PROVE  LET m == Datagram("LSA", n, j, k, rt[n][k].lsa)
           IN  m \in Datagrams /\ m.src \in Nbrs(m.dst)
<1>1. k \in Node /\ rt[n][k].lsa \in LSAs
  BY DEF TypeInv, TypeOK, IsRoutingTable, Entries
<1> QED BY <1>1, DatagramType

\* The entries retransmit_missing goes through have an LSA.
LEMMA VisitedHasLsa ==
    ASSUME NEW n \in Node, NEW k \in Visited(n)
    PROVE  k \in DOMAIN rt[n] /\ rt[n][k].lsa # NULL
BY DEF Visited

(***************************************************************************)
(* Each action preserves TypeInv.                                          *)
(***************************************************************************)

\* A step that changes the routing table of one daemon and keeps its entries.
LEMMA TablesKept ==
    ASSUME TypeInv, NEW n \in Node, NEW t,
           IsRoutingTable(n, t), Forwardable(t), DOMAIN rt[n] \subseteq DOMAIN t,
           rt' = [rt EXCEPT ![n] = t]
    PROVE  /\ DOMAIN rt' = Node
           /\ \A i \in Node : /\ IsRoutingTable(i, rt'[i])
                              /\ Forwardable(rt'[i])
                              /\ DOMAIN rt[i] \subseteq DOMAIN rt'[i]
<1>1. DOMAIN rt = Node /\ DOMAIN rt' = Node /\ rt'[n] = t
      /\ \A i \in Node : i # n => rt'[i] = rt[i]
  BY DEF TypeInv, TypeOK
<1>2. \A i \in Node : IsRoutingTable(i, rt[i]) /\ Forwardable(rt[i])
  BY DEF TypeInv, TypeOK, ForwardableHasLsa
<1> QED BY <1>1, <1>2

LEMMA ObjectsKept ==
    ASSUME TypeOK, NEW n \in Node, NEW h, IsObjectTable(h),
           gol' = [gol EXCEPT ![n] = h]
    PROVE  DOMAIN gol' = Node /\ \A i \in Node : IsObjectTable(gol'[i])
<1>1. DOMAIN gol = Node /\ DOMAIN gol' = Node /\ gol'[n] = h
      /\ \A i \in Node : i # n => gol'[i] = gol[i]
  BY DEF TypeOK
<1>2. \A i \in Node : IsObjectTable(gol[i])
  BY DEF TypeOK
<1> QED BY <1>1, <1>2

\* What is left of the net after a datagram was read, with what was sent.
LEMMA RestType ==
    ASSUME TypeInv, NEW m \in net, NEW sent,
           \A d \in sent : d \in Datagrams /\ d.src \in Nbrs(d.dst),
           net' = Rest(m) \cup sent
    PROVE  net' \subseteq Datagrams /\ DatagramsFollowLinks'
BY DEF TypeInv, TypeOK, DatagramsFollowLinks, Rest

LEMMA NextIteration ==
    ASSUME NEW i \in 1 .. FLOODING_PERIOD
    PROVE  AfterTimeout(i) \in 1 .. FLOODING_PERIOD
BY ParameterAssumption DEF AfterTimeout

LEMMA FloodTickType ==
    ASSUME TypeInv, NEW n \in Node, FloodTick(n)
    PROVE  TypeInv'
<1> DEFINE own == {Datagram("LSA", n, j, n, OwnLSA(n)) : j \in FloodTo(n)}
           forwarded == UNION {{Datagram("LSA", n, j, k, rt[n][k].lsa) :
                                   j \in ForwardTo(n, k)} : k \in DOMAIN rt[n]}
<1>1. /\ rt' = [rt EXCEPT ![n] = TableAfterFlood(n)]
      /\ gol' = [gol EXCEPT ![n] = hash_remove_node(@, TimedOut(n))]
      /\ sequence_number' = [sequence_number EXCEPT ![n] = @ + 1]
      /\ iterations' = [iterations EXCEPT ![n] = AfterTimeout(@)]
      /\ net' = net \cup own \cup forwarded
      /\ UNCHANGED <<up, ol, files, losses, deaths>>
  BY DEF FloodTick
<1>2. /\ DOMAIN rt' = Node
      /\ \A i \in Node : /\ IsRoutingTable(i, rt'[i])
                         /\ Forwardable(rt'[i])
                         /\ DOMAIN rt[i] \subseteq DOMAIN rt'[i]
  BY <1>1, FloodedTable, TablesKept
<1>3. DOMAIN gol' = Node /\ \A i \in Node : IsObjectTable(gol'[i])
  <2>1. IsObjectTable(hash_remove_node(gol[n], TimedOut(n)))
    BY RemovedType DEF TypeInv, TypeOK
  <2>2. gol' = [gol EXCEPT ![n] = hash_remove_node(gol[n], TimedOut(n))]
    BY <1>1
  <2> QED BY <2>1, <2>2, ObjectsKept DEF TypeInv
<1>4. \A m \in own : m \in Datagrams /\ m.src \in Nbrs(m.dst)
  <2>1. OwnLSA(n) \in LSAs
    BY OwnLSAType DEF TypeInv
  <2> QED BY <2>1, DatagramType DEF FloodTo
<1>5. \A m \in forwarded : m \in Datagrams /\ m.src \in Nbrs(m.dst)
  <2>1. SUFFICES ASSUME NEW k \in DOMAIN rt[n], NEW j \in ForwardTo(n, k)
                 PROVE  LET m == Datagram("LSA", n, j, k, rt[n][k].lsa)
                        IN  m \in Datagrams /\ m.src \in Nbrs(m.dst)
    OBVIOUS
  <2>2. j \in Nbrs(n) /\ rt[n][k].lsa_is_new /\ rt[n][k].node_status # STATUS_DOWN
    BY DEF ForwardTo
  <2>3. rt[n][k].lsa # NULL
    BY <2>2 DEF TypeInv, ForwardableHasLsa, Forwardable
  <2> QED BY <2>2, <2>3, ForwardedType
<1>6. net' \subseteq Datagrams /\ DatagramsFollowLinks'
  <2> HIDE DEF own, forwarded
  <2> QED BY <1>1, <1>4, <1>5 DEF TypeInv, TypeOK, DatagramsFollowLinks
<1>7. sequence_number' \in [Node -> Nat] /\ iterations' \in [Node -> 1 .. FLOODING_PERIOD]
  BY <1>1, NextIteration DEF TypeInv, TypeOK
<1>8. TypeOK'
  BY <1>1, <1>2, <1>3, <1>6, <1>7 DEF TypeInv, TypeOK
<1>9. ForwardableHasLsa' /\ ConfiguredAreKnown'
  BY <1>1, <1>2 DEF TypeInv, ForwardableHasLsa, ConfiguredAreKnown
<1> QED BY <1>6, <1>8, <1>9 DEF TypeInv

LEMMA RetransmitTickType ==
    ASSUME TypeInv, NEW n \in Node, RetransmitTick(n)
    PROVE  TypeInv'
<1> DEFINE resent == UNION {{Datagram("LSA", n, j, k, rt[n][k].lsa) :
                                j \in ResendTo(n, k)} : k \in DOMAIN rt[n]}
<1>1. /\ rt' = [rt EXCEPT ![n] = TableAfterResend(n)]
      /\ gol' = [gol EXCEPT ![n] = hash_remove_node(@, GivenUp(n))]
      /\ iterations' = [iterations EXCEPT ![n] = AfterTimeout(@)]
      /\ net' \subseteq net \cup resent
      /\ UNCHANGED <<up, ol, sequence_number, files, losses, deaths>>
  BY DEF RetransmitTick
<1>2. /\ DOMAIN rt' = Node
      /\ \A i \in Node : /\ IsRoutingTable(i, rt'[i])
                         /\ Forwardable(rt'[i])
                         /\ DOMAIN rt[i] \subseteq DOMAIN rt'[i]
  BY <1>1, ResentTable, TablesKept
<1>3. DOMAIN gol' = Node /\ \A i \in Node : IsObjectTable(gol'[i])
  <2>1. IsObjectTable(hash_remove_node(gol[n], GivenUp(n)))
    BY RemovedType DEF TypeInv, TypeOK
  <2>2. gol' = [gol EXCEPT ![n] = hash_remove_node(gol[n], GivenUp(n))]
    BY <1>1
  <2> QED BY <2>1, <2>2, ObjectsKept DEF TypeInv
<1>4. \A m \in resent : m \in Datagrams /\ m.src \in Nbrs(m.dst)
  <2>1. SUFFICES ASSUME NEW k \in DOMAIN rt[n], NEW j \in ResendTo(n, k)
                 PROVE  LET m == Datagram("LSA", n, j, k, rt[n][k].lsa)
                        IN  m \in Datagrams /\ m.src \in Nbrs(m.dst)
    OBVIOUS
  <2>2. j \in Nbrs(n) /\ k \in Visited(n)
    BY DEF ResendTo, Missing
  <2> QED BY <2>2, VisitedHasLsa, ForwardedType
<1>5. net' \subseteq Datagrams /\ DatagramsFollowLinks'
  <2> HIDE DEF resent
  <2> QED BY <1>1, <1>4 DEF TypeInv, TypeOK, DatagramsFollowLinks
<1>6. iterations' \in [Node -> 1 .. FLOODING_PERIOD]
  BY <1>1, NextIteration DEF TypeInv, TypeOK
<1>7. TypeOK'
  BY <1>1, <1>2, <1>3, <1>5, <1>6 DEF TypeInv, TypeOK
<1>8. ForwardableHasLsa' /\ ConfiguredAreKnown'
  BY <1>1, <1>2 DEF TypeInv, ForwardableHasLsa, ConfiguredAreKnown
<1> QED BY <1>5, <1>7, <1>8 DEF TypeInv

LEMMA IdleTickType ==
    ASSUME TypeInv, NEW n \in Node, IdleTick(n)
    PROVE  TypeInv'
<1>1. iterations' \in [Node -> 1 .. FLOODING_PERIOD]
  BY NextIteration DEF IdleTick, TypeInv, TypeOK
<1>2. UNCHANGED <<up, rt, gol, ol, sequence_number, files, net, losses, deaths>>
  BY DEF IdleTick
<1> QED BY <1>1, <1>2
        DEF TypeInv, TypeOK, ForwardableHasLsa, ConfiguredAreKnown, DatagramsFollowLinks

LEMMA IgnoreDatagramType ==
    ASSUME TypeInv, NEW n \in Node, NEW m \in net, IgnoreDatagram(n, m)
    PROVE  TypeInv'
<1>1. net' \subseteq net /\ UNCHANGED <<up, memory, files, losses, deaths>>
  BY DEF IgnoreDatagram, Rest
<1>2. net' \subseteq Datagrams /\ DatagramsFollowLinks'
  BY <1>1 DEF TypeInv, TypeOK, DatagramsFollowLinks
<1> QED BY <1>1, <1>2
        DEF TypeInv, TypeOK, ForwardableHasLsa, ConfiguredAreKnown, memory

LEMMA AcceptLsaType ==
    ASSUME TypeInv, NEW n \in Node, NEW m \in net, m.dst = n, AcceptLsa(n, m)
    PROVE  TypeInv'
<1> DEFINE ack == Datagram("ACK", n, Forwarder(n, m), m.sender_node_id, m.lsa)
<1>1. /\ rt' = [rt EXCEPT ![n] = TableAfterLsa(n, m)]
      /\ gol' = [gol EXCEPT ![n] = store_node_objects(gol[n], m.sender_node_id,
                                        Forwarder(n, m), Stored(m))]
      /\ net' = Rest(m) \cup {ack}
      /\ UNCHANGED <<up, ol, sequence_number, iterations, files, losses, deaths>>
  BY DEF AcceptLsa
<1>2. m \in Datagrams /\ m.sender_node_id \in Node /\ m.lsa \in LSAs
  BY DEF TypeInv, TypeOK, Datagrams
<1>3. /\ DOMAIN rt' = Node
      /\ \A i \in Node : /\ IsRoutingTable(i, rt'[i])
                         /\ Forwardable(rt'[i])
                         /\ DOMAIN rt[i] \subseteq DOMAIN rt'[i]
  BY <1>1, TableOfLsa, TablesKept
<1>4. DOMAIN gol' = Node /\ \A i \in Node : IsObjectTable(gol'[i])
  <2>1. IsObjectTable(gol[n])
    BY DEF TypeInv, TypeOK
  <2>2. IsObjectTable(store_node_objects(gol[n], m.sender_node_id,
                                         Forwarder(n, m), Stored(m)))
    BY <1>2, <2>1, StoredType, StoredObjectsType
  <2> QED BY <1>1, <2>2, ObjectsKept DEF TypeInv
<1>5. net' \subseteq Datagrams /\ DatagramsFollowLinks'
  <2>1. Forwarder(n, m) \in Nbrs(n)
    BY ForwarderIsNeighbour DEF TypeInv, DatagramsFollowLinks
  <2>2. ack \in Datagrams /\ ack.src \in Nbrs(ack.dst)
    BY <1>2, <2>1, DatagramType
  <2> HIDE DEF ack
  <2> DEFINE sent == {ack}
  <2>3. net' = Rest(m) \cup sent
    BY <1>1 DEF ack
  <2>4. \A d \in sent : d \in Datagrams /\ d.src \in Nbrs(d.dst)
    BY <2>2
  <2> HIDE DEF sent
  <2> QED BY <2>3, <2>4, RestType
<1>6. TypeOK'
  BY <1>1, <1>3, <1>4, <1>5 DEF TypeInv, TypeOK
<1>7. ForwardableHasLsa' /\ ConfiguredAreKnown'
  BY <1>1, <1>3 DEF TypeInv, ForwardableHasLsa, ConfiguredAreKnown
<1> QED BY <1>5, <1>6, <1>7 DEF TypeInv

\* An ACK changes one checker of the daemon's own entry.
LEMMA CreditedTable ==
    ASSUME TypeInv, NEW n \in Node, up[n], NEW f \in Nbrs(n), CreditAck(n, f)
    PROVE  /\ DOMAIN rt' = Node
           /\ \A i \in Node : /\ IsRoutingTable(i, rt'[i])
                              /\ Forwardable(rt'[i])
                              /\ DOMAIN rt[i] \subseteq DOMAIN rt'[i]
<1> DEFINE c == [rt[n][n].checkers EXCEPT ![f] = [ack_received |-> TRUE, retransmit |-> 0]]
           e == [rt[n][n] EXCEPT !.checkers = c]
           t == [rt[n] EXCEPT ![n] = e]
<1>1. rt' = [rt EXCEPT ![n] = t]
  BY DEF CreditAck
<1>2. IsRoutingTable(n, rt[n]) /\ Forwardable(rt[n])
  BY DEF TypeInv, TypeOK, ForwardableHasLsa
<1>3. n \in DOMAIN rt[n]
  BY DEF TypeInv, ConfiguredAreKnown, Configured
<1>4. rt[n][n] \in Entries(n)
  BY <1>2, <1>3 DEF IsRoutingTable
<1>5. c \in Checkers(n)
  BY <1>4 DEF Entries, Checkers
<1>6. /\ e \in Entries(n)
      /\ e.lsa = rt[n][n].lsa
      /\ e.lsa_is_new = rt[n][n].lsa_is_new
      /\ e.node_status = rt[n][n].node_status
  <2> HIDE DEF c
  <2> QED BY <1>4, <1>5 DEF Entries
<1>7. IsRoutingTable(n, t) /\ Forwardable(t) /\ DOMAIN t = DOMAIN rt[n]
  <2> HIDE DEF e
  <2> QED BY <1>2, <1>3, <1>6 DEF IsRoutingTable, Forwardable
<1> HIDE DEF t
<1> QED BY <1>1, <1>7, TablesKept

\* A step that credits an ACK and reads it off the net.
LEMMA CreditType ==
    ASSUME TypeInv, NEW n \in Node, up[n], NEW m \in net, m.dst = n,
           CreditAck(n, Forwarder(n, m)), net' = Rest(m),
           UNCHANGED <<up, gol, ol, sequence_number, iterations, files, losses, deaths>>
    PROVE  TypeInv'
<1>1. Forwarder(n, m) \in Nbrs(n)
  BY ForwarderIsNeighbour DEF TypeInv, DatagramsFollowLinks
<1>2. /\ DOMAIN rt' = Node
      /\ \A i \in Node : /\ IsRoutingTable(i, rt'[i])
                         /\ Forwardable(rt'[i])
                         /\ DOMAIN rt[i] \subseteq DOMAIN rt'[i]
  BY <1>1, CreditedTable
<1>3. net' \subseteq Datagrams /\ DatagramsFollowLinks'
  <2>1. net' \subseteq net
    BY DEF Rest
  <2> QED BY <2>1 DEF TypeInv, TypeOK, DatagramsFollowLinks
<1> QED BY <1>2, <1>3 DEF TypeInv, TypeOK, ForwardableHasLsa, ConfiguredAreKnown

\* A step in which a daemon dies and the net is left or a datagram read off it.
LEMMA DieType ==
    ASSUME TypeInv, NEW n \in Node, Die(n), net' \subseteq net
    PROVE  TypeInv'
<1>1. DOMAIN rt' = Node
      /\ \A i \in Node : IsRoutingTable(i, rt'[i]) /\ Forwardable(rt'[i])
                         /\ (i # n => rt'[i] = rt[i])
  BY EmptyTypes DEF Die, TypeInv, TypeOK, ForwardableHasLsa
<1>2. DOMAIN gol' = Node /\ \A i \in Node : IsObjectTable(gol'[i])
  BY EmptyTypes DEF Die, TypeInv, TypeOK
<1>3. /\ up' \in [Node -> BOOLEAN]
      /\ ol' \in [Node -> SUBSET Names]
      /\ sequence_number' \in [Node -> Nat]
      /\ iterations' \in [Node -> 1 .. FLOODING_PERIOD]
      /\ deaths' \in Nat
  BY ParameterAssumption DEF Die, TypeInv, TypeOK
<1>4. TypeOK'
  BY <1>1, <1>2, <1>3 DEF Die, TypeInv, TypeOK
<1>5. ConfiguredAreKnown'
  BY <1>1 DEF Die, TypeInv, TypeOK, ConfiguredAreKnown
<1>6. ForwardableHasLsa' /\ DatagramsFollowLinks'
  BY <1>1 DEF TypeInv, ForwardableHasLsa, DatagramsFollowLinks
<1> QED BY <1>4, <1>5, <1>6 DEF TypeInv

LEMMA StartType ==
    ASSUME TypeInv, NEW n \in Node, Start(n)
    PROVE  TypeInv'
<1>1. /\ up' = [up EXCEPT ![n] = TRUE]
      /\ rt' = [rt EXCEPT ![n] = load_node_conf(n)]
      /\ gol' = [gol EXCEPT ![n] = load_node_file(n, files[n])]
      /\ ol' = [ol EXCEPT ![n] = files[n]]
      /\ UNCHANGED <<sequence_number, iterations, files, net, losses, deaths>>
  BY DEF Start
<1>2. DOMAIN rt' = Node
      /\ \A i \in Node : IsRoutingTable(i, rt'[i]) /\ Forwardable(rt'[i])
                         /\ (i # n => rt'[i] = rt[i])
  BY <1>1, LoadedTable DEF TypeInv, TypeOK, ForwardableHasLsa
<1>3. DOMAIN gol' = Node /\ \A i \in Node : IsObjectTable(gol'[i])
  <2>1. IsObjectTable(load_node_file(n, files[n]))
    BY LoadedFileType DEF TypeInv, TypeOK
  <2> QED BY <1>1, <2>1, ObjectsKept DEF TypeInv
<1>4. up' \in [Node -> BOOLEAN] /\ ol' \in [Node -> SUBSET Names]
  BY <1>1 DEF TypeInv, TypeOK
<1>5. TypeOK'
  BY <1>1, <1>2, <1>3, <1>4 DEF TypeInv, TypeOK
<1>6. ConfiguredAreKnown'
  <2>1. rt'[n] = load_node_conf(n)
    BY <1>1 DEF TypeInv, TypeOK
  <2> QED BY <1>1, <1>2, <2>1, LoadedTable DEF TypeInv, TypeOK, ConfiguredAreKnown
<1>7. ForwardableHasLsa' /\ DatagramsFollowLinks'
  BY <1>1, <1>2 DEF TypeInv, ForwardableHasLsa, DatagramsFollowLinks
<1> QED BY <1>5, <1>6, <1>7 DEF TypeInv

LEMMA AddFileType ==
    ASSUME TypeInv, NEW n \in Node, NEW o \in Names, AddFile(n, o)
    PROVE  TypeInv'
<1>1. gol' = [gol EXCEPT ![n] = hash_add(gol[n], {o}, n, 0)]
  BY DEF AddFile
<1>2. IsObjectTable(hash_add(gol[n], {o}, n, 0))
  BY AddedType DEF TypeInv, TypeOK
<1>3. DOMAIN gol' = Node /\ \A i \in Node : IsObjectTable(gol'[i])
  BY <1>1, <1>2, ObjectsKept DEF TypeInv
<1>4. ol' \in [Node -> SUBSET Names] /\ files' \in [Node -> SUBSET Names]
  BY DEF AddFile, TypeInv, TypeOK
<1> QED BY <1>3, <1>4
        DEF AddFile, TypeInv, TypeOK, ForwardableHasLsa, ConfiguredAreKnown,
            DatagramsFollowLinks

LEMMA LoseType ==
    ASSUME TypeInv, NEW m \in net, Lose(m)
    PROVE  TypeInv'
BY DEF Lose, memory, TypeInv, TypeOK, ForwardableHasLsa, ConfiguredAreKnown,
       DatagramsFollowLinks

LEMMA HandlerType ==
    ASSUME TypeInv, NEW n \in Node, lsa_handler(n)
    PROVE  TypeInv'
<1>1. PICK m \in net :
          /\ m.dst = n
          /\ up[n]
          /\ \/ IgnoreDatagram(n, m)
             \/ AcceptLsa(n, m)
             \/ AcceptAck(n, m)
             \/ AckOfLearnedEntry(n, m)
             \/ AckWithoutEntry(n, m)
  BY DEF lsa_handler
<1>2. CASE IgnoreDatagram(n, m)
  BY <1>2, IgnoreDatagramType
<1>3. CASE AcceptLsa(n, m)
  BY <1>1, <1>3, AcceptLsaType
<1>4. CASE AcceptAck(n, m)
  BY <1>1, <1>4, CreditType DEF AcceptAck
<1>5. CASE AckOfLearnedEntry(n, m)
  <2>1. net' = Rest(m) /\ net' \subseteq net
    BY <1>5 DEF AckOfLearnedEntry, Rest
  <2>2. CASE UNCHANGED <<up, memory, files, losses, deaths>>
    BY <2>1, <2>2
       DEF memory, TypeInv, TypeOK, ForwardableHasLsa, ConfiguredAreKnown,
           DatagramsFollowLinks
  <2>3. CASE /\ CreditAck(n, Forwarder(n, m))
             /\ UNCHANGED <<up, gol, ol, sequence_number, iterations, files, losses,
                            deaths>>
    BY <1>1, <2>1, <2>3, CreditType
  <2>4. CASE Die(n)
    BY <2>1, <2>4, DieType
  <2> QED BY <1>5, <2>2, <2>3, <2>4 DEF AckOfLearnedEntry
<1>6. CASE AckWithoutEntry(n, m)
  <2>1. net' \subseteq net /\ Die(n)
    BY <1>6 DEF AckWithoutEntry, Rest
  <2> QED BY <2>1, DieType
<1> QED BY <1>1, <1>2, <1>3, <1>4, <1>5, <1>6

LEMMA InitType == Init => TypeInv
<1> SUFFICES ASSUME Init PROVE TypeInv
  OBVIOUS
<1>1. DOMAIN rt = Node
      /\ \A n \in Node : /\ IsRoutingTable(n, rt[n])
                         /\ Forwardable(rt[n])
                         /\ up[n] => Configured(n) \subseteq DOMAIN rt[n]
  BY LoadedTable, EmptyTypes DEF Init
<1>2. DOMAIN gol = Node /\ \A n \in Node : IsObjectTable(gol[n])
  <2>1. \A n \in Node : IsObjectTable(load_node_file(n, InitFiles[n]))
    BY LoadedFileType, FilesAssumption
  <2> QED BY <2>1, EmptyTypes DEF Init
<1>3. /\ up \in [Node -> BOOLEAN]
      /\ ol \in [Node -> SUBSET Names] /\ files \in [Node -> SUBSET Names]
      /\ sequence_number \in [Node -> Nat]
      /\ iterations \in [Node -> 1 .. FLOODING_PERIOD]
      /\ net \subseteq Datagrams /\ losses \in Nat /\ deaths \in Nat
  BY FilesAssumption, ParameterAssumption DEF Init
<1> QED BY <1>1, <1>2, <1>3
        DEF Init, TypeInv, TypeOK, ForwardableHasLsa, ConfiguredAreKnown,
            DatagramsFollowLinks

LEMMA StepType == TypeInv /\ [Next]_vars => TypeInv'
<1> SUFFICES ASSUME TypeInv, [Next]_vars PROVE TypeInv'
  OBVIOUS
<1>1. ASSUME NEW n \in Node, Tick(n) PROVE TypeInv'
  BY <1>1, FloodTickType, RetransmitTickType, IdleTickType DEF Tick
<1>2. ASSUME NEW n \in Node, lsa_handler(n) PROVE TypeInv'
  BY <1>2, HandlerType
<1>3. ASSUME NEW n \in Node, Crash(n) PROVE TypeInv'
  BY <1>3, DieType DEF Crash
<1>4. ASSUME NEW n \in Node, Start(n) PROVE TypeInv'
  BY <1>4, StartType
<1>5. ASSUME NEW n \in Node, NEW o \in Names, AddFile(n, o) PROVE TypeInv'
  BY <1>5, AddFileType
<1>6. ASSUME NEW m \in net, Lose(m) PROVE TypeInv'
  BY <1>6, LoseType
<1>7. CASE UNCHANGED vars
  BY <1>7 DEF vars, memory, TypeInv, TypeOK, ForwardableHasLsa, ConfiguredAreKnown,
              DatagramsFollowLinks
<1> QED BY <1>1, <1>2, <1>3, <1>4, <1>5, <1>6, <1>7 DEF Next

THEOREM TypeInvIsInvariant == Spec => []TypeInv
BY InitType, StepType, PTL DEF Spec

\* Every variable always has its type, in every network.
THEOREM TypeCorrect == Spec => []TypeOK
<1>1. TypeInv => TypeOK
  BY DEF TypeInv
<1> QED BY <1>1, TypeInvIsInvariant, PTL

\* flood_received_lsa never reads through a NULL LSA (engine_actions.c:91-94),
\* whatever crashes, restarts, losses and duplications there were.
THEOREM NoNullLsaIsForwarded == Spec => []ForwardableHasLsa
<1>1. TypeInv => ForwardableHasLsa
  BY DEF TypeInv
<1> QED BY <1>1, TypeInvIsInvariant, PTL
=============================================================================
