----------------------------- MODULE PairProofs -----------------------------
(***************************************************************************)
(* Networks in which a daemon has one neighbour at most.  There is never   *)
(* more than one datagram between the two, and it carries the last LSA of  *)
(* one of them: by the next timeout that LSA is acknowledged.  Where the   *)
(* clocks are even as well, the two flood in turns, and neither gives the  *)
(* other up.  With a third daemon the former is false (LineAck).           *)
(***************************************************************************)
EXTENDS RoutingDaemonProofs

\* Networks of pairs whose daemons run from the beginning, on a network that
\* delivers everything in time, once.
PairNetwork ==
    /\ \A n \in Node : Len(Conf[n]) <= 2
    /\ Booted = Node
    /\ Timely /\ ~Duplicating
    /\ MaxLosses = 0 /\ MaxDeaths = 0

AllRun == deaths = 0 /\ \A n \in Node : up[n]

OneInTransit == \A m, d \in net : m.src \in {d.src, d.dst} => m = d

\* What is on the way is the last LSA of the one, not yet held by the other, or
\* its ACK.
LastLsaInTransit ==
    \A m \in net :
        /\ m.sender_node_id = IF m.type = "LSA" THEN m.src ELSE m.dst
        /\ m.lsa.sequence_num = sequence_number[m.sender_node_id] - 1
        /\ m.type = "LSA" /\ rt[m.dst][m.src].lsa # NULL =>
               rt[m.dst][m.src].lsa.sequence_num < m.lsa.sequence_num

\* A table has no entries but those of the pair, each learnt from its originator.
PairTables ==
    \A n \in Node :
        /\ DOMAIN rt[n] = Configured(n)
        /\ \A k \in Configured(n) :
               rt[n][k].lsa # NULL =>
                   /\ rt[n][k].forwarder_id = k
                   /\ rt[n][k].lsa.sequence_num < sequence_number[k]
                   /\ k = n => rt[n][k].lsa.sequence_num = sequence_number[k] - 1

\* Every ACK a daemon waits for is still to come.
Awaited ==
    \A n \in Node : \A j \in Nbrs(n) :
        \/ rt[n][n].checkers[j].ack_received
        \/ \E m \in net : m.sender_node_id = n

AckInv ==
    /\ TypeInv /\ AllRun
    /\ OneInTransit /\ LastLsaInTransit /\ PairTables /\ Awaited

LEMMA Partner ==
    ASSUME PairNetwork, NEW n \in Node
    PROVE  \A i, j \in Nbrs(n) : i = j
<1>1. Len(Conf[n]) \in Nat /\ Len(Conf[n]) <= 2
  BY ConfAssumption DEF PairNetwork
<1> QED BY <1>1 DEF Nbrs

\* The forwarder of a datagram is its source.
LEMMA PartnerForwards ==
    ASSUME PairNetwork, NEW n \in Node, NEW m, m.src \in Nbrs(n)
    PROVE  Forwarder(n, m) = m.src
BY Partner, ForwarderIsNeighbour

\* A datagram is between a node and its one neighbour.
LEMMA Ends ==
    ASSUME PairNetwork, AckInv, NEW m \in net
    PROVE  /\ m \in Datagrams /\ m.type \in {"LSA", "ACK"}
           /\ m.src \in Node /\ m.dst \in Node /\ m.src # m.dst
           /\ m.src \in Nbrs(m.dst) /\ m.dst \in Nbrs(m.src)
           /\ Nbrs(m.src) = {m.dst} /\ Nbrs(m.dst) = {m.src}
           /\ m.sender_node_id \in {m.src, m.dst}
<1>1. m \in Datagrams /\ m.src \in Nbrs(m.dst)
  BY DEF AckInv, TypeInv, TypeOK, DatagramsFollowLinks
<1>2. m.src \in Node /\ m.dst \in Node /\ m.type \in {"LSA", "ACK"}
  BY <1>1 DEF Datagrams
<1>3. m.dst \in Nbrs(m.src) /\ m.src # m.dst
  BY <1>1, <1>2, Links
<1>4. Nbrs(m.src) = {m.dst} /\ Nbrs(m.dst) = {m.src}
  BY <1>1, <1>2, <1>3, Partner
<1>5. m.sender_node_id \in {m.src, m.dst}
  BY DEF AckInv, LastLsaInTransit
<1> QED BY <1>1, <1>2, <1>3, <1>4, <1>5

LEMMA Running ==
    ASSUME AckInv, NEW n \in Node
    PROVE  /\ up[n] /\ n \in DOMAIN rt[n] /\ DOMAIN rt[n] = Configured(n)
           /\ IsRoutingTable(n, rt[n]) /\ rt[n][n] \in Entries(n)
           /\ sequence_number[n] \in Nat /\ iterations[n] \in 1 .. FLOODING_PERIOD
           /\ \A k \in Configured(n) : rt[n][k] \in Entries(n) /\ k \in Node
<1>1. IsRoutingTable(n, rt[n]) /\ DOMAIN rt[n] = Configured(n) /\ n \in Configured(n)
  BY DEF AckInv, TypeInv, TypeOK, PairTables, Configured
<1> QED BY <1>1 DEF AckInv, AllRun, TypeInv, TypeOK, IsRoutingTable

\* At a timeout nothing is on the way from or to the daemon or its neighbour,
\* and nothing is waited for.
LEMMA QuietAtTimeout ==
    ASSUME PairNetwork, AckInv, NEW n \in Node, Timeout(n)
    PROVE  /\ \A m \in net : \A i \in {n} \cup Nbrs(n) :
                  m.src # i /\ m.dst # i /\ m.sender_node_id # i
           /\ \A j \in Nbrs(n) : rt[n][n].checkers[j].ack_received
<1>1. ASSUME NEW m \in net PROVE m.src # n /\ m.dst # n
  BY DEF Timeout, PairNetwork
<1>2. ASSUME NEW m \in net, NEW i \in Nbrs(n) PROVE m.src # i /\ m.dst # i
  <2>1. n \in Nbrs(i) /\ i \in Node
    BY Links
  <2>2. m.src # i
    BY <1>1, <2>1, Ends
  <2>3. m.dst # i
    BY <1>1, <2>1, Ends
  <2> QED BY <2>2, <2>3
<1>3. \A m \in net : \A i \in {n} \cup Nbrs(n) :
          m.src # i /\ m.dst # i /\ m.sender_node_id # i
  BY <1>1, <1>2, Ends
<1>4. \A j \in Nbrs(n) : rt[n][n].checkers[j].ack_received
  BY <1>3 DEF AckInv, Awaited
<1> QED BY <1>3, <1>4

\* retransmit_missing finds nothing to send again, and nobody to give up.
LEMMA NothingMissing ==
    ASSUME PairNetwork, AckInv, NEW n \in Node, Timeout(n)
    PROVE  GivenUp(n) = {} /\ \A k \in DOMAIN rt[n] : ResendTo(n, k) = {}
<1>1. ASSUME NEW k \in Visited(n) PROVE Missing(n, k) = {}
  <2>1. k \in Configured(n) /\ rt[n][k].forwarder_id = k
    BY VisitedHasLsa, Running DEF AckInv, PairTables
  <2>2. CASE k = n
    BY <2>2, QuietAtTimeout DEF Missing
  <2>3. CASE k # n
    <3>1. k \in Nbrs(n)
      BY <2>1, <2>3 DEF Configured
    <3> QED BY <2>1, <3>1, Partner DEF Missing
  <2> QED BY <2>2, <2>3
<1>2. \A k \in Visited(n) : Exhausted(n, k) = {}
  BY <1>1 DEF Exhausted
<1> QED BY <1>1, <1>2 DEF GivenUp, ResendTo

\* flood_received_lsa has nowhere to forward the neighbour's LSA to.
LEMMA NothingForwarded ==
    ASSUME PairNetwork, AckInv, NEW n \in Node, NEW k \in DOMAIN rt[n]
    PROVE  ForwardTo(n, k) = {}
<1>1. SUFFICES ASSUME k # n, rt[n][k].lsa_is_new, rt[n][k].node_status # STATUS_DOWN
               PROVE  ForwardTo(n, k) = {}
  BY DEF ForwardTo
<1>2. rt[n][k].lsa # NULL
  BY <1>1 DEF AckInv, TypeInv, ForwardableHasLsa, Forwardable
<1>3. rt[n][k].forwarder_id = k /\ k \in Nbrs(n)
  BY <1>1, <1>2 DEF AckInv, PairTables, Configured
<1> QED BY <1>3, Partner DEF ForwardTo

(***************************************************************************)
(* Each action preserves AckInv.                                           *)
(***************************************************************************)

LEMMA FloodedForwarder ==
    ASSUME TypeInv, NEW n \in Node, NEW k \in DOMAIN rt[n]
    PROVE  LET e == TableAfterFlood(n)[k]
           IN  IF k = n
               THEN e.forwarder_id = n
                    /\ e.checkers = Awaiting(FreshCheckers(n), FloodTo(n))
               ELSE e.forwarder_id = rt[n][k].forwarder_id
<1> DEFINE own == update_entry(n, rt[n], n, OwnLSA(n), n)
           e == TableAfterFlood(n)[k]
<1>1. IsRoutingTable(n, rt[n])
  BY DEF TypeInv, TypeOK
<1>2. own \in Entries(n) /\ rt[n][k] \in Entries(n) /\ own.checkers = FreshCheckers(n)
  BY <1>1, OwnLSAType, UpdatedEntry DEF TypeInv, IsRoutingTable
<1>3. own.forwarder_id = n
  BY DEF update_entry
<1>4. e = IF k = n
          THEN [own EXCEPT !.checkers = Awaiting(@, FloodTo(n))]
          ELSE [rt[n][k] EXCEPT
                  !.node_status = Countdown(@),
                  !.lsa = IF k \in TimedOut(n) THEN NULL ELSE @,
                  !.checkers = Awaiting(@, ForwardTo(n, k))]
  BY DEF TableAfterFlood
<1> HIDE DEF own, e
<1>5. CASE k = n
  BY <1>2, <1>3, <1>4, <1>5 DEF Entries, e
<1>6. CASE k # n
  BY <1>2, <1>4, <1>6 DEF Entries, e
<1> QED BY <1>5, <1>6

LEMMA ResentForwarder ==
    ASSUME TypeInv, NEW n \in Node, NEW k \in DOMAIN rt[n]
    PROVE  /\ TableAfterResend(n)[k].forwarder_id = rt[n][k].forwarder_id
           /\ TableAfterResend(n)[k].checkers = CheckersAfterResend(n, k)
<1>1. rt[n][k] \in Entries(n)
  BY DEF TypeInv, TypeOK, IsRoutingTable
<1>2. TableAfterResend(n)[k] =
        [rt[n][k] EXCEPT
            !.node_status = IF k \in GivenUp(n) THEN STATUS_DOWN ELSE @,
            !.lsa = IF k \in GivenUp(n) THEN NULL ELSE @,
            !.checkers = CheckersAfterResend(n, k)]
  BY DEF TableAfterResend
<1> QED BY <1>1, <1>2 DEF Entries

LEMMA CreditedForwarder ==
    ASSUME TypeInv, NEW n \in Node, up[n], NEW f \in Nbrs(n), CreditAck(n, f)
    PROVE  /\ \A i \in Node : \A k \in DOMAIN rt[i] :
                  rt'[i][k].forwarder_id = rt[i][k].forwarder_id
           /\ \A i \in Node : i # n => rt'[i] = rt[i]
           /\ rt'[n][n].checkers[f].ack_received
<1> DEFINE c == [rt[n][n].checkers EXCEPT ![f] = [ack_received |-> TRUE, retransmit |-> 0]]
           e == [rt[n][n] EXCEPT !.checkers = c]
<1>1. rt' = [rt EXCEPT ![n] = [rt[n] EXCEPT ![n] = e]]
  BY DEF CreditAck
<1>2. n \in DOMAIN rt[n] /\ DOMAIN rt = Node
  BY DEF TypeInv, TypeOK, ConfiguredAreKnown, Configured
<1>3. rt[n][n] \in Entries(n)
  BY <1>2 DEF TypeInv, TypeOK, IsRoutingTable
<1>4. c[f].ack_received
  BY <1>3 DEF Entries, Checkers
<1>5. e.forwarder_id = rt[n][n].forwarder_id /\ e.checkers = c
  <2> HIDE DEF c
  <2> QED BY <1>3 DEF Entries
<1> HIDE DEF e, c
<1>6. \A i \in Node : i # n => rt'[i] = rt[i]
  BY <1>1, <1>2
<1>7. rt'[n][n] = e /\ \A k \in DOMAIN rt[n] : k # n => rt'[n][k] = rt[n][k]
  BY <1>1, <1>2
<1> QED BY <1>4, <1>5, <1>6, <1>7

\* A step that learns and sends nothing.
LEMMA AckQuiet ==
    ASSUME PairNetwork, AckInv, TypeInv', net' \subseteq net,
           UNCHANGED <<up, deaths, sequence_number>>,
           \A i \in Node :
               /\ DOMAIN rt'[i] = DOMAIN rt[i]
               /\ \A k \in DOMAIN rt[i] :
                      /\ rt'[i][k].lsa \in {NULL, rt[i][k].lsa}
                      /\ rt'[i][k].forwarder_id = rt[i][k].forwarder_id,
           Awaited'
    PROVE  AckInv'
<1>1. AllRun' /\ OneInTransit'
  BY DEF AckInv, AllRun, OneInTransit
<1>2. LastLsaInTransit'
  <2>1. SUFFICES ASSUME NEW m \in net'
                 PROVE  /\ m.sender_node_id = IF m.type = "LSA" THEN m.src ELSE m.dst
                        /\ m.lsa.sequence_num = sequence_number[m.sender_node_id] - 1
                        /\ m.type = "LSA" /\ rt'[m.dst][m.src].lsa # NULL =>
                               rt'[m.dst][m.src].lsa.sequence_num < m.lsa.sequence_num
    BY DEF LastLsaInTransit
  <2>2. m \in net /\ m.dst \in Node /\ m.src \in Configured(m.dst)
    BY Ends DEF Configured
  <2>3. m.src \in DOMAIN rt[m.dst]
    BY <2>2, Running
  <2> QED BY <2>2, <2>3 DEF AckInv, LastLsaInTransit
<1>3. PairTables'
  BY DEF AckInv, PairTables
<1> QED BY <1>1, <1>2, <1>3 DEF AckInv

LEMMA FloodAck ==
    ASSUME PairNetwork, AckInv, NEW n \in Node, FloodTick(n)
    PROVE  AckInv'
<1> DEFINE own == {Datagram("LSA", n, j, n, OwnLSA(n)) : j \in FloodTo(n)}
           t == TableAfterFlood(n)
<1>1. TypeInv /\ TypeInv' /\ Timeout(n)
  BY FloodTickType DEF AckInv, FloodTick
<1>2. /\ rt' = [rt EXCEPT ![n] = t]
      /\ net' = net \cup own
      /\ sequence_number' = [sequence_number EXCEPT ![n] = @ + 1]
      /\ UNCHANGED <<up, deaths>>
  BY NothingForwarded DEF FloodTick
<1>3. rt'[n] = t /\ \A i \in Node : i # n => rt'[i] = rt[i]
  BY <1>1, <1>2 DEF TypeInv, TypeOK
<1>4. /\ sequence_number[n] \in Nat /\ sequence_number'[n] = sequence_number[n] + 1
      /\ \A i \in Node : i # n => sequence_number'[i] = sequence_number[i]
      /\ \A i \in Node : sequence_number[i] \in Nat
  BY <1>1, <1>2 DEF TypeInv, TypeOK
<1>5. FloodTo(n) \subseteq Nbrs(n) /\ Nbrs(n) \subseteq Node /\ n \notin Nbrs(n)
  BY Links DEF FloodTo
<1>6. ASSUME NEW m \in own
      PROVE  /\ m.type = "LSA" /\ m.src = n /\ m.dst \in Nbrs(n) /\ m.sender_node_id = n
             /\ m.lsa = OwnLSA(n) /\ m.lsa.sequence_num = sequence_number[n]
  BY <1>5 DEF Datagram, OwnLSA, LSA
<1>7. \A m, d \in own : m = d
  BY <1>5, Partner
<1>8. \A m \in net : \A i \in {n} \cup Nbrs(n) :
          m.src # i /\ m.dst # i /\ m.sender_node_id # i
  BY <1>1, QuietAtTimeout
<1>9. OneInTransit'
  <2> HIDE DEF own
  <2>1. SUFFICES ASSUME NEW m \in net', NEW d \in net', m.src \in {d.src, d.dst}
                 PROVE  m = d
    BY DEF OneInTransit
  <2>2. CASE m \in net /\ d \in net
    BY <2>1, <2>2 DEF AckInv, OneInTransit
  <2>3. CASE m \in net /\ d \in own
    BY <1>6, <1>8, <2>1, <2>3
  <2>4. CASE m \in own /\ d \in net
    BY <1>6, <1>8, <2>1, <2>4
  <2>5. CASE m \in own /\ d \in own
    BY <1>7, <2>5
  <2> QED BY <1>2, <2>2, <2>3, <2>4, <2>5
<1>10. LastLsaInTransit'
  <2>1. SUFFICES ASSUME NEW m \in net'
                 PROVE  /\ m.sender_node_id = IF m.type = "LSA" THEN m.src ELSE m.dst
                        /\ m.lsa.sequence_num = sequence_number'[m.sender_node_id] - 1
                        /\ m.type = "LSA" /\ rt'[m.dst][m.src].lsa # NULL =>
                               rt'[m.dst][m.src].lsa.sequence_num < m.lsa.sequence_num
    BY DEF LastLsaInTransit
  <2>2. CASE m \in net
    <3>1. m.dst \in Node /\ m.dst # n /\ m.sender_node_id \in Node /\ m.sender_node_id # n
      BY <1>8, <2>2, Ends
    <3> QED BY <1>3, <1>4, <2>2, <3>1 DEF AckInv, LastLsaInTransit
  <2>3. CASE m \in own
    <3>1. m.dst \in Node /\ m.dst # n /\ n \in Configured(m.dst)
      BY <1>5, <1>6, <2>3, Links DEF Configured
    <3>2. rt'[m.dst][n].lsa # NULL =>
              rt'[m.dst][n].lsa.sequence_num < sequence_number[n]
      BY <1>3, <3>1 DEF AckInv, PairTables
    <3> HIDE DEF own
    <3> QED BY <1>4, <1>6, <2>3, <3>2
  <2> QED BY <1>2, <2>1, <2>2, <2>3
<1>11. PairTables'
  <2>1. SUFFICES ASSUME NEW i \in Node
                 PROVE  /\ DOMAIN rt'[i] = Configured(i)
                        /\ \A k \in Configured(i) :
                               rt'[i][k].lsa # NULL =>
                                   /\ rt'[i][k].forwarder_id = k
                                   /\ rt'[i][k].lsa.sequence_num < sequence_number'[k]
                                   /\ k = i => rt'[i][k].lsa.sequence_num
                                                   = sequence_number'[k] - 1
    BY DEF PairTables
  <2>2. \A k \in Configured(i) : k \in Node
    BY Running
  <2>3. \A k \in Configured(i) : rt[i][k].lsa # NULL => rt[i][k].lsa.sequence_num \in Nat
    BY Running DEF Entries, LSAs
  <2>4. CASE i # n
    BY <1>3, <1>4, <2>2, <2>3, <2>4 DEF AckInv, PairTables
  <2>5. CASE i = n
    <3>1. DOMAIN t = DOMAIN rt[n] /\ DOMAIN rt[n] = Configured(n)
      BY <1>1, FloodedTable, Running
    <3>2. t[n].lsa = OwnLSA(n) /\ t[n].forwarder_id = n
      <4>1. update_entry(n, rt[n], n, OwnLSA(n), n).lsa = OwnLSA(n)
        BY DEF update_entry
      <4> QED BY <1>1, <4>1, FloodedFields, FloodedForwarder, Running
    <3>3. OwnLSA(n).sequence_num = sequence_number[n]
      BY DEF OwnLSA, LSA
    <3>4. ASSUME NEW k \in Configured(n), k # n
          PROVE  t[k].lsa \in {NULL, rt[n][k].lsa}
                 /\ t[k].forwarder_id = rt[n][k].forwarder_id
      BY <1>1, <3>1, <3>4, FloodedFields, FloodedForwarder
    <3> HIDE DEF t
    <3> QED BY <1>3, <1>4, <2>2, <2>5, <3>1, <3>2, <3>3, <3>4 DEF AckInv, PairTables
  <2> QED BY <2>4, <2>5
<1>12. Awaited'
  <2>1. SUFFICES ASSUME NEW i \in Node, NEW j \in Nbrs(i)
                 PROVE  \/ rt'[i][i].checkers[j].ack_received
                        \/ \E m \in net' : m.sender_node_id = i
    BY DEF Awaited
  <2>2. CASE i # n
    BY <1>2, <1>3, <2>2 DEF AckInv, Awaited
  <2>3. CASE i = n /\ j \in FloodTo(n)
    <3>1. Datagram("LSA", n, j, n, OwnLSA(n)) \in own
      BY <2>3
    <3> HIDE DEF own
    <3> QED BY <1>2, <1>6, <2>3, <3>1
  <2>4. CASE i = n /\ j \notin FloodTo(n)
    <3>1. t[n].checkers = Awaiting(FreshCheckers(n), FloodTo(n))
      BY <1>1, FloodedForwarder, Running
    <3>2. Awaiting(FreshCheckers(n), FloodTo(n))[j].ack_received
      BY <2>4 DEF Awaiting, FreshCheckers
    <3> QED BY <1>3, <2>4, <3>1, <3>2
  <2> QED BY <2>2, <2>3, <2>4
<1>13. AllRun'
  BY <1>2 DEF AckInv, AllRun
<1> QED BY <1>1, <1>9, <1>10, <1>11, <1>12, <1>13 DEF AckInv

LEMMA ResendAck ==
    ASSUME PairNetwork, AckInv, NEW n \in Node, RetransmitTick(n)
    PROVE  AckInv' /\ net' = net
<1> DEFINE t == TableAfterResend(n)
<1>1. TypeInv /\ TypeInv' /\ Timeout(n)
  BY RetransmitTickType DEF AckInv, RetransmitTick
<1>2. /\ rt' = [rt EXCEPT ![n] = t]
      /\ UNCHANGED <<up, deaths, sequence_number>>
  BY DEF RetransmitTick
<1>3. net' = net
  BY <1>1, NothingMissing DEF RetransmitTick
<1>4. rt'[n] = t /\ \A i \in Node : i # n => rt'[i] = rt[i]
  BY <1>1, <1>2 DEF TypeInv, TypeOK
<1>5. DOMAIN t = DOMAIN rt[n]
  BY <1>1, ResentTable
<1>6. ASSUME NEW k \in DOMAIN rt[n]
      PROVE  t[k].lsa \in {NULL, rt[n][k].lsa} /\ t[k].forwarder_id = rt[n][k].forwarder_id
  BY <1>1, ResentFields, ResentForwarder
<1>7. Awaited'
  <2>1. ASSUME NEW j \in Nbrs(n), rt[n][n].checkers[j].ack_received
        PROVE  t[n].checkers[j].ack_received
    <3>1. t[n].checkers = CheckersAfterResend(n, n)
      BY <1>1, ResentForwarder, Running
    <3>2. rt[n][n].checkers[j] \in [ack_received : BOOLEAN, retransmit : Nat]
      BY Running DEF Entries, Checkers
    <3>3. CheckersAfterResend(n, n)[j].ack_received
      BY <2>1, <3>2 DEF CheckersAfterResend
    <3> QED BY <3>1, <3>3
  <2> HIDE DEF t
  <2> QED BY <1>3, <1>4, <2>1 DEF AckInv, Awaited
<1> HIDE DEF t
<1>8. AckInv'
  BY <1>1, <1>2, <1>3, <1>4, <1>5, <1>6, <1>7, AckQuiet
<1> QED BY <1>3, <1>8

LEMMA AcceptAckInv ==
    ASSUME PairNetwork, AckInv, NEW n \in Node, NEW d \in net, d.dst = n, AcceptLsa(n, d)
    PROVE  AckInv'
<1> DEFINE ack == Datagram("ACK", n, d.src, d.src, d.lsa)
           t == TableAfterLsa(n, d)
           j == d.src
<1>1. TypeInv /\ TypeInv' /\ d.type = "LSA" /\ up[n]
  BY AcceptLsaType, Running DEF AckInv, AcceptLsa
<1>2. /\ d \in Datagrams /\ j \in Nbrs(n) /\ j \in Node /\ j # n
      /\ n \in Nbrs(j) /\ Nbrs(n) = {j} /\ Nbrs(j) = {n}
  BY Ends
<1>3. d.sender_node_id = j /\ d.lsa.sequence_num = sequence_number[j] - 1
  BY <1>1 DEF AckInv, LastLsaInTransit
<1>4. Forwarder(n, d) = j
  BY <1>2, PartnerForwards
<1>5. /\ rt' = [rt EXCEPT ![n] = t]
      /\ net' = (net \ {d}) \cup {ack}
      /\ UNCHANGED <<up, deaths, sequence_number>>
  BY <1>3, <1>4 DEF AcceptLsa, Rest, PairNetwork
<1>6. rt'[n] = t /\ \A i \in Node : i # n => rt'[i] = rt[i]
  BY <1>1, <1>5 DEF TypeInv, TypeOK
<1>7. /\ ack.type = "ACK" /\ ack.src = n /\ ack.dst = j /\ ack.sender_node_id = j
      /\ ack.lsa = d.lsa
  BY DEF Datagram
<1>8. ASSUME NEW m \in net, m # d
      PROVE  m.src # n /\ m.dst # n /\ m.src # j /\ m.dst # j /\ m.dst \in Node
  <2>1. m.src # n /\ m.src # j
    BY <1>8 DEF AckInv, OneInTransit
  <2>2. m.dst # n /\ m.dst # j
    BY <1>2, <2>1, Ends
  <2> QED BY <2>1, <2>2, Ends
<1>9. OneInTransit'
  <2> HIDE DEF ack
  <2> QED BY <1>5, <1>7, <1>8 DEF AckInv, OneInTransit
<1>10. LastLsaInTransit'
  <2> HIDE DEF ack
  <2>1. SUFFICES ASSUME NEW m \in net'
                 PROVE  /\ m.sender_node_id = IF m.type = "LSA" THEN m.src ELSE m.dst
                        /\ m.lsa.sequence_num = sequence_number[m.sender_node_id] - 1
                        /\ m.type = "LSA" /\ rt'[m.dst][m.src].lsa # NULL =>
                               rt'[m.dst][m.src].lsa.sequence_num < m.lsa.sequence_num
    BY <1>5 DEF LastLsaInTransit
  <2>2. CASE m = ack
    BY <1>3, <1>7, <2>2
  <2>3. CASE m \in net /\ m # d
    BY <1>6, <1>8, <2>3 DEF AckInv, LastLsaInTransit
  <2> QED BY <1>5, <2>2, <2>3
<1>11. PairTables'
  <2>1. DOMAIN rt[n] = Configured(n) /\ j \in Configured(n)
    BY <1>2, Running DEF Configured
  <2>2. t[j] = update_entry(n, rt[n], j, Stored(d), j) /\ DOMAIN t = Configured(n)
        /\ \A k \in Configured(n) : k # j => t[k] = rt[n][k]
    BY <1>3, <1>4, <2>1 DEF TableAfterLsa
  <2>3. t[j].lsa = Stored(d) /\ t[j].forwarder_id = j
    BY <2>2 DEF update_entry
  <2>4. Stored(d).sequence_num = d.lsa.sequence_num
    BY <1>2 DEF Stored, Datagrams, LSAs
  <2>5. sequence_number[j] \in Nat
    BY <1>2, Running
  <2> HIDE DEF t
  <2> QED BY <1>2, <1>3, <1>5, <1>6, <2>1, <2>2, <2>3, <2>4, <2>5 DEF AckInv, PairTables
<1>12. Awaited'
  <2>1. \A i \in Node : rt'[i][i] = rt[i][i]
    BY <1>2, <1>3, <1>6, Running DEF TableAfterLsa
  <2>2. \A m \in net : \E a \in net' : a.sender_node_id = m.sender_node_id
    <3> HIDE DEF ack
    <3> QED BY <1>3, <1>5, <1>7
  <2> QED BY <2>1, <2>2 DEF AckInv, Awaited
<1>13. AllRun'
  BY <1>5 DEF AckInv, AllRun
<1> QED BY <1>1, <1>9, <1>10, <1>11, <1>12, <1>13 DEF AckInv

LEMMA CreditAckInv ==
    ASSUME PairNetwork, AckInv, NEW n \in Node, NEW m \in net, m.dst = n, AcceptAck(n, m)
    PROVE  AckInv'
<1>1. m.src \in Nbrs(n) /\ Forwarder(n, m) = m.src /\ Nbrs(n) = {m.src}
  BY Ends, PartnerForwards
<1>2. m.sender_node_id = n
  BY DEF AckInv, LastLsaInTransit, AcceptAck
<1>3. /\ CreditAck(n, m.src) /\ net' = net \ {m}
      /\ UNCHANGED <<up, gol, ol, sequence_number, iterations, files, losses, deaths>>
  BY <1>1 DEF AcceptAck, Rest, PairNetwork
<1>4. TypeInv /\ TypeInv' /\ up[n]
  <2>1. CreditAck(n, Forwarder(n, m)) /\ net' = Rest(m)
    BY DEF AcceptAck
  <2> QED BY <1>3, <2>1, CreditType, Running DEF AckInv
<1>5. \A i \in Node : DOMAIN rt'[i] = DOMAIN rt[i]
  BY <1>3, <1>4 DEF CreditAck, TypeInv, TypeOK
<1>6. \A i \in Node : \A k \in DOMAIN rt[i] :
          /\ rt'[i][k].lsa = rt[i][k].lsa
          /\ rt'[i][k].forwarder_id = rt[i][k].forwarder_id
  BY <1>1, <1>3, <1>4, CreditedFields, CreditedForwarder
<1>7. Awaited'
  <2>1. rt'[n][n].checkers[m.src].ack_received
    BY <1>1, <1>3, <1>4, CreditedForwarder
  <2>2. \A i \in Node : i # n => rt'[i] = rt[i]
    BY <1>1, <1>3, <1>4, CreditedForwarder
  <2> QED BY <1>1, <1>2, <1>3, <2>1, <2>2 DEF AckInv, Awaited
<1> QED BY <1>3, <1>4, <1>5, <1>6, <1>7, AckQuiet

\* Of lsa_handler's five ways only two are taken: nothing that arrives is
\* outdated, and an ACK finds its entry.
LEMMA HandlerPair ==
    ASSUME PairNetwork, AckInv, NEW n \in Node, NEW m \in net, m.dst = n
    PROVE  ~IgnoreDatagram(n, m) /\ ~AckOfLearnedEntry(n, m) /\ ~AckWithoutEntry(n, m)
<1>1. /\ m.type \in {"LSA", "ACK"} /\ m.src \in Nbrs(n)
      /\ n \in Configured(n) /\ m.src \in Configured(n)
      /\ DOMAIN rt[n] = Configured(n)
  BY Ends, Running DEF Configured
<1>2. m.sender_node_id = IF m.type = "LSA" THEN m.src ELSE n
  BY DEF AckInv, LastLsaInTransit
<1>3. ~AckOfLearnedEntry(n, m) /\ ~AckWithoutEntry(n, m)
  BY <1>1, <1>2 DEF AckOfLearnedEntry, AckWithoutEntry
<1>4. m.lsa.sequence_num = sequence_number[m.sender_node_id] - 1
  BY DEF AckInv, LastLsaInTransit
<1>5. ASSUME m.type = "LSA" PROVE ~Outdated(rt[n], m)
  <2>1. rt[n][m.src].lsa # NULL => rt[n][m.src].lsa.sequence_num < m.lsa.sequence_num
    BY <1>5 DEF AckInv, LastLsaInTransit
  <2>2. rt[n][m.src].lsa # NULL => rt[n][m.src].lsa.sequence_num \in Nat
    BY <1>1, Running DEF Entries, LSAs
  <2>3. m.lsa.sequence_num \in Nat
    BY Ends DEF Datagrams, LSAs
  <2> QED BY <1>2, <1>5, <2>1, <2>2, <2>3 DEF Outdated
<1>6. ASSUME m.type = "ACK" PROVE ~Outdated(rt[n], m)
  BY <1>1, <1>2, <1>4, <1>6 DEF Outdated, AckInv, PairTables
<1> QED BY <1>1, <1>3, <1>5, <1>6 DEF IgnoreDatagram

\* A step that leaves the tables and the network.
LEMMA UntouchedAck ==
    ASSUME PairNetwork, AckInv, TypeInv',
           UNCHANGED <<up, rt, net, deaths, sequence_number>>
    PROVE  AckInv'
<1>1. Awaited'
  BY DEF AckInv, Awaited
<1> QED BY <1>1, AckQuiet

\* What can happen in a network of pairs.
LEMMA PairSteps ==
    ASSUME PairNetwork, AckInv, [Next]_vars
    PROVE  \/ \E n \in Node : Tick(n)
           \/ \E n \in Node : \E m \in net :
                  m.dst = n /\ (AcceptLsa(n, m) \/ AcceptAck(n, m))
           \/ \E n \in Node, o \in Names : AddFile(n, o)
           \/ UNCHANGED vars
<1>1. ASSUME NEW n \in Node, Crash(n) \/ Start(n) PROVE FALSE
  BY <1>1, Running DEF Crash, Start, AckInv, AllRun, PairNetwork
<1>2. ASSUME NEW m \in net, Lose(m) PROVE FALSE
  BY <1>2, Ends, Running DEF Lose, PairNetwork, AckInv, TypeInv, TypeOK
<1>3. ASSUME NEW n \in Node, lsa_handler(n)
      PROVE  \E m \in net : m.dst = n /\ (AcceptLsa(n, m) \/ AcceptAck(n, m))
  BY <1>3, HandlerPair DEF lsa_handler
<1> QED BY <1>1, <1>2, <1>3 DEF Next

LEMMA StepAck ==
    ASSUME PairNetwork
    PROVE  AckInv /\ [Next]_vars => AckInv'
<1> SUFFICES ASSUME AckInv, [Next]_vars PROVE AckInv'
  OBVIOUS
<1>1. TypeInv'
  BY StepType DEF AckInv
<1>2. ASSUME NEW n \in Node, Tick(n) PROVE AckInv'
  BY <1>1, <1>2, FloodAck, ResendAck, UntouchedAck DEF Tick, IdleTick
<1>3. ASSUME NEW n \in Node, NEW m \in net, m.dst = n, AcceptLsa(n, m) \/ AcceptAck(n, m)
      PROVE  AckInv'
  BY <1>3, AcceptAckInv, CreditAckInv
<1>4. ASSUME NEW n \in Node, NEW o \in Names, AddFile(n, o) PROVE AckInv'
  BY <1>1, <1>4, UntouchedAck DEF AddFile
<1>5. CASE UNCHANGED vars
  BY <1>1, <1>5, UntouchedAck DEF vars, memory
<1> QED BY <1>2, <1>3, <1>4, <1>5, PairSteps

LEMMA InitAck ==
    ASSUME PairNetwork
    PROVE  Init => AckInv
<1> SUFFICES ASSUME Init PROVE AckInv
  OBVIOUS
<1>1. TypeInv
  BY InitType
<1>2. /\ net = {} /\ deaths = 0 /\ \A n \in Node : up[n]
      /\ \A n \in Node : rt[n] = load_node_conf(n)
  BY DEF Init, PairNetwork
<1>3. \A n \in Node : /\ DOMAIN rt[n] = Configured(n)
                      /\ \A k \in Configured(n) : rt[n][k] = LoadedEntry(n, k)
                      /\ n \in Configured(n)
  BY <1>2 DEF load_node_conf, Configured
<1>4. \A n \in Node : \A k \in Configured(n) : rt[n][k].lsa = NULL
  <2>1. \A n \in Node : \A k \in Configured(n) : LoadedEntry(n, k).lsa = NULL
    BY DEF LoadedEntry
  <2> QED BY <1>3, <2>1
<1>5. \A n \in Node : \A j \in Nbrs(n) : rt[n][n].checkers[j].ack_received
  <2>1. \A n \in Node : LoadedEntry(n, n).checkers = FreshCheckers(n)
    BY DEF LoadedEntry
  <2>2. \A n \in Node : \A j \in Nbrs(n) : FreshCheckers(n)[j].ack_received
    BY DEF FreshCheckers
  <2> QED BY <1>3, <2>1, <2>2
<1> QED BY <1>1, <1>2, <1>3, <1>4, <1>5
        DEF AckInv, AllRun, OneInTransit, LastLsaInTransit, PairTables, Awaited

\* flooding_engine.c:493, engine_actions.c:118: in a network of pairs whose
\* datagrams arrive in time, no timeout sends an LSA again, since each is
\* acknowledged by then, whoever holds whom to be down and however the clocks
\* drift apart.
THEOREM AcknowledgedIsNotResent ==
    ASSUME PairNetwork
    PROVE  Spec => RetransmitsOnlyWithoutAck
<1> DEFINE Quiet == \A n \in Node :
                        /\ iterations[n] <= RETRANSMIT_TIME
                        /\ iterations'[n] # iterations[n]
                        => net' \subseteq net
<1>1. AckInv /\ [Next]_vars => Quiet
  <2> SUFFICES ASSUME AckInv, [Next]_vars,
                      NEW n \in Node, iterations[n] <= RETRANSMIT_TIME,
                      iterations'[n] # iterations[n]
               PROVE  net' \subseteq net
    OBVIOUS
  <2>1. RETRANSMIT_TIME \in Nat /\ FLOODING_PERIOD \in Nat /\ FLOODING_PERIOD > RETRANSMIT_TIME
    BY ParameterAssumption
  <2>2. ASSUME NEW i \in Node, Tick(i) PROVE net' \subseteq net
    <3>1. iterations' = [iterations EXCEPT ![i] = AfterTimeout(@)]
      BY <2>2 DEF Tick, FloodTick, RetransmitTick, IdleTick
    <3>2. i = n
      BY <3>1 DEF AckInv, TypeInv, TypeOK
    <3>3. ~FloodTick(n)
      BY <2>1 DEF FloodTick
    <3>4. ~IdleTick(n)
      BY <2>1, Running DEF IdleTick
    <3>5. RetransmitTick(n)
      BY <2>2, <3>2, <3>3, <3>4 DEF Tick
    <3> QED BY <3>5, ResendAck
  <2>3. UNCHANGED iterations => FALSE
    OBVIOUS
  <2> QED BY <2>2, <2>3, PairSteps DEF AcceptLsa, AcceptAck, AddFile, vars, memory
<1>2. AckInv /\ [Next]_vars => AckInv'
  BY StepAck
<1>3. AckInv /\ [Next]_vars => [Quiet]_vars
  BY <1>1
<1>4. Init => AckInv
  BY InitAck
<1>5. Spec => [][Quiet]_vars
  <2> HIDE DEF Quiet
  <2> QED BY <1>2, <1>3, <1>4, PTL DEF Spec
<1> QED BY <1>5 DEF RetransmitsOnlyWithoutAck

(***************************************************************************)
(* Where the clocks do not drift apart either, the two daemons flood in    *)
(* turns, and each hears of the other before it has counted it down.       *)
(***************************************************************************)

\* No clock gains a period on another, all daemons may flood as often, and the
\* periods are no shorter than constants.h's 4 and load_node_conf's 3 need.
EvenClocks ==
    /\ EqualClocks
    /\ \A n, j \in Node : MaxSeq[n] = MaxSeq[j]
    /\ RETRANSMIT_TIME >= 3 /\ INITIAL_STATUS >= 2

\* Both have flooded as often, and their next timeouts are one apart at most.
Abreast(n, j) ==
    /\ sequence_number[n] = sequence_number[j]
    /\ iterations[n] <= iterations[j] + 1
    /\ iterations[j] <= iterations[n] + 1

\* n has just flooded, and j is about to.
OneAhead(n, j) ==
    /\ sequence_number[n] = sequence_number[j] + 1
    /\ iterations[n] = 1
    /\ iterations[j] = FLOODING_PERIOD

Lockstep ==
    \A n \in Node :
        /\ sequence_number[n] <= MaxSeq[n]
        /\ \A j \in Nbrs(n) : Abreast(n, j) \/ OneAhead(n, j) \/ OneAhead(j, n)

\* The status daemon n has of its neighbour j: what is left of it depends on
\* who has flooded more often, unless an LSA of j is on the way.
Refreshed ==
    \A n \in Node : \A j \in Nbrs(n) :
        /\ rt[n][j].node_status >= 1
        /\ (\A m \in net : m.type = "LSA" => m.sender_node_id # j) =>
               /\ sequence_number[j] >= sequence_number[n] => rt[n][j].node_status >= 2
               /\ sequence_number[j] > sequence_number[n] => rt[n][j].node_status >= 3

ClockInv == AckInv /\ Lockstep /\ Refreshed

\* A step in which no timeout comes and no status falls.
LEMMA ClockKept ==
    ASSUME PairNetwork, ClockInv, AckInv', UNCHANGED <<sequence_number, iterations>>,
           NEW read \in SUBSET net,
           \A m \in net : m \in net' \/ m.type # "LSA" \/ m \in read,
           \A n \in Node : \A j \in Nbrs(n) :
               \/ rt'[n][j].node_status >= 3
               \/ /\ rt'[n][j].node_status = rt[n][j].node_status
                  /\ \A m \in read : m.sender_node_id # j
    PROVE  ClockInv'
<1>1. Lockstep'
  BY DEF ClockInv, Lockstep, Abreast, OneAhead
<1>2. Refreshed'
  <2>1. SUFFICES ASSUME NEW n \in Node, NEW j \in Nbrs(n)
                 PROVE  /\ rt'[n][j].node_status >= 1
                        /\ (\A m \in net' : m.type = "LSA" => m.sender_node_id # j) =>
                              /\ sequence_number[j] >= sequence_number[n] =>
                                     rt'[n][j].node_status >= 2
                              /\ sequence_number[j] > sequence_number[n] =>
                                     rt'[n][j].node_status >= 3
    BY DEF Refreshed
  <2>2. rt'[n][j].node_status \in Nat
    <3>1. IsRoutingTable(n, rt'[n]) /\ DOMAIN rt'[n] = Configured(n)
      BY DEF AckInv, TypeInv, TypeOK, PairTables
    <3> QED BY <3>1 DEF IsRoutingTable, Configured, Entries
  <2>3. CASE rt'[n][j].node_status >= 3
    BY <2>2, <2>3
  <2>4. CASE /\ rt'[n][j].node_status = rt[n][j].node_status
             /\ \A m \in read : m.sender_node_id # j
    <3>1. (\A m \in net' : m.type = "LSA" => m.sender_node_id # j) =>
              \A m \in net : m.type = "LSA" => m.sender_node_id # j
      BY <2>4
    <3> QED BY <2>4, <3>1 DEF ClockInv, Refreshed
  <2> QED BY <2>3, <2>4
<1> QED BY <1>1, <1>2 DEF ClockInv

\* A timeout keeps the pair in step: who is ahead waits for the other.
LEMMA TimeoutLockstep ==
    ASSUME PairNetwork, EvenClocks, ClockInv, NEW n \in Node, Timeout(n),
           iterations' = [iterations EXCEPT ![n] = AfterTimeout(@)],
           \/ iterations[n] # FLOODING_PERIOD /\ sequence_number' = sequence_number
           \/ /\ iterations[n] = FLOODING_PERIOD /\ ~Spent(n)
              /\ sequence_number' = [sequence_number EXCEPT ![n] = @ + 1]
    PROVE  /\ Lockstep'
           /\ iterations[n] = FLOODING_PERIOD => \A j \in Nbrs(n) :
                  sequence_number[j] \in {sequence_number[n], sequence_number[n] + 1}
<1>1. /\ FLOODING_PERIOD \in Nat /\ FLOODING_PERIOD >= 2
      /\ \A i \in Node : MaxSeq[i] \in Nat
  BY ParameterAssumption
<1>2. \A i \in Node : /\ iterations[i] \in 1 .. FLOODING_PERIOD
                       /\ sequence_number[i] \in Nat /\ up[i]
                       /\ sequence_number[i] <= MaxSeq[i]
  BY Running DEF ClockInv, Lockstep
<1>3. /\ iterations'[n] = AfterTimeout(iterations[n])
      /\ \A i \in Node : i # n => /\ iterations'[i] = iterations[i]
                                  /\ sequence_number'[i] = sequence_number[i]
      /\ sequence_number'[n] = IF iterations[n] = FLOODING_PERIOD
                               THEN sequence_number[n] + 1 ELSE sequence_number[n]
  BY DEF ClockInv, AckInv, TypeInv, TypeOK
<1>4. sequence_number'[n] <= MaxSeq[n]
  BY <1>1, <1>2, <1>3 DEF Spent
<1>5. ASSUME NEW j \in Nbrs(n)
      PROVE  /\ Abreast(n, j)' \/ OneAhead(n, j)' \/ OneAhead(j, n)'
             /\ iterations[n] = FLOODING_PERIOD =>
                    sequence_number[j] \in {sequence_number[n], sequence_number[n] + 1}
  <2>1. j \in Node /\ j # n /\ n \in Node /\ MaxSeq[j] = MaxSeq[n]
    BY Links DEF EvenClocks
  <2>2. ~Spent(j) => iterations[n] # AfterTimeout(iterations[j])
    BY <1>2, <2>1 DEF Timeout, EvenClocks
  <2>3. Abreast(n, j) \/ OneAhead(n, j) \/ OneAhead(j, n)
    BY DEF ClockInv, Lockstep
  <2>4. CASE iterations[n] = FLOODING_PERIOD
    <3>1. ~OneAhead(n, j)
      BY <1>1, <2>4 DEF OneAhead
    <3>2. CASE OneAhead(j, n)
      BY <1>1, <1>2, <1>3, <2>1, <2>4, <3>2 DEF OneAhead, Abreast, AfterTimeout
    <3>3. CASE Abreast(n, j)
      <4>1. ~Spent(j)
        BY <1>1, <1>2, <2>1, <2>4, <3>3 DEF Spent, Abreast
      <4>2. iterations[j] = FLOODING_PERIOD
        BY <1>1, <1>2, <2>1, <2>2, <2>4, <3>3, <4>1 DEF Abreast, AfterTimeout
      <4> QED BY <1>1, <1>2, <1>3, <2>1, <2>4, <3>3, <4>2
              DEF OneAhead, Abreast, AfterTimeout
    <3> QED BY <2>3, <3>1, <3>2, <3>3
  <2>5. CASE iterations[n] # FLOODING_PERIOD
    <3>1. ~OneAhead(j, n)
      BY <2>5 DEF OneAhead
    <3>2. ~OneAhead(n, j)
      <4>1. SUFFICES ASSUME OneAhead(n, j) PROVE FALSE
        OBVIOUS
      <4>2. ~Spent(j)
        BY <1>1, <1>2, <2>1, <4>1 DEF Spent, OneAhead
      <4> QED BY <1>1, <2>2, <4>1, <4>2 DEF OneAhead, AfterTimeout
    <3>3. CASE Abreast(n, j)
      <4>1. iterations[j] # FLOODING_PERIOD => ~Spent(j)
        BY DEF Spent
      <4>2. iterations[n] <= iterations[j]
        BY <1>1, <1>2, <2>1, <2>2, <2>5, <3>3, <4>1 DEF Abreast, AfterTimeout
      <4> QED BY <1>1, <1>2, <1>3, <2>1, <2>5, <3>3, <4>2 DEF Abreast, AfterTimeout
    <3> QED BY <2>3, <2>5, <3>1, <3>2, <3>3
  <2> QED BY <2>4, <2>5
<1>6. ASSUME NEW i \in Node, NEW j \in Nbrs(i)
      PROVE  Abreast(i, j)' \/ OneAhead(i, j)' \/ OneAhead(j, i)'
  <2>1. j \in Node /\ i \in Nbrs(j)
    BY Links
  <2>2. CASE i = n
    BY <1>5, <2>2
  <2>3. CASE j = n
    <3>1. Abreast(n, i)' \/ OneAhead(n, i)' \/ OneAhead(i, n)'
      BY <1>5, <2>1, <2>3
    <3>2. Abreast(n, i)' => Abreast(i, n)'
      BY DEF Abreast
    <3> QED BY <2>3, <3>1, <3>2
  <2>4. CASE i # n /\ j # n
    <3>1. Abreast(i, j) \/ OneAhead(i, j) \/ OneAhead(j, i)
      BY DEF ClockInv, Lockstep
    <3> QED BY <1>3, <2>1, <2>4, <3>1 DEF Abreast, OneAhead
  <2> QED BY <2>2, <2>3, <2>4
<1>7. \A i \in Node : sequence_number'[i] <= MaxSeq[i]
  BY <1>2, <1>3, <1>4
<1> QED BY <1>5, <1>6, <1>7 DEF Lockstep

LEMMA FloodClock ==
    ASSUME PairNetwork, EvenClocks, ClockInv, NEW n \in Node, FloodTick(n)
    PROVE  ClockInv'
<1> DEFINE own == {Datagram("LSA", n, j, n, OwnLSA(n)) : j \in FloodTo(n)}
           t == TableAfterFlood(n)
<1>1. TypeInv /\ AckInv /\ AckInv' /\ Timeout(n)
  BY FloodAck DEF ClockInv, AckInv, FloodTick
<1>2. /\ rt' = [rt EXCEPT ![n] = t]
      /\ sequence_number' = [sequence_number EXCEPT ![n] = @ + 1]
      /\ iterations' = [iterations EXCEPT ![n] = AfterTimeout(@)]
      /\ iterations[n] = FLOODING_PERIOD /\ ~Spent(n)
      /\ net \subseteq net' /\ own \subseteq net'
  BY DEF FloodTick
<1>3. /\ Lockstep'
      /\ \A j \in Nbrs(n) :
             sequence_number[j] \in {sequence_number[n], sequence_number[n] + 1}
  BY <1>1, <1>2, TimeoutLockstep
<1>4. /\ rt'[n] = t /\ \A i \in Node : i # n => rt'[i] = rt[i]
      /\ sequence_number'[n] = sequence_number[n] + 1
      /\ \A i \in Node : i # n => sequence_number'[i] = sequence_number[i]
      /\ \A i \in Node : sequence_number[i] \in Nat
  BY <1>1, <1>2 DEF TypeInv, TypeOK
<1>5. ASSUME NEW i \in Node, NEW j \in Nbrs(i)
      PROVE  /\ rt'[i][j].node_status >= 1
             /\ (\A m \in net' : m.type = "LSA" => m.sender_node_id # j) =>
                   /\ sequence_number'[j] >= sequence_number'[i] =>
                          rt'[i][j].node_status >= 2
                   /\ sequence_number'[j] > sequence_number'[i] =>
                          rt'[i][j].node_status >= 3
  <2>1. /\ j \in Node /\ j # i /\ i \in Nbrs(j) /\ j \in DOMAIN rt[i]
        /\ rt[i][j].node_status \in Nat
    <3>1. j \in Node /\ j # i /\ i \in Nbrs(j) /\ j \in Configured(i)
      BY Links DEF Configured
    <3> QED BY <1>1, <3>1, Running DEF Entries
  <2>2. /\ rt[i][j].node_status >= 1
        /\ (\A m \in net : m.type = "LSA" => m.sender_node_id # j) =>
              /\ sequence_number[j] >= sequence_number[i] => rt[i][j].node_status >= 2
              /\ sequence_number[j] > sequence_number[i] => rt[i][j].node_status >= 3
    BY DEF ClockInv, Refreshed
  <2>3. CASE i = n
    <3>1. t[j].node_status = rt[n][j].node_status - 1
      BY <1>1, <2>1, <2>2, <2>3, FloodedFields DEF Countdown, STATUS_DOWN
    <3>2. \A m \in net : m.sender_node_id # j
      BY <1>1, <2>3, QuietAtTimeout
    <3>3. sequence_number[j] \in {sequence_number[n], sequence_number[n] + 1}
      BY <1>3, <2>3
    <3> HIDE DEF t
    <3> QED BY <1>4, <2>1, <2>2, <2>3, <3>1, <3>2, <3>3
  <2>4. CASE j = n
    <3>1. i \in FloodTo(n)
      <4>1. rt[n][i].node_status >= 1
        BY <2>1, <2>4 DEF ClockInv, Refreshed
      <4> QED BY <2>1, <2>4, <4>1 DEF FloodTo, STATUS_DOWN
    <3>2. Datagram("LSA", n, i, n, OwnLSA(n)) \in net'
      BY <1>2, <3>1
    <3>3. \E m \in net' : m.type = "LSA" /\ m.sender_node_id = n
      BY <3>2 DEF Datagram
    <3> QED BY <1>4, <2>1, <2>2, <2>4, <3>3
  <2>5. CASE i # n /\ j # n
    BY <1>2, <1>4, <2>1, <2>2, <2>5
  <2> QED BY <2>3, <2>4, <2>5
<1> QED BY <1>1, <1>3, <1>5 DEF ClockInv, Refreshed

LEMMA ResendClock ==
    ASSUME PairNetwork, EvenClocks, ClockInv, NEW n \in Node, RetransmitTick(n)
    PROVE  ClockInv'
<1>1. TypeInv /\ AckInv /\ AckInv' /\ Timeout(n) /\ net' = net
  BY ResendAck DEF ClockInv, AckInv, RetransmitTick
<1>2. /\ rt' = [rt EXCEPT ![n] = TableAfterResend(n)]
      /\ iterations' = [iterations EXCEPT ![n] = AfterTimeout(@)]
      /\ iterations[n] <= RETRANSMIT_TIME
      /\ UNCHANGED sequence_number
  BY DEF RetransmitTick
<1>3. Lockstep'
  <2>1. iterations[n] # FLOODING_PERIOD
    BY <1>2, ParameterAssumption
  <2> QED BY <1>1, <1>2, <2>1, TimeoutLockstep
<1>4. ASSUME NEW i \in Node, NEW j \in Nbrs(i)
      PROVE  rt'[i][j].node_status = rt[i][j].node_status
  <2>1. j \in DOMAIN rt[i]
    BY <1>1, Running DEF Configured
  <2>2. CASE i = n
    <3>1. TableAfterResend(n)[j].node_status = rt[n][j].node_status
      BY <1>1, <2>1, <2>2, ResentFields, NothingMissing
    <3> QED BY <1>1, <1>2, <2>2, <3>1 DEF TypeInv, TypeOK
  <2>3. CASE i # n
    BY <1>1, <1>2, <2>3 DEF TypeInv, TypeOK
  <2> QED BY <2>2, <2>3
<1> QED BY <1>1, <1>2, <1>3, <1>4 DEF ClockInv, Refreshed

LEMMA IdleClock ==
    ASSUME PairNetwork, EvenClocks, ClockInv, AckInv', NEW n \in Node, IdleTick(n)
    PROVE  ClockInv'
<1>1. /\ Timeout(n) /\ iterations[n] # FLOODING_PERIOD
      /\ iterations' = [iterations EXCEPT ![n] = AfterTimeout(@)]
      /\ UNCHANGED <<rt, net, sequence_number>>
  BY ParameterAssumption DEF IdleTick
<1>2. Lockstep'
  BY <1>1, TimeoutLockstep
<1> QED BY <1>1, <1>2 DEF ClockInv, Refreshed

LEMMA AcceptClock ==
    ASSUME PairNetwork, EvenClocks, ClockInv, NEW n \in Node, NEW d \in net,
           d.dst = n, AcceptLsa(n, d)
    PROVE  ClockInv'
<1> DEFINE t == TableAfterLsa(n, d)
           j == d.src
<1>1. TypeInv /\ AckInv /\ AckInv' /\ d.type = "LSA"
  BY AcceptAckInv DEF ClockInv, AckInv, AcceptLsa
<1>2. /\ j \in Nbrs(n) /\ Nbrs(n) = {j} /\ Nbrs(j) = {n} /\ d.sender_node_id = j
      /\ j \in Node
  BY <1>1, Ends DEF AckInv, LastLsaInTransit
<1>3. /\ rt' = [rt EXCEPT ![n] = t]
      /\ UNCHANGED <<sequence_number, iterations>>
      /\ \A m \in net : m \in net' \/ m = d
  BY DEF AcceptLsa, Rest
<1>4. rt'[n] = t /\ \A i \in Node : i # n => rt'[i] = rt[i]
  BY <1>1, <1>3 DEF TypeInv, TypeOK
<1>5. t[j].node_status >= 3
  <2>1. t[j].node_status = RETRANSMIT_TIME
    BY <1>2 DEF TableAfterLsa, update_entry
  <2> QED BY <2>1 DEF EvenClocks
<1>6. ASSUME NEW i \in Node, i # n, NEW k \in Nbrs(i) PROVE k # j
  BY <1>2, <1>6, Links
<1> DEFINE read == {d}
<1>7. \A i \in Node : \A k \in Nbrs(i) :
          \/ rt'[i][k].node_status >= 3
          \/ /\ rt'[i][k].node_status = rt[i][k].node_status
             /\ \A m \in read : m.sender_node_id # k
  <2> HIDE DEF t
  <2> QED BY <1>2, <1>4, <1>5, <1>6
<1>8. read \in SUBSET net /\ \A m \in net : m \in net' \/ m.type # "LSA" \/ m \in read
  BY <1>3
<1> HIDE DEF read
<1> QED BY <1>1, <1>3, <1>7, <1>8, ClockKept

LEMMA CreditClock ==
    ASSUME PairNetwork, EvenClocks, ClockInv, NEW n \in Node, NEW m \in net,
           m.dst = n, AcceptAck(n, m)
    PROVE  ClockInv'
<1>1. AckInv /\ AckInv' /\ TypeInv /\ up[n]
  BY CreditAckInv, Running DEF ClockInv, AckInv
<1>2. m.src \in Nbrs(n) /\ Forwarder(n, m) = m.src
  BY <1>1, Ends, PartnerForwards
<1>3. /\ CreditAck(n, m.src)
      /\ UNCHANGED <<sequence_number, iterations>>
      /\ m.type = "ACK" /\ net' = net \ {m}
  BY <1>2 DEF AcceptAck, Rest, PairNetwork
<1>4. ASSUME NEW i \in Node, NEW j \in Nbrs(i)
      PROVE  rt'[i][j].node_status = rt[i][j].node_status
  <2>1. j \in DOMAIN rt[i]
    BY <1>1, Running DEF Configured
  <2> QED BY <1>1, <1>2, <1>3, <2>1, CreditedFields
<1>5. \A d \in net : d \in net' \/ d.type # "LSA"
  BY <1>3
<1> DEFINE read == {}
<1>6. /\ read \in SUBSET net
      /\ \A d \in net : d \in net' \/ d.type # "LSA" \/ d \in read
      /\ \A i \in Node : \A j \in Nbrs(i) :
             \/ rt'[i][j].node_status >= 3
             \/ /\ rt'[i][j].node_status = rt[i][j].node_status
                /\ \A d \in read : d.sender_node_id # j
  BY <1>4, <1>5
<1> HIDE DEF read
<1> QED BY <1>1, <1>3, <1>6, ClockKept

LEMMA StepClock ==
    ASSUME PairNetwork, EvenClocks
    PROVE  ClockInv /\ [Next]_vars => ClockInv'
<1> SUFFICES ASSUME ClockInv, [Next]_vars PROVE ClockInv'
  OBVIOUS
<1>1. AckInv /\ AckInv'
  BY StepAck DEF ClockInv
<1>2. ASSUME NEW n \in Node, Tick(n) PROVE ClockInv'
  BY <1>1, <1>2, FloodClock, ResendClock, IdleClock DEF Tick
<1>3. ASSUME NEW n \in Node, NEW m \in net, m.dst = n, AcceptLsa(n, m) \/ AcceptAck(n, m)
      PROVE  ClockInv'
  BY <1>3, AcceptClock, CreditClock
<1>4. ASSUME UNCHANGED <<rt, net, sequence_number, iterations>> PROVE ClockInv'
  BY <1>1, <1>4 DEF ClockInv, Lockstep, Abreast, OneAhead, Refreshed
<1>5. ASSUME NEW n \in Node, NEW o \in Names, AddFile(n, o) PROVE ClockInv'
  BY <1>4, <1>5 DEF AddFile
<1>6. CASE UNCHANGED vars
  BY <1>4, <1>6 DEF vars, memory
<1> QED BY <1>1, <1>2, <1>3, <1>5, <1>6, PairSteps

LEMMA InitClock ==
    ASSUME PairNetwork, EvenClocks
    PROVE  Init => ClockInv
<1> SUFFICES ASSUME Init PROVE ClockInv
  OBVIOUS
<1>1. AckInv
  BY InitAck
<1>2. ASSUME NEW n \in Node
      PROVE  sequence_number[n] = 0 /\ iterations[n] = RETRANSMIT_TIME + 1
  BY DEF Init
<1>3. RETRANSMIT_TIME \in Nat /\ \A n \in Node : MaxSeq[n] \in Nat
  BY ParameterAssumption
<1>4. Lockstep
  BY <1>2, <1>3, Links DEF Lockstep, Abreast
<1>5. ASSUME NEW n \in Node, NEW j \in Nbrs(n)
      PROVE  rt[n][j].node_status = INITIAL_STATUS
  <2>1. rt[n] = load_node_conf(n)
    BY DEF Init, PairNetwork
  <2> QED BY <2>1 DEF load_node_conf, LoadedEntry, Configured
<1>6. Refreshed
  <2>1. INITIAL_STATUS \in Nat /\ INITIAL_STATUS >= 2
    BY ParameterAssumption DEF EvenClocks
  <2> QED BY <1>2, <1>5, <2>1, Links DEF Refreshed
<1> QED BY <1>1, <1>4, <1>6 DEF ClockInv

\* Two neighbours that run never hold each other to be down (the countdown of
\* engine_actions.c:97-104 against update_entry), for any number of floods, in
\* every network of pairs whose datagrams arrive in time and whose clocks are even.
THEOREM LiveNeighboursStayUp ==
    ASSUME PairNetwork, EvenClocks
    PROVE  Spec => []LiveNeighbourIsNotDown
<1>1. ClockInv => LiveNeighbourIsNotDown
  <2>1. SUFFICES ASSUME ClockInv, NEW n \in Node, NEW j \in Nbrs(n)
                 PROVE  rt[n][j].node_status # STATUS_DOWN
    BY DEF LiveNeighbourIsNotDown
  <2>2. rt[n][j].node_status >= 1
    BY <2>1 DEF ClockInv, Refreshed
  <2> QED BY <2>2 DEF STATUS_DOWN
<1>2. ClockInv /\ [Next]_vars => ClockInv'
  BY StepClock
<1>3. Init => ClockInv
  BY InitClock
<1> QED BY <1>1, <1>2, <1>3, PTL DEF Spec
=============================================================================
