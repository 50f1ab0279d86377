----------------------------- MODULE RouteProofs -----------------------------
(***************************************************************************)
(* What the daemons hold of each other's LSAs as long as none has died: a  *)
(* number names one LSA, an ACK finds its entry, and next hops lead nearer *)
(* and nearer.  The last two suppose that a daemon can tell its neighbours *)
(* apart by their addresses, which is all that lsa_handler knows them by.  *)
(***************************************************************************)
EXTENDS PathProofs

\* No two neighbours of a node are on one host, as in the shipped .conf files.
OwnAddresses ==
    \A n \in Node : \A i, j \in Nbrs(n) : Host[i] = Host[j] => i = j

LEMMA ForwarderIsSender ==
    ASSUME OwnAddresses, NEW n \in Node, NEW m, m.src \in Nbrs(n)
    PROVE  Forwarder(n, m) = m.src
BY ForwarderIsNeighbour DEF OwnAddresses

(***************************************************************************)
(* Where datagrams and entries come from.                                  *)
(***************************************************************************)

\* m is the LSA that daemon n originates in this step.
IsOwn(n, m) ==
    /\ FloodTick(n)
    /\ m.type = "LSA" /\ m.src = n /\ m.sender_node_id = n /\ m.lsa = OwnLSA(n)

\* m is the LSA of an entry of daemon n, forwarded or sent again.
IsRelayed(n, m) ==
    /\ m.type = "LSA" /\ m.src = n /\ m.sender_node_id \in DOMAIN rt[n]
    /\ m.lsa = rt[n][m.sender_node_id].lsa /\ m.lsa # NULL

\* m is the ACK of the LSA d, which daemon n accepts in this step.
IsAck(n, d, m) ==
    /\ d.dst = n /\ AcceptLsa(n, d) /\ d.src \in Nbrs(n)
    /\ m.type = "ACK" /\ m.dst = Forwarder(n, d)
    /\ m.sender_node_id = d.sender_node_id /\ m.lsa = d.lsa

\* Every datagram of the next state was there or was sent in one of these ways.
Sent ==
    \A m \in net' :
        \/ m \in net
        \/ \E n \in Node : IsOwn(n, m) \/ IsRelayed(n, m)
        \/ \E n \in Node, d \in net : IsAck(n, d, m)

\* The entry for k in the table of daemon i stays, but for its status and
\* checkers, and may lose its LSA.
IsKept(i, k) ==
    /\ k \in DOMAIN rt[i]
    /\ rt'[i][k].cost = rt[i][k].cost /\ rt'[i][k].nexthop = rt[i][k].nexthop
    /\ rt'[i][k].lsa \in {NULL, rt[i][k].lsa}

\* It is what update_entry makes of it, or makes anew, for an LSA from nexthop.
IsUpdated(i, k, lsa, nexthop) ==
    LET cheaper == k \notin DOMAIN rt[i] \/ NewCost(lsa.ttl) < rt[i][k].cost
    IN  /\ rt'[i][k].lsa = lsa
        /\ rt'[i][k].nexthop = IF cheaper THEN nexthop ELSE rt[i][k].nexthop
        /\ rt'[i][k].cost = IF cheaper THEN NewCost(lsa.ttl) ELSE rt[i][k].cost

\* It is the daemon's own, which has originated an LSA in this step.
IsFlooded(i, k) == k = i /\ FloodTick(i) /\ IsUpdated(i, k, OwnLSA(i), i)

\* It holds the LSA d, which the daemon accepts in this step.
IsLearnt(i, k, d) ==
    /\ d.type = "LSA" /\ d.sender_node_id = k /\ d.src \in Nbrs(i)
    /\ IsUpdated(i, k, Stored(d), Forwarder(i, d))

\* It was loaded from the .conf file in this step.
IsLoaded(i, k) ==
    /\ rt'[i][k].lsa = NULL
    /\ rt'[i][k].nexthop = k

\* Where entries come from in a step in which no daemon dies.
Grown ==
    \A i \in Node :
        /\ DOMAIN rt[i] \subseteq DOMAIN rt'[i]
        /\ \A k \in DOMAIN rt'[i] :
               \/ IsKept(i, k)
               \/ IsFlooded(i, k)
               \/ \E d \in net : IsLearnt(i, k, d)
               \/ DOMAIN rt[i] = {} /\ IsLoaded(i, k)

\* A daemon counts the LSAs it originates.
Counting ==
    \A n \in Node :
        /\ sequence_number'[n] >= sequence_number[n]
        /\ FloodTick(n) => sequence_number'[n] = sequence_number[n] + 1

\* What a step does in which no daemon dies.
Survived == Sent /\ Grown /\ Counting /\ deaths' = deaths

\* A step that changes the routing table of one daemon, and no count.
LEMMA OneTableGrown ==
    ASSUME TypeInv, NEW n \in Node, NEW t, rt' = [rt EXCEPT ![n] = t],
           DOMAIN rt[n] \subseteq DOMAIN t,
           \A k \in DOMAIN t :
               \/ IsKept(n, k)
               \/ IsFlooded(n, k)
               \/ \E d \in net : IsLearnt(n, k, d)
               \/ DOMAIN rt[n] = {} /\ IsLoaded(n, k)
    PROVE  Grown
<1>1. rt'[n] = t /\ \A i \in Node : i # n => rt'[i] = rt[i]
  BY DEF TypeInv, TypeOK
<1>2. \A i \in Node : i # n => \A k \in DOMAIN rt'[i] : IsKept(i, k)
  BY <1>1 DEF IsKept
<1>3. ASSUME NEW i \in Node
      PROVE  /\ DOMAIN rt[i] \subseteq DOMAIN rt'[i]
             /\ \A k \in DOMAIN rt'[i] :
                    \/ IsKept(i, k)
                    \/ IsFlooded(i, k)
                    \/ \E d \in net : IsLearnt(i, k, d)
                    \/ DOMAIN rt[i] = {} /\ IsLoaded(i, k)
  <2>1. CASE i = n
    BY <1>1, <2>1
  <2>2. CASE i # n
    BY <1>1, <1>2, <2>2
  <2> QED BY <2>1, <2>2
<1> QED BY <1>3 DEF Grown

LEMMA FloodSurvived ==
    ASSUME TypeInv, NEW n \in Node, FloodTick(n)
    PROVE  Survived
<1> DEFINE own == {Datagram("LSA", n, j, n, OwnLSA(n)) : j \in FloodTo(n)}
           forwarded == UNION {{Datagram("LSA", n, j, k, rt[n][k].lsa) :
                                   j \in ForwardTo(n, k)} : k \in DOMAIN rt[n]}
           t == TableAfterFlood(n)
<1>1. /\ rt' = [rt EXCEPT ![n] = t]
      /\ net' = net \cup own \cup forwarded
      /\ sequence_number' = [sequence_number EXCEPT ![n] = @ + 1]
      /\ deaths' = deaths
  BY DEF FloodTick
<1>2. Sent
  <2>1. ASSUME NEW m \in own PROVE IsOwn(n, m)
    BY DEF IsOwn, Datagram
  <2>2. ASSUME NEW m \in forwarded PROVE IsRelayed(n, m)
    <3>1. PICK k \in DOMAIN rt[n] : \E j \in ForwardTo(n, k) :
              m = Datagram("LSA", n, j, k, rt[n][k].lsa)
      BY <2>2
    <3>2. rt[n][k].lsa # NULL
      BY <3>1 DEF ForwardTo, TypeInv, ForwardableHasLsa, Forwardable
    <3> QED BY <3>1, <3>2 DEF IsRelayed, Datagram
  <2> HIDE DEF own, forwarded
  <2> QED BY <1>1, <2>1, <2>2 DEF Sent
<1>3. Grown
  <2>1. IsRoutingTable(n, rt[n]) /\ OwnLSA(n) \in LSAs
    BY OwnLSAType DEF TypeInv, TypeOK
  <2>2. DOMAIN t = DOMAIN rt[n] /\ rt'[n] = t
    BY <1>1, FloodedTable DEF TypeInv, TypeOK
  <2>3. ASSUME NEW k \in DOMAIN t PROVE IsKept(n, k) \/ IsFlooded(n, k)
    <3>1. CASE k = n
      <4>1. IsUpdated(n, n, OwnLSA(n), n)
        <5> DEFINE e == update_entry(n, rt[n], n, OwnLSA(n), n)
        <5>1. t[n].lsa = e.lsa /\ t[n].nexthop = e.nexthop /\ t[n].cost = e.cost
          BY <2>2, <3>1, FloodedFields
        <5> HIDE DEF t
        <5> QED BY <2>1, <2>2, <5>1, UpdatedFields DEF IsUpdated
      <4> QED BY <3>1, <4>1 DEF IsFlooded
    <3>2. CASE k # n
      <4>1. /\ t[k].lsa \in {NULL, rt[n][k].lsa}
            /\ t[k].nexthop = rt[n][k].nexthop /\ t[k].cost = rt[n][k].cost
        BY <2>2, <3>2, FloodedFields
      <4> HIDE DEF t
      <4> QED BY <2>2, <4>1 DEF IsKept
    <3> QED BY <3>1, <3>2
  <2> HIDE DEF t
  <2> QED BY <1>1, <2>2, <2>3, OneTableGrown
<1>4. Counting
  <2>1. ASSUME NEW i \in Node, FloodTick(i) PROVE i = n
    <3>1. sequence_number' = [sequence_number EXCEPT ![i] = @ + 1]
      BY <2>1 DEF FloodTick
    <3> QED BY <1>1, <3>1 DEF TypeInv, TypeOK
  <2> QED BY <1>1, <2>1 DEF Counting, TypeInv, TypeOK
<1> QED BY <1>1, <1>2, <1>3, <1>4 DEF Survived

\* A step that is no flood and leaves the counts.
LEMMA NoneCounted ==
    ASSUME TypeInv, sequence_number' = sequence_number
    PROVE  Counting
<1>1. ASSUME NEW n \in Node, FloodTick(n) PROVE FALSE
  <2>1. sequence_number' = [sequence_number EXCEPT ![n] = @ + 1]
    BY <1>1 DEF FloodTick
  <2> QED BY <2>1 DEF TypeInv, TypeOK
<1> QED BY <1>1 DEF Counting, TypeInv, TypeOK

LEMMA ResendSurvived ==
    ASSUME TypeInv, NEW n \in Node, RetransmitTick(n)
    PROVE  Survived
<1> DEFINE resent == UNION {{Datagram("LSA", n, j, k, rt[n][k].lsa) :
                                j \in ResendTo(n, k)} : k \in DOMAIN rt[n]}
           t == TableAfterResend(n)
<1>1. /\ rt' = [rt EXCEPT ![n] = t]
      /\ net' \subseteq net \cup resent
      /\ sequence_number' = sequence_number
      /\ deaths' = deaths
  BY DEF RetransmitTick
<1>2. Sent
  <2>1. ASSUME NEW m \in resent PROVE IsRelayed(n, m)
    <3>1. PICK k \in DOMAIN rt[n] : \E j \in ResendTo(n, k) :
              m = Datagram("LSA", n, j, k, rt[n][k].lsa)
      BY <2>1
    <3>2. rt[n][k].lsa # NULL
      BY <3>1, VisitedHasLsa DEF ResendTo
    <3> QED BY <3>1, <3>2 DEF IsRelayed, Datagram
  <2> HIDE DEF resent
  <2> QED BY <1>1, <2>1 DEF Sent
<1>3. Grown
  <2>1. DOMAIN t = DOMAIN rt[n] /\ rt'[n] = t
    BY <1>1, ResentTable DEF TypeInv, TypeOK
  <2>2. ASSUME NEW k \in DOMAIN t PROVE IsKept(n, k)
    <3>1. /\ t[k].lsa \in {NULL, rt[n][k].lsa}
          /\ t[k].nexthop = rt[n][k].nexthop /\ t[k].cost = rt[n][k].cost
      BY <2>1, ResentFields
    <3> HIDE DEF t
    <3> QED BY <2>1, <3>1 DEF IsKept
  <2> HIDE DEF t
  <2> QED BY <1>1, <2>1, <2>2, OneTableGrown
<1> QED BY <1>1, <1>2, <1>3, NoneCounted DEF Survived

LEMMA AcceptSurvived ==
    ASSUME TypeInv, NEW n \in Node, NEW d \in net, d.dst = n, AcceptLsa(n, d)
    PROVE  Survived
<1> DEFINE ack == Datagram("ACK", n, Forwarder(n, d), d.sender_node_id, d.lsa)
           t == TableAfterLsa(n, d)
           k == d.sender_node_id
<1>1. /\ rt' = [rt EXCEPT ![n] = t]
      /\ net' = Rest(d) \cup {ack}
      /\ sequence_number' = sequence_number
      /\ deaths' = deaths
      /\ d.type = "LSA"
  BY DEF AcceptLsa
<1>2. d \in Datagrams /\ k \in Node /\ d.src \in Nbrs(n) /\ IsRoutingTable(n, rt[n])
  BY DEF TypeInv, TypeOK, Datagrams, DatagramsFollowLinks
<1>3. Sent
  <2>1. IsAck(n, d, ack)
    BY <1>2 DEF IsAck, Datagram
  <2> HIDE DEF ack
  <2> QED BY <1>1, <2>1 DEF Sent, Rest
<1>4. Grown
  <2>1. DOMAIN t = DOMAIN rt[n] \cup {k} /\ rt'[n] = t
    BY <1>1 DEF TypeInv, TypeOK, TableAfterLsa
  <2>2. IsLearnt(n, k, d)
    <3>1. Stored(d) \in LSAs /\ Forwarder(n, d) \in Node
      BY <1>2, StoredType, ForwarderIsNeighbour, Links
    <3>2. t[k] = update_entry(n, rt[n], k, Stored(d), Forwarder(n, d))
      BY DEF TableAfterLsa
    <3> HIDE DEF t
    <3> QED BY <1>1, <1>2, <2>1, <3>1, <3>2, UpdatedFields DEF IsLearnt, IsUpdated
  <2>3. ASSUME NEW i \in DOMAIN t, i # k PROVE IsKept(n, i)
    BY <2>1, <2>3 DEF IsKept, TableAfterLsa
  <2>4. ASSUME NEW i \in DOMAIN t
        PROVE  IsKept(n, i) \/ \E a \in net : IsLearnt(n, i, a)
    BY <2>2, <2>3
  <2> HIDE DEF t, k
  <2> QED BY <1>1, <2>1, <2>4, OneTableGrown
<1> QED BY <1>1, <1>3, <1>4, NoneCounted DEF Survived

LEMMA CreditSurvived ==
    ASSUME TypeInv, NEW n \in Node, up[n], NEW f \in Nbrs(n), CreditAck(n, f),
           net' \subseteq net, UNCHANGED <<sequence_number, deaths>>
    PROVE  Survived
<1>1. Grown
  <2>1. \A i \in Node : DOMAIN rt'[i] = DOMAIN rt[i]
    BY DEF CreditAck, TypeInv, TypeOK
  <2>2. \A i \in Node : \A k \in DOMAIN rt'[i] : IsKept(i, k)
    BY <2>1, CreditedFields DEF IsKept
  <2> QED BY <2>1, <2>2 DEF Grown
<1> QED BY <1>1, NoneCounted DEF Survived, Sent

LEMMA StartSurvived ==
    ASSUME HopInv, NEW n \in Node, Start(n)
    PROVE  Survived
<1>1. /\ rt' = [rt EXCEPT ![n] = load_node_conf(n)]
      /\ UNCHANGED <<net, sequence_number, deaths>>
      /\ DOMAIN rt[n] = {}
      /\ TypeInv
  BY DEF Start, HopInv
<1>2. \A k \in DOMAIN load_node_conf(n) : IsLoaded(n, k)
  BY <1>1 DEF load_node_conf, LoadedEntry, IsLoaded, TypeInv, TypeOK
<1>3. Grown
  BY <1>1, <1>2, OneTableGrown
<1> QED BY <1>1, <1>3, NoneCounted DEF Survived, Sent

\* A step that leaves the tables and sends nothing.
LEMMA QuietSurvived ==
    ASSUME TypeInv, net' \subseteq net, UNCHANGED <<rt, sequence_number, deaths>>
    PROVE  Survived
<1>1. Grown
  BY DEF Grown, IsKept
<1> QED BY <1>1, NoneCounted DEF Survived, Sent

LEMMA HandlerSurvived ==
    ASSUME TypeInv, NEW n \in Node, lsa_handler(n), ~ Die(n)
    PROVE  Survived
<1>1. PICK m \in net :
          /\ m.dst = n
          /\ up[n]
          /\ \/ IgnoreDatagram(n, m)
             \/ AcceptLsa(n, m)
             \/ AcceptAck(n, m)
             \/ AckOfLearnedEntry(n, m)
             \/ AckWithoutEntry(n, m)
  BY DEF lsa_handler
<1>2. Rest(m) \subseteq net
  BY DEF Rest
<1>3. CASE IgnoreDatagram(n, m)
  BY <1>2, <1>3, QuietSurvived DEF IgnoreDatagram, memory
<1>4. CASE AcceptLsa(n, m)
  BY <1>1, <1>4, AcceptSurvived
<1>5. CASE AcceptAck(n, m) \/ AckOfLearnedEntry(n, m)
  <2>1. Forwarder(n, m) \in Nbrs(n)
    BY <1>1, ForwarderIsNeighbour DEF TypeInv, DatagramsFollowLinks
  <2>2. CASE /\ CreditAck(n, Forwarder(n, m)) /\ net' = Rest(m)
             /\ UNCHANGED <<sequence_number, deaths>>
    BY <1>1, <1>2, <2>1, <2>2, CreditSurvived
  <2>3. CASE net' = Rest(m) /\ UNCHANGED <<rt, sequence_number, deaths>>
    BY <1>2, <2>3, QuietSurvived
  <2> QED BY <1>5, <2>2, <2>3 DEF AcceptAck, AckOfLearnedEntry, memory
<1> QED BY <1>1, <1>3, <1>4, <1>5 DEF AckWithoutEntry

\* Every step leaves the daemons alive, or counts a death.
LEMMA StepSurvived ==
    ASSUME HopInv, [Next]_vars, deaths' = 0
    PROVE  Survived
<1>1. TypeInv /\ deaths \in Nat
  BY DEF HopInv, TypeInv, TypeOK
<1>2. ASSUME NEW n \in Node PROVE ~ Die(n)
  BY <1>1 DEF Die
<1>3. ASSUME NEW n \in Node, Tick(n) PROVE Survived
  BY <1>1, <1>3, FloodSurvived, ResendSurvived, QuietSurvived DEF Tick, IdleTick
<1>4. ASSUME NEW n \in Node, lsa_handler(n) PROVE Survived
  BY <1>1, <1>2, <1>4, HandlerSurvived
<1>5. ASSUME NEW n \in Node, Crash(n) \/ Start(n) PROVE Survived
  BY <1>2, <1>5, StartSurvived DEF Crash
<1>6. CASE \/ \E n \in Node, o \in Names : AddFile(n, o)
           \/ \E m \in net : Lose(m)
           \/ UNCHANGED vars
  BY <1>1, <1>6, QuietSurvived DEF AddFile, Lose, vars, memory
<1> QED BY <1>3, <1>4, <1>5, <1>6 DEF Next

(***************************************************************************)
(* A number names one LSA.  Only its originator makes an LSA, with a       *)
(* number that is not used yet; every other copy is one of a copy.         *)
(***************************************************************************)

\* An LSA that node k originated is held or on the way.
IsCopy(k, lsa) ==
    \/ \E m \in net : m.sender_node_id = k /\ m.lsa = lsa
    \/ \E n \in Node : k \in DOMAIN rt[n] /\ rt[n][k].lsa = lsa /\ lsa # NULL

\* Two copies differ in nothing but their TTL.
SameLsa(a, b) == a.sequence_num = b.sequence_num /\ a.objects = b.objects

NumbersUsed ==
    \A k \in Node : \A a \in LSAs : IsCopy(k, a) => a.sequence_num < sequence_number[k]

NumbersUnique ==
    \A k \in Node : \A a, b \in LSAs :
        IsCopy(k, a) /\ IsCopy(k, b) /\ a.sequence_num = b.sequence_num
            => a.objects = b.objects

NumberInv == HopInv /\ (deaths = 0 => NumbersUsed /\ NumbersUnique)

LEMMA CopyType ==
    ASSUME TypeInv, NEW k, NEW a, IsCopy(k, a)
    PROVE  k \in Node /\ a \in LSAs
BY DEF IsCopy, TypeInv, TypeOK, Datagrams, IsRoutingTable, Entries

\* A copy is one of a copy there was, or it is the LSA that k originates.
LEMMA CopyOfCopy ==
    ASSUME TypeInv, Survived, NEW k, NEW a, IsCopy(k, a)'
    PROVE  \/ \E b \in LSAs : IsCopy(k, b) /\ SameLsa(a, b)
           \/ FloodTick(k) /\ a = OwnLSA(k)
<1>1. CASE \E m \in net' : m.sender_node_id = k /\ m.lsa = a
  <2>1. PICK m \in net' : m.sender_node_id = k /\ m.lsa = a
    BY <1>1
  <2>2. CASE m \in net
    <3>1. IsCopy(k, a)
      BY <2>1, <2>2 DEF IsCopy
    <3> QED BY <3>1, CopyType DEF SameLsa
  <2>3. ASSUME NEW n \in Node, IsOwn(n, m) PROVE FloodTick(k) /\ a = OwnLSA(k)
    BY <2>1, <2>3 DEF IsOwn
  <2>4. ASSUME NEW n \in Node, IsRelayed(n, m) PROVE IsCopy(k, a)
    BY <2>1, <2>4 DEF IsRelayed, IsCopy
  <2>5. ASSUME NEW n \in Node, NEW d \in net, IsAck(n, d, m) PROVE IsCopy(k, a)
    BY <2>1, <2>5 DEF IsAck, IsCopy
  <2> QED BY <2>2, <2>3, <2>4, <2>5, CopyType DEF Survived, Sent, SameLsa
<1>2. CASE \E n \in Node : k \in DOMAIN rt'[n] /\ rt'[n][k].lsa = a /\ a # NULL
  <2>1. PICK n \in Node : k \in DOMAIN rt'[n] /\ rt'[n][k].lsa = a /\ a # NULL
    BY <1>2
  <2>2. CASE IsKept(n, k)
    <3>1. IsCopy(k, a)
      BY <2>1, <2>2 DEF IsKept, IsCopy
    <3> QED BY <3>1, CopyType DEF SameLsa
  <2>3. CASE IsFlooded(n, k)
    BY <2>1, <2>3 DEF IsFlooded, IsUpdated
  <2>4. ASSUME NEW d \in net, IsLearnt(n, k, d)
        PROVE  IsCopy(k, d.lsa) /\ SameLsa(a, d.lsa)
    <3>1. d.lsa \in LSAs
      BY DEF TypeInv, TypeOK, Datagrams
    <3>2. a = Stored(d)
      BY <2>1, <2>4 DEF IsLearnt, IsUpdated
    <3> QED BY <2>4, <3>1, <3>2 DEF IsLearnt, IsCopy, SameLsa, Stored, LSAs
  <2>5. ~ IsLoaded(n, k)
    BY <2>1 DEF IsLoaded
  <2> QED BY <2>1, <2>2, <2>3, <2>4, <2>5, CopyType DEF Survived, Grown
<1> QED BY <1>1, <1>2 DEF IsCopy

LEMMA StepNumbers == NumberInv /\ [Next]_vars => NumberInv'
<1> SUFFICES ASSUME NumberInv, [Next]_vars, deaths' = 0
             PROVE  NumbersUsed' /\ NumbersUnique'
  BY StepHops DEF NumberInv
<1>1. TypeInv /\ TypeInv' /\ Survived
  BY StepHops, StepSurvived DEF NumberInv, HopInv
<1>2. NumbersUsed /\ NumbersUnique
  BY <1>1 DEF NumberInv, Survived
<1>3. /\ sequence_number \in [Node -> Nat] /\ sequence_number' \in [Node -> Nat]
      /\ \A k \in Node : OwnLSA(k).sequence_num = sequence_number[k]
  BY <1>1 DEF TypeInv, TypeOK, OwnLSA, LSA
<1>4. ASSUME NEW k \in Node, NEW a \in LSAs, IsCopy(k, a)'
      PROVE  \/ \E b \in LSAs : IsCopy(k, b) /\ SameLsa(a, b)
             \/ FloodTick(k) /\ a = OwnLSA(k)
  BY <1>1, <1>4, CopyOfCopy
<1>5. ASSUME NEW k \in Node, NEW a \in LSAs, IsCopy(k, a)'
      PROVE  /\ a.sequence_num < sequence_number'[k]
             /\ a.sequence_num < sequence_number[k] \/ a = OwnLSA(k)
  <2>1. ASSUME NEW b \in LSAs, IsCopy(k, b), SameLsa(a, b)
        PROVE  a.sequence_num < sequence_number[k]
    BY <1>2, <2>1 DEF NumbersUsed, SameLsa
  <2>2. CASE a.sequence_num < sequence_number[k]
    BY <1>1, <1>3, <2>2 DEF Survived, Counting, LSAs
  <2>3. CASE FloodTick(k) /\ a = OwnLSA(k)
    BY <1>1, <1>3, <2>3 DEF Survived, Counting, LSAs
  <2> QED BY <1>4, <1>5, <2>1, <2>2, <2>3
<1>6. NumbersUsed'
  BY <1>5 DEF NumbersUsed
<1>7. ASSUME NEW k \in Node, NEW a \in LSAs, NEW b \in LSAs, IsCopy(k, a)', IsCopy(k, b)',
             a.sequence_num = b.sequence_num
      PROVE  a.objects = b.objects
  <2>1. CASE a = OwnLSA(k) \/ b = OwnLSA(k)
    <3>1. a = OwnLSA(k) /\ b = OwnLSA(k)
      BY <1>3, <1>5, <1>7, <2>1 DEF LSAs
    <3> QED BY <3>1
  <2>2. CASE ~(a = OwnLSA(k) \/ b = OwnLSA(k))
    <3>1. PICK c \in LSAs : IsCopy(k, c) /\ SameLsa(a, c)
      BY <1>4, <1>7, <2>2
    <3>2. PICK d \in LSAs : IsCopy(k, d) /\ SameLsa(b, d)
      BY <1>4, <1>7, <2>2
    <3> QED BY <1>2, <1>7, <3>1, <3>2 DEF NumbersUnique, SameLsa
  <2> QED BY <2>1, <2>2
<1>8. NumbersUnique'
  BY <1>7 DEF NumbersUnique
<1> QED BY <1>6, <1>8

LEMMA InitNumbers == Init => NumberInv
<1> SUFFICES ASSUME Init PROVE NumbersUsed /\ NumbersUnique
  BY InitHops DEF NumberInv
<1>1. \A n \in Node : \A k \in DOMAIN rt[n] : rt[n][k].lsa = NULL
  BY DEF Init, load_node_conf, LoadedEntry, NoEntries
<1>2. ASSUME NEW k \in Node, NEW a \in LSAs PROVE ~ IsCopy(k, a)
  BY <1>1 DEF Init, IsCopy
<1> QED BY <1>2 DEF NumbersUsed, NumbersUnique

\* As long as no daemon has died, whatever is held or on the way with one
\* originator and number has the same objects, and no number is used before the
\* daemon comes to it (flooding_engine.c:412-416): in every network, whatever is
\* lost, late, duplicated or forwarded by several ways.
THEOREM NumbersNameLsas == Spec => []OneLsaPerNumber
<1>1. ASSUME NumberInv PROVE OneLsaPerNumber
  <2> DEFINE copies == {<<m.sender_node_id, m.lsa>> : m \in net} \cup
                  UNION {{<<k, rt[n][k].lsa>> :
                             k \in {i \in DOMAIN rt[n] : rt[n][i].lsa # NULL}} : n \in Node}
  <2>1. SUFFICES ASSUME deaths = 0
                 PROVE  /\ \A c \in copies : c[2].sequence_num < sequence_number[c[1]]
                        /\ \A c, d \in copies :
                               c[1] = d[1] /\ c[2].sequence_num = d[2].sequence_num
                                   => c[2].objects = d[2].objects
    BY DEF OneLsaPerNumber
  <2>2. NumbersUsed /\ NumbersUnique /\ TypeInv
    BY <1>1, <2>1 DEF NumberInv, HopInv
  <2>3. ASSUME NEW c \in copies PROVE IsCopy(c[1], c[2])
    BY DEF IsCopy
  <2>4. ASSUME NEW c \in copies PROVE c[1] \in Node /\ c[2] \in LSAs /\ IsCopy(c[1], c[2])
    BY <2>2, <2>3, CopyType
  <2> HIDE DEF copies
  <2> QED BY <2>2, <2>4 DEF NumbersUsed, NumbersUnique
<1> QED BY <1>1, InitNumbers, StepNumbers, PTL DEF Spec

(***************************************************************************)
(* An ACK finds its entry.  Whoever sends an LSA has an entry for its      *)
(* originator, and its acknowledgement goes back to whoever sent it.       *)
(***************************************************************************)

\* The daemon that an LSA comes from, or that an ACK goes to.
Holder(m) == IF m.type = "LSA" THEN m.src ELSE m.dst

OriginsKnown == \A m \in net : m.sender_node_id \in DOMAIN rt[Holder(m)]

KnownInv == HopInv /\ (deaths = 0 => OriginsKnown)

LEMMA StepKnown ==
    ASSUME OwnAddresses
    PROVE  KnownInv /\ [Next]_vars => KnownInv'
<1> SUFFICES ASSUME KnownInv, [Next]_vars, deaths' = 0 PROVE OriginsKnown'
  BY StepHops DEF KnownInv
<1>1. HopInv /\ TypeInv /\ Survived
  BY StepSurvived DEF KnownInv, HopInv
<1>2. OriginsKnown
  BY <1>1 DEF KnownInv, Survived
<1>3. ASSUME NEW m \in net', ~ \E n \in Node : IsOwn(n, m)
      PROVE  \E n \in Node : n = Holder(m) /\ m.sender_node_id \in DOMAIN rt[n]
  <2>1. CASE m \in net
    <3>1. Holder(m) \in Node
      BY <1>1, <2>1 DEF TypeInv, TypeOK, Datagrams, Holder
    <3> QED BY <1>2, <2>1, <3>1 DEF OriginsKnown
  <2>2. ASSUME NEW n \in Node, IsRelayed(n, m)
        PROVE  n = Holder(m) /\ m.sender_node_id \in DOMAIN rt[n]
    BY <2>2 DEF IsRelayed, Holder
  <2>3. ASSUME NEW n \in Node, NEW d \in net, IsAck(n, d, m)
        PROVE  /\ d.src \in Node /\ d.src = Holder(m)
               /\ m.sender_node_id \in DOMAIN rt[d.src]
    <3>1. Forwarder(n, d) = d.src
      BY <2>3, ForwarderIsSender DEF IsAck
    <3>2. d.sender_node_id \in DOMAIN rt[d.src] /\ d.src \in Node
      BY <1>1, <1>2, <2>3 DEF OriginsKnown, Holder, IsAck, AcceptLsa, TypeInv, TypeOK,
                              Datagrams
    <3> QED BY <2>3, <3>1, <3>2 DEF IsAck, Holder
  <2> QED BY <1>1, <1>3, <2>1, <2>2, <2>3 DEF Survived, Sent
<1>4. ASSUME NEW m \in net', NEW n \in Node, IsOwn(n, m)
      PROVE  n = Holder(m) /\ m.sender_node_id \in DOMAIN rt[n]
  <2>1. up[n]
    BY <1>4 DEF IsOwn, FloodTick, Timeout
  <2>2. n \in DOMAIN rt[n]
    BY <1>1, <2>1 DEF TypeInv, ConfiguredAreKnown, Configured
  <2> QED BY <1>4, <2>2 DEF IsOwn, Holder
<1>5. \A n \in Node : DOMAIN rt[n] \subseteq DOMAIN rt'[n]
  BY <1>1 DEF Survived, Grown
<1> QED BY <1>3, <1>4, <1>5 DEF OriginsKnown, Holder

LEMMA InitKnown == Init => KnownInv
BY InitHops DEF Init, KnownInv, OriginsKnown

\* As long as no daemon has died, an ACK finds the entry of the LSA it
\* acknowledges (flooding_engine.c:433), in every network whose daemons can tell
\* their neighbours apart.
THEOREM AcksFindTheirEntries ==
    ASSUME OwnAddresses
    PROVE  Spec => []AckFindsEntry
<1>1. KnownInv => AckFindsEntry
  BY DEF KnownInv, OriginsKnown, AckFindsEntry, Holder
<1>2. KnownInv /\ [Next]_vars => KnownInv'
  BY StepKnown
<1> QED BY <1>1, <1>2, InitKnown, PTL DEF Spec

(***************************************************************************)
(* Next hops descend.  A copy of an LSA costs, by its TTL, at least what   *)
(* the daemon that sends it has for its cost; one hop further it costs one *)
(* more.                                                                   *)
(***************************************************************************)

\* What a daemon forwards costs no less than its own way.
SentCosts ==
    \A m \in net :
        m.type = "LSA" /\ m.sender_node_id # m.src
            => rt[m.src][m.sender_node_id].cost <= NewCost(m.lsa.ttl)

\* So does what it holds.
HeldCosts ==
    \A n \in Node : \A k \in DOMAIN rt[n] :
        k # n /\ rt[n][k].lsa # NULL => rt[n][k].cost <= NewCost(rt[n][k].lsa.ttl)

Descends ==
    \A n \in Node : \A k \in DOMAIN rt[n] :
        LET j == rt[n][k].nexthop
        IN  k # n /\ j # k => k \in DOMAIN rt[j] /\ rt[j][k].cost < rt[n][k].cost

DescentInv == KnownInv /\ (RouteTrusted => SentCosts /\ HeldCosts /\ Descends)

\* No cost rises, and tables only grow.
LEMMA CostsFall ==
    ASSUME TypeInv, TypeInv', Grown
    PROVE  \A i \in Node : \A k \in DOMAIN rt[i] :
               /\ k \in DOMAIN rt'[i]
               /\ rt[i][k].cost \in Int /\ rt'[i][k].cost \in Int
               /\ rt'[i][k].cost <= rt[i][k].cost
<1> SUFFICES ASSUME NEW i \in Node, NEW k \in DOMAIN rt[i]
             PROVE  /\ k \in DOMAIN rt'[i]
                    /\ rt[i][k].cost \in Int /\ rt'[i][k].cost \in Int
                    /\ rt'[i][k].cost <= rt[i][k].cost
  OBVIOUS
<1>1. k \in DOMAIN rt'[i]
  BY DEF Grown
<1>2. rt[i][k].cost \in Int /\ rt'[i][k].cost \in Int
  BY <1>1 DEF TypeInv, TypeOK, IsRoutingTable, Entries
<1>3. rt'[i][k].cost <= rt[i][k].cost
  <2>1. ASSUME NEW lsa, NEW j, IsUpdated(i, k, lsa, j)
        PROVE  rt'[i][k].cost <= rt[i][k].cost
    <3>1. CASE NewCost(lsa.ttl) < rt[i][k].cost
      <4>1. rt'[i][k].cost = NewCost(lsa.ttl)
        BY <2>1, <3>1 DEF IsUpdated
      <4> HIDE DEF NewCost
      <4> QED BY <1>2, <3>1, <4>1
    <3>2. CASE ~ (NewCost(lsa.ttl) < rt[i][k].cost)
      BY <1>2, <2>1, <3>2 DEF IsUpdated
    <3> QED BY <3>1, <3>2
  <2> QED BY <1>1, <1>2, <2>1 DEF Grown, IsKept, IsFlooded, IsLearnt
<1> QED BY <1>1, <1>2, <1>3

LEMMA TrustLasts ==
    ASSUME TypeInv, TypeInv', Survived, RouteTrusted'
    PROVE  RouteTrusted
<1>1. ASSUME NEW i \in Node, NEW k \in DOMAIN rt[i] PROVE rt[i][k].cost >= 0
  <2>1. /\ k \in DOMAIN rt'[i] /\ rt'[i][k].cost <= rt[i][k].cost
        /\ rt[i][k].cost \in Int /\ rt'[i][k].cost \in Int
    BY CostsFall DEF Survived
  <2>2. rt'[i][k].cost >= 0
    BY <2>1 DEF RouteTrusted
  <2> QED BY <2>1, <2>2
<1> QED BY <1>1 DEF RouteTrusted, Survived

\* The TTL wraps from 0 to 255.
LEMMA WrappedTtl == DecTTL(0) = 255
<1>1. \A x, q \in Int : \A r \in 0 .. 255 : x = 256 * q + r => x % 256 = r
  OBVIOUS
<1>2. 0 - 1 \in Int /\ -1 \in Int /\ 255 \in 0 .. 255 /\ 0 - 1 = 256 * (-1) + 255
  OBVIOUS
<1>3. (0 - 1) % 256 = 255
  BY <1>1, <1>2, ZenonT(30)
<1> QED BY <1>3 DEF DecTTL

\* A hop further costs one more, or the TTL has wrapped.
LEMMA OneFurther ==
    ASSUME NEW d \in Datagrams
    PROVE  /\ NewCost(d.lsa.ttl) \in Int /\ NewCost(Stored(d).ttl) \in Int
           /\ \/ NewCost(Stored(d).ttl) = NewCost(d.lsa.ttl) + 1
              \/ NewCost(Stored(d).ttl) < 0
<1>1. d.lsa \in LSAs /\ d.lsa.ttl \in 0 .. 255 /\ Stored(d).ttl = DecTTL(d.lsa.ttl)
  BY DEF Datagrams, LSAs, Stored
<1>2. CASE d.lsa.ttl = 0
  <2>1. DecTTL(d.lsa.ttl) = 255
    BY <1>2, WrappedTtl
  <2> QED BY <1>1, <1>2, <2>1, ParameterAssumption DEF NewCost
<1>3. CASE d.lsa.ttl # 0
  <2>1. DecTTL(d.lsa.ttl) = d.lsa.ttl - 1
    BY <1>1, <1>3 DEF DecTTL
  <2> QED BY <1>1, <2>1, ParameterAssumption DEF NewCost
<1> QED BY <1>2, <1>3

LEMMA StepSentCosts ==
    ASSUME DescentInv, TypeInv', Survived, RouteTrusted
    PROVE  SentCosts'
<1> SUFFICES ASSUME NEW m \in net', m.type = "LSA", m.sender_node_id # m.src
             PROVE  rt'[m.src][m.sender_node_id].cost <= NewCost(m.lsa.ttl)
  BY DEF SentCosts
<1> DEFINE k == m.sender_node_id
<1>1. TypeInv /\ OriginsKnown /\ SentCosts /\ HeldCosts
  BY DEF DescentInv, KnownInv, HopInv, RouteTrusted
<1>2. m \in Datagrams /\ NewCost(m.lsa.ttl) \in Int
  BY OneFurther DEF TypeInv, TypeOK
<1>3. k \in DOMAIN rt[m.src] /\ rt[m.src][k].cost <= NewCost(m.lsa.ttl)
  <2>1. CASE m \in net
    BY <1>1, <2>1 DEF OriginsKnown, Holder, SentCosts
  <2>2. ASSUME NEW n \in Node, IsOwn(n, m) PROVE FALSE
    BY <2>2 DEF IsOwn
  <2>3. ASSUME NEW n \in Node, IsRelayed(n, m)
        PROVE  k \in DOMAIN rt[m.src] /\ rt[m.src][k].cost <= NewCost(m.lsa.ttl)
    BY <1>1, <2>3 DEF IsRelayed, HeldCosts
  <2>4. ASSUME NEW n \in Node, NEW d \in net, IsAck(n, d, m) PROVE FALSE
    BY <2>4 DEF IsAck
  <2> QED BY <2>1, <2>2, <2>3, <2>4 DEF Survived, Sent
<1>4. m.src \in Node
  BY <1>2 DEF Datagrams
<1>5. /\ rt[m.src][k].cost \in Int /\ rt'[m.src][k].cost \in Int
      /\ rt'[m.src][k].cost <= rt[m.src][k].cost
  BY <1>1, <1>3, <1>4, CostsFall DEF Survived
<1> HIDE DEF NewCost
<1> QED BY <1>2, <1>3, <1>5

LEMMA StepHeldCosts ==
    ASSUME DescentInv, TypeInv', Survived, RouteTrusted
    PROVE  HeldCosts'
<1> SUFFICES ASSUME NEW n \in Node, NEW k \in DOMAIN rt'[n], k # n, rt'[n][k].lsa # NULL
             PROVE  rt'[n][k].cost <= NewCost(rt'[n][k].lsa.ttl)
  BY DEF HeldCosts
<1>1. TypeInv /\ HeldCosts
  BY DEF DescentInv, KnownInv, HopInv
<1>2. CASE IsKept(n, k)
  BY <1>1, <1>2 DEF IsKept, HeldCosts
<1>3. ASSUME NEW d \in net, IsLearnt(n, k, d)
      PROVE  rt'[n][k].cost <= NewCost(rt'[n][k].lsa.ttl)
  <2>1. NewCost(Stored(d).ttl) \in Int /\ rt'[n][k].lsa = Stored(d)
    BY <1>1, <1>3, OneFurther DEF TypeInv, TypeOK, IsLearnt, IsUpdated
  <2>2. k \in DOMAIN rt[n] => rt[n][k].cost \in Int
    BY <1>1 DEF TypeInv, TypeOK, IsRoutingTable, Entries
  <2> HIDE DEF NewCost
  <2> QED BY <1>3, <2>1, <2>2 DEF IsLearnt, IsUpdated
<1>4. ~ IsFlooded(n, k) /\ ~ IsLoaded(n, k)
  BY DEF IsFlooded, IsLoaded
<1> QED BY <1>2, <1>3, <1>4 DEF Survived, Grown

LEMMA StepDescends ==
    ASSUME OwnAddresses, DescentInv, HopInv', Survived, RouteTrusted, RouteTrusted'
    PROVE  Descends'
<1> SUFFICES ASSUME NEW n \in Node, NEW k \in DOMAIN rt'[n], k # n,
                    rt'[n][k].nexthop # k
             PROVE  LET j == rt'[n][k].nexthop
                    IN  k \in DOMAIN rt'[j] /\ rt'[j][k].cost < rt'[n][k].cost
  BY DEF Descends
<1> DEFINE j == rt'[n][k].nexthop
           c == rt'[n][k].cost
<1>1. TypeInv /\ TypeInv' /\ OriginsKnown /\ SentCosts /\ Descends
  BY DEF DescentInv, KnownInv, HopInv, RouteTrusted
<1>2. j \in Node
  BY Links DEF HopInv, NextHops
<1>3. c \in Int /\ c >= 0
  BY <1>1 DEF TypeInv, TypeOK, IsRoutingTable, Entries, RouteTrusted
<1>4. k \in DOMAIN rt[j] /\ rt[j][k].cost < c
  <2>1. ASSUME k \in DOMAIN rt[n], rt[n][k].nexthop = j, rt[n][k].cost = c
        PROVE  k \in DOMAIN rt[j] /\ rt[j][k].cost < c
    BY <1>1, <2>1 DEF Descends
  <2>2. CASE IsKept(n, k)
    BY <2>1, <2>2 DEF IsKept
  <2>3. ASSUME NEW d \in net, IsLearnt(n, k, d)
        PROVE  k \in DOMAIN rt[j] /\ rt[j][k].cost < c
    <3>1. CASE k \in DOMAIN rt[n] /\ ~ (NewCost(Stored(d).ttl) < rt[n][k].cost)
      BY <2>1, <2>3, <3>1 DEF IsLearnt, IsUpdated
    <3>2. CASE ~ (k \in DOMAIN rt[n] /\ ~ (NewCost(Stored(d).ttl) < rt[n][k].cost))
      <4>1. j = Forwarder(n, d) /\ c = NewCost(Stored(d).ttl)
        BY <2>3, <3>2 DEF IsLearnt, IsUpdated
      <4>2. Forwarder(n, d) = d.src
        BY <2>3, ForwarderIsSender DEF IsLearnt
      <4>3. k \in DOMAIN rt[j] /\ rt[j][k].cost <= NewCost(d.lsa.ttl)
        BY <1>1, <2>3, <4>1, <4>2 DEF IsLearnt, OriginsKnown, Holder, SentCosts
      <4>4. /\ NewCost(d.lsa.ttl) \in Int
            /\ \/ NewCost(Stored(d).ttl) = NewCost(d.lsa.ttl) + 1
               \/ NewCost(Stored(d).ttl) < 0
        BY <1>1, OneFurther DEF TypeInv, TypeOK
      <4>5. rt[j][k].cost \in Int
        BY <1>1, <1>2, <4>3 DEF TypeInv, TypeOK, IsRoutingTable, Entries
      <4> HIDE DEF NewCost, c, j
      <4> QED BY <1>3, <4>1, <4>3, <4>4, <4>5
    <3> QED BY <3>1, <3>2
  <2>4. ~ IsFlooded(n, k) /\ ~ IsLoaded(n, k)
    BY DEF IsFlooded, IsLoaded
  <2> QED BY <2>2, <2>3, <2>4 DEF Survived, Grown
<1>5. /\ k \in DOMAIN rt'[j] /\ rt'[j][k].cost <= rt[j][k].cost
      /\ rt[j][k].cost \in Int /\ rt'[j][k].cost \in Int
  BY <1>1, <1>2, <1>4, CostsFall DEF Survived
<1> HIDE DEF c, j
<1>6. k \in DOMAIN rt'[j] /\ rt'[j][k].cost < c
  BY <1>3, <1>4, <1>5
<1> QED BY <1>6 DEF c, j

LEMMA StepDescent ==
    ASSUME OwnAddresses
    PROVE  DescentInv /\ [Next]_vars => DescentInv'
<1> SUFFICES ASSUME DescentInv, [Next]_vars, RouteTrusted'
             PROVE  SentCosts' /\ HeldCosts' /\ Descends'
  BY StepKnown DEF DescentInv
<1>1. HopInv /\ TypeInv /\ HopInv' /\ TypeInv'
  BY StepHops DEF DescentInv, KnownInv, HopInv
<1>2. Survived
  BY <1>1, StepSurvived DEF RouteTrusted
<1>3. RouteTrusted
  BY <1>1, <1>2, TrustLasts
<1> QED BY <1>1, <1>2, <1>3, StepSentCosts, StepHeldCosts, StepDescends

LEMMA InitDescent == Init => DescentInv
<1> SUFFICES ASSUME Init PROVE SentCosts /\ HeldCosts /\ Descends
  BY InitKnown DEF DescentInv
<1>1. \A n \in Node : \A k \in DOMAIN rt[n] : rt[n][k].lsa = NULL /\ rt[n][k].nexthop = k
  BY DEF Init, load_node_conf, LoadedEntry, NoEntries
<1>2. net = {}
  BY DEF Init
<1> QED BY <1>1, <1>2 DEF SentCosts, HeldCosts, Descends

\* Next hops come strictly nearer to the node looked for, so that a request does
\* not go round in a circle (flooding_engine.c:80-101), in every network whose
\* daemons can tell their neighbours apart: whatever was lost or late, and
\* whoever was given up and learnt of again by a longer way.
THEOREM NextHopsLeadNearer ==
    ASSUME OwnAddresses
    PROVE  Spec => []NextHopDescends
<1>1. DescentInv => NextHopDescends
  BY DEF DescentInv, Descends, NextHopDescends
<1>2. DescentInv /\ [Next]_vars => DescentInv'
  BY StepDescent
<1> QED BY <1>1, <1>2, InitDescent, PTL DEF Spec
=============================================================================
