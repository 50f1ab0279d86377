----------------------------- MODULE PathProofs -----------------------------
(***************************************************************************)
(* Where the paths in a daemon's table of global objects lead: to nodes    *)
(* that have the file, and that the daemon does not hold to be down.       *)
(***************************************************************************)
EXTENDS RoutingDaemonProofs

(***************************************************************************)
(* A path is read from an LSA, so the invariant that is kept is about the  *)
(* LSAs: every copy, on the way or in a table, however old and whoever     *)
(* sent it, names files that its originator has.  It holds across restarts *)
(* because the .files file is all an LSA is built from, and nothing is     *)
(* ever taken out of that file.                                            *)
(***************************************************************************)

\* The table h of any node leads to nodes whose files are F.
LeadsTo(h, F) == \A o \in DOMAIN h : h[o] # NULL => o \in F[h[o].node_id]

LEMMA AddedLeads ==
    ASSUME NEW h, IsObjectTable(h), NEW F \in [Node -> SUBSET Names], LeadsTo(h, F),
           NEW k \in Node, NEW objs \in SUBSET F[k], NEW cost \in Int
    PROVE  LeadsTo(hash_add(h, objs, k, cost), F)
<1> DEFINE new == hash_add(h, objs, k, cost)
<1>1. SUFFICES ASSUME NEW o \in DOMAIN new, new[o] # NULL
               PROVE  o \in F[new[o].node_id]
  BY DEF LeadsTo
<1>2. DOMAIN new = DOMAIN h \cup objs
  BY DEF hash_add
<1>3. CASE o \in objs /\ (o \notin DOMAIN h \/ Nearer(h[o], cost))
  <2>1. new[o] = Path(k, cost)
    BY <1>2, <1>3 DEF hash_add
  <2> QED BY <1>3, <2>1 DEF Path
<1>4. CASE ~ (o \in objs /\ (o \notin DOMAIN h \/ Nearer(h[o], cost)))
  <2>1. new[o] = h[o] /\ o \in DOMAIN h
    BY <1>2, <1>4 DEF hash_add
  <2> QED BY <1>1, <2>1 DEF LeadsTo
<1> QED BY <1>3, <1>4

LEMMA RemovedLeads ==
    ASSUME NEW h, NEW F, LeadsTo(h, F), NEW ids
    PROVE  LeadsTo(hash_remove_node(h, ids), F)
BY DEF LeadsTo, hash_remove_node

LEMMA EmptyLeads ==
    ASSUME NEW F
    PROVE  LeadsTo(init_hash, F)
BY DEF LeadsTo, init_hash

LEMMA LoadedLeads ==
    ASSUME NEW F \in [Node -> SUBSET Names], NEW n \in Node
    PROVE  LeadsTo(load_node_file(n, F[n]), F)
BY EmptyLeads, EmptyTypes, AddedLeads DEF load_node_file

(***************************************************************************)
(* What a step has to show.                                                *)
(***************************************************************************)

\* A node's files only become more.
FilesGrow == \A n \in Node : files[n] \subseteq files'[n]

\* A datagram of the next state is an old one or names files that are there.
DatagramsHeld ==
    \A m \in net' : m \in net \/ m.lsa.objects \subseteq files'[m.sender_node_id]

\* So is an LSA in a table.
EntriesHeld ==
    \A n \in Node : \A k \in DOMAIN rt'[n] :
        \/ rt'[n][k].lsa = NULL
        \/ k \in DOMAIN rt[n] /\ rt'[n][k].lsa = rt[n][k].lsa
        \/ rt'[n][k].lsa.objects \subseteq files'[k]

OwnHeld == \A n \in Node : ol[n] = IF up[n] THEN files[n] ELSE {}

LEMMA HeldStep ==
    ASSUME HolderInv, TypeInv', FilesGrow, DatagramsHeld, EntriesHeld, OwnHeld',
           \A n \in Node : LeadsTo(gol'[n], files')
    PROVE  HolderInv'
<1>1. \A m \in net' : m.lsa.objects \subseteq files'[m.sender_node_id]
  <2>1. SUFFICES ASSUME NEW m \in net', m \in net
                 PROVE  m.lsa.objects \subseteq files'[m.sender_node_id]
    BY DEF DatagramsHeld
  <2>2. m.sender_node_id \in Node
    BY <2>1 DEF HolderInv, TypeInv, TypeOK, Datagrams
  <2> QED BY <2>1, <2>2 DEF HolderInv, LsasNameHeldFiles, FilesGrow
<1>2. ASSUME NEW n \in Node, NEW k \in DOMAIN rt'[n], rt'[n][k].lsa # NULL
      PROVE  rt'[n][k].lsa.objects \subseteq files'[k]
  <2>1. CASE k \in DOMAIN rt[n] /\ rt'[n][k].lsa = rt[n][k].lsa
    <3>1. k \in Node /\ rt[n][k].lsa.objects \subseteq files[k]
      BY <1>2, <2>1 DEF HolderInv, LsasNameHeldFiles, TypeInv, TypeOK, IsRoutingTable
    <3> QED BY <2>1, <3>1 DEF FilesGrow
  <2> QED BY <1>2, <2>1 DEF EntriesHeld
<1>3. LsasNameHeldFiles'
  BY <1>1, <1>2 DEF LsasNameHeldFiles, OwnHeld
<1>4. PathsLeadToHolders'
  BY DEF PathsLeadToHolders, LeadsTo
<1> QED BY <1>3, <1>4 DEF HolderInv

LEMMA HolderFacts ==
    ASSUME HolderInv
    PROVE  /\ TypeInv /\ OwnHeld
           /\ files \in [Node -> SUBSET Names]
           /\ \A n \in Node : LeadsTo(gol[n], files) /\ IsObjectTable(gol[n])
BY DEF HolderInv, LsasNameHeldFiles, PathsLeadToHolders, LeadsTo, OwnHeld, TypeInv, TypeOK

\* A step that changes no file and the object table of one node, or none.
LEMMA SameFiles ==
    ASSUME HolderInv, TypeInv', UNCHANGED <<up, ol, files>>,
           DatagramsHeld, EntriesHeld,
           NEW n \in Node, NEW h, LeadsTo(h, files), gol' = [gol EXCEPT ![n] = h]
    PROVE  HolderInv'
<1>1. FilesGrow /\ OwnHeld'
  BY HolderFacts DEF FilesGrow, OwnHeld
<1>2. \A i \in Node : LeadsTo(gol'[i], files')
  <2>1. DOMAIN gol = Node /\ files' = files
    BY DEF HolderInv, TypeInv, TypeOK
  <2>2. \A i \in Node : gol'[i] = h \/ gol'[i] = gol[i]
    BY <2>1
  <2>3. \A i \in Node : LeadsTo(gol'[i], files)
    BY <2>2, HolderFacts
  <2> QED BY <2>1, <2>3
<1> QED BY <1>1, <1>2, HeldStep

\* A step in which one table becomes t and each LSA of t is held.
LEMMA OneTable ==
    ASSUME HolderInv, NEW n \in Node, NEW t, rt' = [rt EXCEPT ![n] = t],
           \A k \in DOMAIN t :
               \/ t[k].lsa = NULL
               \/ k \in DOMAIN rt[n] /\ t[k].lsa = rt[n][k].lsa
               \/ t[k].lsa.objects \subseteq files'[k]
    PROVE  EntriesHeld
<1>1. DOMAIN rt = Node
  BY DEF HolderInv, TypeInv, TypeOK
<1>2. rt'[n] = t /\ \A i \in Node : i # n => rt'[i] = rt[i]
  BY <1>1
<1> QED BY <1>2 DEF EntriesHeld

LEMMA FloodHeld ==
    ASSUME HolderInv, TypeInv', NEW n \in Node, FloodTick(n)
    PROVE  HolderInv'
<1> DEFINE own == {Datagram("LSA", n, j, n, OwnLSA(n)) : j \in FloodTo(n)}
           forwarded == UNION {{Datagram("LSA", n, j, k, rt[n][k].lsa) :
                                   j \in ForwardTo(n, k)} : k \in DOMAIN rt[n]}
           t == TableAfterFlood(n)
<1>1. /\ rt' = [rt EXCEPT ![n] = t]
      /\ gol' = [gol EXCEPT ![n] = hash_remove_node(@, TimedOut(n))]
      /\ net' = net \cup own \cup forwarded
      /\ up[n]
      /\ UNCHANGED <<up, ol, files>>
  BY DEF FloodTick, Timeout
<1>2. OwnLSA(n) \in LSAs /\ OwnLSA(n).objects = files[n]
  BY <1>1, HolderFacts, OwnLSAType DEF OwnHeld, OwnLSA, LSA, TypeInv
<1>3. EntriesHeld
  <2>1. ASSUME NEW k \in DOMAIN t
        PROVE  \/ t[k].lsa = NULL
               \/ k \in DOMAIN rt[n] /\ t[k].lsa = rt[n][k].lsa
               \/ t[k].lsa.objects \subseteq files'[k]
    <3>1. k \in DOMAIN rt[n]
      BY <2>1 DEF TableAfterFlood
    <3>2. k # n => t[k].lsa \in {NULL, rt[n][k].lsa}
      BY <3>1, HolderFacts, FloodedFields
    <3>3. k = n => t[k].lsa = OwnLSA(n)
      <4>1. IsRoutingTable(n, rt[n])
        BY HolderFacts DEF TypeInv, TypeOK
      <4>2. update_entry(n, rt[n], n, OwnLSA(n), n).lsa = OwnLSA(n)
        BY <1>2, <4>1, UpdatedEntry
      <4> QED BY <3>1, <4>2, HolderFacts, FloodedFields
    <3> HIDE DEF t
    <3> QED BY <1>1, <1>2, <3>1, <3>2, <3>3
  <2> HIDE DEF t
  <2> QED BY <1>1, <2>1, OneTable
<1>4. DatagramsHeld
  <2>1. ASSUME NEW m \in own PROVE m.lsa.objects \subseteq files'[m.sender_node_id]
    BY <1>1, <1>2 DEF Datagram
  <2>2. ASSUME NEW m \in forwarded PROVE m.lsa.objects \subseteq files'[m.sender_node_id]
    <3>1. PICK k \in DOMAIN rt[n] : \E j \in ForwardTo(n, k) :
              m = Datagram("LSA", n, j, k, rt[n][k].lsa)
      BY <2>2
    <3>2. rt[n][k].lsa # NULL
      BY <3>1 DEF ForwardTo, HolderInv, TypeInv, ForwardableHasLsa, Forwardable
    <3>3. rt[n][k].lsa.objects \subseteq files[k]
      BY <3>2 DEF HolderInv, LsasNameHeldFiles
    <3> QED BY <1>1, <3>1, <3>3 DEF Datagram
  <2> HIDE DEF own, forwarded
  <2> QED BY <1>1, <2>1, <2>2 DEF DatagramsHeld
<1>5. LeadsTo(hash_remove_node(gol[n], TimedOut(n)), files)
  BY HolderFacts, RemovedLeads
<1> HIDE DEF t
<1> QED BY <1>1, <1>3, <1>4, <1>5, SameFiles

LEMMA ResendHeld ==
    ASSUME HolderInv, TypeInv', NEW n \in Node, RetransmitTick(n)
    PROVE  HolderInv'
<1> DEFINE resent == UNION {{Datagram("LSA", n, j, k, rt[n][k].lsa) :
                                j \in ResendTo(n, k)} : k \in DOMAIN rt[n]}
           t == TableAfterResend(n)
<1>1. /\ rt' = [rt EXCEPT ![n] = t]
      /\ gol' = [gol EXCEPT ![n] = hash_remove_node(@, GivenUp(n))]
      /\ net' \subseteq net \cup resent
      /\ UNCHANGED <<up, ol, files>>
  BY DEF RetransmitTick
<1>2. EntriesHeld
  <2>1. ASSUME NEW k \in DOMAIN t
        PROVE  \/ t[k].lsa = NULL
               \/ k \in DOMAIN rt[n] /\ t[k].lsa = rt[n][k].lsa
               \/ t[k].lsa.objects \subseteq files'[k]
    <3>1. k \in DOMAIN rt[n]
      BY <2>1 DEF TableAfterResend
    <3>2. t[k].lsa = IF k \in GivenUp(n) THEN NULL ELSE rt[n][k].lsa
      BY <3>1, HolderFacts, ResentFields
    <3> HIDE DEF t
    <3> QED BY <3>1, <3>2
  <2> HIDE DEF t
  <2> QED BY <1>1, <2>1, OneTable
<1>3. DatagramsHeld
  <2>1. ASSUME NEW m \in resent PROVE m.lsa.objects \subseteq files'[m.sender_node_id]
    <3>1. PICK k \in DOMAIN rt[n] : \E j \in ResendTo(n, k) :
              m = Datagram("LSA", n, j, k, rt[n][k].lsa)
      BY <2>1
    <3>2. rt[n][k].lsa # NULL
      BY <3>1, VisitedHasLsa DEF ResendTo
    <3>3. rt[n][k].lsa.objects \subseteq files[k]
      BY <3>2 DEF HolderInv, LsasNameHeldFiles
    <3> QED BY <1>1, <3>1, <3>3 DEF Datagram
  <2> HIDE DEF resent
  <2> QED BY <1>1, <2>1 DEF DatagramsHeld
<1>4. LeadsTo(hash_remove_node(gol[n], GivenUp(n)), files)
  BY HolderFacts, RemovedLeads
<1> HIDE DEF t
<1> QED BY <1>1, <1>2, <1>3, <1>4, SameFiles

\* A step that leaves the object tables and the files, and every LSA.
LEMMA NothingLearnt ==
    ASSUME HolderInv, TypeInv', UNCHANGED <<up, ol, gol, files>>,
           net' \subseteq net, EntriesHeld
    PROVE  HolderInv'
<1>1. FilesGrow /\ OwnHeld' /\ DatagramsHeld
  BY HolderFacts DEF FilesGrow, OwnHeld, DatagramsHeld
<1>2. \A i \in Node : LeadsTo(gol'[i], files')
  BY HolderFacts
<1> QED BY <1>1, <1>2, HeldStep

LEMMA AcceptHeld ==
    ASSUME HolderInv, TypeInv', NEW n \in Node, NEW m \in net, m.dst = n,
           AcceptLsa(n, m)
    PROVE  HolderInv'
<1> DEFINE ack == Datagram("ACK", n, Forwarder(n, m), m.sender_node_id, m.lsa)
           t == TableAfterLsa(n, m)
           k == m.sender_node_id
           h == store_node_objects(gol[n], k, Forwarder(n, m), Stored(m))
<1>1. /\ rt' = [rt EXCEPT ![n] = t]
      /\ gol' = [gol EXCEPT ![n] = h]
      /\ net' = Rest(m) \cup {ack}
      /\ UNCHANGED <<up, ol, files>>
  BY DEF AcceptLsa
<1>2. m \in Datagrams /\ k \in Node /\ m.lsa \in LSAs /\ m.lsa.objects \subseteq files[k]
  BY DEF HolderInv, LsasNameHeldFiles, TypeInv, TypeOK, Datagrams
<1>3. Stored(m) \in LSAs /\ Stored(m).objects = m.lsa.objects
  BY <1>2, StoredType DEF Stored, LSAs
<1>4. EntriesHeld
  <2>1. IsRoutingTable(n, rt[n])
    BY HolderFacts DEF TypeInv, TypeOK
  <2>2. Forwarder(n, m) \in Node
    BY HolderFacts, ForwarderIsNeighbour, Links DEF TypeInv, DatagramsFollowLinks
  <2>3. update_entry(n, rt[n], k, Stored(m), Forwarder(n, m)).lsa = Stored(m)
    BY <1>2, <1>3, <2>1, <2>2, UpdatedEntry
  <2>4. t[k].lsa = Stored(m)
        /\ \A i \in DOMAIN t : i # k => i \in DOMAIN rt[n] /\ t[i] = rt[n][i]
    BY <2>3 DEF TableAfterLsa
  <2> HIDE DEF t
  <2>5. ASSUME NEW i \in DOMAIN t
        PROVE  \/ t[i].lsa = NULL
               \/ i \in DOMAIN rt[n] /\ t[i].lsa = rt[n][i].lsa
               \/ t[i].lsa.objects \subseteq files'[i]
    BY <1>1, <1>2, <1>3, <2>4
  <2> QED BY <1>1, <2>5, OneTable
<1>5. DatagramsHeld
  <2>1. ack.lsa.objects \subseteq files'[ack.sender_node_id]
    BY <1>1, <1>2 DEF Datagram
  <2> HIDE DEF ack
  <2> QED BY <1>1, <2>1 DEF DatagramsHeld, Rest
<1>6. LeadsTo(h, files)
  <2>1. NewCost(Stored(m).ttl) \in Int
    BY <1>3, ParameterAssumption DEF NewCost, LSAs
  <2> QED BY <1>2, <1>3, <2>1, HolderFacts, AddedLeads DEF store_node_objects
<1> HIDE DEF t, h
<1> QED BY <1>1, <1>4, <1>5, <1>6, SameFiles

LEMMA CreditHeld ==
    ASSUME HolderInv, TypeInv', NEW n \in Node, up[n], NEW m \in net, m.dst = n,
           CreditAck(n, Forwarder(n, m)), net' = Rest(m),
           UNCHANGED <<up, ol, gol, files>>
    PROVE  HolderInv'
<1>1. Forwarder(n, m) \in Nbrs(n)
  BY ForwarderIsNeighbour DEF HolderInv, TypeInv, DatagramsFollowLinks
<1>2. DOMAIN rt = Node /\ DOMAIN rt' = Node
  BY HolderFacts, CreditedTable, <1>1 DEF TypeInv, TypeOK
<1>3. ASSUME NEW i \in Node
      PROVE  DOMAIN rt'[i] = DOMAIN rt[i]
  BY DEF CreditAck, HolderInv, TypeInv, TypeOK
<1>4. EntriesHeld
  BY <1>1, <1>3, HolderFacts, CreditedFields DEF EntriesHeld
<1> QED BY <1>4, NothingLearnt DEF Rest

LEMMA DieHeld ==
    ASSUME HolderInv, TypeInv', NEW n \in Node, Die(n), net' \subseteq net
    PROVE  HolderInv'
<1>1. FilesGrow /\ DatagramsHeld /\ files' = files
  BY DEF Die, FilesGrow, DatagramsHeld
<1>2. OwnHeld'
  BY HolderFacts DEF Die, OwnHeld, TypeInv, TypeOK
<1>3. EntriesHeld
  <2>1. \A k \in DOMAIN NoEntries : FALSE
    BY DEF NoEntries
  <2> QED BY <2>1, OneTable DEF Die
<1>4. \A i \in Node : LeadsTo(gol'[i], files')
  <2>1. gol' = [gol EXCEPT ![n] = init_hash] /\ DOMAIN gol = Node
    BY DEF Die, HolderInv, TypeInv, TypeOK
  <2>2. \A i \in Node : gol'[i] = init_hash \/ gol'[i] = gol[i]
    BY <2>1
  <2>3. \A i \in Node : LeadsTo(gol'[i], files)
    BY <2>2, HolderFacts, EmptyLeads
  <2> QED BY <1>1, <2>3
<1> QED BY <1>1, <1>2, <1>3, <1>4, HeldStep

LEMMA StartHeld ==
    ASSUME HolderInv, TypeInv', NEW n \in Node, Start(n)
    PROVE  HolderInv'
<1>1. /\ up' = [up EXCEPT ![n] = TRUE]
      /\ rt' = [rt EXCEPT ![n] = load_node_conf(n)]
      /\ gol' = [gol EXCEPT ![n] = load_node_file(n, files[n])]
      /\ ol' = [ol EXCEPT ![n] = files[n]]
      /\ UNCHANGED <<files, net>>
  BY DEF Start
<1>2. FilesGrow /\ DatagramsHeld
  BY <1>1 DEF FilesGrow, DatagramsHeld
<1>3. OwnHeld'
  BY <1>1, HolderFacts DEF OwnHeld, TypeInv, TypeOK
<1>4. EntriesHeld
  <2>1. \A k \in DOMAIN load_node_conf(n) : load_node_conf(n)[k].lsa = NULL
    BY DEF load_node_conf, LoadedEntry
  <2> QED BY <1>1, <2>1, OneTable
<1>5. \A i \in Node : LeadsTo(gol'[i], files')
  <2>1. DOMAIN gol = Node
    BY DEF HolderInv, TypeInv, TypeOK
  <2>2. \A i \in Node : gol'[i] = load_node_file(n, files[n]) \/ gol'[i] = gol[i]
    BY <1>1, <2>1
  <2>3. \A i \in Node : LeadsTo(gol'[i], files)
    BY <2>2, HolderFacts, LoadedLeads
  <2> QED BY <1>1, <2>3
<1> QED BY <1>2, <1>3, <1>4, <1>5, HeldStep

LEMMA AddFileHeld ==
    ASSUME HolderInv, TypeInv', NEW n \in Node, NEW o \in Names, AddFile(n, o)
    PROVE  HolderInv'
<1>1. /\ up[n] /\ UNCHANGED <<up, rt, net>>
      /\ gol' = [gol EXCEPT ![n] = hash_add(gol[n], {o}, n, 0)]
      /\ ol' = [ol EXCEPT ![n] = @ \cup {o}]
      /\ files' = [files EXCEPT ![n] = @ \cup {o}]
  BY DEF AddFile
<1>2. files' \in [Node -> SUBSET Names] /\ o \in files'[n] /\ FilesGrow
  BY <1>1, HolderFacts DEF FilesGrow
<1>3. DatagramsHeld /\ EntriesHeld
  BY <1>1 DEF DatagramsHeld, EntriesHeld
<1>4. OwnHeld'
  BY <1>1, HolderFacts DEF OwnHeld, TypeInv, TypeOK
<1>5. ASSUME NEW i \in Node PROVE LeadsTo(gol'[i], files')
  <2>1. ASSUME NEW j \in Node PROVE LeadsTo(gol[j], files')
    <3>1. SUFFICES ASSUME NEW p \in DOMAIN gol[j], gol[j][p] # NULL
                   PROVE  p \in files'[gol[j][p].node_id]
      BY DEF LeadsTo
    <3>2. p \in files[gol[j][p].node_id] /\ gol[j][p] \in Paths
      BY <3>1, HolderFacts DEF LeadsTo, IsObjectTable
    <3> QED BY <1>2, <3>2 DEF FilesGrow, Paths
  <2>2. LeadsTo(hash_add(gol[n], {o}, n, 0), files')
    BY <1>2, <2>1, HolderFacts, AddedLeads
  <2>3. DOMAIN gol = Node
    BY HolderFacts DEF TypeInv, TypeOK
  <2>4. gol'[i] = hash_add(gol[n], {o}, n, 0) \/ gol'[i] = gol[i]
    BY <1>1, <2>3
  <2> QED BY <2>1, <2>2, <2>4
<1> QED BY <1>2, <1>3, <1>4, <1>5, HeldStep

LEMMA HandlerHeld ==
    ASSUME HolderInv, TypeInv', NEW n \in Node, lsa_handler(n)
    PROVE  HolderInv'
<1>1. PICK m \in net :
          /\ m.dst = n
          /\ up[n]
          /\ \/ IgnoreDatagram(n, m)
             \/ AcceptLsa(n, m)
             \/ AcceptAck(n, m)
             \/ AckOfLearnedEntry(n, m)
             \/ AckWithoutEntry(n, m)
  BY DEF lsa_handler
<1>2. CASE IgnoreDatagram(n, m)
  BY <1>2, NothingLearnt DEF IgnoreDatagram, Rest, memory, EntriesHeld
<1>3. CASE AcceptLsa(n, m)
  BY <1>1, <1>3, AcceptHeld
<1>4. CASE AcceptAck(n, m)
  BY <1>1, <1>4, CreditHeld DEF AcceptAck
<1>5. CASE AckOfLearnedEntry(n, m)
  <2>1. net' = Rest(m) /\ net' \subseteq net
    BY <1>5 DEF AckOfLearnedEntry, Rest
  <2>2. CASE UNCHANGED <<up, memory, files, losses, deaths>>
    BY <2>1, <2>2, NothingLearnt DEF memory, EntriesHeld
  <2>3. CASE CreditAck(n, Forwarder(n, m)) /\ UNCHANGED <<up, gol, ol, files>>
    BY <1>1, <2>1, <2>3, CreditHeld
  <2>4. CASE Die(n)
    BY <2>1, <2>4, DieHeld
  <2> QED BY <1>5, <2>2, <2>3, <2>4 DEF AckOfLearnedEntry
<1>6. CASE AckWithoutEntry(n, m)
  <2>1. net' \subseteq net /\ Die(n)
    BY <1>6 DEF AckWithoutEntry, Rest
  <2> QED BY <2>1, DieHeld
<1> QED BY <1>1, <1>2, <1>3, <1>4, <1>5, <1>6

LEMMA InitHeld == Init => HolderInv
<1> SUFFICES ASSUME Init PROVE HolderInv
  OBVIOUS
<1>1. TypeInv
  BY InitType
<1>2. \A n \in Node : \A k \in DOMAIN rt[n] : rt[n][k].lsa = NULL
  BY DEF Init, load_node_conf, LoadedEntry, NoEntries
<1>3. \A n \in Node : LeadsTo(gol[n], files)
  BY EmptyLeads, LoadedLeads, FilesAssumption DEF Init
<1> QED BY <1>1, <1>2, <1>3
        DEF Init, HolderInv, LsasNameHeldFiles, PathsLeadToHolders, LeadsTo

LEMMA StepHeld == HolderInv /\ [Next]_vars => HolderInv'
<1> SUFFICES ASSUME HolderInv, [Next]_vars PROVE HolderInv'
  OBVIOUS
<1>1. TypeInv'
  BY StepType DEF HolderInv
<1>2. ASSUME NEW n \in Node, Tick(n) PROVE HolderInv'
  <2>1. CASE IdleTick(n)
    BY <1>1, <2>1, NothingLearnt DEF IdleTick, EntriesHeld
  <2> QED BY <1>1, <1>2, <2>1, FloodHeld, ResendHeld DEF Tick
<1>3. ASSUME NEW n \in Node, lsa_handler(n) PROVE HolderInv'
  BY <1>1, <1>3, HandlerHeld
<1>4. ASSUME NEW n \in Node, Crash(n) PROVE HolderInv'
  BY <1>1, <1>4, DieHeld DEF Crash
<1>5. ASSUME NEW n \in Node, Start(n) PROVE HolderInv'
  BY <1>1, <1>5, StartHeld
<1>6. ASSUME NEW n \in Node, NEW o \in Names, AddFile(n, o) PROVE HolderInv'
  BY <1>1, <1>6, AddFileHeld
<1>7. ASSUME NEW m \in net, Lose(m) PROVE HolderInv'
  BY <1>1, <1>7, NothingLearnt DEF Lose, memory, EntriesHeld
<1>8. CASE UNCHANGED vars
  BY <1>1, <1>8, NothingLearnt DEF vars, memory, EntriesHeld
<1> QED BY <1>2, <1>3, <1>4, <1>5, <1>6, <1>7, <1>8 DEF Next

\* A path leads to a node that has the file (flooding_engine.c:601-618), in
\* every network, whatever is lost, comes twice, dies or starts again.
THEOREM EveryPathLeadsToAHolder == Spec => []PathsLeadToHolders
<1>1. HolderInv => PathsLeadToHolders
  BY DEF HolderInv
<1> QED BY <1>1, InitHeld, StepHeld, PTL DEF Spec

(***************************************************************************)
(* Nodes that are down.                                                    *)
(***************************************************************************)

\* The nodes of table t that are not held to be down.
Alive(t) == {k \in DOMAIN t : t[k].node_status # STATUS_DOWN}

\* The nodes the paths of table h lead to.
Targets(h) == {h[o].node_id : o \in {p \in DOMAIN h : h[p] # NULL}}

\* A daemon is never down to itself: an ADDFILE may add a path to it any time.
OwnAlive == \A n \in Node : up[n] => n \in Alive(rt[n])

DownInv ==
    TypeInv /\ OwnAlive /\ \A n \in Node : Targets(gol[n]) \subseteq Alive(rt[n])

LEMMA AddedTargets ==
    ASSUME NEW h, NEW objs, NEW k, NEW cost
    PROVE  Targets(hash_add(h, objs, k, cost)) \subseteq Targets(h) \cup {k}
BY DEF Targets, hash_add, Path

LEMMA RemovedTargets ==
    ASSUME NEW h, NEW ids
    PROVE  Targets(hash_remove_node(h, ids)) \subseteq Targets(h) \ ids
BY DEF Targets, hash_remove_node

LEMMA EmptyTargets == Targets(init_hash) = {}
BY DEF Targets, init_hash

\* A step that changes the tables of one daemon.
LEMMA OneDaemon ==
    ASSUME DownInv, TypeInv', NEW n \in Node, NEW h, NEW t,
           rt' = [rt EXCEPT ![n] = t], gol' = [gol EXCEPT ![n] = h],
           \A i \in Node \ {n} : up'[i] = up[i],
           Targets(h) \subseteq Alive(t), up'[n] => n \in Alive(t)
    PROVE  DownInv'
<1>1. DOMAIN rt = Node /\ DOMAIN gol = Node
  BY DEF DownInv, TypeInv, TypeOK
<1>2. /\ rt'[n] = t /\ gol'[n] = h
      /\ \A i \in Node \ {n} : rt'[i] = rt[i] /\ gol'[i] = gol[i]
  BY <1>1
<1>3. \A i \in Node : Targets(gol'[i]) \subseteq Alive(rt'[i])
  BY <1>2 DEF DownInv
<1>4. OwnAlive'
  BY <1>2 DEF DownInv, OwnAlive
<1> QED BY <1>3, <1>4 DEF DownInv

\* A step that leaves who is down, and the object tables.
LEMMA SameStatus ==
    ASSUME DownInv, TypeInv', UNCHANGED <<up, gol>>,
           \A i \in Node : Alive(rt[i]) \subseteq Alive(rt'[i])
    PROVE  DownInv'
BY DEF DownInv, OwnAlive

LEMMA FloodDown ==
    ASSUME DownInv, TypeInv', NEW n \in Node, FloodTick(n)
    PROVE  DownInv'
<1> DEFINE t == TableAfterFlood(n)
           h == hash_remove_node(gol[n], TimedOut(n))
<1>1. /\ rt' = [rt EXCEPT ![n] = t] /\ gol' = [gol EXCEPT ![n] = h]
      /\ up' = up /\ up[n]
  BY DEF FloodTick, Timeout
<1>2. ASSUME NEW k \in Alive(rt[n]) \ TimedOut(n)
      PROVE  k \in Alive(t)
  <2>1. k \in DOMAIN rt[n] /\ DOMAIN t = DOMAIN rt[n]
    BY <1>2 DEF Alive, TableAfterFlood
  <2>2. CASE k = n
    <3>1. IsRoutingTable(n, rt[n]) /\ OwnLSA(n) \in LSAs
      BY OwnLSAType DEF DownInv, TypeInv, TypeOK
    <3>2. update_entry(n, rt[n], n, OwnLSA(n), n).node_status = RETRANSMIT_TIME
      BY <3>1, UpdatedEntry
    <3>3. t[k].node_status = RETRANSMIT_TIME
      BY <2>1, <2>2, <3>2, FloodedFields DEF DownInv
    <3> HIDE DEF t
    <3> QED BY <2>1, <3>3, ParameterAssumption DEF Alive, STATUS_DOWN
  <2>3. CASE k # n
    <3>1. t[k].node_status = Countdown(rt[n][k].node_status)
      BY <2>1, <2>3, FloodedFields DEF DownInv
    <3> HIDE DEF t
    <3> QED BY <1>2, <2>1, <2>3, <3>1 DEF Alive, TimedOut
  <2> QED BY <2>2, <2>3
<1>3. n \in Alive(rt[n]) \ TimedOut(n)
  BY <1>1 DEF DownInv, OwnAlive, TimedOut
<1>4. Targets(h) \subseteq Alive(rt[n]) \ TimedOut(n)
  BY RemovedTargets DEF DownInv
<1> HIDE DEF t, h
<1>5. Targets(h) \subseteq Alive(t) /\ n \in Alive(t)
  BY <1>2, <1>3, <1>4
<1> QED BY <1>1, <1>5, OneDaemon

LEMMA ResendDown ==
    ASSUME DownInv, TypeInv', NEW n \in Node, RetransmitTick(n)
    PROVE  DownInv'
<1> DEFINE t == TableAfterResend(n)
           h == hash_remove_node(gol[n], GivenUp(n))
<1>1. /\ rt' = [rt EXCEPT ![n] = t] /\ gol' = [gol EXCEPT ![n] = h]
      /\ up' = up /\ up[n]
  BY DEF RetransmitTick, Timeout
<1>2. ASSUME NEW k \in Alive(rt[n]) \ GivenUp(n)
      PROVE  k \in Alive(t)
  <2>1. k \in DOMAIN rt[n] /\ DOMAIN t = DOMAIN rt[n]
    BY <1>2 DEF Alive, TableAfterResend
  <2>2. t[k].node_status = rt[n][k].node_status
    BY <1>2, <2>1, ResentFields DEF DownInv
  <2> HIDE DEF t
  <2> QED BY <1>2, <2>1, <2>2 DEF Alive
<1>3. n \in Alive(rt[n]) \ GivenUp(n)
  <2>1. n \notin Nbrs(n)
    BY Links
  <2> QED BY <1>1, <2>1 DEF DownInv, OwnAlive, GivenUp, Exhausted, Missing
<1>4. Targets(h) \subseteq Alive(rt[n]) \ GivenUp(n)
  BY RemovedTargets DEF DownInv
<1> HIDE DEF t, h
<1>5. Targets(h) \subseteq Alive(t) /\ n \in Alive(t)
  BY <1>2, <1>3, <1>4
<1> QED BY <1>1, <1>5, OneDaemon

LEMMA AcceptDown ==
    ASSUME DownInv, TypeInv', NEW n \in Node, up[n], NEW m \in net, m.dst = n,
           AcceptLsa(n, m)
    PROVE  DownInv'
<1> DEFINE t == TableAfterLsa(n, m)
           k == m.sender_node_id
           h == store_node_objects(gol[n], k, Forwarder(n, m), Stored(m))
<1>1. rt' = [rt EXCEPT ![n] = t] /\ gol' = [gol EXCEPT ![n] = h] /\ up' = up
  BY DEF AcceptLsa
<1>2. t[k].node_status # STATUS_DOWN
  <2>1. m \in Datagrams /\ k \in Node /\ Stored(m) \in LSAs /\ IsRoutingTable(n, rt[n])
    BY StoredType DEF DownInv, TypeInv, TypeOK, Datagrams
  <2>2. Forwarder(n, m) \in Node
    BY ForwarderIsNeighbour, Links DEF DownInv, TypeInv, DatagramsFollowLinks
  <2>3. update_entry(n, rt[n], k, Stored(m), Forwarder(n, m)).node_status = RETRANSMIT_TIME
    BY <2>1, <2>2, UpdatedEntry
  <2>4. t[k].node_status = RETRANSMIT_TIME
    BY <2>3 DEF TableAfterLsa
  <2> HIDE DEF t
  <2> QED BY <2>4, ParameterAssumption DEF STATUS_DOWN
<1>3. Alive(rt[n]) \cup {k} \subseteq Alive(t)
  <2>1. k \in DOMAIN t /\ DOMAIN rt[n] \subseteq DOMAIN t
        /\ \A i \in DOMAIN t : i # k => t[i] = rt[n][i]
    BY DEF TableAfterLsa
  <2> HIDE DEF t
  <2> QED BY <1>2, <2>1 DEF Alive
<1>4. Targets(h) \subseteq Targets(gol[n]) \cup {k}
  BY AddedTargets DEF store_node_objects
<1> HIDE DEF t, h
<1>5. Targets(h) \subseteq Alive(t) /\ n \in Alive(t)
  BY <1>3, <1>4 DEF DownInv, OwnAlive
<1> QED BY <1>1, <1>5, OneDaemon

LEMMA CreditDown ==
    ASSUME DownInv, TypeInv', NEW n \in Node, up[n], NEW m \in net, m.dst = n,
           CreditAck(n, Forwarder(n, m)), UNCHANGED <<up, gol>>
    PROVE  DownInv'
<1>1. Forwarder(n, m) \in Nbrs(n)
  BY ForwarderIsNeighbour DEF DownInv, TypeInv, DatagramsFollowLinks
<1>2. ASSUME NEW i \in Node, NEW k \in Alive(rt[i])
      PROVE  k \in Alive(rt'[i])
  <2>1. k \in DOMAIN rt[i] /\ rt[i][k].node_status # STATUS_DOWN
    BY <1>2 DEF Alive
  <2>2. rt'[i][k].node_status = rt[i][k].node_status /\ DOMAIN rt'[i] = DOMAIN rt[i]
    BY <1>1, <2>1, CreditedFields DEF DownInv
  <2> QED BY <2>1, <2>2 DEF Alive
<1> QED BY <1>2, SameStatus

LEMMA DieDown ==
    ASSUME DownInv, TypeInv', NEW n \in Node, Die(n)
    PROVE  DownInv'
<1>1. /\ rt' = [rt EXCEPT ![n] = NoEntries] /\ gol' = [gol EXCEPT ![n] = init_hash]
      /\ up' = [up EXCEPT ![n] = FALSE]
  BY DEF Die
<1>2. ~up'[n] /\ \A i \in Node \ {n} : up'[i] = up[i]
  BY <1>1 DEF DownInv, TypeInv, TypeOK
<1> QED BY <1>1, <1>2, EmptyTargets, OneDaemon

\* What a started daemon has: its own files, and no node that is down.
LEMMA StartedDown ==
    ASSUME NEW n \in Node, NEW names
    PROVE  /\ Targets(load_node_file(n, names)) \subseteq {n}
           /\ n \in Alive(load_node_conf(n))
<1>1. Targets(load_node_file(n, names)) \subseteq {n}
  BY EmptyTargets, AddedTargets DEF load_node_file
<1>2. n \in Alive(load_node_conf(n))
  BY ParameterAssumption
     DEF Alive, load_node_conf, LoadedEntry, Configured, STATUS_DOWN
<1> QED BY <1>1, <1>2

LEMMA StartDown ==
    ASSUME DownInv, TypeInv', NEW n \in Node, Start(n)
    PROVE  DownInv'
<1>1. /\ rt' = [rt EXCEPT ![n] = load_node_conf(n)]
      /\ gol' = [gol EXCEPT ![n] = load_node_file(n, files[n])]
      /\ up' = [up EXCEPT ![n] = TRUE]
  BY DEF Start
<1>2. \A i \in Node \ {n} : up'[i] = up[i]
  BY <1>1 DEF DownInv, TypeInv, TypeOK
<1>3. Targets(load_node_file(n, files[n])) \subseteq Alive(load_node_conf(n))
  BY StartedDown
<1> QED BY <1>1, <1>2, <1>3, StartedDown, OneDaemon

LEMMA AddFileDown ==
    ASSUME DownInv, TypeInv', NEW n \in Node, NEW o \in Names, AddFile(n, o)
    PROVE  DownInv'
<1> DEFINE h == hash_add(gol[n], {o}, n, 0)
<1>1. up[n] /\ UNCHANGED <<up, rt>> /\ gol' = [gol EXCEPT ![n] = h]
  BY DEF AddFile
<1>2. Targets(h) \subseteq Targets(gol[n]) \cup {n}
  BY AddedTargets
<1> HIDE DEF h
<1>3. ASSUME NEW i \in Node PROVE Targets(gol'[i]) \subseteq Alive(rt'[i])
  <2>1. DOMAIN gol = Node
    BY DEF DownInv, TypeInv, TypeOK
  <2>2. CASE i = n
    BY <1>1, <1>2, <2>1, <2>2 DEF DownInv, OwnAlive
  <2>3. CASE i # n
    BY <1>1, <2>1, <2>3 DEF DownInv
  <2> QED BY <2>2, <2>3
<1> QED BY <1>1, <1>3 DEF DownInv, OwnAlive

LEMMA HandlerDown ==
    ASSUME DownInv, TypeInv', NEW n \in Node, lsa_handler(n)
    PROVE  DownInv'
<1>1. PICK m \in net :
          /\ m.dst = n
          /\ up[n]
          /\ \/ IgnoreDatagram(n, m)
             \/ AcceptLsa(n, m)
             \/ AcceptAck(n, m)
             \/ AckOfLearnedEntry(n, m)
             \/ AckWithoutEntry(n, m)
  BY DEF lsa_handler
<1>2. CASE IgnoreDatagram(n, m)
  BY <1>2, SameStatus DEF IgnoreDatagram, memory
<1>3. CASE AcceptLsa(n, m)
  BY <1>1, <1>3, AcceptDown
<1>4. CASE AcceptAck(n, m)
  BY <1>1, <1>4, CreditDown DEF AcceptAck
<1>5. CASE AckOfLearnedEntry(n, m)
  <2>1. CASE UNCHANGED <<up, memory, files, losses, deaths>>
    BY <2>1, SameStatus DEF memory
  <2>2. CASE CreditAck(n, Forwarder(n, m)) /\ UNCHANGED <<up, gol>>
    BY <1>1, <2>2, CreditDown
  <2>3. CASE Die(n)
    BY <2>3, DieDown
  <2> QED BY <1>5, <2>1, <2>2, <2>3 DEF AckOfLearnedEntry
<1>6. CASE AckWithoutEntry(n, m)
  BY <1>6, DieDown DEF AckWithoutEntry
<1> QED BY <1>1, <1>2, <1>3, <1>4, <1>5, <1>6

LEMMA InitDown == Init => DownInv
<1> SUFFICES ASSUME Init PROVE DownInv
  OBVIOUS
<1>1. ASSUME NEW n \in Node
      PROVE  /\ up[n] => n \in Alive(rt[n])
             /\ Targets(gol[n]) \subseteq Alive(rt[n])
  BY StartedDown, EmptyTargets DEF Init
<1> QED BY <1>1, InitType DEF DownInv, OwnAlive

LEMMA StepDown == DownInv /\ [Next]_vars => DownInv'
<1> SUFFICES ASSUME DownInv, [Next]_vars PROVE DownInv'
  OBVIOUS
<1>1. TypeInv'
  BY StepType DEF DownInv
<1>2. ASSUME NEW n \in Node, Tick(n) PROVE DownInv'
  <2>1. CASE IdleTick(n)
    BY <1>1, <2>1, SameStatus DEF IdleTick
  <2> QED BY <1>1, <1>2, <2>1, FloodDown, ResendDown DEF Tick
<1>3. ASSUME NEW n \in Node, lsa_handler(n) PROVE DownInv'
  BY <1>1, <1>3, HandlerDown
<1>4. ASSUME NEW n \in Node, Crash(n) PROVE DownInv'
  BY <1>1, <1>4, DieDown DEF Crash
<1>5. ASSUME NEW n \in Node, Start(n) PROVE DownInv'
  BY <1>1, <1>5, StartDown
<1>6. ASSUME NEW n \in Node, NEW o \in Names, AddFile(n, o) PROVE DownInv'
  BY <1>1, <1>6, AddFileDown
<1>7. ASSUME NEW m \in net, Lose(m) PROVE DownInv'
  BY <1>1, <1>7, SameStatus DEF Lose, memory
<1>8. CASE UNCHANGED vars
  BY <1>1, <1>8, SameStatus DEF vars, memory
<1> QED BY <1>2, <1>3, <1>4, <1>5, <1>6, <1>7, <1>8 DEF Next

\* No path leads to a node that the routing table holds to be down, although a
\* node is marked down at two places and marked up again at a third
\* (engine_actions.c:101-103, flooding_engine.c:534-535).
THEOREM NoPathToADownNode == Spec => []NoObjectOfADownNode
<1>1. ASSUME DownInv PROVE NoObjectOfADownNode
  <2>1. SUFFICES ASSUME NEW n \in Node, NEW o \in DOMAIN gol[n], gol[n][o] # NULL
                 PROVE  gol[n][o].node_id \in Alive(rt[n])
    BY DEF NoObjectOfADownNode, Alive
  <2>2. gol[n][o].node_id \in Targets(gol[n])
    BY <2>1 DEF Targets
  <2> QED BY <1>1, <2>2 DEF DownInv
<1> QED BY <1>1, InitDown, StepDown, PTL DEF Spec

(***************************************************************************)
(* What an RDGET reads.                                                    *)
(***************************************************************************)

\* The next hop to every other node is a neighbour.
NextHops(n, t) == \A k \in DOMAIN t : k # n => t[k].nexthop \in Nbrs(n)

\* So it is, and a daemon that does not run knows nobody.
HopInv ==
    /\ TypeInv
    /\ \A n \in Node : NextHops(n, rt[n]) /\ (up[n] \/ DOMAIN rt[n] = {})

\* A step that changes the routing table of one daemon.
LEMMA OneHops ==
    ASSUME HopInv, TypeInv', NEW n \in Node, NEW t, rt' = [rt EXCEPT ![n] = t],
           NextHops(n, t), up'[n] \/ DOMAIN t = {},
           \A i \in Node \ {n} : up'[i] = up[i]
    PROVE  HopInv'
<1>1. rt'[n] = t /\ \A i \in Node \ {n} : rt'[i] = rt[i]
  BY DEF HopInv, TypeInv, TypeOK
<1> QED BY <1>1 DEF HopInv

LEMMA FloodHops ==
    ASSUME HopInv, TypeInv', NEW n \in Node, FloodTick(n)
    PROVE  HopInv'
<1> DEFINE t == TableAfterFlood(n)
<1>1. rt' = [rt EXCEPT ![n] = t] /\ up' = up /\ up[n]
  BY DEF FloodTick, Timeout
<1>2. ASSUME NEW k \in DOMAIN t, k # n PROVE t[k].nexthop \in Nbrs(n)
  <2>1. k \in DOMAIN rt[n]
    BY <1>2 DEF TableAfterFlood
  <2>2. t[k].nexthop = rt[n][k].nexthop
    BY <1>2, <2>1, FloodedFields DEF HopInv
  <2> HIDE DEF t
  <2> QED BY <1>2, <2>1, <2>2 DEF HopInv, NextHops
<1> HIDE DEF t
<1> QED BY <1>1, <1>2, OneHops DEF NextHops

LEMMA ResendHops ==
    ASSUME HopInv, TypeInv', NEW n \in Node, RetransmitTick(n)
    PROVE  HopInv'
<1> DEFINE t == TableAfterResend(n)
<1>1. rt' = [rt EXCEPT ![n] = t] /\ up' = up /\ up[n]
  BY DEF RetransmitTick, Timeout
<1>2. ASSUME NEW k \in DOMAIN t, k # n PROVE t[k].nexthop \in Nbrs(n)
  <2>1. k \in DOMAIN rt[n]
    BY <1>2 DEF TableAfterResend
  <2>2. t[k].nexthop = rt[n][k].nexthop
    BY <2>1, ResentFields DEF HopInv
  <2> HIDE DEF t
  <2> QED BY <1>2, <2>1, <2>2 DEF HopInv, NextHops
<1> HIDE DEF t
<1> QED BY <1>1, <1>2, OneHops DEF NextHops

LEMMA AcceptHops ==
    ASSUME HopInv, TypeInv', NEW n \in Node, up[n], NEW m \in net, m.dst = n,
           AcceptLsa(n, m)
    PROVE  HopInv'
<1> DEFINE t == TableAfterLsa(n, m)
           k == m.sender_node_id
           e == update_entry(n, rt[n], k, Stored(m), Forwarder(n, m))
<1>1. rt' = [rt EXCEPT ![n] = t] /\ up' = up
  BY DEF AcceptLsa
<1>2. Forwarder(n, m) \in Nbrs(n)
  BY ForwarderIsNeighbour DEF HopInv, TypeInv, DatagramsFollowLinks
<1>3. e.nexthop = Forwarder(n, m) \/ (k \in DOMAIN rt[n] /\ e.nexthop = rt[n][k].nexthop)
  <2>1. m \in Datagrams /\ k \in Node /\ IsRoutingTable(n, rt[n])
    BY DEF HopInv, TypeInv, TypeOK, Datagrams
  <2>2. Stored(m) \in LSAs /\ Forwarder(n, m) \in Node
    BY <1>2, <2>1, StoredType, Links
  <2> QED BY <2>1, <2>2, UpdatedFields
<1>4. k # n => e.nexthop \in Nbrs(n)
  <2> HIDE DEF e
  <2> QED BY <1>2, <1>3 DEF HopInv, NextHops
<1>5. t[k] = e /\ \A i \in DOMAIN t : i # k => i \in DOMAIN rt[n] /\ t[i] = rt[n][i]
  BY DEF TableAfterLsa
<1> HIDE DEF t, e
<1>6. NextHops(n, t)
  BY <1>4, <1>5 DEF HopInv, NextHops
<1> QED BY <1>1, <1>6, OneHops

LEMMA CreditHops ==
    ASSUME HopInv, TypeInv', NEW n \in Node, up[n], NEW m \in net, m.dst = n,
           CreditAck(n, Forwarder(n, m)), UNCHANGED up
    PROVE  HopInv'
<1>1. Forwarder(n, m) \in Nbrs(n)
  BY ForwarderIsNeighbour DEF HopInv, TypeInv, DatagramsFollowLinks
<1>2. ASSUME NEW i \in Node PROVE DOMAIN rt'[i] = DOMAIN rt[i]
  BY DEF CreditAck, HopInv, TypeInv, TypeOK
<1>3. ASSUME NEW i \in Node, NEW k \in DOMAIN rt'[i], k # i
      PROVE  rt'[i][k].nexthop \in Nbrs(i)
  <2>1. k \in DOMAIN rt[i]
    BY <1>2, <1>3
  <2>2. rt'[i][k].nexthop = rt[i][k].nexthop
    BY <1>1, <2>1, CreditedFields DEF HopInv
  <2> QED BY <1>3, <2>1, <2>2 DEF HopInv, NextHops
<1> QED BY <1>2, <1>3 DEF HopInv, NextHops

LEMMA DieHops ==
    ASSUME HopInv, TypeInv', NEW n \in Node, Die(n)
    PROVE  HopInv'
<1>1. rt' = [rt EXCEPT ![n] = NoEntries] /\ \A i \in Node \ {n} : up'[i] = up[i]
  BY DEF Die, HopInv, TypeInv, TypeOK
<1>2. NextHops(n, NoEntries) /\ DOMAIN NoEntries = {}
  BY DEF NextHops, NoEntries
<1> QED BY <1>1, <1>2, OneHops

LEMMA HandlerHops ==
    ASSUME HopInv, TypeInv', NEW n \in Node, lsa_handler(n)
    PROVE  HopInv'
<1>1. PICK m \in net :
          /\ m.dst = n
          /\ up[n]
          /\ \/ IgnoreDatagram(n, m)
             \/ AcceptLsa(n, m)
             \/ AcceptAck(n, m)
             \/ AckOfLearnedEntry(n, m)
             \/ AckWithoutEntry(n, m)
  BY DEF lsa_handler
<1>2. CASE UNCHANGED <<up, rt>>
  BY <1>2 DEF HopInv
<1>3. CASE AcceptLsa(n, m)
  BY <1>1, <1>3, AcceptHops
<1>4. CASE CreditAck(n, Forwarder(n, m)) /\ UNCHANGED up
  BY <1>1, <1>4, CreditHops
<1>5. CASE Die(n)
  BY <1>5, DieHops
<1> QED BY <1>1, <1>2, <1>3, <1>4, <1>5
        DEF IgnoreDatagram, AcceptAck, AckOfLearnedEntry, AckWithoutEntry, memory

LEMMA LoadedHops ==
    ASSUME NEW n \in Node
    PROVE  NextHops(n, load_node_conf(n))
BY DEF NextHops, load_node_conf, LoadedEntry, Configured

LEMMA StartHops ==
    ASSUME HopInv, TypeInv', NEW n \in Node, Start(n)
    PROVE  HopInv'
<1>1. /\ rt' = [rt EXCEPT ![n] = load_node_conf(n)]
      /\ up'[n] /\ \A i \in Node \ {n} : up'[i] = up[i]
  BY DEF Start, HopInv, TypeInv, TypeOK
<1> QED BY <1>1, LoadedHops, OneHops

LEMMA InitHops == Init => HopInv
<1> SUFFICES ASSUME Init PROVE HopInv
  OBVIOUS
<1>1. \A n \in Node : NextHops(n, rt[n]) /\ (up[n] \/ DOMAIN rt[n] = {})
  BY LoadedHops DEF Init, NextHops, NoEntries
<1> QED BY <1>1, InitType DEF HopInv

LEMMA StepHops == HopInv /\ [Next]_vars => HopInv'
<1> SUFFICES ASSUME HopInv, [Next]_vars PROVE HopInv'
  OBVIOUS
<1>1. TypeInv'
  BY StepType DEF HopInv
<1>2. CASE UNCHANGED <<up, rt>>
  BY <1>1, <1>2 DEF HopInv
<1>3. ASSUME NEW n \in Node, Tick(n) PROVE HopInv'
  BY <1>1, <1>2, <1>3, FloodHops, ResendHops DEF Tick, IdleTick
<1>4. ASSUME NEW n \in Node, lsa_handler(n) PROVE HopInv'
  BY <1>1, <1>4, HandlerHops
<1>5. ASSUME NEW n \in Node, Crash(n) \/ Start(n) PROVE HopInv'
  BY <1>1, <1>5, DieHops, StartHops DEF Crash
<1>6. CASE \/ \E n \in Node, o \in Names : AddFile(n, o)
           \/ \E m \in net : Lose(m)
           \/ UNCHANGED vars
  BY <1>2, <1>6 DEF AddFile, Lose, vars, memory
<1> QED BY <1>3, <1>4, <1>5, <1>6 DEF Next

LEMMA TablesFollow == HolderInv /\ DownInv /\ HopInv => RdgetResolvable
<1>1. SUFFICES ASSUME HolderInv, DownInv, HopInv,
                      NEW n \in Node, NEW o \in DOMAIN gol[n], gol[n][o] # NULL
               PROVE  IF gol[n][o].node_id = n THEN o \in ol[n]
                      ELSE /\ gol[n][o].node_id \in DOMAIN rt[n]
                           /\ rt[n][gol[n][o].node_id].nexthop \in Nbrs(n)
  BY DEF RdgetResolvable
<1>2. gol[n][o].node_id \in DOMAIN rt[n]
  BY <1>1 DEF DownInv, Targets, Alive
<1>3. CASE gol[n][o].node_id = n
  <2>1. o \in files[n]
    BY <1>1, <1>3 DEF HolderInv, PathsLeadToHolders
  <2>2. ol[n] = files[n]
    BY <1>1, <1>2, <1>3 DEF HolderInv, LsasNameHeldFiles, HopInv
  <2> QED BY <1>3, <2>1, <2>2
<1>4. CASE gol[n][o].node_id # n
  BY <1>1, <1>2, <1>4 DEF HopInv, NextHops
<1> QED BY <1>3, <1>4

\* An RDGET that finds a path reads neither a NULL routing entry nor a NULL link
\* (flask_engine.c:322-342), whatever was learnt and forgotten before, and in
\* particular after deaths and restarts.
THEOREM RdgetReadsNoNull == Spec => []RdgetResolvable
BY TablesFollow, InitHeld, StepHeld, InitDown, StepDown, InitHops, StepHops, PTL DEF Spec

(***************************************************************************)
(* Names that have a pair.                                                 *)
(***************************************************************************)

\* Some node has a file of this name.
IsHeld(o) == \E k \in Node : o \in files[k]

\* A step adds no names to any table but those of files.
NamesHeld ==
    \A n \in Node : \A o \in DOMAIN gol'[n] : o \in DOMAIN gol[n] \/ IsHeld(o)'

\* A step that changes the table of one daemon, or none.
LEMMA OneTableNames ==
    ASSUME TypeInv, NEW n \in Node, NEW h, gol' = [gol EXCEPT ![n] = h],
           \A o \in DOMAIN h : o \in DOMAIN gol[n] \/ IsHeld(o)'
    PROVE  NamesHeld
BY DEF NamesHeld, TypeInv, TypeOK

LEMMA NamesStep ==
    ASSUME KnownNameIsHeld, TypeInv, FilesGrow, NamesHeld
    PROVE  KnownNameIsHeld'
<1>1. SUFFICES ASSUME NEW n \in Node, NEW o \in Names, o \in DOMAIN gol'[n]
               PROVE  \E k \in Node : o \in files'[k]
  BY DEF KnownNameIsHeld, contains_object
<1>2. CASE o \in DOMAIN gol[n]
  BY <1>1, <1>2 DEF KnownNameIsHeld, contains_object, FilesGrow
<1> QED BY <1>1, <1>2 DEF NamesHeld, IsHeld

LEMMA AcceptNames ==
    ASSUME HolderInv, TypeInv', NEW n \in Node, NEW m \in net, AcceptLsa(n, m)
    PROVE  NamesHeld
<1>1. /\ gol' = [gol EXCEPT ![n] =
                   hash_add(gol[n], m.lsa.objects, m.sender_node_id,
                            NewCost(Stored(m).ttl))]
      /\ files' = files
  BY DEF AcceptLsa, store_node_objects, Stored, HolderInv, TypeInv, TypeOK, Datagrams, LSAs
<1>2. m.sender_node_id \in Node /\ m.lsa.objects \subseteq files[m.sender_node_id]
  BY DEF HolderInv, LsasNameHeldFiles, TypeInv, TypeOK, Datagrams
<1>3. \A o \in m.lsa.objects : IsHeld(o)'
  BY <1>1, <1>2 DEF IsHeld
<1> QED BY <1>1, <1>3, OneTableNames DEF hash_add, HolderInv

LEMMA StepNames == HolderInv /\ KnownNameIsHeld /\ [Next]_vars => KnownNameIsHeld'
<1> SUFFICES ASSUME HolderInv, KnownNameIsHeld, [Next]_vars PROVE KnownNameIsHeld'
  OBVIOUS
<1>1. TypeInv /\ TypeInv' /\ files \in [Node -> SUBSET Names]
  BY StepType DEF HolderInv, TypeInv, TypeOK
<1>2. CASE UNCHANGED <<gol, files>>
  BY <1>2 DEF KnownNameIsHeld
<1>3. ASSUME NEW n \in Node, NEW ids,
             gol' = [gol EXCEPT ![n] = hash_remove_node(gol[n], ids)], UNCHANGED files
      PROVE  KnownNameIsHeld'
  <2>1. NamesHeld
    BY <1>1, <1>3, OneTableNames DEF hash_remove_node
  <2> QED BY <1>1, <1>3, <2>1, NamesStep DEF FilesGrow
<1>4. ASSUME NEW n \in Node, gol' = [gol EXCEPT ![n] = init_hash], UNCHANGED files
      PROVE  KnownNameIsHeld'
  <2>1. \A o \in DOMAIN init_hash : o \in DOMAIN gol[n] \/ IsHeld(o)'
    BY DEF init_hash
  <2>2. NamesHeld
    BY <1>1, <1>4, <2>1, OneTableNames
  <2> QED BY <1>1, <1>4, <2>2, NamesStep DEF FilesGrow
<1>5. ASSUME NEW n \in Node, Tick(n) PROVE KnownNameIsHeld'
  BY <1>2, <1>3, <1>5 DEF Tick, FloodTick, RetransmitTick, IdleTick
<1>6. ASSUME NEW n \in Node, lsa_handler(n) PROVE KnownNameIsHeld'
  <2>1. PICK m \in net :
            \/ IgnoreDatagram(n, m)
            \/ AcceptLsa(n, m)
            \/ AcceptAck(n, m)
            \/ AckOfLearnedEntry(n, m)
            \/ AckWithoutEntry(n, m)
    BY <1>6 DEF lsa_handler
  <2>2. CASE AcceptLsa(n, m)
    BY <1>1, <2>2, AcceptNames, NamesStep DEF AcceptLsa, FilesGrow
  <2> QED BY <1>2, <1>4, <2>1, <2>2
          DEF IgnoreDatagram, AcceptAck, AckOfLearnedEntry, AckWithoutEntry, Die, memory
<1>7. ASSUME NEW n \in Node, Crash(n) PROVE KnownNameIsHeld'
  BY <1>4, <1>7 DEF Crash, Die
<1>8. ASSUME NEW n \in Node, Start(n) PROVE KnownNameIsHeld'
  <2>1. gol' = [gol EXCEPT ![n] = load_node_file(n, files[n])] /\ files' = files
    BY <1>8 DEF Start
  <2>2. DOMAIN load_node_file(n, files[n]) = files[n]
    BY DEF load_node_file, hash_add, init_hash
  <2>3. NamesHeld
    BY <1>1, <2>1, <2>2, OneTableNames DEF IsHeld
  <2> QED BY <1>1, <2>1, <2>3, NamesStep DEF FilesGrow
<1>9. ASSUME NEW n \in Node, NEW o \in Names, AddFile(n, o) PROVE KnownNameIsHeld'
  <2>1. /\ gol' = [gol EXCEPT ![n] = hash_add(gol[n], {o}, n, 0)]
        /\ files' = [files EXCEPT ![n] = @ \cup {o}]
    BY <1>9 DEF AddFile
  <2>2. FilesGrow /\ IsHeld(o)'
    BY <1>1, <2>1 DEF FilesGrow, IsHeld
  <2>3. NamesHeld
    BY <1>1, <2>1, <2>2, OneTableNames DEF hash_add
  <2> QED BY <1>1, <2>2, <2>3, NamesStep
<1>10. CASE (\E m \in net : Lose(m)) \/ UNCHANGED vars
  BY <1>2, <1>10 DEF Lose, vars, memory
<1> QED BY <1>5, <1>6, <1>7, <1>8, <1>9, <1>10 DEF Next

LEMMA InitNames == Init => KnownNameIsHeld
<1> SUFFICES ASSUME Init, NEW n \in Node, NEW o \in Names, o \in DOMAIN gol[n]
             PROVE  \E k \in Node : o \in files[k]
  BY DEF KnownNameIsHeld, contains_object
<1>1. gol[n] = load_node_file(n, InitFiles[n]) \/ gol[n] = init_hash
  BY DEF Init
<1>2. o \in InitFiles[n]
  BY <1>1 DEF load_node_file, hash_add, init_hash
<1> QED BY <1>2 DEF Init

\* A name that ADDFILE refuses is that of a file some node has
\* (flask_engine.c:351-356), in every network and after any deaths.
THEOREM RefusedNameIsHeld == Spec => []KnownNameIsHeld
BY InitNames, StepNames, InitHeld, StepHeld, PTL DEF Spec
=============================================================================
