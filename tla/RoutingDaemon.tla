--------------------------- MODULE RoutingDaemon ---------------------------
(***************************************************************************)
(* The routing daemons (rd) of a network of nodes, the datagrams between   *)
(* them, and the crashes and restarts of the daemons.  A daemon is one     *)
(* thread: engine_event runs either the timeout branch (a Tick) or one     *)
(* handler at a time, so each of these is one atomic action.               *)
(***************************************************************************)
EXTENDS ObjectTable, Sequences, FiniteSets

CONSTANTS
    Node,             \* node ids
    Names,            \* object names
    Conf,             \* Conf[n]: the ids in node n's .conf file, n itself first
    Host,             \* Host[n]: the address node n's datagrams come from
    InitFiles,        \* InitFiles[n]: the names in node n's .files file
    DEFAULT_TTL,      \* 32 in constants.h
    RETRANSMIT_TIME,  \* 4 in constants.h
    FLOODING_PERIOD,  \* 10 in constants.h
    INITIAL_STATUS    \* 3, a literal in load_node_conf

CONSTANTS
    Booted,           \* the daemons that run in the initial state
    UninitReads,      \* how a read of an uninitialised num_links may turn out
    Duplicating,      \* TRUE: a datagram may arrive any number of times
    Timely,           \* TRUE: a datagram arrives or is lost within a TIMEOUT
    EqualClocks,      \* TRUE: no clock gains a flooding period on another
    MaxSeq,           \* bound: MaxSeq[n] LSAs daemon n originates between two starts
    MaxLosses,        \* bound: datagrams the network loses
    MaxDeaths         \* bound: crashes after which a daemon is started again

STATUS_DOWN == 0

ASSUME NodeAssumption == IsFiniteSet(Node)

ASSUME ConfAssumption ==
    \A n \in Node :
        /\ Conf[n] \in Seq(Node)
        /\ Len(Conf[n]) >= 1
        /\ Conf[n][1] = n
        /\ \A i, j \in 1 .. Len(Conf[n]) : Conf[n][i] = Conf[n][j] => i = j
        /\ \A i \in 2 .. Len(Conf[n]) : \E j \in 2 .. Len(Conf[Conf[n][i]]) :
               Conf[Conf[n][i]][j] = n    \* a link is configured at both ends

ASSUME FilesAssumption == InitFiles \in [Node -> SUBSET Names]

ASSUME ParameterAssumption ==
    /\ DEFAULT_TTL \in 1 .. 127
    /\ RETRANSMIT_TIME \in Nat \ {0}
    /\ FLOODING_PERIOD \in Nat /\ FLOODING_PERIOD > RETRANSMIT_TIME
    /\ INITIAL_STATUS \in Nat \ {0}
    /\ MaxSeq \in [Node -> Nat] /\ MaxLosses \in Nat /\ MaxDeaths \in Nat
    /\ Booted \subseteq Node
    /\ UninitReads \subseteq {"short", "long", "fault"}
    /\ {Duplicating, Timely, EqualClocks} \subseteq BOOLEAN

VARIABLES
    up,               \* up[n]: the daemon of node n runs
    rt,               \* rt[n]: the routing table, a function from known ids
    gol,              \* gol[n]: the table of global objects
    ol,               \* ol[n]: the table of local objects
    files,            \* files[n]: node n's .files file, which survives a crash
    sequence_number,  \* sequence_number[n]: of the next LSA it originates
    iterations,       \* iterations[n]: timeouts since it flooded
    net,              \* the datagrams sent and not yet consumed
    losses,           \* how many datagrams the network has lost
    deaths            \* how many daemons have died

memory == <<rt, gol, ol, sequence_number, iterations>>
vars == <<up, memory, files, net, losses, deaths>>

-----------------------------------------------------------------------------
(***************************************************************************)
(* The direct neighbours table, read-only after load_node_conf.  Link 0 is *)
(* the node itself and every loop over the neighbours starts at link 1.    *)
(***************************************************************************)

Nbrs(n) == {Conf[n][i] : i \in 2 .. Len(Conf[n])}

LinkIndex(n, j) == CHOOSE i \in 1 .. Len(Conf[n]) : Conf[n][i] = j

Configured(n) == {n} \cup Nbrs(n)

\* Mutant of lookup_link_entry: the hosts are not compared.
AnyLinkEntry(n, address) == Conf[n][2]

\* The first neighbour whose host is the datagram's source address: the
\* forwarder is known by address only, the port is not compared.
lookup_link_entry(n, address) ==
    LET hits == {i \in 2 .. Len(Conf[n]) : Host[Conf[n][i]] = address}
    IN  Conf[n][CHOOSE i \in hits : \A j \in hits : i <= j]

-----------------------------------------------------------------------------
(***************************************************************************)
(* LSAs and datagrams.  An LSA's list of links is left out: no receiver    *)
(* reads more of it than its length.  The TTL is the 8-bit field of        *)
(* version_ttl_type.  An ACK is the datagram it acknowledges sent back     *)
(* with another type.                                                      *)
(***************************************************************************)

\* Mutant of LSA: the sequence number is never set.
UnnumberedLSA(seq, ttl, objs) == [sequence_num |-> 0, ttl |-> ttl, objects |-> objs]

LSA(seq, ttl, objs) == [sequence_num |-> seq, ttl |-> ttl, objects |-> objs]

Datagram(type, src, dst, origin, lsa) ==
    [type |-> type, src |-> src, dst |-> dst,
     sender_node_id |-> origin, lsa |-> lsa]

DecTTL(ttl) == (ttl - 1) % 256

NewCost(ttl) == DEFAULT_TTL - ttl + 1

-----------------------------------------------------------------------------
(***************************************************************************)
(* The routing table.  slot is an entry's index: the configured nodes come *)
(* first, in the order of the .conf file, and a node met later is appended. *)
(***************************************************************************)

FreshCheckers(n) == [j \in Nbrs(n) |-> [ack_received |-> TRUE, retransmit |-> 0]]

\* load_node_conf's entry for a configured node k.  forwarder_id is not read
\* before update_entry stores it: the loader's own store misses the entry.
LoadedEntry(n, k) ==
    [slot |-> LinkIndex(n, k) - 1, nexthop |-> k,
     cost |-> IF k = n THEN 0 ELSE 1, node_status |-> INITIAL_STATUS,
     lsa |-> NULL, lsa_is_new |-> FALSE, forwarder_id |-> NULL,
     checkers |-> FreshCheckers(n)]

\* Mutant of update_entry: the next hop is stored outside of the cost test.
NextHopAlwaysStored(n, t, k, lsa, nexthop) ==
    LET isNew == k \notin DOMAIN t
    IN  [slot |-> IF isNew THEN Cardinality(DOMAIN t) ELSE t[k].slot,
         nexthop |-> nexthop,
         cost |-> IF isNew \/ NewCost(lsa.ttl) < t[k].cost
                  THEN NewCost(lsa.ttl) ELSE t[k].cost,
         node_status |-> RETRANSMIT_TIME,
         lsa |-> lsa, lsa_is_new |-> TRUE, forwarder_id |-> nexthop,
         checkers |-> FreshCheckers(n)]

\* Mutant of update_entry: a new entry has the originator for its next hop.
NextHopIsOriginator(n, t, k, lsa, nexthop) ==
    LET isNew == k \notin DOMAIN t
    IN  [slot |-> IF isNew THEN Cardinality(DOMAIN t) ELSE t[k].slot,
         nexthop |-> k,
         cost |-> IF isNew \/ NewCost(lsa.ttl) < t[k].cost
                  THEN NewCost(lsa.ttl) ELSE t[k].cost,
         node_status |-> RETRANSMIT_TIME,
         lsa |-> lsa, lsa_is_new |-> TRUE, forwarder_id |-> nexthop,
         checkers |-> FreshCheckers(n)]

\* Mutant of update_entry: a node that is down stays down.
DownForGood(n, t, k, lsa, nexthop) ==
    LET isNew   == k \notin DOMAIN t
        cheaper == isNew \/ NewCost(lsa.ttl) < t[k].cost
    IN  [slot |-> IF isNew THEN Cardinality(DOMAIN t) ELSE t[k].slot,
         nexthop |-> IF cheaper THEN nexthop ELSE t[k].nexthop,
         cost |-> IF cheaper THEN NewCost(lsa.ttl) ELSE t[k].cost,
         node_status |-> IF ~isNew /\ t[k].node_status = STATUS_DOWN
                         THEN STATUS_DOWN ELSE RETRANSMIT_TIME,
         lsa |-> lsa, lsa_is_new |-> TRUE, forwarder_id |-> nexthop,
         checkers |-> FreshCheckers(n)]

\* update_entry: the entry for node k of table t at node n after an LSA for it
\* was accepted from the neighbour nexthop, or originated.
update_entry(n, t, k, lsa, nexthop) ==
    LET isNew   == k \notin DOMAIN t
        cheaper == isNew \/ NewCost(lsa.ttl) < t[k].cost
    IN  [slot |-> IF isNew THEN Cardinality(DOMAIN t) ELSE t[k].slot,
         nexthop |-> IF cheaper THEN nexthop ELSE t[k].nexthop,
         cost |-> IF cheaper THEN NewCost(lsa.ttl) ELSE t[k].cost,
         node_status |-> RETRANSMIT_TIME,
         lsa |-> lsa, lsa_is_new |-> TRUE, forwarder_id |-> nexthop,
         checkers |-> FreshCheckers(n)]

\* An LSA was sent to the neighbours js: their acknowledgements are awaited.
Awaiting(checkers, js) ==
    [j \in DOMAIN checkers |->
        IF j \in js THEN [checkers[j] EXCEPT !.ack_received = FALSE]
        ELSE checkers[j]]

-----------------------------------------------------------------------------
(***************************************************************************)
(* Starting and stopping.  main loads the .conf and the .files file; what  *)
(* a daemon held in memory is gone when it dies.                           *)
(***************************************************************************)

NoEntries == [k \in {} |-> NULL]

load_node_conf(n) == [k \in Configured(n) |-> LoadedEntry(n, k)]

load_node_file(n, names) == hash_add(init_hash, names, n, 0)

Init ==
    /\ up = [n \in Node |-> n \in Booted]
    /\ files = InitFiles
    /\ rt = [n \in Node |-> IF n \in Booted THEN load_node_conf(n) ELSE NoEntries]
    /\ gol = [n \in Node |->
                IF n \in Booted THEN load_node_file(n, InitFiles[n]) ELSE init_hash]
    /\ ol = [n \in Node |-> IF n \in Booted THEN InitFiles[n] ELSE {}]
    /\ sequence_number = [n \in Node |-> 0]
    /\ iterations = [n \in Node |-> RETRANSMIT_TIME + 1]
    /\ net = {}
    /\ losses = 0
    /\ deaths = 0

\* The memory of a daemon n that dies, and the death itself.
Die(n) ==
    /\ up' = [up EXCEPT ![n] = FALSE]
    /\ rt' = [rt EXCEPT ![n] = NoEntries]
    /\ gol' = [gol EXCEPT ![n] = init_hash]
    /\ ol' = [ol EXCEPT ![n] = {}]
    /\ sequence_number' = [sequence_number EXCEPT ![n] = 0]
    /\ iterations' = [iterations EXCEPT ![n] = RETRANSMIT_TIME + 1]
    /\ deaths' = deaths + 1
    /\ UNCHANGED <<files, losses>>

Crash(n) ==
    /\ up[n]
    /\ deaths < MaxDeaths
    /\ Die(n)
    /\ UNCHANGED net

Start(n) ==
    /\ ~up[n]
    /\ deaths <= MaxDeaths
    /\ up' = [up EXCEPT ![n] = TRUE]
    /\ rt' = [rt EXCEPT ![n] = load_node_conf(n)]
    /\ gol' = [gol EXCEPT ![n] = load_node_file(n, files[n])]
    /\ ol' = [ol EXCEPT ![n] = files[n]]
    /\ UNCHANGED <<sequence_number, iterations, files, net, losses, deaths>>

-----------------------------------------------------------------------------
(***************************************************************************)
(* The timeout branch of engine_event.  It runs when select finds no       *)
(* socket ready; a datagram still in net is on the wire, not in a socket.  *)
(***************************************************************************)

AfterTimeout(i) == IF i = FLOODING_PERIOD THEN 1 ELSE i + 1

\* Daemon n has originated as many LSAs as the bound allows and does not tick again.
Spent(n) == iterations[n] = FLOODING_PERIOD /\ sequence_number[n] >= MaxSeq[n]

Timeout(n) ==
    /\ up[n]
    /\ Timely => \A m \in net : m.src # n /\ m.dst # n
    /\ EqualClocks => \A j \in Node : up[j] /\ ~Spent(j) =>
                          iterations[n] # AfterTimeout(iterations[j])

\* Mutant of Countdown: a node that is down is counted down as well.
CountdownPastDown(status) == status - 1

Countdown(status) == IF status = STATUS_DOWN THEN STATUS_DOWN ELSE status - 1

\* flood sends the daemon's own LSA to the neighbours that are not down.
FloodTo(n) == {j \in Nbrs(n) : rt[n][j].node_status # STATUS_DOWN}

\* The status of neighbour j when the flooding loop is at entry k: the loop
\* has already counted down the entries before k.
StatusAt(n, k, j) ==
    IF rt[n][j].slot < rt[n][k].slot
    THEN Countdown(rt[n][j].node_status)
    ELSE rt[n][j].node_status

\* flood_received_lsa: where the LSA of entry k is forwarded.
ForwardTo(n, k) ==
    IF k # n /\ rt[n][k].lsa_is_new /\ rt[n][k].node_status # STATUS_DOWN
    THEN {j \in Nbrs(n) \ {rt[n][k].forwarder_id} : StatusAt(n, k, j) # STATUS_DOWN}
    ELSE {}

\* Mutant of TimedOut: an LSA is freed one flood before its node is down.
TimedOutEarly(n) ==
    {k \in DOMAIN rt[n] \ {n} :
        /\ rt[n][k].node_status # STATUS_DOWN
        /\ Countdown(rt[n][k].node_status) <= 1}

\* Mutant of TimedOut: the status is tested before it is counted down.
TimedOutLate(n) ==
    {k \in DOMAIN rt[n] \ {n} : rt[n][k].node_status = STATUS_DOWN}

\* The entries the countdown brings to STATUS_DOWN.
TimedOut(n) ==
    {k \in DOMAIN rt[n] \ {n} :
        /\ rt[n][k].node_status # STATUS_DOWN
        /\ Countdown(rt[n][k].node_status) = STATUS_DOWN}

OwnLSA(n) == LSA(sequence_number[n], DEFAULT_TTL, ol[n])

TableAfterFlood(n) ==
    [k \in DOMAIN rt[n] |->
        IF k = n
        THEN [update_entry(n, rt[n], n, OwnLSA(n), n)
                EXCEPT !.checkers = Awaiting(@, FloodTo(n))]
        ELSE [rt[n][k]
                EXCEPT !.node_status = Countdown(@),
                       !.lsa = IF k \in TimedOut(n) THEN NULL ELSE @,
                       !.checkers = Awaiting(@, ForwardTo(n, k))]]

FloodTick(n) ==
    LET forwarded == UNION {{Datagram("LSA", n, j, k, rt[n][k].lsa) :
                                j \in ForwardTo(n, k)} : k \in DOMAIN rt[n]}
    IN
    /\ Timeout(n)
    /\ iterations[n] = FLOODING_PERIOD
    /\ ~Spent(n)
    /\ rt' = [rt EXCEPT ![n] = TableAfterFlood(n)]
    /\ gol' = [gol EXCEPT ![n] = hash_remove_node(@, TimedOut(n))]
    /\ sequence_number' = [sequence_number EXCEPT ![n] = @ + 1]
    /\ iterations' = [iterations EXCEPT ![n] = AfterTimeout(@)]
    /\ net' = net \cup {Datagram("LSA", n, j, n, OwnLSA(n)) : j \in FloodTo(n)}
                  \cup forwarded
    /\ UNCHANGED <<up, ol, files, losses, deaths>>

(***************************************************************************)
(* retransmit_missing, called for every entry of the table in slot order.  *)
(* A neighbour that let RETRANSMIT_TIME - 1 retransmissions pass is marked *)
(* down and its own LSA is freed, so that a later call, for that LSA,      *)
(* returns at once.                                                        *)
(***************************************************************************)

\* The neighbours that have not acknowledged the LSA of entry k.
Missing(n, k) ==
    {j \in Nbrs(n) \ {rt[n][k].forwarder_id} :
        ~rt[n][k].checkers[j].ack_received}

\* Mutant of Exhausted: one retransmission more than there is time for.
ExhaustedLater(n, k) ==
    {j \in Missing(n, k) :
        rt[n][k].checkers[j].retransmit > RETRANSMIT_TIME - 1}

Exhausted(n, k) ==
    {j \in Missing(n, k) :
        rt[n][k].checkers[j].retransmit >= RETRANSMIT_TIME - 1}

\* The entries that still hold an LSA when the loop comes to them.
Visited(n) ==
    LET entryAt(s) == CHOOSE k \in DOMAIN rt[n] : rt[n][k].slot = s
        visited[s \in 0 .. Cardinality(DOMAIN rt[n]) - 1] ==
            /\ rt[n][entryAt(s)].lsa # NULL
            /\ \A r \in 0 .. s - 1 : visited[r] =>
                    entryAt(s) \notin Exhausted(n, entryAt(r))
    IN  {k \in DOMAIN rt[n] : rt[n][k].lsa # NULL /\ visited[rt[n][k].slot]}

GivenUp(n) == UNION {Exhausted(n, k) : k \in Visited(n)}

\* The neighbours the LSA of entry k is sent to again.
ResendTo(n, k) ==
    IF k \in Visited(n)
    THEN {j \in Missing(n, k) \ Exhausted(n, k) :
            /\ rt[n][j].node_status # STATUS_DOWN
            /\ \A i \in Visited(n) : rt[n][i].slot < rt[n][k].slot =>
                    j \notin Exhausted(n, i)}
    ELSE {}

\* The sends that read an LSA freed earlier in the same call: entry k's own
\* node was given up at a link before j.
ReadsFreed(n, k, j) ==
    k \in Exhausted(n, k) /\ LinkIndex(n, k) < LinkIndex(n, j)

CheckersAfterResend(n, k) ==
    [j \in Nbrs(n) |->
        LET c == rt[n][k].checkers[j]
        IN  IF k \in Visited(n) /\ j \in Exhausted(n, k)
            THEN [c EXCEPT !.ack_received = TRUE]
            ELSE [c EXCEPT !.retransmit = IF j \in ResendTo(n, k) THEN @ + 1 ELSE @]]

TableAfterResend(n) ==
    [k \in DOMAIN rt[n] |->
        [rt[n][k] EXCEPT
            !.node_status = IF k \in GivenUp(n) THEN STATUS_DOWN ELSE @,
            !.lsa = IF k \in GivenUp(n) THEN NULL ELSE @,
            !.checkers = CheckersAfterResend(n, k)]]

\* A freed LSA goes out as it was or with its header overwritten; the latter is
\* taken to be ignored by its receiver, for want of a type lsa_handler knows.
RetransmitTick(n) ==
    LET resent == UNION {{Datagram("LSA", n, j, k, rt[n][k].lsa) :
                            j \in ResendTo(n, k)} : k \in DOMAIN rt[n]}
        freed == {m \in resent : ReadsFreed(n, m.sender_node_id, m.dst)}
    IN
    /\ Timeout(n)
    /\ iterations[n] <= RETRANSMIT_TIME
    /\ rt' = [rt EXCEPT ![n] = TableAfterResend(n)]
    /\ gol' = [gol EXCEPT ![n] = hash_remove_node(@, GivenUp(n))]
    /\ iterations' = [iterations EXCEPT ![n] = AfterTimeout(@)]
    /\ \E overwritten \in SUBSET freed : net' = net \cup (resent \ overwritten)
    /\ UNCHANGED <<up, ol, sequence_number, files, losses, deaths>>

IdleTick(n) ==
    /\ Timeout(n)
    /\ iterations[n] > RETRANSMIT_TIME
    /\ iterations[n] < FLOODING_PERIOD
    /\ iterations' = [iterations EXCEPT ![n] = AfterTimeout(@)]
    /\ UNCHANGED <<up, rt, gol, ol, sequence_number, files, net, losses, deaths>>

Tick(n) == FloodTick(n) \/ RetransmitTick(n) \/ IdleTick(n)

-----------------------------------------------------------------------------
(***************************************************************************)
(* lsa_handler.                                                            *)
(***************************************************************************)

Rest(m) == IF Duplicating THEN net ELSE net \ {m}

\* Mutant of Outdated: the type of the datagram is not looked at.
OutdatedAnyType(t, m) ==
    /\ m.sender_node_id \in DOMAIN t
    /\ t[m.sender_node_id].lsa # NULL
    /\ m.lsa.sequence_num <= t[m.sender_node_id].lsa.sequence_num

\* Mutant of Outdated: an LSA is compared the way an ACK is.
OutdatedUnlessEqual(t, m) ==
    /\ m.sender_node_id \in DOMAIN t
    /\ t[m.sender_node_id].lsa # NULL
    /\ m.lsa.sequence_num # t[m.sender_node_id].lsa.sequence_num

\* The early return: an LSA that is not newer than the one held, an ACK of an
\* LSA that is not the one held.
Outdated(t, m) ==
    /\ m.sender_node_id \in DOMAIN t
    /\ t[m.sender_node_id].lsa # NULL
    /\ LET held == t[m.sender_node_id].lsa.sequence_num
       IN  \/ m.type = "LSA" /\ m.lsa.sequence_num <= held
           \/ m.type = "ACK" /\ m.lsa.sequence_num # held

\* Mutant of store_node_objects: the objects are found at the forwarder.
ObjectsAtForwarder(h, origin, forwarder, lsa) ==
    hash_add(h, lsa.objects, forwarder, NewCost(lsa.ttl))

\* The objects of an LSA are found at its originator.
store_node_objects(h, origin, forwarder, lsa) ==
    hash_add(h, lsa.objects, origin, NewCost(lsa.ttl))

IgnoreDatagram(n, m) ==
    /\ Outdated(rt[n], m)
    /\ net' = Rest(m)
    /\ UNCHANGED <<up, memory, files, losses, deaths>>

\* The LSA as it is stored, and its forwarder as it is looked up.
Stored(m) == [m.lsa EXCEPT !.ttl = DecTTL(@)]

Forwarder(n, m) == lookup_link_entry(n, Host[m.src])

TableAfterLsa(n, m) ==
    [k \in DOMAIN rt[n] \cup {m.sender_node_id} |->
        IF k = m.sender_node_id
        THEN update_entry(n, rt[n], k, Stored(m), Forwarder(n, m))
        ELSE rt[n][k]]

\* A newer LSA: acknowledged to the forwarder, stored with its TTL decremented,
\* and its objects added with the cost of that copy.
AcceptLsa(n, m) ==
    /\ m.type = "LSA"
    /\ ~Outdated(rt[n], m)
    /\ rt' = [rt EXCEPT ![n] = TableAfterLsa(n, m)]
    /\ gol' = [gol EXCEPT ![n] =
                 store_node_objects(@, m.sender_node_id, Forwarder(n, m), Stored(m))]
    /\ net' = Rest(m) \cup
                {Datagram("ACK", n, Forwarder(n, m), m.sender_node_id, m.lsa)}
    /\ UNCHANGED <<up, ol, sequence_number, iterations, files, losses, deaths>>

\* Mutant of CreditAck: the retransmissions are reset, the ACK is not noted.
AckNotNoted(n, forwarder) ==
    rt' = [rt EXCEPT ![n][n].checkers[forwarder].retransmit = 0]

\* The ACK of any LSA is credited to the checkers of table[0], the daemon's
\* own entry, and not to those of the entry it acknowledges.
CreditAck(n, forwarder) ==
    rt' = [rt EXCEPT ![n][n].checkers[forwarder] =
                [ack_received |-> TRUE, retransmit |-> 0]]

AcceptAck(n, m) ==
    /\ m.type = "ACK"
    /\ m.sender_node_id \in Configured(n)
    /\ ~Outdated(rt[n], m)
    /\ CreditAck(n, Forwarder(n, m))
    /\ net' = Rest(m)
    /\ UNCHANGED <<up, gol, ol, sequence_number, iterations, files, losses, deaths>>

\* The entry of a node that is not in the .conf file has a checkers_list whose
\* num_links was never set: the loop over it stops short of the forwarder's
\* checker, goes past it, or runs off the heap.
AckOfLearnedEntry(n, m) ==
    /\ m.type = "ACK"
    /\ m.sender_node_id \in DOMAIN rt[n] \ Configured(n)
    /\ ~Outdated(rt[n], m)
    /\ net' = Rest(m)
    /\ \/ /\ "short" \in UninitReads
          /\ UNCHANGED <<up, memory, files, losses, deaths>>
       \/ /\ "long" \in UninitReads
          /\ CreditAck(n, Forwarder(n, m))
          /\ UNCHANGED <<up, gol, ol, sequence_number, iterations, files, losses,
                         deaths>>
       \/ /\ "fault" \in UninitReads
          /\ Die(n)

\* The ACK of an LSA whose originator has no entry: entry is NULL when its
\* checkers_list is read, and the daemon dies.
AckWithoutEntry(n, m) ==
    /\ m.type = "ACK"
    /\ m.sender_node_id \notin DOMAIN rt[n]
    /\ net' = Rest(m)
    /\ Die(n)

lsa_handler(n) ==
    \E m \in net :
        /\ m.dst = n
        /\ up[n]
        /\ \/ IgnoreDatagram(n, m)
           \/ AcceptLsa(n, m)
           \/ AcceptAck(n, m)
           \/ AckOfLearnedEntry(n, m)
           \/ AckWithoutEntry(n, m)

-----------------------------------------------------------------------------
(***************************************************************************)
(* The ADDFILE branch of build_response, and the network.                  *)
(***************************************************************************)

\* Mutant of AddFile: the name is not written to the .files file.
AddFileNotSaved(n, o) ==
    /\ up[n]
    /\ ~contains_object(gol[n], o)
    /\ gol' = [gol EXCEPT ![n] = hash_add(@, {o}, n, 0)]
    /\ ol' = [ol EXCEPT ![n] = @ \cup {o}]
    /\ UNCHANGED <<up, rt, sequence_number, iterations, files, net, losses, deaths>>

\* Mutant of AddFile: the name is not entered in the table of local objects.
AddFileNotListed(n, o) ==
    /\ up[n]
    /\ ~contains_object(gol[n], o)
    /\ gol' = [gol EXCEPT ![n] = hash_add(@, {o}, n, 0)]
    /\ files' = [files EXCEPT ![n] = @ \cup {o}]
    /\ UNCHANGED <<up, rt, ol, sequence_number, iterations, net, losses, deaths>>

\* A name that already has a pair is refused, whether or not it has a path.
AddFile(n, o) ==
    /\ up[n]
    /\ ~contains_object(gol[n], o)
    /\ gol' = [gol EXCEPT ![n] = hash_add(@, {o}, n, 0)]
    /\ ol' = [ol EXCEPT ![n] = @ \cup {o}]
    /\ files' = [files EXCEPT ![n] = @ \cup {o}]
    /\ UNCHANGED <<up, rt, sequence_number, iterations, net, losses, deaths>>

Lose(m) ==
    /\ ~Duplicating
    /\ IF up[m.dst]
       THEN losses < MaxLosses /\ losses' = losses + 1
       ELSE UNCHANGED losses    \* no socket is bound at the destination
    /\ net' = net \ {m}
    /\ UNCHANGED <<up, memory, files, deaths>>

Next ==
    \/ \E n \in Node : Tick(n) \/ lsa_handler(n) \/ Crash(n) \/ Start(n)
    \/ \E n \in Node, o \in Names : AddFile(n, o)
    \/ \E m \in net : Lose(m)

Spec == Init /\ [][Next]_vars

\* A daemon's select times out again and again, a datagram that stays in its
\* socket is read, and the network does not keep one for a daemon that is dead.
Fairness ==
    /\ \A n \in Node : WF_vars(Tick(n)) /\ WF_vars(lsa_handler(n))
    /\ WF_vars(\E m \in net : ~up[m.dst] /\ Lose(m))

FairSpec == Spec /\ Fairness

-----------------------------------------------------------------------------
(***************************************************************************)
(* The type invariant.                                                     *)
(***************************************************************************)

LSAs == [sequence_num : Nat, ttl : 0 .. 255, objects : SUBSET Names]

Datagrams == [type : {"LSA", "ACK"}, src : Node, dst : Node,
              sender_node_id : Node, lsa : LSAs]

Checkers(n) == [Nbrs(n) -> [ack_received : BOOLEAN, retransmit : Nat]]

Entries(n) ==
    [slot : Nat, nexthop : Node, cost : Int, node_status : Nat,
     lsa : LSAs \cup {NULL}, lsa_is_new : BOOLEAN,
     forwarder_id : Node \cup {NULL}, checkers : Checkers(n)]

Paths == [node_id : Node, cost : Int]

ASSUME NullAssumption == NULL \notin Node /\ NULL \notin LSAs /\ NULL \notin Paths

IsRoutingTable(n, t) ==
    /\ DOMAIN t \subseteq Node
    /\ t \in [DOMAIN t -> Entries(n)]

IsObjectTable(h) ==
    /\ DOMAIN h \subseteq Names
    /\ h \in [DOMAIN h -> Paths \cup {NULL}]

\* Every variable has its type.
TypeOK ==
    /\ up \in [Node -> BOOLEAN]
    /\ DOMAIN rt = Node
    /\ \A n \in Node : IsRoutingTable(n, rt[n])
    /\ DOMAIN gol = Node
    /\ \A n \in Node : IsObjectTable(gol[n])
    /\ ol \in [Node -> SUBSET Names]
    /\ files \in [Node -> SUBSET Names]
    /\ sequence_number \in [Node -> Nat]
    /\ iterations \in [Node -> 1 .. FLOODING_PERIOD]
    /\ net \subseteq Datagrams
    /\ losses \in Nat
    /\ deaths \in Nat

(***************************************************************************)
(* Safety.                                                                 *)
(***************************************************************************)

\* flood_received_lsa reads the originator out of the LSA of every entry that
\* is new and not down (engine_actions.c:91-94): that pointer is never NULL,
\* whatever was given up or timed out before, and the daemon does not die there.
Forwardable(t) ==
    \A k \in DOMAIN t :
        /\ t[k].lsa_is_new /\ t[k].node_status # STATUS_DOWN => t[k].lsa # NULL
        /\ t[k].node_status = STATUS_DOWN => t[k].lsa = NULL

ForwardableHasLsa == \A n \in Node : Forwardable(rt[n])

\* The daemons that run know their configured nodes, and datagrams are between
\* neighbours.
ConfiguredAreKnown == \A n \in Node : up[n] => Configured(n) \subseteq DOMAIN rt[n]

DatagramsFollowLinks == \A m \in net : m.src \in Nbrs(m.dst)

\* TypeOK is inductive together with these: an entry's LSA is only sent on where
\* it is not NULL, and the forwarder of a datagram is only looked up among the
\* neighbours.
TypeInv ==
    TypeOK /\ ForwardableHasLsa /\ ConfiguredAreKnown /\ DatagramsFollowLinks

\* The table of global objects never sends a client to a node the routing table
\* holds to be down: every place that marks a node down also removes its paths
\* (engine_actions.c:101-103, flooding_engine.c:534-535).
NoObjectOfADownNode ==
    \A n \in Node : \A o \in DOMAIN gol[n] :
        gol[n][o] # NULL =>
            /\ gol[n][o].node_id \in DOMAIN rt[n]
            /\ rt[n][gol[n][o].node_id].node_status # STATUS_DOWN

\* An RDGET that finds a path can always be answered: the file is one of the
\* node's own, or the node that has it has a routing entry whose next hop is in
\* the direct neighbours table; build_response checks neither pointer
\* (flask_engine.c:322-342).
RdgetResolvable ==
    \A n \in Node : \A o \in DOMAIN gol[n] :
        LET k == gol[n][o].node_id
        IN  gol[n][o] # NULL =>
                IF k = n THEN o \in ol[n]
                ELSE k \in DOMAIN rt[n] /\ rt[n][k].nexthop \in Nbrs(n)

\* A path leads to a node that has the file, however old the LSA is that it was
\* read from, whoever forwarded it, and whatever has restarted since.
PathsLeadToHolders ==
    \A n \in Node : \A o \in DOMAIN gol[n] :
        gol[n][o] # NULL => o \in files[gol[n][o].node_id]

\* Any copy of an LSA names files that its originator has; a daemon that runs
\* has the files of its .files file.
LsasNameHeldFiles ==
    /\ \A m \in net : m.lsa.objects \subseteq files[m.sender_node_id]
    /\ \A n \in Node : \A k \in DOMAIN rt[n] :
           rt[n][k].lsa # NULL => rt[n][k].lsa.objects \subseteq files[k]
    /\ \A n \in Node : ol[n] = IF up[n] THEN files[n] ELSE {}

\* A name that ADDFILE refuses as existing is the name of a file some node has,
\* also where the path to it was removed and RDGET answers NOTFOUND
\* (flask_engine.c:351-356): no name is refused for ever for the sake of a file
\* that was never stored.
KnownNameIsHeld ==
    \A n \in Node : \A o \in Names :
        contains_object(gol[n], o) => \E k \in Node : o \in files[k]

HolderInv == TypeInv /\ LsasNameHeldFiles /\ PathsLeadToHolders

\* No daemon has died, and no LSA has gone so far that its TTL wrapped.
RouteTrusted ==
    /\ deaths = 0
    /\ \A n \in Node : \A k \in DOMAIN rt[n] : rt[n][k].cost >= 0

\* Following next hops comes strictly nearer to the node looked for, so that a
\* request handed from webserver to webserver does not go round in a circle:
\* the next hop has an entry for the node, and a lower cost to it
\* (flooding_engine.c:80-101).
NextHopDescends ==
    RouteTrusted =>
        \A n \in Node : \A k \in DOMAIN rt[n] :
            LET j == rt[n][k].nexthop
            IN  k # n /\ j # k => k \in DOMAIN rt[j] /\ rt[j][k].cost < rt[n][k].cost

\* As long as no daemon has died, an ACK finds the entry of the LSA it
\* acknowledges; lsa_handler reads that entry's checkers_list without a check
\* (flooding_engine.c:433).
AckFindsEntry ==
    deaths = 0 =>
        \A m \in net : m.type = "ACK" => m.sender_node_id \in DOMAIN rt[m.dst]

\* A sequence number names one LSA: as long as no daemon has died, whatever is
\* held or on the way with the same originator and number has the same objects,
\* and no number is one the originator has not used yet.
OneLsaPerNumber ==
    LET copies == {<<m.sender_node_id, m.lsa>> : m \in net} \cup
                  UNION {{<<k, rt[n][k].lsa>> :
                             k \in {i \in DOMAIN rt[n] : rt[n][i].lsa # NULL}} : n \in Node}
    IN  deaths = 0 =>
            /\ \A c \in copies : c[2].sequence_num < sequence_number[c[1]]
            /\ \A c, d \in copies :
                   c[1] = d[1] /\ c[2].sequence_num = d[2].sequence_num
                       => c[2].objects = d[2].objects

\* Two neighbours that run never hold each other to be down.
LiveNeighbourIsNotDown ==
    \A n \in Node : up[n] =>
        \A j \in Nbrs(n) : up[j] => rt[n][j].node_status # STATUS_DOWN

(***************************************************************************)
(* What a step may never do.                                               *)
(***************************************************************************)

\* flooding_engine.c:493, engine_actions.c:118: an LSA is sent again "if no ACK
\* is received".  Where every datagram arrives before the next timeout and no
\* daemon dies, no timeout sends again an LSA that was sent before.
RetransmitsOnlyWithoutAck ==
    [][\A n \in Node :
           /\ iterations[n] <= RETRANSMIT_TIME
           /\ iterations'[n] # iterations[n]
           => net' \subseteq net]_vars

(***************************************************************************)
(* Liveness.                                                               *)
(***************************************************************************)

\* A file a daemon has is eventually found through each of its neighbours, as
\* long as the bound lets the daemon flood once more.
NeighbourLearns ==
    \A n \in Node : \A j \in Nbrs(n) : \A o \in Names :
        (o \in ol[n] /\ sequence_number[n] < MaxSeq[n])
            ~> (get_paths(gol[j], o) # NULL)

\* A neighbour that was given up while it runs is taken back when its next LSA
\* comes, unless it has given the daemon up as well: then neither sends to the
\* other again (flooding_engine.c:412-427, 478-486).
GivenUpNeighbourIsTakenBack ==
    LET down(n, j) == rt[n][j].node_status = STATUS_DOWN IN
    \A n \in Node : \A j \in Nbrs(n) :
        (up[n] /\ up[j] /\ down(n, j) /\ ~down(j, n) /\ sequence_number[j] < MaxSeq[j])
            ~> (~up[n] \/ ~up[j] \/ ~down(n, j) \/ down(j, n))

\* A daemon stops sending clients to a neighbour that is dead, unless it comes
\* back first.
DeadNeighbourIsForgotten ==
    \A n \in Node : \A j \in Nbrs(n) :
        (up[n] /\ ~up[j] /\ sequence_number[n] < MaxSeq[n])
            ~> \/ ~up[n] \/ up[j]
               \/ \A o \in DOMAIN gol[n] : gol[n][o] # NULL => gol[n][o].node_id # j
=============================================================================
