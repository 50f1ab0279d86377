# Verification of the routing daemon

This directory models the distributed file-serving network of `src/` in TLA+:
nodes that each run a routing daemon (`src/rd/`, C) and a webserver
(`src/starter/webserver.py`).  The daemons flood link state advertisements
(LSAs) over UDP to learn where objects are, and answer the webserver's `RDGET`
and `ADDFILE` requests over TCP.  Line numbers below are those of the source
files.

## 1. Inventory

| Part | Code | State | Operations |
|---|---|---|---|
| Flooding and acknowledgement | `rd/flooding_engine.c`, `routing_table.h`, `lsa.h` | `rt` (routing table: per known node its next hop, cost, `node_status`, stored LSA, `lsa_is_new`, `forwarder_id`, `ack_checkers`), `sequence_number` | `flood`, `flood_received_lsa`, `retransmit_missing`, `lsa_handler`, `update_entry`, `store_node_objects`, `create_packet` |
| Timeouts | `rd/engine_actions.c`, timeout branch of `engine_event` | the local `iterations` | flood and count every node down, retransmit, idle |
| Select loop, flask connections | `rd/engine_actions.c`, `flask_engine.c`, `tcp_connection.c`, `engine_wrapper.h` | `rfds`, `wfds`, their `temp_` copies, `nfds`, `connections[]` | `new_client_handler`, `flask_request_handler`, `flask_response_handler`, `recv_handler`, `send_handler` |
| Table of global objects | `rd/hashset.c` | `hash` (buckets of chained pairs), `obj_names`, `num_objs` | `hash_add`, `hash_remove_node`, `hash_remove_object`, `get_paths`, `contains_object`, `collapse` |
| Files | `rd/file_loader.c`, `direct_links.h`, `local_objects.h` | `dl` (neighbours, read only), `ol` (own objects), the `.files` file | `load_node_conf`, `load_node_file`, the append of `ADDFILE` |
| Process | `rd/rd.c` | the globals above | start; everything but the `.files` file dies with the process |
| Webserver | `starter/webserver.py` | none between requests | `rd_getrd`, which fetches what it is answered from its own files or from the next webserver, and `rd_addfile`; one connection to the daemon per request: connect, send, wait, close |

How they interact.  A daemon is one thread: `engine_event` either runs its
timeout branch or one handler per ready descriptor, so a handler is atomic with
respect to the others, and all concurrency is between daemons, the network, the
webserver threads, and the death and start of processes.  `lsa_handler` and the
timeout branch write `rt` and `gol`; `build_response` reads `gol`, then `rt`, then
`dl`, and for `ADDFILE` writes `gol`, `ol` and the file.  Daemons share nothing but
datagrams; a daemon and its webserver only TCP connections.

What is hard here.

* Datagrams are lost, delayed, duplicated and reordered; acknowledgements and
  retransmissions are the code's own, with one checker per neighbour and entry.
* Three tables (`gol`, `rt`, `dl`) are followed one after the other without a
  test, and are changed by different events.
* A node is held to be down by a countdown and by a count of retransmissions; both
  free its LSA and forget its paths, while LSAs of it may still be on their way.
* A daemon that restarts numbers its LSAs from 0 again and has lost its tables,
  while its neighbours have not; its `.files` file survives.
* Descriptors are used again for other clients, with a response waiting.
* One counter (`nfds`) bounds the array of connections and never comes down.

`PROJECT.json` lists the hazards line by line, with the properties that watch them
or the reason why none does.

What makes each part correct.  *Flooding*: LSAs reach every node, the newest is
kept, requests handed along next hops come nearer, paths lead to nodes that have
the file, a dead neighbour is forgotten and a live one is not, a NULL LSA is never
read.  *Connections*: an answer goes to its own request, descriptors stay inside of
the array, accepted clients are answered, the daemon goes on.  *Object table*: it
behaves as a function from names to nearest paths.  *Files*: what was added is
found after a restart, and neighbours are told of it under its name.  *Requests*: a
file that is served is one that a node has, a file whose adding was confirmed is
kept, no answer is a URI that nobody wrote, and every request ends.

## 2. Modules

| Module | Models | Notes |
|---|---|---|
| `ObjectTable` | what `hashset.c` promises | operators on functions from names to paths; a pair whose path was freed is a name mapped to `NULL` |
| `GlobalObjects` | the same as a state machine | the abstract specification that `HashSet` implements |
| `HashSet` | `hashset.c` | buckets as sequences, `obj_names` as an array |
| `RoutingDaemon` | a network of daemons | extends `ObjectTable`; uses no buckets, by the refinement |
| `FlaskEngine` | one daemon's select loop and its clients | extends `ObjectTable`; LSAs and timeouts only change `gol` |
| `FileService` | what the network promises its clients | the abstract specification that `Requests` implements |
| `Requests` | clients, webservers and the network of daemons together | extends `RoutingDaemon`: every step of the network may come between two of a request |
| `LsaPacket` | the bytes of an LSA | operators only: how the names are laid out, cut off and read |
| `NodeFiles` | one node's files and their names | extends `ObjectTable` and `LsaPacket` |
| `MCHashSet`, `MCRoutingDaemon`, `MCFlaskEngine`, `MCRequests`, `MCNodeFiles` | the instances for TLC | topologies, names, symmetry, stuttering at the bounds |
| `RoutingDaemonProofs`, `PathProofs`, `RouteProofs`, `RequestsProofs` | proofs about the network | the last two build on `PathProofs`, that on `RoutingDaemonProofs` |
| `PairProofs` | proofs about networks of pairs | what daemons hold of each other's lives; builds on `RoutingDaemonProofs` |
| `FlaskEngineProofs`, `HashSetProofs`, `NodeFilesProofs` | proofs about one daemon's parts | |

### RoutingDaemon

One action per event of `engine_event` and of the world around it.

| Action | Code |
|---|---|
| `FloodTick(n)` | the flooding timeout, `engine_actions.c:81-116`: own LSA to the neighbours that are not down, forwarding of every new LSA, countdown of every entry, freeing of what timed out.  The loop forwards entry `k` after the entries before it were counted down, which `StatusAt` keeps |
| `RetransmitTick(n)` | `retransmit_missing` for every entry, `flooding_engine.c:503-549`.  A neighbour that is given up in one call changes the later ones: `Visited`, `ResendTo`.  A send of the LSA that this very call has freed (`ReadsFreed`) sends the old bytes or bytes that the receiver ignores |
| `IdleTick(n)` | a timeout in which nothing is due |
| `lsa_handler(n)` | `flooding_engine.c:396-445`, split into the early return (`IgnoreDatagram`), `AcceptLsa`, and the ACKs: `AcceptAck` (credited to `table[0]`), `AckOfLearnedEntry`, `AckWithoutEntry` |
| `AddFile(n, o)` | the `ADDFILE` branch of `build_response`, `flask_engine.c:349-372` |
| `Start(n)`, `Crash(n)`, `Die(n)` | `main` of `rd.c`; the end of a process |
| `Lose(m)` | the network loses a datagram |

A datagram that has not been consumed is in `net`, a set.  With `Duplicating`,
delivery leaves it there, so that it may come again at any time, in any order.

Undefined behaviour is a choice.  The `ack_checkers` of an entry that was learnt
from the network is allocated with its `num_links` unset (`flooding_engine.c:118`);
the loop in `lsa_handler` reads it.  `UninitReads` names the outcomes:
`"short"` (the forwarder's checker is not come to), `"long"` (it is), `"fault"` (the
loop runs off the heap and the process dies).  The ACK of an LSA whose originator has
no entry reads through `NULL` and kills the daemon.  Both ACKs are those of LSAs
forwarded before a restart, or after the originator's entry was lost with the process.

Constants kept small stand for larger ones in the code, with the order that
matters kept: `RETRANSMIT_TIME < FLOODING_PERIOD`, and the TTL larger than the
longest way.  `INITIAL_STATUS` is the literal 3 of `load_node_conf`.

### FlaskEngine

`SelectReturns` takes the copies of the descriptor sets; `Turn(fd)` makes the loop
go through them from the lowest descriptor upwards, with one handler at each.  The
kernel hands out the lowest free descriptor (`FreeFd`).  `connections` keeps the
fields that live longer than a call: the response, and whether `response_index` is
0, which `init_connection` does not clear.  `status` is left out (nothing reads
the 503) and so is `fdmax` (never lower than a descriptor that is watched).
Clients connect, send one whole well-formed request and wait; at any time they may
go away, be reset or break.  Of the path in an `ADDFILE` is kept whether
`process_buffer` leaves any of it: line 258 copies `atoi` many bytes, none when the name had a
space and the word it takes for the length is no number.  An own file stored so
is answered with `OK` and a `uri` that was never written (`RdgetResponse`).  LSAs name objects at
any of the `Costs`, negative ones of wrapped TTLs among them; the runs take `{1}`, since a path of
cost 0 tells other costs apart only by their sign, and the theorems any set.  What the model keeps of the code's error paths:

* on `ECONNRESET` the descriptor is closed and not taken out of the sets
  (`ReadsReset`), and the next `select` fails (`SelectFails`), which ends the daemon;
* the last connection but one is marked for writing when it is accepted, with no
  response (`Refusing`): either `response_index` is left over from an earlier user
  of the descriptor, and a run of zero bytes goes out, or `send` is given no bytes,
  returns 0, and an old `errno` decides whether the daemon exits;
* a failed `accept`, and the accept that is skipped once `nfds` is at its limit.

### HashSet

Each function is an action, `hash_remove_object` with them, which no code of `rd/`
calls.  `IsTable` is the refinement: with `table` the function from names that
have a pair to what `get_paths` finds, every behaviour of `HashSet` is one of
`GlobalObjects`.  A removal leaves a hole in `obj_names` and shortens `num_objs`
(`hashset.c:253`); `GlobalObjects` has a flag `trusted` for it, mapped to `AllListed`.
Adding, removing an object and looking up are right whatever the flag;
`hash_remove_node` finds every name only as long as it is set, and `collapse` sets
it again.  Since the daemon never removes an object, what it calls is the trusted
table of `ObjectTable`.  `MAXOBJNUM` bounds the number of names; the write past
`obj_names` that the code allows beyond it is not modelled.

### Requests

`request[c]` is client `c`'s last request: the node it was made at (`entry`), the
node whose webserver has it now (`at`), the daemon's answer that is on its way, and
how it ended.

| Action | Code |
|---|---|
| `Ask(c)` | a GET or POST at some node's webserver, `webserver.py:65-84, 108-144` |
| `Rdget(c)`, `Addfile(c)` | `build_response` at the daemon of that node, `flask_engine.c:309-372`, on the tables of `RoutingDaemon` |
| `FollowAnswer(c)` | `webserver.py:85-105`: the file, the next hop's webserver, or an error page; an error page of another node arrives as though it were the file (`ErrorSeen`) |
| `FinishUpload(c)` | `webserver.py:146-158` |
| `NoDaemon(c)` | the connection is refused, `webserver.py:82-83` |
| `NetworkStep` | any other step of `RoutingDaemon`; a daemon that dies takes its connections with it, unless the answer was sent; one that starts reads its paths again (`Reloaded`) |

`paths[n][o]` is the path beside a name in node `n`'s list: the file's own (`"file"`), none
(`"empty"`), or another text (`"other"`): a path that a number among the name's words has cut, or
the newline that a reload takes for an empty path (`PathRead`).  `UploadPaths` says what the uploads
at a node leave.  `build_response` answers with the URI made of the path; of an empty one it
prints an error over which it then prints `OK` and a `uri` that it has not written (`OwnText`,
`"garbage"`).

`FileService` is what a client may believe: it asks a node, it is served a file only if some
node keeps it, a file is stored only because it asked for it, and one that was confirmed under a
name of one word is kept by that node from then on.  Failing is always allowed, and of a name with
spaces nothing is promised.  The mapping (`Seen`) hides where the request is and how it failed;
`files` is those lines of the `.files` files that have their path (`Kept`).

### LsaPacket and NodeFiles

`LsaPacket` gives every field of an LSA its offset.  `create_packet` computes the
size with the node's own link (`num_links`), writes the ids from link 1 on and
announces `num_links - 1`, so the last four bytes are sent without being written;
`rt_recvfrom` cuts the packet at `MAX_LSA_LEN`; `store_node_objects` walks from length to
length.  What is read where nothing was written is `Garbage`, and so is a name that does not fit into the
receiver's `object[MAX_OBJ_LEN]`.

`NodeFiles` follows a name from the form of `webserver.py` through the words of
the request (`process_buffer`), the line of the `.files` file, the tables loaded from it
(`Restart`) and the LSA (`Flood`) to a neighbour's table.  Texts are records of an
identity, a `strlen` and an `atoi`: enough to tell what `strncpy` and
`strtok` do with them; of a text that `strncpy` has cut off only the length is kept
(`Piece`).  No word is taken to be the decimal of a negative number, since `strncpy` with
a negative length has no defined outcome, and the `.files` file to begin with
has no name twice, as the shipped `node*.files`: `load_node_file` does not test for it.
`TextAssumption` also says that every word is shorter than `MAX_OBJ_LEN` (64), the size of the buffers that
`object_entry`, `pair` and `obj_names` have for a name: no copy to them is tested, and what a
longer word leaves in the tables is undefined.  A name is one or more words, and `process_buffer` takes the second word
after the method for the name and the fourth for the path.  `AddfileUnanswered` is a death
between the append and the answer.

## 3. Runs

Every passing run finishes; each of its properties is violated once one mapped
definition is replaced by its mutant (`PROJECT.json`, "mutants").

| Run | Instance | Shows |
|---|---|---|
| `PairRestart` | 2 daemons; any delay, reordering and duplication; clocks apart; 1 crash and restart; no files at first | no freed LSA is forwarded; no path leads to a node that is held to be down; a refused name is one some node stored |
| `KiteRoutes` | 4 daemons, a ring of three with a tail; delivery in time | next hops come nearer; ACKs find entries; `RDGET` resolves through all three tables; a number names one LSA |
| `LineRestart` | a line of 4; a death by a crash, a NULL entry or the uninitialised count; restart | a path always leads to a node that has the file |
| `PairTimely` | 2 daemons, no loss, two names | live neighbours are not given up, nothing acknowledged is sent again, a file is found at the neighbour |
| `PairDeath` | 2 daemons, 1 loss, 1 death, restart possible | the survivor stops sending clients to the dead daemon; a live one that was given up is taken back |
| `LineAck` | a line of 3, no loss and no death | a disagreement of section 6 |
| `HashSetTable` | 3 names in 2 buckets, 2 nodes, 3 costs | the table implements its abstract specification, removals included; one pair per name, in its bucket, counted |
| `FlaskClients` | 2 clients, 1 reset or break, LSAs without end | own replies only; own files are found, and only one without a path is answered with an unwritten URI; exits only after a reset or a refusal; an accepted client is answered, or the daemon has exited |
| `FlaskBound` | 3 clients, 2 connections accepted in all, 1 reset or break | every descriptor is inside of the array |
| `FlaskLimit` | 2 clients, 3 connections accepted in all | a disagreement of section 6 |
| `PairRequests` | 2 daemons without files at first, 1 client with 3 requests, uploads with and without a path, 1 death, restart possible | the network implements `FileService`; a URI is unwritten only for a file without a path; requests end |
| `NodeFiles` | 1 node, 6 names of one to three words, 2 paths, 3 files | files are found again after any restart; the three lists of names agree; neighbours store what was sent |

Bounds, and why they suffice.

* `MaxSeq[n]`: how many LSAs daemon `n` originates between two starts.  Two are
  enough for an older and a newer LSA to meet.  In `PairDeath` they are enough to
  count an entry down from `INITIAL_STATUS` 2, which is one less than `RETRANSMIT_TIME`
  as in the code; in `PairTimely` four and in `LineAck` three let a retransmission period
  and a whole countdown from `RETRANSMIT_TIME` fit in.  In the line and the kite the last
  node only listens and forwards.  A daemon at its bound stops ticking (`Spent`); the MC
  specification lets it stutter there (`AtBound`), so that the bound is no deadlock.
* `RETRANSMIT_TIME` 1 to 3 and `FLOODING_PERIOD` 2 to 5: both kinds of timeout and,
  where they differ by two, the idle one occur, and `RETRANSMIT_TIME - 1`
  retransmissions can be spent within a period.
* `DEFAULT_TTL` 3 or 4: larger than any way in these networks by one; a TTL
  that wraps is outside of what the routing properties claim (`RouteTrusted`).
* `MaxDeaths`, `MaxLosses` at most 1: the second death of a daemon is the first of
  its next life, since nothing but its files and what others hold of it remains.
* `MAX_CONNECTIONS` 8 and `INITIAL_NFDS` 5: three connections accepted in all: one to
  be served, the one that is refused, and one more; then the limit.  `FlaskBound` has 7: the one that
  is refused and one more, with three clients that wait for them and a reset, so that
  descriptors are free again when the count is at its end.
* One object name, or two: names do not affect each other outside of `hashset.c`,
  where three share two buckets.

* `PairRequests`: three requests and no files at first, so that both nodes may come to have the one
  name, by uploads before their LSAs cross, and an `RDGET` follows; each daemon floods once between
  two starts.  The daemons' clocks are apart and datagrams take any time (`Timely` and `EqualClocks` are
  false), since the two tables can only come to name each other when both flood at once.  That makes
  the case `RequestEnds` is about real: were a path replaced by the one heard of last (the
  mutant of `Nearer`), a request would go to and fro for ever.  It is also what `Serve` needs: a file is
  asked for before any node has it, after it was added, and after the death of the node that has it.
  One client, since requests share nothing but the tables, which an `ADDFILE` changes whoever
  asks for it.  Uploads without a path (`FirstTidy`) are made at one of the nodes only.
* `NodeFiles`: `MAX_LSA_LEN` 45 is the size of the LSA with the names `owl` and `athula`
  less the four bytes that are never written, so that the cut comes exactly there, and
  sooner with three names.  One of the words is a number, so that a path can be
  cut by it.  Three files: the third upload comes after a name was taken by a two-word one.
  `MAX_OBJ_LEN` 7 just holds the longest word.

Assumptions of some runs, each a constant of its `.cfg`.

* `Timely`: a datagram arrives, or is lost, before either end has its next timeout.
  `TIMEOUT` is 3 s, and select only times out with nothing in its sockets; on a
  local network that leaves seconds for what takes less than a millisecond.  `PairRestart`
  does without it.
* `EqualClocks`: no daemon starts a new flooding period on another that is still in
  the last.  All daemons have the same `TIMEOUT` and were started together.
  The runs with deaths do without it.

Symmetry is used in `FlaskBound` only, which has no liveness property: the clients are alike.

Fairness.  `RoutingDaemon`: weak fairness of each daemon's `Tick` (select times
out again and again), of its `lsa_handler` (a datagram in a socket makes select
return) and of the loss of datagrams to a dead daemon (no socket is bound).  None of the
environment's other actions is fair: losses, crashes and requests need not happen.
That `Tick` is fair assumes `FlaskLimit` away: at its limit of connections a daemon no longer times
out, nor does one whose sockets always have something to read, and `NeighbourLearns`,
`DeadNeighbourIsForgotten` and `GivenUpNeighbourIsTakenBack` claim nothing of it.
`FlaskEngine`: weak fairness of `Loop`, the daemon's one thread; the clients are under no
fairness.  `Requests`: weak fairness of `Handling` of each client's request, that is of the webserver thread that
has it and of the daemon it asks (`AcceptedIsAnswered` is the daemon's half); none of the
network, so requests end whatever it loses.

## 4. Properties

`RoutingDaemon`: `TypeOK`; `ForwardableHasLsa` (no NULL LSA is read when
forwarding); `NoObjectOfADownNode` (`gol` against `rt`); `RdgetResolvable` (`gol`,
`rt` and `dl` agree); `PathsLeadToHolders` (`gol` against the files of other nodes);
`NextHopDescends` (tables of two nodes, and of a node rather than a name: section 6); `AckFindsEntry` (datagrams against the
receiver's table); `OneLsaPerNumber`; `LiveNeighbourIsNotDown`; the action property
`RetransmitsOnlyWithoutAck`; the liveness properties `NeighbourLearns`, `DeadNeighbourIsForgotten`,
`GivenUpNeighbourIsTakenBack`; `KnownNameIsHeld` (what `ADDFILE` refuses against the
files of all nodes).

`RouteTrusted` restricts `NextHopDescends`: after a death the cost and the next
hop learnt over the dead node stay (`flooding_engine.c:80-101` only improves them), and a TTL
that wrapped gives a negative cost.  The code has no loop prevention for these cases
and its documents promise none.

`FlaskEngine`: `TypeOK`, `ConnectionsInBounds`, `ReplyIsOwn`,
`ExitsOnlyAfterReset`, `OwnFilesAreFound`, and the liveness properties
`AcceptedIsAnswered` and `FloodingGoesOn`.  The refused connection is excepted by name
(`Refused`): the code never builds it a response.

`HashSet`: `TypeOK`, `OnePairPerName`, `IsTable`.

`Requests`: `ReqTypeOK`, `UnwrittenUriOnlyWithoutPath` (the answer against the list of files: `gol` and
`ol` agree whenever both are read), `IsFileService`, and the liveness property `RequestEnds`.  A request
carries no count of hops; in `PairRequests` it ends because a node's own file is nearer to it than
any it hears of, and because a daemon that has forgotten the name, or died, ends it too.

`NodeFiles`: `NodeTypeOK`, `FilesSurviveRestart`, `TablesAgree`, `StoredIsSent`.  `FilesSurviveRestart`
claims nothing for a name with a space: see section 6.  The four are about words shorter than
`MAX_OBJ_LEN`; `TablesAgree` compares names, not paths.

Of `FlaskEngine`, `OwnFilesAreFound` has two halves: own files keep their path of cost 0 as long as no TTL has wrapped
(`NoTtlWraps`), and an unwritten URI is only answered for an own file without a path.

## 5. Proofs

The theorems hold for every value of the constants that the named assumptions
admit: any finite set of nodes, any configuration in which links are listed at both ends
and no neighbour twice, any hosts (two neighbours may share one), any bounds.

* `TypeCorrect` (`Spec => []TypeOK`) and `NoNullLsaIsForwarded`
  (`Spec => []ForwardableHasLsa`), in `RoutingDaemonProofs`.  `TypeOK` is not
  inductive: the next hop that `AcceptLsa` stores is a node only if the datagram's
  source is found among the neighbours (`DatagramsFollowLinks`), the ACK's
  credit needs the daemon's own entry (`ConfiguredAreKnown`), and an LSA put in a
  datagram must not be NULL (`ForwardableHasLsa`).  `TypeInv` is the conjunction of the
  four, and `StepType` proves that every action keeps it, one lemma per
  action over lemmas about what each table-building operator returns.
* `DescriptorsFitTheArray` (`Spec => []ConnectionsInBounds`), in
  `FlaskEngineProofs`.  `BoundInv` says that the open descriptors lie between
  `FIRST_FD` and the count of accepted connections.  The step is `accept`: the lowest free descriptor
  is at most `FIRST_FD` plus the number of open ones (`FreeFdBound`, a counting
  argument), hence at most `nfds`, and the guard leaves room for one more.
* `EveryPathLeadsToAHolder`, `NoPathToADownNode`, `RdgetReadsNoNull` and `RefusedNameIsHeld`, in
  `PathProofs`.  The first rests on `HolderInv`: every copy of an LSA, in the
  network or in a table, however old, names files its originator has; files
  are never taken out of the `.files` file, and it is all that a restarted daemon builds
  its LSAs from.  The second rests on `DownInv`: the targets of the paths are among
  the entries that are not down, and a daemon is never down to itself, since an
  `ADDFILE` may add a path to it at any time.  The third puts both together
  with `HopInv`: next hops are neighbours, and a daemon that does not run has no
  table.  The model checker shows `RdgetResolvable` in a network without deaths;
  the theorem covers deaths and restarts too.  The fourth adds to `HolderInv` that a
  name in a table is one some node has, which survives the removal of its path.
* `RequestTypesCorrect` (`ReqSpec => []ReqTypeOK`), `OnlyPathlessFilesAreUnwritten`
  (`ReqSpec => []UnwrittenUriOnlyWithoutPath`) and `NetworkIsFileService`
  (`ReqSpec => IsFileService`), in `RequestsProofs`, for any number of clients and any `UploadPaths`.  Every step of
  `Requests` is one of `RoutingDaemon` or leaves the daemons alone (`DaemonStep`), so the
  invariants above carry over.  `ReqInv` adds `AnswersHold`, since an answer outlives the tables
  it came from: an `own` on its way is for a file the node keeps, a `garbage` for one it has without its
  path, an `OK` for what was stored, and an `ADDFILE` is always at the node it was made at.  `OwnListed` says
  that a path to the node itself is to a name in its list of local objects, which is why no name is
  without an entry there.  The refinement then maps the answer's creation to `Store` or a
  stutter, the end of a request to `Serve`, `Confirm` or `Fail`, and everything else to a stutter,
  the restart of a daemon included, because `files` survives it.

* `NumbersNameLsas`, `AcksFindTheirEntries` and `NextHopsLeadNearer`, in `RouteProofs`: the
  properties that hold as long as no daemon has died.  `StepSurvived` says once, for every
  action, where the datagrams and entries of the next state come from (`Sent`, `Grown`): a
  datagram was there, or is the daemon's own LSA, a relayed one or an ACK; an entry was there,
  or is flooded, learnt or loaded.  `NumberInv` adds that numbers in circulation are below the
  originator's counter; `KnownInv` that whoever an LSA comes from, and whoever its ACK
  goes to, has an entry for its originator.  `DescentInv` strengthens
  `NextHopDescends` by the costs on the way: what a daemon has sent (`SentCosts`) or holds
  (`HeldCosts`) of an LSA costs no less than its own way, and costs only fall
  (`CostsFall`).  That covers `Timely` and `EqualClocks` failing, losses, and any delay.
  The last two theorems assume `OwnAddresses`: no two neighbours of a node have one host.  The
  daemon knows a forwarder by its address alone (`flooding_engine.c:182`), so with a
  shared host an ACK may go to the wrong one of two.  In the shipped `node1.conf` to `node3.conf`
  no two nodes have the same host.
* `EngineTypeCorrect`, `RepliesAreOwn`, `NoExitWithoutReset` and `OwnFilesFound`, in
  `FlaskEngineProofs`, for any number of clients, names, resets and connections.  `EngineInv` has four
  parts.  `EngineTypeInv`: a request that is to be read was sent, a server socket that is ready has
  a client waiting, and what is marked for writing lies in the array.  `FilesInv`: the
  node's own names are in both tables, at cost 0 as long as no cost of an LSA is negative; and a name
  whose path leads to the node itself is in the list of local objects, whatever the costs.
  `ExitInv`: as long as the server socket is still to be served in this round of the loop no
  descriptor that is selected on has been closed (`AcceptsFirst`: it is descriptor 4, the
  clients' are higher, so the round accepts before it closes), and below the limit a descriptor that is
  marked for writing has something to write (`Ready`).  `AnswersInv`: an
  answer kept at a descriptor fits the request of the client that is at its other end *now* (`Fits`),
  which is what reuse could break.  `NullAssumption` says that `NULL` is no request, path or answer.
* `HashTypeCorrect`, `OnePairPerNameHolds` and `HashSetIsTable` (`Spec => IsTable`), in
  `HashSetProofs`, for any names, nodes, hash function (`Bucket`) and bounds.  `HashInv` states one pair
  per name by chains (no name twice in a chain, every name in the chain of its bucket) and counts the
  names, not the pairs; `Lookups` says what the search finds, and each action is shown to do to
  the names and their paths what the action of `GlobalObjects` does, removals and
  `collapse` included.
* `NodeTypeCorrect`, `AddedFilesSurvive`, `TablesAlwaysAgree` and `StoredAsSent`, in
  `NodeFilesProofs`, for any words shorter than `MAX_OBJ_LEN`, any paths, numbers of names and links, and
  initial file.  `NodeInv` says that the
  file names nothing twice, that the table of local objects has its names in its order,
  that exactly the file's names are at this node and at cost 0 (so no LSA at cost 2 takes one
  away), and that every answered name is in a line with its path.  The
  lemma behind `StoredAsSent` is `StoresWhatWasSent`: reading a packet that was not cut returns the names
  that were laid out, for any number of names that fit into the receiver's buffer.  `Parsed` is its counterpart for `process_buffer`.

* `AcknowledgedIsNotResent` (`Spec => RetransmitsOnlyWithoutAck`) and `LiveNeighboursStayUp`
  (`Spec => []LiveNeighbourIsNotDown`), in `PairProofs`, under `PairNetwork`: any number of
  daemons with at most one neighbour each, all running from the beginning, datagrams that arrive in
  time (`Timely`), none lost or duplicated, no deaths.  That is the setting of `PairTimely` for any
  periods, bounds, names and hosts.  The first needs nothing about the clocks.
  `AckInv` says that a pair has at most one datagram on the way (`OneInTransit`), which is
  the last LSA of the one, not held by the other yet, or its ACK (`LastLsaInTransit`), that
  a table has no entries but those of the pair (`PairTables`), so that crediting
  `table[0]` is right there, and that an ACK still missing is on the way (`Awaited`).
  With a third daemon `PairTables` fails, and `LineAck` shows the property violated.

  The second adds `EvenClocks`: clocks that keep pace (`EqualClocks`), one bound on the floods,
  `RETRANSMIT_TIME >= 3` and `INITIAL_STATUS >= 2` (`constants.h` has 4 and `load_node_conf` 3).
  `ClockInv` says that the two have flooded as often and are at most one timeout apart, or that one
  has just flooded and the other is about to (`Lockstep`), and what a
  countdown has left in each case (`Refreshed`).  Three is the least `RETRANSMIT_TIME` the
  argument admits: `EqualClocks` lets the two take turns in who floods first, so a daemon may
  count its neighbour down twice between two of the neighbour's LSAs.  The hypotheses cannot
  simply be dropped: with clocks that drift, a daemon floods until it has counted down a
  neighbour that never had its turn.

Recursion over a sequence (`Lengths`, `Offsets`, `Walk`) is written as a function on
`0 .. n`.  The proofs show that some function satisfies its equation, built up by
`Induct` of `NodeFilesProofs`, and then that every function that satisfies it has the stated value at each
`i`; `Induct` is an induction over a set of numbers, which rests on the least element
of its complement.

Only model-checked: the liveness properties, which are out of the prover's reach under
fairness.  Of the safety properties of the passing runs only the two of `PairProofs` are proved for
less than every network, because they do not hold of every network.

## 6. Where the code and what is said about it disagree

1. `LineAck`: the ACK of any LSA is credited to `table[0]` (`flooding_engine.c:437`).
   A forwarded LSA is sent again after it was acknowledged, against
   `flooding_engine.c:493` and `engine_actions.c:118`.
2. `FlaskLimit`: `nfds` is never decremented (`flask_engine.c:112`).  Once it is
   `MAX_CONNECTIONS`, a client that waits keeps select returning at once, and no
   timeout floods again, against `engine_actions.c:48-49`.

Seen while modelling, where no document promises otherwise:

* A neighbour that is given up has its last LSA freed, and `flood` does not send to
  it (`flooding_engine.c:478`).  Two daemons that have given each other up, which one lost
  ACK can bring about when their clocks are apart, stay so until a third forwards
  their LSAs; `GivenUpNeighbourIsTakenBack` excepts this state by name.
* A request is looked up by name at every node, and the next node may know of another
  holder.  A live neighbour that was given up, and is heard of again by a longer way, leaves
  costs behind by which a request need not come nearer to any holder of its name; it
  ends when the tables change.  For each node as such, next hops do come nearer (`NextHopDescends`).
* A name with a space is answered `OK` and stored under its first word
  (`flask_engine.c:249-258`).  Where its second word is a number, the path is cut by it; where it is
  none, the path is empty.  An `RDGET` for that file is answered with `OK` and a `uri` that was never
  written: the `ERROR` that line 329 prints is printed over at line 345.
  `UnwrittenUriOnlyWithoutPath` and `OwnFilesAreFound` except this case by name.  After a restart
  the path is a newline (`file_loader.c:148`).
* The cost of a path is `DEFAULT_TTL` less the TTL, plus one.  A TTL that has wrapped gives a negative cost
  (`flooding_engine.c:425, 616`), and a path at such a cost replaces even that of a node's own file.
* Two clients may each add a name at nodes that have not heard of each other's
  file; after that the two files have one name, and which is found depends on where it is asked for.

## 7. Not modelled

* The parsing of the `.conf` file: each line has six tokens where the array has five
  (`file_loader.c:60`), and what the sixth overwrites is the compiler's choice.
  Empty names, whose lines in the `.files` file cannot be loaded again.  The hash function.
  Malformed requests: `webserver.py` sends none.
* Names of `MAX_OBJ_LEN` (64) bytes or more.  No copy of a name is tested for its length: in `object_entry`
  (`local_objects.h:17`, `flask_engine.c:361-362`, `file_loader.c:151-152`) it runs into the path, which then
  overwrites it, so that the name is not found again; in `pair` and `obj_names` (`hashset.h:40, 48`)
  into what lies behind; in `store_node_objects` (`flooding_engine.c:604, 613-614`) into the stack.
  `NodeFiles` assumes shorter words, the other modules take names as values.
* LSAs over 1024 bytes in `RoutingDaemon`: it takes every LSA as intact.  `LsaPacket` and `NodeFiles` say what
  arrives of one up to the cut; beyond it the code promises nothing.
* Requests in networks with a ring: `RequestEnds` is checked for a pair.
* The ids in an LSA's list of links: no receiver reads more than its length.
* Memory: writes past `obj_names` or past the neighbours table, and what an allocator does
  with freed memory beyond the choices named above.
* HTTP itself, the storing of an upload and its hash, usage errors of `main`.
* A bound on the TTL (`flooding_engine.c:425`): it is decremented without a test, and an LSA
  that is freed and accepted again may go round a ring for long.

## 8. Plan

Done, in this order: `ObjectTable`, `RoutingDaemon` and its runs, its type proof;
`GlobalObjects` and `HashSet`; `FlaskEngine`, its runs and the proof of its bound; the
proofs about paths; `FileService`, `Requests` and the proof that the one implements the
other; `LsaPacket` and `NodeFiles`; removals in `HashSet`; the proofs about routes, the select
loop, the hash table and the files; the proofs about pairs.

Next, for the model:

1. A whole node: `FlaskEngine` composed with the timeouts and `lsa_handler` of
   `RoutingDaemon`, for the request that runs between two daemons.
2. Losses together with restarts on the line; the tree of `test.txt`.

Next, for the proofs:

1. `LiveNeighbourIsNotDown` from an assumption on the timeouts that is weaker than
   `EqualClocks`: how many floods one daemon may be ahead for a given `RETRANSMIT_TIME`; then for
   more than two daemons, with the give-ups of `LineAck` excepted by name.
2. The packet lemmas for the composed node.
