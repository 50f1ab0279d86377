---------------------------- MODULE FlaskEngine ----------------------------
(***************************************************************************)
(* One routing daemon's select loop as its flask clients see it: the       *)
(* connections that webserver.py opens, one request each, the descriptors  *)
(* the kernel hands out for them, and the answers looked up in the object  *)
(* table.  The handling of LSAs and what a timeout does are RoutingDaemon's *)
(* matter; here they only change the object table.                         *)
(***************************************************************************)
EXTENDS ObjectTable, Sequences, FiniteSets

CONSTANTS
    Client,           \* threads of the webserver, one connection at a time each
    Names,            \* object names
    my_node_id,
    Others,           \* the other nodes objects are learnt from
    Costs,            \* the costs LSAs come at: DEFAULT_TTL - TTL + 1
    MAX_CONNECTIONS,  \* 1024 in constants.h
    INITIAL_NFDS,     \* 5, a literal in create_engine
    FLOODING_PERIOD,  \* 10 in constants.h
    Datagrams,        \* FALSE: no LSA arrives
    MaxResets         \* bound: connections a client resets or that break

\* Descriptors 0 to 4 are the standard streams and the two server sockets.
udp_sock == 3
tcp_sock == 4
FIRST_FD == 5

ASSUME ClientAssumption == IsFiniteSet(Client) /\ NULL \notin Client

ASSUME ParameterAssumption ==
    /\ MAX_CONNECTIONS \in Nat
    /\ INITIAL_NFDS \in Nat /\ FIRST_FD <= INITIAL_NFDS
    /\ INITIAL_NFDS <= MAX_CONNECTIONS
    /\ FLOODING_PERIOD \in Nat \ {0}
    /\ Datagrams \in BOOLEAN
    /\ MaxResets \in Nat
    /\ my_node_id \notin Others
    /\ Costs \subseteq Int

VARIABLES
    running,      \* the daemon has not exited
    nfds,         \* counts the connections ever accepted
    rfds, wfds,   \* the descriptors select is asked about
    temp_rfds,    \* those it found readable and the loop has not come to
    temp_wfds,    \* those it found writable and the loop has not come to
    connections,  \* the array of tcp_connection, by descriptor
    socket,       \* socket[fd]: the client at the other end of an open descriptor
    queue,        \* the clients that wait to be accepted
    peer,         \* peer[c]: client c's end of its connection
    datagram,     \* an LSA waits at the UDP socket
    gol,          \* the table of global objects
    ol,           \* ol[o]: the path stored for local object o, or "empty"
    iterations,   \* timeouts since the last flood
    resets        \* how many connections were reset or broke

engine == <<nfds, rfds, wfds, temp_rfds, temp_wfds, connections>>
network == <<socket, queue, peer, datagram, resets>>
tables == <<gol, ol>>
vars == <<running, engine, network, tables, iterations>>

\* A request as process_buffer leaves it.  The path it copies is empty when the
\* word that should be the path's length is no number (flask_engine.c:258): so
\* for an uploaded file whose name has a space in it.
Request == [method : {"RDGET"}, name : Names, path : {NULL}]
             \cup [method : {"ADDFILE"}, name : Names, path : {"file", "empty"}]

\* What a client finds in its reply: the request it answers and the answer, or
\* a run of zero bytes.
Answer(request, text, node) == [request |-> request, text |-> text, node |-> node]

Zeros == Answer(NULL, "zeros", NULL)

NoConnection == [phase |-> "idle", request |-> NULL, unread |-> FALSE, reply |-> NULL]

-----------------------------------------------------------------------------
(***************************************************************************)
(* tcp_connection.  init_connection clears everything but response_index,  *)
(* of which only matters whether it is 0.  A request is parsed and         *)
(* answered in one call, so its fields are not kept here, nor is status:   *)
(* build_response has just set it, and nothing reads the 503.              *)
(***************************************************************************)

Connection(response, response_index) ==
    [response |-> response, response_index |-> response_index]

\* Mutant of init_connection: the response is left in place.
ResponseKept(conn) == conn

init_connection(conn) == [conn EXCEPT !.response = NULL]

\* The path of the name's first entry, or none.
get_local_file_path(name) == IF name \in DOMAIN ol THEN ol[name] ELSE "empty"

\* build_response for a request that was read; "garbage" is the URI it prints
\* after OK without having written it, whether there is no entry for the name or
\* one with an empty path: the ERROR it has printed before is overwritten.
RdgetResponse(request) ==
    LET obj == get_paths(gol, request.name)
    IN  IF obj = NULL THEN Answer(request, "NOTFOUND", NULL)
        ELSE IF obj.node_id = my_node_id /\ get_local_file_path(request.name) = "empty"
             THEN Answer(request, "garbage", NULL)
             ELSE Answer(request, "OK", obj.node_id)

AddfileResponse(request) ==
    IF contains_object(gol, request.name)
    THEN Answer(request, "exists", NULL)
    ELSE Answer(request, "OK", my_node_id)

BuiltResponse(request) ==
    IF request.method = "RDGET" THEN RdgetResponse(request) ELSE AddfileResponse(request)

\* A local object is appended; an earlier one of the same name is found first.
AddLocal(request) ==
    ol' = [o \in DOMAIN ol \cup {request.name} |->
              IF o \in DOMAIN ol THEN ol[o] ELSE request.path]

\* Mutant of AddFile: a name that is refused still becomes a local object.
AddRefusedFile(request) ==
    IF request.method = "ADDFILE"
    THEN /\ gol' = IF contains_object(gol, request.name) THEN gol
                   ELSE hash_add(gol, {request.name}, my_node_id, 0)
         /\ AddLocal(request)
    ELSE UNCHANGED tables

\* What an ADDFILE that is not refused adds.
AddFile(request) ==
    IF request.method = "ADDFILE" /\ ~contains_object(gol, request.name)
    THEN /\ gol' = hash_add(gol, {request.name}, my_node_id, 0)
         /\ AddLocal(request)
    ELSE UNCHANGED tables

-----------------------------------------------------------------------------
(***************************************************************************)
(* The clients and the network.                                            *)
(***************************************************************************)

Open == DOMAIN socket

Attached(c) == (\E i \in DOMAIN queue : queue[i] = c) \/ (\E fd \in Open : socket[fd] = c)

Close(fd) == socket' = [g \in Open \ {fd} |-> socket[g]]

\* The lowest descriptor that is free: the one accept returns.
FreeFd ==
    LET free == (FIRST_FD .. FIRST_FD + Cardinality(Open)) \ Open
    IN  CHOOSE fd \in free : \A g \in free : fd <= g

Connect(c) ==
    /\ running
    /\ peer[c].phase = "idle"
    /\ peer' = [peer EXCEPT ![c].phase = "open"]
    /\ queue' = Append(queue, c)
    /\ UNCHANGED <<running, engine, socket, datagram, resets, tables, iterations>>

\* webserver.py sends its request whole and waits for the answer.
Send(c) ==
    /\ running
    /\ peer[c].phase = "open" /\ peer[c].request = NULL /\ Attached(c)
    /\ \E r \in Request : peer' = [peer EXCEPT ![c].request = r, ![c].unread = TRUE]
    /\ UNCHANGED <<running, engine, socket, queue, datagram, resets, tables, iterations>>

\* The client goes away early, its connection is reset, or recv fails for
\* another reason, once.
Hangup(c) ==
    /\ running
    /\ peer[c].phase = "open" /\ Attached(c)
    /\ \/ /\ peer' = [peer EXCEPT ![c].phase = "closed"]
          /\ UNCHANGED resets
       \/ /\ resets < MaxResets
          /\ resets' = resets + 1
          /\ \E p \in {"reset", "error"} :
                peer' = [peer EXCEPT ![c].phase = p, ![c].unread = FALSE]
    /\ UNCHANGED <<running, engine, socket, queue, datagram, tables, iterations>>

\* The daemon has closed the connection: the client reads what came and is free
\* for another.
Finish(c) ==
    /\ running
    /\ peer[c].phase # "idle" /\ ~Attached(c)
    /\ peer' = [peer EXCEPT ![c] = NoConnection]
    /\ UNCHANGED <<running, engine, socket, queue, datagram, resets, tables, iterations>>

DatagramArrives ==
    /\ Datagrams /\ running /\ ~datagram
    /\ datagram' = TRUE
    /\ UNCHANGED <<running, engine, socket, queue, peer, resets, tables, iterations>>

-----------------------------------------------------------------------------
(***************************************************************************)
(* select.  The loop over the ready descriptors is at its end when none is *)
(* left.  A socket that is open can always be written: no answer is larger *)
(* than its send buffer.                                                   *)
(***************************************************************************)

AtSelect == running /\ temp_rfds = {} /\ temp_wfds = {}

BadFd == (rfds \cup wfds) \ (Open \cup {udp_sock, tcp_sock}) # {}

Readable ==
    {fd \in rfds \cap Open : peer[socket[fd]].unread \/ peer[socket[fd]].phase # "open"}
        \cup {fd \in {tcp_sock} : queue # << >>}
        \cup {fd \in {udp_sock} : datagram}

SelectFails ==
    /\ AtSelect
    /\ BadFd
    /\ running' = FALSE
    /\ UNCHANGED <<engine, network, tables, iterations>>

SelectReturns ==
    /\ AtSelect
    /\ ~BadFd
    /\ Readable \cup wfds # {}
    /\ temp_rfds' = Readable
    /\ temp_wfds' = wfds
    /\ UNCHANGED <<running, nfds, rfds, wfds, connections, network, tables, iterations>>

\* Nothing is ready and the TIMEOUT has run out (select leaves in tv what remains
\* of it): the time to flood, to send again, and to forget the objects of nodes
\* that are found to be down.
Timeout ==
    /\ AtSelect
    /\ ~BadFd
    /\ Readable \cup wfds = {}
    /\ iterations' = IF iterations = FLOODING_PERIOD THEN 1 ELSE iterations + 1
    /\ \E ids \in SUBSET Others : gol' = hash_remove_node(gol, ids)
    /\ UNCHANGED <<running, engine, network, ol>>

-----------------------------------------------------------------------------
(***************************************************************************)
(* The handlers.                                                           *)
(***************************************************************************)

\* The loop comes to fd, the lowest descriptor that is still ready.
Turn(fd) ==
    /\ running
    /\ fd \in temp_rfds \cup temp_wfds
    /\ \A g \in temp_rfds \cup temp_wfds : fd <= g
    /\ temp_rfds' = temp_rfds \ {fd}
    /\ temp_wfds' = temp_wfds \ {fd}
    /\ UNCHANGED iterations

lsa_handler ==
    /\ Turn(udp_sock)
    /\ datagram' = FALSE
    /\ \E objs \in SUBSET Names, k \in Others, cost \in Costs :
          gol' = hash_add(gol, objs, k, cost)
    /\ UNCHANGED <<running, nfds, rfds, wfds, connections, socket, queue, peer, resets, ol>>

\* Mutant of Accepting: one connection more than the array has room for.
AcceptingOneMore == nfds <= MAX_CONNECTIONS

Accepting == nfds <= MAX_CONNECTIONS - 1

\* Mutant of Counted: a connection that is accepted is not counted.
NotCounted(n) == n

Counted(n) == n + 1

\* The counter, once incremented, makes the connection the last but one.
Refusing == Counted(nfds) = MAX_CONNECTIONS - 1

AcceptClient ==
    /\ socket' = [fd \in Open \cup {FreeFd} |->
                     IF fd = FreeFd THEN Head(queue) ELSE socket[fd]]
    /\ queue' = Tail(queue)
    /\ nfds' = Counted(nfds)
    /\ rfds' = rfds \cup {FreeFd}
    /\ wfds' = IF Refusing THEN wfds \cup {FreeFd} ELSE wfds
    /\ connections' = [connections EXCEPT ![FreeFd] = init_connection(@)]

\* accept reports the error of a connection that broke while it waited.
AcceptFails ==
    /\ peer[Head(queue)].phase \in {"reset", "error"}
    /\ queue' = Tail(queue)
    /\ UNCHANGED <<socket, nfds, rfds, wfds, connections>>

LeavesWaiting == UNCHANGED <<socket, queue, nfds, rfds, wfds, connections>>

\* The client to be refused is marked for writing at once, without a response.
new_client_handler ==
    /\ Turn(tcp_sock)
    /\ IF Accepting THEN AcceptClient \/ AcceptFails ELSE LeavesWaiting
    /\ UNCHANGED <<running, peer, datagram, resets, tables>>

\* Mutant of Forget: the descriptor stays in the set of those to be read.
ForgetWriting(fd) == rfds' = rfds /\ wfds' = wfds \ {fd}

Forget(fd) == rfds' = rfds \ {fd} /\ wfds' = wfds \ {fd}

\* flask_response_handler with connection conn and the client's end p.  A send
\* of no bytes returns 0 and leaves errno as it was: the daemon may exit.
Respond(fd, conn, p) ==
    \/ /\ p.phase = "error" \/ (p.phase # "reset" /\ ~conn.response_index)
       /\ running' = FALSE
       /\ Close(fd)
       /\ UNCHANGED <<rfds, wfds, connections, peer>>
    \/ /\ p.phase # "error"
       /\ peer' = [peer EXCEPT ![socket[fd]] =
              IF conn.response_index /\ p.phase = "open"
              THEN [p EXCEPT !.reply = IF conn.response = NULL THEN Zeros ELSE conn.response]
              ELSE p]
       /\ connections' = [connections EXCEPT ![fd] = init_connection(conn)]
       /\ Forget(fd)
       /\ Close(fd)
       /\ UNCHANGED running

\* A descriptor that is only writable.
flask_response_handler(fd) ==
    /\ Turn(fd)
    /\ fd \in Open /\ fd \notin temp_rfds
    /\ Respond(fd, connections[fd], peer[socket[fd]])
    /\ UNCHANGED <<nfds, queue, datagram, resets, tables>>

\* Mutant of Marked: the descriptor is not marked for writing.
NotMarked(fd) == wfds

Marked(fd) == wfds \cup {fd}

\* A response was built; it is sent in the same turn when select found the
\* descriptor writable as well.
Built(fd, response, p) ==
    LET conn == Connection(response, TRUE)
    IN  IF fd \in temp_wfds
        THEN Respond(fd, conn, p)
        ELSE /\ connections' = [connections EXCEPT ![fd] = conn]
             /\ wfds' = Marked(fd)
             /\ peer' = [peer EXCEPT ![socket[fd]] = p]
             /\ UNCHANGED <<running, rfds, socket>>

ReadsRequest(fd, p) ==
    /\ p.unread
    /\ AddFile(p.request)
    /\ Built(fd, BuiltResponse(p.request), [p EXCEPT !.unread = FALSE])

ReadsError(fd, p) ==
    /\ p.phase = "error"
    /\ Built(fd, Answer(p.request, "ERROR", NULL), [p EXCEPT !.phase = "closed"])
    /\ UNCHANGED tables

ReadsEnd(fd, p) ==
    /\ p.phase = "closed" /\ ~p.unread
    /\ connections' = [connections EXCEPT ![fd] = init_connection(@)]
    /\ Close(fd)
    /\ Forget(fd)
    /\ UNCHANGED <<running, peer, tables>>

\* ECONNRESET: the descriptor is closed and stays in both sets.
ReadsReset(fd, p) ==
    /\ p.phase = "reset"
    /\ connections' = [connections EXCEPT ![fd] = init_connection(@)]
    /\ Close(fd)
    /\ UNCHANGED <<running, rfds, wfds, peer, tables>>

flask_request_handler(fd) ==
    /\ Turn(fd)
    /\ fd \in Open \cap temp_rfds
    /\ LET p == peer[socket[fd]]
       IN  ReadsRequest(fd, p) \/ ReadsError(fd, p) \/ ReadsEnd(fd, p) \/ ReadsReset(fd, p)
    /\ UNCHANGED <<nfds, queue, datagram, resets>>

-----------------------------------------------------------------------------
Init ==
    /\ running = TRUE
    /\ nfds = INITIAL_NFDS
    /\ rfds = {udp_sock, tcp_sock} /\ wfds = {}
    /\ temp_rfds = {} /\ temp_wfds = {}
    /\ connections = [fd \in 0 .. MAX_CONNECTIONS - 1 |-> Connection(NULL, FALSE)]
    /\ socket = [fd \in {} |-> NULL]
    /\ queue = << >>
    /\ peer = [c \in Client |-> NoConnection]
    /\ datagram = FALSE
    /\ gol = init_hash
    /\ ol = [o \in {} |-> "empty"]
    /\ iterations = 1
    /\ resets = 0

Loop ==
    \/ SelectFails \/ SelectReturns \/ Timeout
    \/ lsa_handler \/ new_client_handler
    \/ \E fd \in Open : flask_request_handler(fd) \/ flask_response_handler(fd)

Environment ==
    \/ \E c \in Client : Connect(c) \/ Send(c) \/ Hangup(c) \/ Finish(c)
    \/ DatagramArrives

Next == Loop \/ Environment

Spec == Init /\ [][Next]_vars

\* The daemon is a running process: its loop goes on whenever it can.
FairSpec == Spec /\ WF_vars(Loop)

-----------------------------------------------------------------------------
Answers == [request : Request, text : {"OK"}, node : {my_node_id} \cup Others]
             \cup [request : Request,
                   text : {"NOTFOUND", "garbage", "exists"}, node : {NULL}]
             \cup [request : Request \cup {NULL}, text : {"ERROR"}, node : {NULL}]

Replies == {NULL, Zeros} \cup Answers

Paths == [node_id : Others \cup {my_node_id}, cost : Int]

ASSUME NullAssumption ==
    NULL \notin Request /\ NULL \notin Paths /\ NULL \notin Answers \cup {Zeros}

\* Every variable has its type.
TypeOK ==
    /\ running \in BOOLEAN
    /\ nfds \in INITIAL_NFDS .. MAX_CONNECTIONS
    /\ rfds \cup wfds \cup temp_rfds \cup temp_wfds \subseteq Nat
    /\ connections \in [0 .. MAX_CONNECTIONS - 1 ->
                          [response : Replies, response_index : BOOLEAN]]
    /\ Open \subseteq Nat /\ socket \in [Open -> Client]
    /\ queue \in Seq(Client)
    /\ peer \in [Client -> [phase : {"idle", "open", "closed", "reset", "error"},
                            request : Request \cup {NULL}, unread : BOOLEAN,
                            reply : Replies]]
    /\ datagram \in BOOLEAN
    /\ DOMAIN gol \subseteq Names
    /\ gol \in [DOMAIN gol -> Paths \cup {NULL}]
    /\ DOMAIN ol \subseteq Names
    /\ ol \in [DOMAIN ol -> {"file", "empty"}]
    /\ iterations \in 1 .. FLOODING_PERIOD
    /\ resets \in 0 .. MaxResets

\* The connections array is indexed by descriptor and nothing compares one with
\* its size (flask_engine.c:105): the count of connections ever accepted keeps
\* every descriptor that accept returns inside of it.
ConnectionsInBounds == \A fd \in Open : fd < MAX_CONNECTIONS

\* A reply is the one to the client's own request, whoever had the descriptor
\* before (flask_engine.c:217-220, 105); one that was never built is only sent
\* to the connection that is to be refused (flask_engine.c:116-120).
ReplyIsOwn ==
    \A c \in Client :
        LET reply == peer[c].reply
        IN  /\ reply \notin {NULL, Zeros} => reply.request = peer[c].request
            /\ reply = Zeros => nfds >= MAX_CONNECTIONS - 1

\* A connection that is to be refused: marked for writing, nothing to write.
Refused(fd) == fd \in wfds /\ connections[fd].response = NULL

\* As long as no connection was reset or broke (flask_engine.c:158-164), the
\* daemon selects on no descriptor that it has closed, and it exits only when it
\* refuses a connection at the limit: it takes the send of no bytes for an error
\* (flask_engine.c:116-120, 201-213).
ExitsOnlyAfterReset ==
    resets = 0 =>
        IF running THEN rfds \cup wfds \subseteq Open \cup {udp_sock, tcp_sock}
        ELSE nfds >= MAX_CONNECTIONS - 1 /\ \E fd \in wfds : Refused(fd)

\* No TTL of an LSA has wrapped: a cost is negative when one has
\* (flooding_engine.c:425, 616).
NoTtlWraps == \A cost \in Costs : cost >= 0

\* An own file that was stored without its path.
Pathless(o) == o \in DOMAIN ol /\ ol[o] = "empty"

\* As long as no TTL wraps, a node's own files are found at the node itself,
\* whatever LSAs and timeouts come between the requests.  And a client is sent a
\* URI that was never written only for an own file that was stored without its
\* path (flask_engine.c:258, 324-345).
OwnFilesAreFound ==
    /\ NoTtlWraps => \A o \in DOMAIN ol : get_paths(gol, o) = Path(my_node_id, 0)
    /\ \A c \in Client :
          LET reply == peer[c].reply
          IN  reply # NULL /\ reply.text = "garbage" => Pathless(reply.request.name)

\* A client that was accepted, is not refused and waits for its answer gets it,
\* unless the daemon exits.
AcceptedIsAnswered ==
    \A c \in Client :
        (peer[c].request # NULL /\ \E fd \in Open : socket[fd] = c /\ ~Refused(fd))
            ~> (~running \/ peer[c].reply # NULL \/ peer[c].phase # "open")

\* engine_actions.c:48-49: "The select loop times out such that every timeout,
\* we do all of our LSA flooding": a daemon that does not exit goes on to flood.
FloodingGoesOn == []<>(running => iterations = FLOODING_PERIOD)
=============================================================================
