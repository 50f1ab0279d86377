------------------------- MODULE FlaskEngineProofs --------------------------
(***************************************************************************)
(* Proofs about FlaskEngine, for any number of clients and any size of the *)
(* array of connections.                                                   *)
(***************************************************************************)
EXTENDS FlaskEngine, FiniteSetTheorems, WellFoundedInduction, TLAPS

\* Every connection ever accepted is counted, so the descriptors in use are
\* below the count; and the count stops at the size of the array.
BoundInv ==
    /\ nfds \in Nat /\ FIRST_FD <= nfds /\ nfds <= MAX_CONNECTIONS
    /\ Open \subseteq FIRST_FD .. nfds - 1

LEMMA IntervalSize ==
    ASSUME NEW a \in Nat, NEW c \in Nat
    PROVE  Cardinality(a .. a + c) = c + 1
<1>1. a + c \in Int /\ ~ (a > a + c) /\ (a + c) - a + 1 = c + 1
  OBVIOUS
<1> QED BY <1>1, FS_Interval

\* accept returns the lowest free descriptor: at most the first one plus as
\* many as are open.
LEMMA FreeFdBound ==
    ASSUME BoundInv
    PROVE  FreeFd \in FIRST_FD .. nfds /\ FreeFd \notin Open
<1> DEFINE C == Cardinality(Open)
           free == (FIRST_FD .. FIRST_FD + C) \ Open
<1>1. FIRST_FD \in Nat /\ nfds \in Nat /\ FIRST_FD <= nfds
  BY DEF BoundInv, FIRST_FD
<1>2. IsFiniteSet(FIRST_FD .. nfds - 1)
      /\ Cardinality(FIRST_FD .. nfds - 1) <= nfds - FIRST_FD
  BY <1>1, FS_Interval, nfds - 1 \in Int
<1>3. IsFiniteSet(Open) /\ C \in Nat /\ C <= nfds - FIRST_FD
  <2>1. IsFiniteSet(Open) /\ C <= Cardinality(FIRST_FD .. nfds - 1)
    BY <1>2, FS_Subset DEF BoundInv
  <2>2. C \in Nat /\ Cardinality(FIRST_FD .. nfds - 1) \in Nat
    BY <1>2, <2>1, FS_CardinalityType
  <2> QED BY <1>1, <1>2, <2>1, <2>2
<1>4. free # {}
  <2>1. SUFFICES ASSUME free = {} PROVE FALSE
    OBVIOUS
  <2>2. FIRST_FD .. FIRST_FD + C \subseteq Open
    BY <2>1
  <2>3. Cardinality(FIRST_FD .. FIRST_FD + C) <= C
    BY <1>3, <2>2, FS_Subset
  <2>4. Cardinality(FIRST_FD .. FIRST_FD + C) = C + 1
    BY <1>1, <1>3, IntervalSize
  <2> HIDE DEF C
  <2> QED BY <1>3, <2>3, <2>4
<1>5. PICK fd \in free : \A g \in free : fd <= g
  <2> HIDE DEF C
  <2>1. free \in SUBSET Nat
    BY <1>1, <1>3
  <2> DEFINE R == {ss \in Nat \X Nat : ss[1] < ss[2]}
  <2>2. IsWellFoundedOn(R, Nat)
    BY NatLessThanWellFounded DEF OpToRel
  <2>3. PICK fd \in free : \A g \in free : ~ (<<g, fd>> \in R)
    <3> HIDE DEF R, free
    <3> QED BY <1>4, <2>1, <2>2, WFMin
  <2>4. ASSUME NEW g \in free PROVE fd <= g
    <3>1. ~ (<<g, fd>> \in R)
      BY <2>3
    <3> HIDE DEF free
    <3> QED BY <2>1, <3>1
  <2> QED BY <2>4
<1>6. FreeFd \in free
  BY <1>5 DEF FreeFd
<1> HIDE DEF C
<1> QED BY <1>1, <1>3, <1>6

\* A step that counts nothing and at most closes descriptors.
LEMMA BoundKept ==
    ASSUME BoundInv, nfds' = nfds, DOMAIN socket' \subseteq Open
    PROVE  BoundInv'
BY DEF BoundInv, Open

LEMMA AcceptBound ==
    ASSUME BoundInv, new_client_handler
    PROVE  BoundInv'
<1>1. CASE Accepting /\ AcceptClient
  <2>1. nfds' = nfds + 1 /\ Open' = Open \cup {FreeFd}
    BY <1>1 DEF AcceptClient, Counted, Open
  <2>2. nfds + 1 <= MAX_CONNECTIONS
    BY <1>1, ParameterAssumption DEF Accepting, BoundInv
  <2>3. FreeFd \in FIRST_FD .. nfds
    BY FreeFdBound
  <2> QED BY <2>1, <2>2, <2>3 DEF BoundInv, FIRST_FD
<1>2. CASE AcceptFails
  BY <1>2, BoundKept DEF AcceptFails, Open
<1>3. CASE LeavesWaiting
  BY <1>3, BoundKept DEF LeavesWaiting, Open
<1> QED BY <1>1, <1>2, <1>3 DEF new_client_handler

\* An answer, sent or not, leaves every other descriptor as it was.
LEMMA RespondCloses ==
    ASSUME NEW fd, NEW conn, NEW p, Respond(fd, conn, p)
    PROVE  DOMAIN socket' \subseteq Open
BY DEF Respond, Close

LEMMA RequestBound ==
    ASSUME BoundInv, NEW fd, flask_request_handler(fd)
    PROVE  BoundInv'
<1> DEFINE p == peer[socket[fd]]
<1>1. nfds' = nfds
  BY DEF flask_request_handler
<1>2. ASSUME NEW response, NEW q, Built(fd, response, q)
      PROVE  DOMAIN socket' \subseteq Open
  BY <1>2, RespondCloses DEF Built, Open
<1>3. DOMAIN socket' \subseteq Open
  <2>1. ReadsRequest(fd, p) \/ ReadsError(fd, p) \/ ReadsEnd(fd, p) \/ ReadsReset(fd, p)
    BY DEF flask_request_handler
  <2>2. CASE ReadsRequest(fd, p)
    BY <1>2, <2>2 DEF ReadsRequest
  <2>3. CASE ReadsError(fd, p)
    BY <1>2, <2>3 DEF ReadsError
  <2>4. CASE ReadsEnd(fd, p)
    BY <2>4 DEF ReadsEnd, Close
  <2>5. CASE ReadsReset(fd, p)
    BY <2>5 DEF ReadsReset, Close
  <2> QED BY <2>1, <2>2, <2>3, <2>4, <2>5
<1> QED BY <1>1, <1>3, BoundKept

LEMMA InitBound == Init => BoundInv
BY ParameterAssumption DEF Init, BoundInv, Open, FIRST_FD

LEMMA StepBound == BoundInv /\ [Next]_vars => BoundInv'
<1> SUFFICES ASSUME BoundInv, [Next]_vars PROVE BoundInv'
  OBVIOUS
<1>1. CASE SelectFails \/ SelectReturns \/ Timeout \/ lsa_handler
  <2>1. nfds' = nfds /\ socket' = socket
    BY <1>1 DEF SelectFails, SelectReturns, Timeout, lsa_handler, engine, network
  <2> QED BY <2>1, BoundKept DEF Open
<1>2. CASE new_client_handler
  BY <1>2, AcceptBound
<1>3. ASSUME NEW fd \in Open, flask_request_handler(fd) PROVE BoundInv'
  BY <1>3, RequestBound
<1>4. ASSUME NEW fd \in Open, flask_response_handler(fd) PROVE BoundInv'
  BY <1>4, RespondCloses, BoundKept DEF flask_response_handler
<1>5. CASE Environment
  <2>1. nfds' = nfds /\ socket' = socket
    BY <1>5 DEF Environment, Connect, Send, Hangup, Finish, DatagramArrives, engine
  <2> QED BY <2>1, BoundKept DEF Open
<1>6. CASE UNCHANGED vars
  BY <1>6, BoundKept DEF vars, engine, network, Open
<1> QED BY <1>1, <1>2, <1>3, <1>4, <1>5, <1>6 DEF Next, Loop

\* However many clients connect, hang up and are reset, no descriptor that
\* accept returns is outside of the connections array (flask_engine.c:105).
THEOREM DescriptorsFitTheArray == Spec => []ConnectionsInBounds
<1>1. BoundInv => ConnectionsInBounds
  BY ParameterAssumption DEF BoundInv, ConnectionsInBounds, FIRST_FD
<1> QED BY <1>1, InitBound, StepBound, PTL DEF Spec

(***************************************************************************)
(* Types.  TypeOK is inductive together with three facts: what is read is  *)
(* a request, the accepting socket is only found ready while a client      *)
(* waits, and the descriptors marked for writing are of connections.       *)
(***************************************************************************)

RequestsAreSent == \A c \in Client : peer[c].unread => peer[c].request # NULL

ReadyIsWaitedAt == tcp_sock \in temp_rfds => queue # << >>

WritingInBounds ==
    /\ temp_wfds \subseteq wfds
    /\ wfds \subseteq FIRST_FD .. MAX_CONNECTIONS - 1

EngineTypeInv ==
    BoundInv /\ TypeOK /\ RequestsAreSent /\ ReadyIsWaitedAt /\ WritingInBounds

Conns == [response : Replies, response_index : BOOLEAN]

Peers == [phase : {"idle", "open", "closed", "reset", "error"},
          request : Request \cup {NULL}, unread : BOOLEAN, reply : Replies]

\* The arrays and tables of TypeOK.
ArraysOK ==
    /\ connections \in [0 .. MAX_CONNECTIONS - 1 -> Conns]
    /\ peer \in [Client -> Peers]
    /\ RequestsAreSent

TablesOK ==
    /\ DOMAIN gol \subseteq Names
    /\ gol \in [DOMAIN gol -> Paths \cup {NULL}]
    /\ DOMAIN ol \subseteq Names
    /\ ol \in [DOMAIN ol -> {"file", "empty"}]

SocketsOK == Open \subseteq Nat /\ socket \in [Open -> Client] /\ queue \in Seq(Client)

CountersOK ==
    /\ running \in BOOLEAN /\ datagram \in BOOLEAN
    /\ nfds \in INITIAL_NFDS .. MAX_CONNECTIONS
    /\ iterations \in 1 .. FLOODING_PERIOD
    /\ resets \in 0 .. MaxResets

SetsOK == rfds \cup temp_rfds \subseteq Nat /\ WritingInBounds /\ ReadyIsWaitedAt

LEMMA TypeParts ==
    EngineTypeInv <=> BoundInv /\ ArraysOK /\ TablesOK /\ SocketsOK /\ CountersOK /\ SetsOK
<1>1. FIRST_FD .. MAX_CONNECTIONS - 1 \subseteq Nat
  BY ParameterAssumption DEF FIRST_FD
<1> QED BY <1>1
        DEF EngineTypeInv, TypeOK, WritingInBounds, ArraysOK, TablesOK, SocketsOK,
            CountersOK, SetsOK, Conns, Peers

LEMMA OpenFd ==
    ASSUME BoundInv, SocketsOK, NEW fd \in Open
    PROVE  fd \in 0 .. MAX_CONNECTIONS - 1 /\ fd >= FIRST_FD /\ socket[fd] \in Client
BY ParameterAssumption DEF BoundInv, SocketsOK, FIRST_FD

LEMMA CutType ==
    ASSUME NEW conn \in Conns
    PROVE  /\ init_connection(conn) \in Conns
           /\ init_connection(conn).response = NULL
           /\ init_connection(conn).response_index = conn.response_index
BY DEF Conns, Replies, init_connection

LEMMA AnswerType ==
    ASSUME TablesOK, NEW request \in Request
    PROVE  BuiltResponse(request) \in Answers
<1> DEFINE obj == get_paths(gol, request.name)
<1>1. request.name \in Names
  BY DEF Request
<1>2. obj = NULL \/ obj \in Paths
  BY DEF TablesOK, get_paths
<1>3. RdgetResponse(request) \in Answers
  <2>1. CASE obj = NULL
    BY <2>1 DEF RdgetResponse, Answer, Answers
  <2>2. CASE obj # NULL /\ obj.node_id = my_node_id
             /\ get_local_file_path(request.name) = "empty"
    BY <2>2 DEF RdgetResponse, Answer, Answers
  <2>3. CASE obj # NULL /\ ~(obj.node_id = my_node_id
                             /\ get_local_file_path(request.name) = "empty")
    <3>1. obj.node_id \in {my_node_id} \cup Others
      BY <1>2, <2>3 DEF Paths
    <3> QED BY <2>3, <3>1 DEF RdgetResponse, Answer, Answers
  <2> QED BY <2>1, <2>2, <2>3
<1>4. AddfileResponse(request) \in Answers
  BY DEF AddfileResponse, Answer, Answers
<1> QED BY <1>3, <1>4 DEF BuiltResponse

LEMMA LearntType ==
    ASSUME TablesOK, NEW objs \in SUBSET Names, NEW k \in Others \cup {my_node_id},
           NEW cost \in Int
    PROVE  LET h == hash_add(gol, objs, k, cost)
           IN  DOMAIN h \subseteq Names /\ h \in [DOMAIN h -> Paths \cup {NULL}]
BY DEF TablesOK, hash_add, Path, Paths

LEMMA ForgottenType ==
    ASSUME TablesOK, NEW ids
    PROVE  LET h == hash_remove_node(gol, ids)
           IN  DOMAIN h \subseteq Names /\ h \in [DOMAIN h -> Paths \cup {NULL}]
BY DEF TablesOK, hash_remove_node

LEMMA AddFileTables ==
    ASSUME TablesOK, NEW request \in Request, AddFile(request)
    PROVE  TablesOK'
<1>1. CASE UNCHANGED tables
  BY <1>1 DEF tables, TablesOK
<1>2. CASE /\ gol' = hash_add(gol, {request.name}, my_node_id, 0)
           /\ AddLocal(request)
           /\ request.method = "ADDFILE"
  <2>1. request.name \in Names /\ request.path \in {"file", "empty"}
    BY <1>2 DEF Request
  <2>2. DOMAIN ol' \subseteq Names /\ ol' \in [DOMAIN ol' -> {"file", "empty"}]
    BY <1>2, <2>1 DEF AddLocal, TablesOK
  <2>3. 0 \in Int /\ my_node_id \in Others \cup {my_node_id} /\ {request.name} \in SUBSET Names
    BY <2>1
  <2>4. DOMAIN gol' \subseteq Names /\ gol' \in [DOMAIN gol' -> Paths \cup {NULL}]
    BY <1>2, <2>3, LearntType
  <2> QED BY <2>2, <2>4 DEF TablesOK
<1> QED BY <1>1, <1>2 DEF AddFile

(***************************************************************************)
(* What the handlers of a connection do.                                   *)
(***************************************************************************)

\* The daemon closes fd and exits.
ExitsAt(fd) ==
    /\ running' = FALSE
    /\ Close(fd)
    /\ UNCHANGED <<rfds, wfds, connections, peer>>

\* It closes fd, whose client's end is then q, and clears the connection conn.
ClosesAt(fd, conn, q) ==
    /\ connections' = [connections EXCEPT ![fd] = init_connection(conn)]
    /\ peer' = [peer EXCEPT ![socket[fd]] = q]
    /\ Close(fd)
    /\ UNCHANGED running
    /\ Forget(fd) \/ (UNCHANGED <<rfds, wfds>> /\ q.phase = "reset")

\* It keeps an answer for later.
KeepsAt(fd, response, q) ==
    /\ connections' = [connections EXCEPT ![fd] = Connection(response, TRUE)]
    /\ peer' = [peer EXCEPT ![socket[fd]] = q]
    /\ wfds' = wfds \cup {fd}
    /\ UNCHANGED <<running, rfds, socket>>

\* The client's end p when the connection conn was written to.
Written(conn, p) ==
    IF conn.response_index /\ p.phase = "open"
    THEN [p EXCEPT !.reply = IF conn.response = NULL THEN Zeros ELSE conn.response]
    ELSE p

LEMMA RespondCases ==
    ASSUME NEW fd, NEW conn, NEW p, Respond(fd, conn, p)
    PROVE  \/ /\ p.phase = "error" \/ ~conn.response_index
              /\ ExitsAt(fd)
           \/ ClosesAt(fd, conn, Written(conn, p))
BY DEF Respond, ExitsAt, ClosesAt, Written

LEMMA BuiltCases ==
    ASSUME NEW fd, NEW response, NEW p, Built(fd, response, p)
    PROVE  \/ p.phase = "error" /\ ExitsAt(fd)
           \/ ClosesAt(fd, Connection(response, TRUE), Written(Connection(response, TRUE), p))
           \/ KeepsAt(fd, response, p)
BY RespondCases DEF Built, KeepsAt, Marked, Connection

\* The answer of fd's client, whose end is p before and q after it was read.
Outcome(fd, response, q) ==
    \/ q.phase = "error" /\ ExitsAt(fd)
    \/ ClosesAt(fd, Connection(response, TRUE), Written(Connection(response, TRUE), q))
    \/ KeepsAt(fd, response, q)

LEMMA RequestCases ==
    ASSUME SocketsOK, ArraysOK, NEW fd \in Open, flask_request_handler(fd)
    PROVE  LET p == peer[socket[fd]]
           IN  \/ /\ p.unread
                  /\ AddFile(p.request)
                  /\ Outcome(fd, BuiltResponse(p.request), [p EXCEPT !.unread = FALSE])
               \/ /\ p.phase = "error"
                  /\ UNCHANGED tables
                  /\ Outcome(fd, Answer(p.request, "ERROR", NULL),
                             [p EXCEPT !.phase = "closed"])
               \/ UNCHANGED tables /\ ClosesAt(fd, connections[fd], p)
<1> DEFINE p == peer[socket[fd]]
<1>1. ReadsRequest(fd, p) \/ ReadsError(fd, p) \/ ReadsEnd(fd, p) \/ ReadsReset(fd, p)
  BY DEF flask_request_handler
<1>2. peer = [peer EXCEPT ![socket[fd]] = p]
  BY DEF ArraysOK, SocketsOK
<1> HIDE DEF p
<1>3. CASE ReadsRequest(fd, p)
  BY <1>3, BuiltCases DEF ReadsRequest, Outcome, p
<1>4. CASE ReadsError(fd, p)
  BY <1>4, BuiltCases DEF ReadsError, Outcome, p
<1>5. CASE ReadsEnd(fd, p) \/ ReadsReset(fd, p)
  BY <1>2, <1>5 DEF ReadsEnd, ReadsReset, ClosesAt, p
<1> QED BY <1>1, <1>3, <1>4, <1>5 DEF p

\* What is built for a request or an error, and the client's end after it.
LEMMA BuiltTypes ==
    ASSUME TablesOK, NEW p \in Peers, p.unread => p.request # NULL
    PROVE  /\ p.unread => /\ p.request \in Request
                          /\ BuiltResponse(p.request) \in Answers
           /\ Answer(p.request, "ERROR", NULL) \in Answers
           /\ \A response \in Answers : Connection(response, TRUE) \in Conns
           /\ [p EXCEPT !.unread = FALSE] \in Peers
           /\ [p EXCEPT !.phase = "closed"] \in Peers
           /\ \A conn \in Conns : Written(conn, p) \in Peers
<1>1. p.unread => p.request \in Request
  BY DEF Peers
<1>2. p.unread => BuiltResponse(p.request) \in Answers
  BY <1>1, AnswerType
<1>3. Answer(p.request, "ERROR", NULL) \in Answers
  BY DEF Answer, Answers, Peers
<1>4. \A response \in Answers : Connection(response, TRUE) \in Conns
  BY DEF Connection, Conns, Replies
<1>5. [p EXCEPT !.unread = FALSE] \in Peers /\ [p EXCEPT !.phase = "closed"] \in Peers
  BY DEF Peers
<1>6. ASSUME NEW conn \in Conns PROVE Written(conn, p) \in Peers
  <2>1. (IF conn.response = NULL THEN Zeros ELSE conn.response) \in Replies
    BY DEF Conns, Replies
  <2> QED BY <2>1 DEF Written, Peers
<1> QED BY <1>1, <1>2, <1>3, <1>4, <1>5, <1>6

\* After a turn the loop has not come back to the accepting socket.
LEMMA TurnSets ==
    ASSUME SetsOK, NEW fd \in Nat, fd >= FIRST_FD, Turn(fd)
    PROVE  /\ tcp_sock \notin temp_rfds /\ tcp_sock \notin temp_rfds'
           /\ temp_rfds' \subseteq Nat /\ temp_wfds' \subseteq wfds \ {fd}
<1>1. tcp_sock \notin temp_rfds
  BY DEF Turn, tcp_sock, FIRST_FD
<1> QED BY <1>1 DEF Turn, SetsOK, WritingInBounds

LEMMA HandledType ==
    ASSUME EngineTypeInv, NEW fd \in Open, Turn(fd), TablesOK',
           UNCHANGED <<nfds, queue, datagram, resets>>,
           \/ ExitsAt(fd)
           \/ \E conn \in Conns, q \in Peers :
                  ClosesAt(fd, conn, q) /\ (q.unread => q.request # NULL)
           \/ \E response \in Answers, q \in Peers :
                  KeepsAt(fd, response, q) /\ (q.unread => q.request # NULL)
    PROVE  EngineTypeInv'
<1>1. BoundInv /\ ArraysOK /\ SocketsOK /\ CountersOK /\ SetsOK
  BY TypeParts
<1>2. fd \in 0 .. MAX_CONNECTIONS - 1 /\ fd >= FIRST_FD /\ socket[fd] \in Client
  BY <1>1, OpenFd
<1>3. tcp_sock \notin temp_rfds' /\ temp_rfds' \subseteq Nat
      /\ temp_wfds' \subseteq wfds \ {fd}
  BY <1>1, <1>2, TurnSets
<1>4. /\ connections \in [0 .. MAX_CONNECTIONS - 1 -> Conns]
      /\ peer \in [Client -> Peers] /\ RequestsAreSent
  BY <1>1 DEF ArraysOK
<1>5. Open \subseteq Nat /\ socket \in [Open -> Client] /\ rfds \subseteq Nat
      /\ wfds \subseteq FIRST_FD .. MAX_CONNECTIONS - 1
  BY <1>1 DEF SocketsOK, SetsOK, WritingInBounds
<1>6. ASSUME Close(fd)
      PROVE  Open' \subseteq Open /\ socket' \in [Open' -> Client]
  BY <1>5, <1>6 DEF Close, Open
<1>7. ASSUME NEW q \in Peers, q.unread => q.request # NULL,
             peer' = [peer EXCEPT ![socket[fd]] = q]
      PROVE  peer' \in [Client -> Peers] /\ RequestsAreSent'
  BY <1>2, <1>4, <1>7 DEF RequestsAreSent
<1>8. ASSUME Open' \subseteq Open, socket' \in [Open' -> Client],
             running' \in BOOLEAN, ArraysOK',
             rfds' \subseteq rfds, wfds' \subseteq wfds \cup {fd},
             temp_wfds' \subseteq wfds'
      PROVE  EngineTypeInv'
  <2>1. BoundInv'
    BY <1>1, <1>8, BoundKept DEF Open
  <2>2. SocketsOK'
    BY <1>1, <1>5, <1>8 DEF SocketsOK
  <2>3. CountersOK'
    BY <1>1, <1>8 DEF CountersOK, Turn
  <2>4. SetsOK'
    BY <1>2, <1>3, <1>5, <1>8 DEF SetsOK, WritingInBounds, ReadyIsWaitedAt
  <2>5. (BoundInv /\ ArraysOK /\ TablesOK /\ SocketsOK /\ CountersOK /\ SetsOK)'
    BY <1>8, <2>1, <2>2, <2>3, <2>4
  <2> QED BY <2>5, TypeParts, PTL
<1>9. CASE ExitsAt(fd)
  <2>1. ArraysOK' /\ temp_wfds' \subseteq wfds'
    BY <1>3, <1>4, <1>9 DEF ExitsAt, ArraysOK, RequestsAreSent
  <2> QED BY <1>6, <1>8, <1>9, <2>1 DEF ExitsAt
<1>10. ASSUME NEW conn \in Conns, NEW q \in Peers, ClosesAt(fd, conn, q),
              q.unread => q.request # NULL
       PROVE  EngineTypeInv'
  <2>1. connections' \in [0 .. MAX_CONNECTIONS - 1 -> Conns]
    BY <1>4, <1>10, CutType DEF ClosesAt
  <2>2. ArraysOK'
    BY <1>7, <1>10, <2>1 DEF ArraysOK, ClosesAt
  <2>3. rfds' \subseteq rfds /\ wfds' \subseteq wfds /\ temp_wfds' \subseteq wfds'
    BY <1>3, <1>10 DEF ClosesAt, Forget
  <2> QED BY <1>1, <1>6, <1>8, <1>10, <2>2, <2>3 DEF ClosesAt, CountersOK
<1>11. ASSUME NEW response \in Answers, NEW q \in Peers, KeepsAt(fd, response, q),
              q.unread => q.request # NULL
       PROVE  EngineTypeInv'
  <2>1. Connection(response, TRUE) \in Conns
    BY DEF Connection, Conns, Replies
  <2>2. ArraysOK'
    BY <1>4, <1>7, <1>11, <2>1 DEF ArraysOK, KeepsAt
  <2>3. rfds' \subseteq rfds /\ wfds' = wfds \cup {fd} /\ temp_wfds' \subseteq wfds'
    BY <1>3, <1>11 DEF KeepsAt
  <2> QED BY <1>1, <1>5, <1>8, <1>11, <2>2, <2>3 DEF KeepsAt, CountersOK, Open
<1> QED BY <1>9, <1>10, <1>11

LEMMA RequestType ==
    ASSUME EngineTypeInv, NEW fd \in Open, flask_request_handler(fd)
    PROVE  EngineTypeInv'
<1> DEFINE p == peer[socket[fd]]
<1>1. BoundInv /\ ArraysOK /\ TablesOK /\ SocketsOK
  BY TypeParts
<1>2. Turn(fd) /\ UNCHANGED <<nfds, queue, datagram, resets>>
  BY DEF flask_request_handler
<1>3. fd \in 0 .. MAX_CONNECTIONS - 1 /\ socket[fd] \in Client
  BY <1>1, OpenFd
<1>4. p \in Peers /\ (p.unread => p.request # NULL)
      /\ connections[fd] \in Conns
  BY <1>1, <1>3 DEF ArraysOK, RequestsAreSent
<1>5. \/ /\ p.unread
         /\ AddFile(p.request)
         /\ Outcome(fd, BuiltResponse(p.request), [p EXCEPT !.unread = FALSE])
      \/ /\ p.phase = "error"
         /\ UNCHANGED tables
         /\ Outcome(fd, Answer(p.request, "ERROR", NULL), [p EXCEPT !.phase = "closed"])
      \/ UNCHANGED tables /\ ClosesAt(fd, connections[fd], p)
  BY <1>1, RequestCases
<1> HIDE DEF p
<1>6. ASSUME NEW response \in Answers, NEW q \in Peers, q.unread => q.request # NULL,
             TablesOK', Outcome(fd, response, q)
      PROVE  EngineTypeInv'
  <2>1. Connection(response, TRUE) \in Conns
        /\ Written(Connection(response, TRUE), q) \in Peers
    BY <1>1, <1>6, BuiltTypes
  <2>2. /\ Written(Connection(response, TRUE), q).unread = q.unread
        /\ Written(Connection(response, TRUE), q).request = q.request
    BY DEF Written, Peers
  <2>3. CASE ExitsAt(fd)
    BY <1>2, <1>6, <2>3, HandledType
  <2>4. CASE ClosesAt(fd, Connection(response, TRUE), Written(Connection(response, TRUE), q))
    BY <1>2, <1>6, <2>1, <2>2, <2>4, HandledType
  <2>5. CASE KeepsAt(fd, response, q)
    BY <1>2, <1>6, <2>5, HandledType
  <2> QED BY <1>6, <2>3, <2>4, <2>5 DEF Outcome
<1>7. CASE /\ p.unread
           /\ AddFile(p.request)
           /\ Outcome(fd, BuiltResponse(p.request), [p EXCEPT !.unread = FALSE])
  <2>1. p.request \in Request /\ BuiltResponse(p.request) \in Answers
        /\ [p EXCEPT !.unread = FALSE] \in Peers
    BY <1>1, <1>4, <1>7, BuiltTypes
  <2>2. TablesOK'
    BY <1>1, <1>7, <2>1, AddFileTables
  <2>3. [p EXCEPT !.unread = FALSE].unread = FALSE
    BY <1>4 DEF Peers
  <2> QED BY <1>6, <1>7, <2>1, <2>2, <2>3
<1>8. CASE /\ p.phase = "error"
           /\ UNCHANGED tables
           /\ Outcome(fd, Answer(p.request, "ERROR", NULL), [p EXCEPT !.phase = "closed"])
  <2>1. Answer(p.request, "ERROR", NULL) \in Answers
        /\ [p EXCEPT !.phase = "closed"] \in Peers
    BY <1>1, <1>4, BuiltTypes
  <2>2. TablesOK'
    BY <1>1, <1>8 DEF TablesOK, tables
  <2>3. /\ [p EXCEPT !.phase = "closed"].unread = p.unread
        /\ [p EXCEPT !.phase = "closed"].request = p.request
    BY <1>4 DEF Peers
  <2> QED BY <1>4, <1>6, <1>8, <2>1, <2>2, <2>3
<1>9. CASE UNCHANGED tables /\ ClosesAt(fd, connections[fd], p)
  <2>1. TablesOK'
    BY <1>1, <1>9 DEF TablesOK, tables
  <2> QED BY <1>2, <1>4, <1>9, <2>1, HandledType
<1> QED BY <1>5, <1>7, <1>8, <1>9

LEMMA ResponseType ==
    ASSUME EngineTypeInv, NEW fd \in Open, flask_response_handler(fd)
    PROVE  EngineTypeInv'
<1> DEFINE p == peer[socket[fd]]
           conn == connections[fd]
<1>1. BoundInv /\ ArraysOK /\ TablesOK /\ SocketsOK
  BY TypeParts
<1>2. Turn(fd) /\ UNCHANGED <<nfds, queue, datagram, resets>> /\ TablesOK'
  BY <1>1 DEF flask_response_handler, TablesOK, tables
<1>3. fd \in 0 .. MAX_CONNECTIONS - 1 /\ socket[fd] \in Client
  BY <1>1, OpenFd
<1>4. p \in Peers /\ (p.unread => p.request # NULL) /\ conn \in Conns
  BY <1>1, <1>3 DEF ArraysOK, RequestsAreSent
<1>5. ExitsAt(fd) \/ ClosesAt(fd, conn, Written(conn, p))
  BY RespondCases DEF flask_response_handler
<1> HIDE DEF p, conn
<1>6. Written(conn, p) \in Peers
  BY <1>1, <1>4, BuiltTypes
<1>7. Written(conn, p).unread = p.unread /\ Written(conn, p).request = p.request
  BY <1>4 DEF Written, Peers
<1> QED BY <1>2, <1>4, <1>5, <1>6, <1>7, HandledType

LEMMA AcceptType ==
    ASSUME EngineTypeInv, new_client_handler
    PROVE  EngineTypeInv'
<1>1. BoundInv /\ ArraysOK /\ TablesOK /\ SocketsOK /\ CountersOK /\ SetsOK
  BY TypeParts
<1>2. BoundInv'
  BY <1>1, AcceptBound
<1>3. queue # << >> /\ Head(queue) \in Client /\ Tail(queue) \in Seq(Client)
  BY <1>1 DEF new_client_handler, Turn, SetsOK, ReadyIsWaitedAt, SocketsOK,
              WritingInBounds, tcp_sock, FIRST_FD
<1>4. TablesOK' /\ UNCHANGED <<running, datagram, resets, iterations, peer>>
  BY <1>1 DEF new_client_handler, Turn, TablesOK, tables
<1>5. /\ tcp_sock \notin temp_rfds' /\ temp_rfds' \subseteq Nat
      /\ temp_wfds' \subseteq wfds
  BY <1>1 DEF new_client_handler, Turn, SetsOK, WritingInBounds
<1>6. CASE Accepting /\ AcceptClient
  <2>1. FreeFd \in FIRST_FD .. nfds /\ nfds \in Nat /\ nfds <= MAX_CONNECTIONS - 1
    BY <1>1, <1>6, FreeFdBound DEF BoundInv, Accepting
  <2>2. FreeFd \in Nat /\ FreeFd \in FIRST_FD .. MAX_CONNECTIONS - 1
        /\ FreeFd \in 0 .. MAX_CONNECTIONS - 1
    BY <2>1, ParameterAssumption DEF FIRST_FD
  <2>3. SocketsOK'
    BY <1>1, <1>3, <1>6, <2>2 DEF SocketsOK, AcceptClient, Open
  <2>4. connections' \in [0 .. MAX_CONNECTIONS - 1 -> Conns]
    BY <1>1, <1>6, <2>2, CutType DEF ArraysOK, AcceptClient
  <2>5. ArraysOK'
    BY <1>1, <1>4, <2>4 DEF ArraysOK, RequestsAreSent
  <2>6. CountersOK'
    BY <1>1, <1>4, <1>6, <2>1, ParameterAssumption
       DEF CountersOK, AcceptClient, Counted
  <2>7. SetsOK'
    BY <1>1, <1>5, <1>6, <2>2
       DEF SetsOK, WritingInBounds, ReadyIsWaitedAt, AcceptClient
  <2>8. (BoundInv /\ ArraysOK /\ TablesOK /\ SocketsOK /\ CountersOK /\ SetsOK)'
    BY <1>2, <1>4, <2>3, <2>5, <2>6, <2>7
  <2> QED BY <2>8, TypeParts, PTL
<1>7. CASE AcceptFails \/ LeavesWaiting
  <2>1. UNCHANGED <<socket, nfds, rfds, wfds, connections>> /\ queue' \in Seq(Client)
    BY <1>1, <1>3, <1>7 DEF AcceptFails, LeavesWaiting, SocketsOK
  <2>2. SocketsOK'
    BY <1>1, <2>1 DEF SocketsOK, Open
  <2>3. ArraysOK'
    BY <1>1, <1>4, <2>1 DEF ArraysOK, RequestsAreSent
  <2>4. CountersOK' /\ SetsOK'
    BY <1>1, <1>4, <1>5, <2>1
       DEF CountersOK, SetsOK, WritingInBounds, ReadyIsWaitedAt
  <2>5. (BoundInv /\ ArraysOK /\ TablesOK /\ SocketsOK /\ CountersOK /\ SetsOK)'
    BY <1>2, <1>4, <2>2, <2>3, <2>4
  <2> QED BY <2>5, TypeParts, PTL
<1> QED BY <1>6, <1>7 DEF new_client_handler

\* What select, a timeout and an LSA do.
LEMMA SelectType ==
    ASSUME EngineTypeInv, SelectFails \/ SelectReturns \/ Timeout \/ lsa_handler
    PROVE  EngineTypeInv'
<1>1. BoundInv /\ ArraysOK /\ TablesOK /\ SocketsOK /\ CountersOK /\ SetsOK
  BY TypeParts
<1>2. UNCHANGED <<nfds, rfds, wfds, connections, socket, queue, peer, resets, ol>>
  BY DEF SelectFails, SelectReturns, Timeout, lsa_handler, engine, network, tables
<1>3. BoundInv' /\ ArraysOK' /\ SocketsOK'
  BY <1>1, <1>2 DEF BoundInv, Open, ArraysOK, RequestsAreSent, SocketsOK
<1>4. TablesOK'
  <2>1. CASE SelectFails \/ SelectReturns
    BY <1>1, <2>1 DEF SelectFails, SelectReturns, tables, TablesOK
  <2>2. CASE Timeout
    BY <1>1, <1>2, <2>2, ForgottenType DEF Timeout, TablesOK
  <2>3. CASE lsa_handler
    <3>1. PICK objs \in SUBSET Names, k \in Others, cost \in Costs :
              gol' = hash_add(gol, objs, k, cost)
      BY <2>3 DEF lsa_handler
    <3>2. cost \in Int
      BY ParameterAssumption
    <3> QED BY <1>1, <1>2, <3>1, <3>2, LearntType DEF TablesOK
  <2> QED BY <2>1, <2>2, <2>3
<1>5. CountersOK'
  <2>1. iterations' \in 1 .. FLOODING_PERIOD
    BY <1>1, ParameterAssumption
       DEF CountersOK, SelectFails, SelectReturns, Timeout, lsa_handler, Turn
  <2>2. running' \in BOOLEAN /\ datagram' \in BOOLEAN
    BY <1>1 DEF CountersOK, SelectFails, SelectReturns, Timeout, lsa_handler, engine,
                network
  <2> QED BY <1>1, <1>2, <2>1, <2>2 DEF CountersOK
<1>6. SetsOK'
  <2>1. CASE SelectFails \/ Timeout
    BY <1>1, <1>2, <2>1
       DEF SelectFails, Timeout, engine, SetsOK, WritingInBounds, ReadyIsWaitedAt
  <2>2. CASE SelectReturns
    <3>1. temp_rfds' \subseteq Nat
      BY <1>1, <2>2 DEF SelectReturns, Readable, SetsOK, tcp_sock, udp_sock
    <3>2. tcp_sock \in temp_rfds' => queue' # << >>
      BY <1>1, <1>2, <2>2
         DEF SelectReturns, Readable, BoundInv, tcp_sock, udp_sock, FIRST_FD
    <3> QED BY <1>1, <1>2, <2>2, <3>1, <3>2
            DEF SelectReturns, SetsOK, WritingInBounds, ReadyIsWaitedAt
  <2>3. CASE lsa_handler
    BY <1>1, <1>2, <2>3
       DEF lsa_handler, Turn, SetsOK, WritingInBounds, ReadyIsWaitedAt
  <2> QED BY <2>1, <2>2, <2>3
<1>7. (BoundInv /\ ArraysOK /\ TablesOK /\ SocketsOK /\ CountersOK /\ SetsOK)'
  BY <1>3, <1>4, <1>5, <1>6
<1> QED BY <1>7, TypeParts, PTL

LEMMA EnvironmentType ==
    ASSUME EngineTypeInv, Environment
    PROVE  EngineTypeInv'
<1>1. BoundInv /\ ArraysOK /\ TablesOK /\ SocketsOK /\ CountersOK /\ SetsOK
  BY TypeParts
<1>2. UNCHANGED <<running, engine, socket, tables, iterations>>
  BY DEF Environment, Connect, Send, Hangup, Finish, DatagramArrives
<1>3. BoundInv' /\ TablesOK'
  BY <1>1, <1>2 DEF BoundInv, TablesOK, engine, tables, Open
<1>4. queue' = queue \/ \E c \in Client : queue' = Append(queue, c)
  BY DEF Environment, Connect, Send, Hangup, Finish, DatagramArrives
<1>5. queue' \in Seq(Client) /\ (queue # << >> => queue' # << >>)
  BY <1>1, <1>4 DEF SocketsOK
<1>6. SocketsOK' /\ SetsOK'
  BY <1>1, <1>2, <1>5
     DEF SocketsOK, SetsOK, WritingInBounds, ReadyIsWaitedAt, engine, Open
<1>7. CountersOK'
  <2>1. datagram' \in BOOLEAN
    BY <1>1 DEF CountersOK, Environment, Connect, Send, Hangup, Finish, DatagramArrives
  <2>2. resets' = resets \/ (resets < MaxResets /\ resets' = resets + 1)
    BY DEF Environment, Connect, Send, Hangup, Finish, DatagramArrives
  <2>3. resets' \in 0 .. MaxResets
    BY <1>1, <2>2, ParameterAssumption DEF CountersOK
  <2> QED BY <1>1, <1>2, <2>1, <2>3 DEF CountersOK, engine
<1>8. ASSUME NEW c \in Client, NEW q \in Peers, peer' = [peer EXCEPT ![c] = q],
             q.unread => q.request # NULL
      PROVE  peer' \in [Client -> Peers] /\ RequestsAreSent'
  BY <1>1, <1>8 DEF ArraysOK, RequestsAreSent
<1>9. peer' \in [Client -> Peers] /\ RequestsAreSent'
  <2>1. CASE peer' = peer
    BY <1>1, <2>1 DEF ArraysOK, RequestsAreSent
  <2>2. ASSUME NEW c \in Client, Connect(c) \/ Send(c) \/ Hangup(c) \/ Finish(c)
        PROVE  \E q \in Peers : /\ peer' = [peer EXCEPT ![c] = q]
                                /\ q.unread => q.request # NULL
    <3>1. peer[c] \in Peers /\ (peer[c].unread => peer[c].request # NULL)
      BY <1>1 DEF ArraysOK, RequestsAreSent
    <3>2. CASE Connect(c)
      <4>1. [peer[c] EXCEPT !.phase = "open"] \in Peers
        BY <3>1 DEF Peers
      <4> QED BY <3>1, <3>2, <4>1 DEF Connect, Peers
    <3>3. CASE Send(c)
      <4>1. PICK r \in Request :
                peer' = [peer EXCEPT ![c].request = r, ![c].unread = TRUE]
        BY <3>3 DEF Send
      <4> DEFINE q == [peer[c] EXCEPT !.request = r, !.unread = TRUE]
      <4>2. q \in Peers /\ q.request # NULL
        BY <3>1, NullAssumption DEF Peers
      <4>3. peer' = [peer EXCEPT ![c] = q]
        BY <1>1, <4>1 DEF ArraysOK
      <4> QED BY <4>2, <4>3
    <3>4. CASE Hangup(c)
      <4>1. CASE peer' = [peer EXCEPT ![c].phase = "closed"]
        <5> DEFINE q == [peer[c] EXCEPT !.phase = "closed"]
        <5>1. q \in Peers /\ (q.unread => q.request # NULL)
          BY <3>1 DEF Peers
        <5>2. peer' = [peer EXCEPT ![c] = q]
          BY <4>1
        <5> QED BY <5>1, <5>2
      <4>2. ASSUME NEW f \in {"reset", "error"},
                   peer' = [peer EXCEPT ![c].phase = f, ![c].unread = FALSE]
            PROVE  \E q \in Peers : /\ peer' = [peer EXCEPT ![c] = q]
                                    /\ q.unread => q.request # NULL
        <5> DEFINE q == [peer[c] EXCEPT !.phase = f, !.unread = FALSE]
        <5>1. q \in Peers /\ (q.unread => q.request # NULL)
          BY <3>1 DEF Peers
        <5>2. peer' = [peer EXCEPT ![c] = q]
          BY <1>1, <4>2 DEF ArraysOK
        <5> QED BY <5>1, <5>2
      <4> QED BY <3>4, <4>1, <4>2 DEF Hangup
    <3>5. CASE Finish(c)
      <4>1. NoConnection \in Peers /\ ~NoConnection.unread
        BY DEF NoConnection, Peers, Replies
      <4> QED BY <3>5, <4>1 DEF Finish
    <3> QED BY <2>2, <3>2, <3>3, <3>4, <3>5
  <2> QED BY <1>8, <2>1, <2>2 DEF Environment, DatagramArrives
<1>10. ArraysOK'
  BY <1>1, <1>2, <1>9 DEF ArraysOK, engine
<1>11. (BoundInv /\ ArraysOK /\ TablesOK /\ SocketsOK /\ CountersOK /\ SetsOK)'
  BY <1>3, <1>6, <1>7, <1>10
<1> QED BY <1>11, TypeParts, PTL

LEMMA InitType == Init => EngineTypeInv
<1> SUFFICES ASSUME Init PROVE EngineTypeInv
  OBVIOUS
<1>1. BoundInv
  BY InitBound
<1>2. Open = {} /\ SocketsOK
  BY DEF Init, SocketsOK, Open
<1>3. NoConnection \in Peers /\ Connection(NULL, FALSE) \in Conns
  BY DEF NoConnection, Peers, Connection, Conns, Replies
<1>4. ArraysOK
  BY <1>3 DEF Init, ArraysOK, RequestsAreSent, NoConnection
<1>5. TablesOK
  BY DEF Init, TablesOK, init_hash
<1>6. CountersOK
  <2>1. INITIAL_NFDS \in INITIAL_NFDS .. MAX_CONNECTIONS /\ 1 \in 1 .. FLOODING_PERIOD
        /\ 0 \in 0 .. MaxResets
    BY ParameterAssumption
  <2>2. nfds = INITIAL_NFDS /\ iterations = 1 /\ resets = 0
    BY DEF Init
  <2>3. running \in BOOLEAN /\ datagram \in BOOLEAN
    BY DEF Init
  <2> QED BY <2>1, <2>2, <2>3 DEF CountersOK
<1>7. SetsOK
  BY DEF Init, SetsOK, WritingInBounds, ReadyIsWaitedAt, udp_sock, tcp_sock
<1> QED BY <1>1, <1>2, <1>4, <1>5, <1>6, <1>7, TypeParts

LEMMA StepType == EngineTypeInv /\ [Next]_vars => EngineTypeInv'
<1> SUFFICES ASSUME EngineTypeInv, [Next]_vars PROVE EngineTypeInv'
  OBVIOUS
<1>1. CASE UNCHANGED vars
  BY <1>1
     DEF vars, engine, network, tables, EngineTypeInv, BoundInv, TypeOK, RequestsAreSent,
         ReadyIsWaitedAt, WritingInBounds, Open
<1> QED BY <1>1, SelectType, AcceptType, RequestType, ResponseType, EnvironmentType
        DEF Next, Loop

\* Every variable has its type: no step puts into a connection, a table or a
\* client's reply what another step does not expect there.
THEOREM EngineTypeCorrect == Spec => []TypeOK
<1>1. EngineTypeInv => TypeOK
  BY DEF EngineTypeInv
<1> QED BY <1>1, InitType, StepType, PTL DEF Spec

(***************************************************************************)
(* The object tables.  A local object is in both; unless a TTL wraps it is *)
(* there at this node and at cost 0, which no LSA undercuts and no timeout *)
(* forgets.                                                                *)
(***************************************************************************)

FilesInv ==
    /\ NoTtlWraps =>
           \A o \in DOMAIN ol : o \in DOMAIN gol /\ gol[o] = Path(my_node_id, 0)
    /\ \A o \in DOMAIN gol :
           gol[o] # NULL /\ gol[o].node_id = my_node_id => o \in DOMAIN ol

LEMMA PathIsNotNull == Path(my_node_id, 0) # NULL
BY NullAssumption DEF Path, Paths

LEMMA FilesKeptByAddFile ==
    ASSUME FilesInv, NEW request, AddFile(request)
    PROVE  FilesInv'
<1>1. CASE UNCHANGED tables
  BY <1>1 DEF tables, FilesInv, NoTtlWraps
<1>2. CASE /\ request.name \notin DOMAIN gol
           /\ gol' = hash_add(gol, {request.name}, my_node_id, 0)
           /\ DOMAIN ol' = DOMAIN ol \cup {request.name}
  BY <1>2 DEF FilesInv, hash_add, Path, NoTtlWraps
<1> QED BY <1>1, <1>2 DEF AddFile, AddLocal, contains_object

LEMMA FilesKeptByLsa ==
    ASSUME FilesInv, TablesOK, lsa_handler
    PROVE  FilesInv'
<1>1. PICK objs \in SUBSET Names, k \in Others, cost \in Costs :
          gol' = hash_add(gol, objs, k, cost)
  BY DEF lsa_handler
<1>2. ol' = ol /\ k # my_node_id /\ cost \in Int
  BY ParameterAssumption DEF lsa_handler
<1>3. DOMAIN gol' = DOMAIN gol \cup objs
  BY <1>1 DEF hash_add
<1>4. ASSUME NoTtlWraps, NEW o \in DOMAIN ol
      PROVE  o \in DOMAIN gol' /\ gol'[o] = Path(my_node_id, 0)
  <2>1. o \in DOMAIN gol /\ gol[o] = Path(my_node_id, 0) /\ gol[o] # NULL
    BY <1>4, PathIsNotNull DEF FilesInv
  <2>2. cost >= 0
    BY <1>4 DEF NoTtlWraps
  <2>3. ~Nearer(gol[o], cost)
    BY <1>2, <2>1, <2>2 DEF Nearer, Path
  <2> QED BY <1>1, <1>3, <2>1, <2>3 DEF hash_add
<1>5. ASSUME NEW o \in DOMAIN gol', gol'[o] # NULL, gol'[o].node_id = my_node_id
      PROVE  o \in DOMAIN ol
  <2>1. gol'[o] # Path(k, cost)
    BY <1>2, <1>5 DEF Path
  <2>2. o \in DOMAIN gol /\ gol'[o] = gol[o]
    BY <1>1, <1>3, <2>1 DEF hash_add
  <2> QED BY <1>5, <2>2 DEF FilesInv
<1>6. NoTtlWraps' => NoTtlWraps
  BY DEF NoTtlWraps
<1> QED BY <1>2, <1>4, <1>5, <1>6 DEF FilesInv

LEMMA FilesKeptByTimeout ==
    ASSUME FilesInv, Timeout
    PROVE  FilesInv'
<1>1. PICK ids \in SUBSET Others : gol' = hash_remove_node(gol, ids)
  BY DEF Timeout
<1>2. ol' = ol /\ my_node_id \notin ids
  BY ParameterAssumption DEF Timeout
<1>3. DOMAIN gol' = DOMAIN gol
      /\ \A o \in DOMAIN gol : gol'[o] = gol[o] \/ gol'[o] = NULL
  BY <1>1 DEF hash_remove_node
<1>4. NoTtlWraps => \A o \in DOMAIN ol : gol'[o] = gol[o]
  BY <1>1, <1>2 DEF FilesInv, hash_remove_node, Path
<1> QED BY <1>2, <1>3, <1>4 DEF FilesInv, NoTtlWraps

LEMMA RequestTables ==
    ASSUME NEW fd, flask_request_handler(fd)
    PROVE  UNCHANGED tables \/ AddFile(peer[socket[fd]].request)
BY DEF flask_request_handler, ReadsRequest, ReadsError, ReadsEnd, ReadsReset

LEMMA StepFiles == EngineTypeInv /\ FilesInv /\ [Next]_vars => FilesInv'
<1> SUFFICES ASSUME EngineTypeInv, FilesInv, [Next]_vars PROVE FilesInv'
  OBVIOUS
<1>1. TablesOK
  BY TypeParts
<1>2. CASE UNCHANGED tables
  BY <1>2 DEF tables, FilesInv, NoTtlWraps
<1>3. CASE Timeout \/ lsa_handler
  BY <1>1, <1>3, FilesKeptByTimeout, FilesKeptByLsa
<1>4. ASSUME NEW fd \in Open, flask_request_handler(fd) PROVE FilesInv'
  BY <1>2, <1>4, RequestTables, FilesKeptByAddFile
<1>5. CASE UNCHANGED vars \/ SelectFails \/ SelectReturns \/ new_client_handler
           \/ Environment
  BY <1>2, <1>5
     DEF vars, SelectFails, SelectReturns, new_client_handler, Environment, Connect, Send,
         Hangup, Finish, DatagramArrives
<1>6. ASSUME NEW fd \in Open, flask_response_handler(fd) PROVE FilesInv'
  BY <1>2, <1>6 DEF flask_response_handler
<1> QED BY <1>3, <1>4, <1>5, <1>6 DEF Next, Loop

(***************************************************************************)
(* URIs.  One that is printed and was not written is for an own file       *)
(* without its path, which stays so: entries are appended and the first is *)
(* found.                                                                  *)
(***************************************************************************)

Explained(answer, l) ==
    answer \in Answers /\ answer.text = "garbage" =>
        answer.request.name \in DOMAIN l /\ l[answer.request.name] = "empty"

UrisInv ==
    /\ \A fd \in 0 .. MAX_CONNECTIONS - 1 : Explained(connections[fd].response, ol)
    /\ \A c \in Client : Explained(peer[c].reply, ol)

Grows(l, m) == \A o \in DOMAIN l : o \in DOMAIN m /\ m[o] = l[o]

LEMMA StaysExplained ==
    ASSUME NEW answer, NEW l, NEW m, Grows(l, m), Explained(answer, l)
    PROVE  Explained(answer, m)
BY DEF Explained, Grows

LEMMA NoneExplained == \A l : Explained(NULL, l) /\ Explained(Zeros, l)
BY NullAssumption DEF Explained, Zeros, Answer

LEMMA LocalGrows ==
    ASSUME NEW request, UNCHANGED tables \/ AddFile(request)
    PROVE  Grows(ol, ol')
BY DEF AddFile, AddLocal, tables, Grows

LEMMA BuiltIsOwn ==
    ASSUME FilesInv, TablesOK, NEW request \in Request
    PROVE  /\ BuiltResponse(request).request = request
           /\ Explained(BuiltResponse(request), ol)
<1> DEFINE obj == get_paths(gol, request.name)
<1>1. obj # NULL /\ obj.node_id = my_node_id => request.name \in DOMAIN ol
  BY DEF get_paths, FilesInv
<1>2. /\ RdgetResponse(request).request = request
      /\ RdgetResponse(request).text = "garbage" =>
             request.name \in DOMAIN ol /\ ol[request.name] = "empty"
  BY <1>1 DEF RdgetResponse, Answer, get_local_file_path
<1>3. AddfileResponse(request).text # "garbage"
      /\ AddfileResponse(request).request = request
  BY DEF AddfileResponse, Answer
<1> QED BY <1>2, <1>3 DEF BuiltResponse, Explained

\* A step that puts into a connection and into a client's end what is explained.
LEMMA UrisKept ==
    ASSUME UrisInv, ArraysOK, Grows(ol, ol'),
           NEW fd \in 0 .. MAX_CONNECTIONS - 1, NEW c \in Client, NEW conn, NEW q,
           connections' = connections \/ connections' = [connections EXCEPT ![fd] = conn],
           peer' = peer \/ peer' = [peer EXCEPT ![c] = q],
           Explained(conn.response, ol'), Explained(q.reply, ol')
    PROVE  UrisInv'
<1>1. ASSUME NEW g \in 0 .. MAX_CONNECTIONS - 1
      PROVE  Explained(connections'[g].response, ol')
  <2>1. connections'[g] = connections[g] \/ connections'[g] = conn
    BY DEF ArraysOK
  <2>2. Explained(connections[g].response, ol')
    BY StaysExplained DEF UrisInv
  <2> QED BY <2>1, <2>2
<1>2. ASSUME NEW d \in Client
      PROVE  Explained(peer'[d].reply, ol')
  <2>1. peer'[d] = peer[d] \/ peer'[d] = q
    BY DEF ArraysOK
  <2>2. Explained(peer[d].reply, ol')
    BY StaysExplained DEF UrisInv
  <2> QED BY <2>1, <2>2
<1> QED BY <1>1, <1>2 DEF UrisInv

(***************************************************************************)
(* Exits.  An answer to write is never taken for none, below the limit of  *)
(* connections every descriptor that is marked for writing has one, and    *)
(* the loop accepts before it closes a descriptor that stays selected on.  *)
(***************************************************************************)

ResetsCounted == (\E c \in Client : peer[c].phase \in {"reset", "error"}) => resets > 0

AcceptsFirst ==
    tcp_sock \in temp_rfds => rfds \cup wfds \subseteq Open \cup {udp_sock, tcp_sock}

Ready ==
    nfds < MAX_CONNECTIONS - 1 =>
        \A fd \in wfds : /\ connections[fd].response_index
                         /\ fd \in Open => connections[fd].response # NULL

Indexed ==
    \A fd \in 0 .. MAX_CONNECTIONS - 1 :
        connections[fd].response # NULL => connections[fd].response_index

ExitInv == ResetsCounted /\ AcceptsFirst /\ Ready /\ Indexed /\ ExitsOnlyAfterReset

(***************************************************************************)
(* Answers.  Whoever is at the other end of a descriptor, an answer kept   *)
(* there fits that client's request, and so does a reply that was sent; an *)
(* answer to no request is kept for a connection that is at its end.       *)
(***************************************************************************)

Fits(answer, p) ==
    /\ answer \in Answers
    /\ answer.request = p.request
    /\ answer.request = NULL => p.phase = "closed"

AnswersInv ==
    /\ \A fd \in Open : connections[fd].response # NULL =>
                            Fits(connections[fd].response, peer[socket[fd]])
    /\ \A c \in Client :
           /\ peer[c].reply \notin {NULL, Zeros} =>
                  Fits(peer[c].reply, peer[c]) /\ peer[c].request # NULL
           /\ peer[c].reply = Zeros => nfds >= MAX_CONNECTIONS - 1

EngineInv == EngineTypeInv /\ FilesInv /\ UrisInv /\ ExitInv /\ AnswersInv

\* What becomes of the end p of the client that a handler served: q.  A reply
\* it has got since fits its request; zeros come from a descriptor without an
\* answer.
Follows(fd, p, q) ==
    /\ q \in Peers /\ q.request = p.request
    /\ q.phase = p.phase \/ q.phase = "closed"
    /\ \/ q.reply = p.reply
       \/ Fits(q.reply, q) /\ q.request # NULL
       \/ q.reply = Zeros /\ fd \in wfds /\ connections[fd].response = NULL

\* The handler of descriptor fd exits, closes it or keeps an answer for later.
Handled(fd) ==
    LET p == peer[socket[fd]]
    IN  \/ /\ ExitsAt(fd)
           /\ p.phase = "error" \/ (fd \in wfds /\ ~connections[fd].response_index)
        \/ \E conn \in Conns, q \in Peers :
               /\ ClosesAt(fd, conn, q)
               /\ Follows(fd, p, q)
               /\ connections[fd].response_index => conn.response_index
        \/ \E response \in Answers, q \in Peers :
               /\ KeepsAt(fd, response, q)
               /\ Follows(fd, p, q)
               /\ Fits(response, q)

LEMMA WrittenFollows ==
    ASSUME NEW fd, NEW p, NEW q \in Peers, Follows(fd, p, q),
           NEW conn \in Conns,
           conn.response # NULL => Fits(conn.response, q),
           conn.response = NULL => fd \in wfds /\ connections[fd].response = NULL
    PROVE  Written(conn, q) \in Peers /\ Follows(fd, p, Written(conn, q))
<1>1. CASE Written(conn, q) = q
  BY <1>1
<1>2. CASE q.phase = "open" /\ conn.response # NULL
           /\ Written(conn, q) = [q EXCEPT !.reply = conn.response]
  <2>1. [q EXCEPT !.reply = conn.response] \in Peers
    BY DEF Peers, Conns
  <2>2. Fits(conn.response, [q EXCEPT !.reply = conn.response]) /\ q.request # NULL
    BY <1>2 DEF Fits, Peers
  <2> QED BY <1>2, <2>1, <2>2 DEF Follows, Peers
<1>3. CASE conn.response = NULL /\ Written(conn, q) = [q EXCEPT !.reply = Zeros]
  <2>1. [q EXCEPT !.reply = Zeros] \in Peers
    BY DEF Peers, Replies
  <2> QED BY <1>3, <2>1 DEF Follows, Peers
<1> QED BY <1>1, <1>2, <1>3 DEF Written

LEMMA HandledResponse ==
    ASSUME EngineInv, NEW fd \in Open, flask_response_handler(fd)
    PROVE  Handled(fd)
<1> DEFINE p == peer[socket[fd]]
           conn == connections[fd]
<1>1. BoundInv /\ ArraysOK /\ SocketsOK /\ SetsOK
  BY TypeParts DEF EngineInv
<1>2. fd \in 0 .. MAX_CONNECTIONS - 1 /\ socket[fd] \in Client
  BY <1>1, OpenFd
<1>3. p \in Peers /\ conn \in Conns
  BY <1>1, <1>2 DEF ArraysOK
<1>4. fd \in wfds
  BY <1>1 DEF flask_response_handler, Turn, SetsOK, WritingInBounds
<1>5. conn.response # NULL => Fits(conn.response, p)
  BY DEF EngineInv, AnswersInv
<1>6. \/ ExitsAt(fd) /\ (p.phase = "error" \/ ~conn.response_index)
      \/ ClosesAt(fd, conn, Written(conn, p))
  BY RespondCases DEF flask_response_handler
<1>7. Written(conn, p) \in Peers /\ Follows(fd, p, Written(conn, p))
  <2>1. Follows(fd, p, p)
    BY <1>3 DEF Follows
  <2> HIDE DEF p
  <2> QED BY <1>3, <1>4, <1>5, <2>1, WrittenFollows
<1> QED BY <1>3, <1>4, <1>6, <1>7 DEF Handled

LEMMA HandledRequest ==
    ASSUME EngineInv, NEW fd \in Open, flask_request_handler(fd)
    PROVE  Handled(fd)
<1> DEFINE p == peer[socket[fd]]
<1>1. BoundInv /\ ArraysOK /\ TablesOK /\ SocketsOK
  BY TypeParts DEF EngineInv
<1>2. fd \in 0 .. MAX_CONNECTIONS - 1 /\ socket[fd] \in Client
  BY <1>1, OpenFd
<1>3. p \in Peers /\ (p.unread => p.request # NULL) /\ connections[fd] \in Conns
  BY <1>1, <1>2 DEF ArraysOK, RequestsAreSent
<1>4. \/ /\ p.unread
         /\ AddFile(p.request)
         /\ Outcome(fd, BuiltResponse(p.request), [p EXCEPT !.unread = FALSE])
      \/ /\ p.phase = "error"
         /\ UNCHANGED tables
         /\ Outcome(fd, Answer(p.request, "ERROR", NULL), [p EXCEPT !.phase = "closed"])
      \/ UNCHANGED tables /\ ClosesAt(fd, connections[fd], p)
  BY <1>1, RequestCases
<1>5. ASSUME NEW response, NEW q \in Peers, Fits(response, q), Follows(fd, p, q),
             q.phase = "error" => p.phase = "error",
             Outcome(fd, response, q)
      PROVE  Handled(fd)
  <2> DEFINE conn == Connection(response, TRUE)
  <2>1. response \in Answers /\ response # NULL
    BY <1>5, NullAssumption DEF Fits
  <2>2. conn \in Conns /\ conn.response = response /\ conn.response_index
    BY <2>1 DEF Connection, Conns, Replies
  <2>3. CASE q.phase = "error" /\ ExitsAt(fd)
    BY <1>5, <2>3 DEF Handled
  <2>4. CASE ClosesAt(fd, conn, Written(conn, q))
    <3> HIDE DEF conn, p
    <3>1. Written(conn, q) \in Peers /\ Follows(fd, p, Written(conn, q))
      BY <1>5, <2>1, <2>2, WrittenFollows
    <3> QED BY <2>2, <2>4, <3>1 DEF Handled, p
  <2>5. CASE KeepsAt(fd, response, q)
    BY <1>5, <2>1, <2>5 DEF Handled
  <2> QED BY <1>5, <2>3, <2>4, <2>5 DEF Outcome
<1>6. CASE /\ p.unread
           /\ Outcome(fd, BuiltResponse(p.request), [p EXCEPT !.unread = FALSE])
  <2> DEFINE q == [p EXCEPT !.unread = FALSE]
  <2>1. /\ q \in Peers /\ q.request = p.request /\ q.phase = p.phase
        /\ q.reply = p.reply
    BY <1>3 DEF Peers
  <2>2. p.request \in Request /\ BuiltResponse(p.request) \in Answers
    BY <1>1, <1>3, <1>6, BuiltTypes
  <2>3. BuiltResponse(p.request).request = p.request
    BY <1>1, <2>2, BuiltIsOwn DEF EngineInv
  <2>4. Fits(BuiltResponse(p.request), q)
    BY <2>1, <2>2, <2>3, NullAssumption DEF Fits
  <2>5. Follows(fd, p, q)
    BY <2>1 DEF Follows
  <2> HIDE DEF p
  <2>6. Outcome(fd, BuiltResponse(p.request), q)
    BY <1>6
  <2> HIDE DEF q
  <2> QED BY <1>5, <2>1, <2>4, <2>5, <2>6
<1>7. CASE Outcome(fd, Answer(p.request, "ERROR", NULL), [p EXCEPT !.phase = "closed"])
  <2> DEFINE q == [p EXCEPT !.phase = "closed"]
  <2>1. q \in Peers /\ q.request = p.request /\ q.phase = "closed" /\ q.reply = p.reply
    BY <1>3 DEF Peers
  <2>2. Answer(p.request, "ERROR", NULL) \in Answers
    BY <1>1, <1>3, BuiltTypes
  <2>3. Fits(Answer(p.request, "ERROR", NULL), q)
    BY <2>1, <2>2 DEF Fits, Answer
  <2>4. Follows(fd, p, q)
    BY <2>1 DEF Follows
  <2>5. Outcome(fd, Answer(p.request, "ERROR", NULL), q)
    BY <1>7
  <2> HIDE DEF p, q
  <2> QED BY <1>5, <2>1, <2>3, <2>4, <2>5
<1>8. CASE ClosesAt(fd, connections[fd], p)
  BY <1>3, <1>8 DEF Handled, Follows
<1> QED BY <1>4, <1>6, <1>7, <1>8

(***************************************************************************)
(* What a handler keeps.                                                   *)
(***************************************************************************)

\* A client's end follows from what it was, or is what it was.
LEMMA ResetsKept ==
    ASSUME ResetsCounted, peer \in [Client -> Peers], resets \in Nat,
           resets' = resets,
           peer' = peer \/ \E c \in Client, q \in Peers :
                               /\ peer' = [peer EXCEPT ![c] = q]
                               /\ q.phase = peer[c].phase \/ q.phase \in {"idle", "open", "closed"}
    PROVE  ResetsCounted'
BY DEF ResetsCounted

LEMMA HandledExit ==
    ASSUME EngineInv, NEW fd \in Open, Turn(fd), Handled(fd),
           UNCHANGED <<nfds, resets>>
    PROVE  ExitInv'
<1> DEFINE p == peer[socket[fd]]
<1>1. BoundInv /\ ArraysOK /\ SocketsOK /\ CountersOK /\ SetsOK
      /\ ResetsCounted /\ AcceptsFirst /\ Ready /\ Indexed /\ ExitsOnlyAfterReset
      /\ running
  BY TypeParts DEF EngineInv, ExitInv, Turn
<1>2. fd \in 0 .. MAX_CONNECTIONS - 1 /\ fd >= FIRST_FD /\ socket[fd] \in Client
  BY <1>1, OpenFd
<1>3. AcceptsFirst'
  BY <1>1, <1>2, TurnSets DEF AcceptsFirst
<1>4. p \in Peers /\ peer \in [Client -> Peers] /\ resets \in Nat
      /\ connections \in [0 .. MAX_CONNECTIONS - 1 -> Conns]
      /\ wfds \subseteq 0 .. MAX_CONNECTIONS - 1
  BY <1>1, <1>2, ParameterAssumption
     DEF ArraysOK, CountersOK, SetsOK, WritingInBounds, FIRST_FD
<1>5. p.phase \in {"error", "reset"} => resets > 0
  BY <1>1, <1>2 DEF ResetsCounted
<1> HIDE DEF p
<1>6. CASE ExitsAt(fd) /\ (p.phase = "error" \/ (fd \in wfds /\ ~connections[fd].response_index))
  <2>1. ResetsCounted'
    BY <1>1, <1>6 DEF ExitsAt, ResetsCounted
  <2>2. Ready'
    BY <1>1, <1>6 DEF ExitsAt, Ready, Close, Open
  <2>3. Indexed'
    BY <1>1, <1>6 DEF ExitsAt, Indexed
  <2>4. resets > 0 \/ (nfds >= MAX_CONNECTIONS - 1 /\ Refused(fd))
    <3>1. CASE p.phase = "error"
      BY <1>4, <1>5, <3>1
    <3>2. CASE fd \in wfds /\ ~connections[fd].response_index
      <4>1. nfds >= MAX_CONNECTIONS - 1
        BY <1>1, <3>2, ParameterAssumption DEF Ready, BoundInv
      <4>2. connections[fd].response = NULL
        BY <1>1, <1>2, <3>2 DEF Indexed
      <4> QED BY <3>2, <4>1, <4>2 DEF Refused
    <3> QED BY <1>6, <3>1, <3>2
  <2>5. ExitsOnlyAfterReset'
    BY <1>2, <1>4, <1>6, <2>4 DEF ExitsOnlyAfterReset, ExitsAt, Refused
  <2> QED BY <1>3, <2>1, <2>2, <2>3, <2>5 DEF ExitInv
<1>7. ASSUME NEW conn \in Conns, NEW q \in Peers, ClosesAt(fd, conn, q), Follows(fd, p, q),
             connections[fd].response_index => conn.response_index
      PROVE  ExitInv'
  <2>1. ResetsCounted'
    BY <1>1, <1>2, <1>4, <1>7, ResetsKept DEF ClosesAt, Follows, p
  <2>2. Open' = Open \ {fd}
    BY <1>7 DEF ClosesAt, Close, Open
  <2>3. wfds' \subseteq wfds
    BY <1>7 DEF ClosesAt, Forget
  <2>4. \A g \in wfds : connections'[g].response_index = connections[g].response_index
                        \/ (g = fd /\ connections'[g].response_index = conn.response_index)
    BY <1>2, <1>4, <1>7, CutType DEF ClosesAt
  <2>5. \A g \in wfds \ {fd} : connections'[g] = connections[g]
    BY <1>2, <1>4, <1>7 DEF ClosesAt
  <2>6. Ready'
    BY <1>1, <1>7, <2>2, <2>3, <2>4, <2>5 DEF Ready
  <2>7. Indexed'
    BY <1>1, <1>4, <1>7, CutType DEF ClosesAt, Indexed
  <2>8. ExitsOnlyAfterReset'
    <3>1. CASE Forget(fd)
      BY <1>1, <1>7, <2>2, <3>1 DEF ExitsOnlyAfterReset, Forget, ClosesAt
    <3>2. CASE q.phase = "reset"
      BY <1>4, <1>5, <1>7, <3>2 DEF ExitsOnlyAfterReset, Follows
    <3> QED BY <1>7, <3>1, <3>2 DEF ClosesAt
  <2> QED BY <1>3, <2>1, <2>6, <2>7, <2>8 DEF ExitInv
<1>8. ASSUME NEW response \in Answers, NEW q \in Peers, KeepsAt(fd, response, q),
             Follows(fd, p, q)
      PROVE  ExitInv'
  <2>1. ResetsCounted'
    BY <1>1, <1>2, <1>4, <1>8, ResetsKept DEF KeepsAt, Follows, p
  <2>2. connections'[fd].response_index /\ connections'[fd].response # NULL
    BY <1>2, <1>4, <1>8, NullAssumption DEF KeepsAt, Connection
  <2>3. \A g \in wfds \ {fd} : connections'[g] = connections[g]
    BY <1>2, <1>4, <1>8 DEF KeepsAt
  <2>4. Open' = Open /\ wfds' = wfds \cup {fd} /\ rfds' = rfds /\ running' = running
    BY <1>8 DEF KeepsAt, Open
  <2>5. Ready'
    BY <1>1, <2>2, <2>3, <2>4 DEF Ready
  <2>6. Indexed'
    BY <1>1, <1>4, <1>8 DEF KeepsAt, Connection, Indexed
  <2>7. ExitsOnlyAfterReset'
    BY <1>1, <2>4 DEF ExitsOnlyAfterReset
  <2> QED BY <1>3, <2>1, <2>5, <2>6, <2>7 DEF ExitInv
<1> QED BY <1>6, <1>7, <1>8 DEF Handled, p

(***************************************************************************)
(* URIs: what the handlers write.                                          *)
(***************************************************************************)

LEMMA WrittenExplained ==
    ASSUME NEW l, NEW conn, NEW q \in Peers, Explained(conn.response, l),
           Explained(q.reply, l)
    PROVE  Explained(Written(conn, q).reply, l)
BY NoneExplained DEF Written, Peers

LEMMA OutcomeUris ==
    ASSUME EngineInv, Grows(ol, ol'), NEW fd \in Open,
           NEW response, NEW q \in Peers,
           Explained(response, ol'), q.reply = peer[socket[fd]].reply,
           Outcome(fd, response, q)
    PROVE  UrisInv'
<1> DEFINE c == socket[fd]
           conn == Connection(response, TRUE)
<1>1. BoundInv /\ ArraysOK /\ SocketsOK /\ UrisInv
  BY TypeParts DEF EngineInv
<1>2. fd \in 0 .. MAX_CONNECTIONS - 1 /\ c \in Client
  BY <1>1, OpenFd
<1>3. conn.response = response /\ init_connection(conn).response = NULL
  BY DEF Connection, init_connection
<1>4. Explained(q.reply, ol')
  BY <1>1, <1>2, StaysExplained DEF UrisInv
<1> HIDE DEF c, conn
<1>5. CASE ExitsAt(fd)
  <2>1. connections' = connections /\ peer' = peer
    BY <1>5 DEF ExitsAt
  <2> QED BY <1>1, <1>2, <1>3, <1>4, <2>1, UrisKept
<1>6. CASE ClosesAt(fd, conn, Written(conn, q))
  <2>1. connections' = [connections EXCEPT ![fd] = init_connection(conn)]
        /\ peer' = [peer EXCEPT ![c] = Written(conn, q)]
    BY <1>6 DEF ClosesAt, c
  <2>2. Explained(Written(conn, q).reply, ol')
    BY <1>3, <1>4, WrittenExplained
  <2>3. Explained(init_connection(conn).response, ol')
    BY <1>3, NoneExplained
  <2> QED BY <1>1, <1>2, <2>1, <2>2, <2>3, UrisKept
<1>7. CASE KeepsAt(fd, response, q)
  <2>1. connections' = [connections EXCEPT ![fd] = conn]
        /\ peer' = [peer EXCEPT ![c] = q]
    BY <1>7 DEF KeepsAt, c, conn
  <2> QED BY <1>1, <1>2, <1>3, <1>4, <2>1, UrisKept
<1> QED BY <1>5, <1>6, <1>7 DEF Outcome, conn

LEMMA RequestUris ==
    ASSUME EngineInv, NEW fd \in Open, flask_request_handler(fd)
    PROVE  UrisInv'
<1> DEFINE p == peer[socket[fd]]
<1>1. BoundInv /\ ArraysOK /\ TablesOK /\ SocketsOK /\ FilesInv /\ UrisInv
  BY TypeParts DEF EngineInv
<1>2. fd \in 0 .. MAX_CONNECTIONS - 1 /\ socket[fd] \in Client
  BY <1>1, OpenFd
<1>3. p \in Peers /\ (p.unread => p.request # NULL) /\ connections[fd] \in Conns
  BY <1>1, <1>2 DEF ArraysOK, RequestsAreSent
<1>4. \/ /\ p.unread
         /\ AddFile(p.request)
         /\ Outcome(fd, BuiltResponse(p.request), [p EXCEPT !.unread = FALSE])
      \/ /\ p.phase = "error"
         /\ UNCHANGED tables
         /\ Outcome(fd, Answer(p.request, "ERROR", NULL), [p EXCEPT !.phase = "closed"])
      \/ UNCHANGED tables /\ ClosesAt(fd, connections[fd], p)
  BY <1>1, RequestCases
<1>5. CASE /\ p.unread
           /\ AddFile(p.request)
           /\ Outcome(fd, BuiltResponse(p.request), [p EXCEPT !.unread = FALSE])
  <2> DEFINE q == [p EXCEPT !.unread = FALSE]
  <2>1. q \in Peers /\ q.reply = p.reply
    BY <1>3 DEF Peers
  <2>2. Grows(ol, ol')
    BY <1>5, LocalGrows
  <2>3. p.request \in Request
    BY <1>1, <1>3, <1>5, BuiltTypes
  <2>4. Explained(BuiltResponse(p.request), ol)
    BY <1>1, <2>3, BuiltIsOwn
  <2>5. Explained(BuiltResponse(p.request), ol')
    BY <2>2, <2>4, StaysExplained
  <2>6. Outcome(fd, BuiltResponse(p.request), q)
    BY <1>5
  <2>7. q.reply = peer[socket[fd]].reply
    BY <2>1
  <2> HIDE DEF p, q
  <2> QED BY <2>1, <2>2, <2>5, <2>6, <2>7, OutcomeUris
<1>6. CASE /\ UNCHANGED tables
           /\ Outcome(fd, Answer(p.request, "ERROR", NULL), [p EXCEPT !.phase = "closed"])
  <2> DEFINE q == [p EXCEPT !.phase = "closed"]
  <2>1. q \in Peers /\ q.reply = p.reply
    BY <1>3 DEF Peers
  <2>2. Grows(ol, ol')
    BY <1>6, LocalGrows
  <2>3. Explained(Answer(p.request, "ERROR", NULL), ol')
    BY DEF Answer, Explained
  <2>4. Outcome(fd, Answer(p.request, "ERROR", NULL), q)
    BY <1>6
  <2>5. q.reply = peer[socket[fd]].reply
    BY <2>1
  <2> HIDE DEF p, q
  <2> QED BY <2>1, <2>2, <2>3, <2>4, <2>5, OutcomeUris
<1>7. CASE UNCHANGED tables /\ ClosesAt(fd, connections[fd], p)
  <2>1. Grows(ol, ol')
    BY <1>7, LocalGrows
  <2>2. /\ connections' = [connections EXCEPT ![fd] = init_connection(connections[fd])]
        /\ peer' = [peer EXCEPT ![socket[fd]] = p]
    BY <1>7 DEF ClosesAt
  <2>3. Explained(init_connection(connections[fd]).response, ol')
    BY <1>3, CutType, NoneExplained
  <2>4. Explained(p.reply, ol')
    BY <1>1, <1>2, <2>1, StaysExplained DEF UrisInv
  <2> QED BY <1>1, <1>2, <2>1, <2>2, <2>3, <2>4, UrisKept
<1> QED BY <1>4, <1>5, <1>6, <1>7

LEMMA ResponseUris ==
    ASSUME EngineInv, NEW fd \in Open, flask_response_handler(fd)
    PROVE  UrisInv'
<1> DEFINE p == peer[socket[fd]]
           conn == connections[fd]
<1>1. BoundInv /\ ArraysOK /\ SocketsOK /\ UrisInv
  BY TypeParts DEF EngineInv
<1>2. fd \in 0 .. MAX_CONNECTIONS - 1 /\ socket[fd] \in Client
  BY <1>1, OpenFd
<1>3. p \in Peers /\ conn \in Conns
  BY <1>1, <1>2 DEF ArraysOK
<1>4. Grows(ol, ol')
  BY LocalGrows DEF flask_response_handler
<1>5. Explained(conn.response, ol') /\ Explained(p.reply, ol')
  BY <1>1, <1>2, <1>4, StaysExplained DEF UrisInv
<1>6. ExitsAt(fd) \/ ClosesAt(fd, conn, Written(conn, p))
  BY RespondCases DEF flask_response_handler
<1>7. CASE ExitsAt(fd)
  <2>1. connections' = connections /\ peer' = peer
    BY <1>7 DEF ExitsAt
  <2> QED BY <1>1, <1>2, <1>4, <1>5, <2>1, UrisKept
<1>8. CASE ClosesAt(fd, conn, Written(conn, p))
  <2>1. /\ connections' = [connections EXCEPT ![fd] = init_connection(conn)]
        /\ peer' = [peer EXCEPT ![socket[fd]] = Written(conn, p)]
    BY <1>8 DEF ClosesAt
  <2> HIDE DEF p, conn
  <2>2. Explained(Written(conn, p).reply, ol')
    BY <1>3, <1>5, WrittenExplained
  <2>3. Explained(init_connection(conn).response, ol')
    BY <1>3, CutType, NoneExplained
  <2> QED BY <1>1, <1>2, <1>4, <2>1, <2>2, <2>3, UrisKept
<1> QED BY <1>6, <1>7, <1>8

LEMMA HandledAnswers ==
    ASSUME EngineInv, NEW fd \in Open, Turn(fd), Handled(fd), nfds' = nfds
    PROVE  AnswersInv'
<1> DEFINE p == peer[socket[fd]]
           c == socket[fd]
<1>1. BoundInv /\ ArraysOK /\ SocketsOK /\ AnswersInv /\ Ready
  BY TypeParts DEF EngineInv, ExitInv
<1>2. fd \in 0 .. MAX_CONNECTIONS - 1 /\ c \in Client
  BY <1>1, OpenFd
<1>3. /\ peer \in [Client -> Peers] /\ p \in Peers /\ Open \subseteq 0 .. MAX_CONNECTIONS - 1
      /\ connections \in [0 .. MAX_CONNECTIONS - 1 -> Conns]
      /\ socket \in [Open -> Client]
  BY <1>1, <1>2, OpenFd DEF ArraysOK, SocketsOK
<1>4. CASE ExitsAt(fd)
  BY <1>1, <1>4 DEF AnswersInv, ExitsAt, Close, Open
<1>5. ASSUME NEW q \in Peers, Follows(fd, p, q), peer' = [peer EXCEPT ![c] = q]
      PROVE  /\ \A d \in Client :
                 /\ peer'[d].reply \notin {NULL, Zeros} =>
                        Fits(peer'[d].reply, peer'[d]) /\ peer'[d].request # NULL
                 /\ peer'[d].reply = Zeros => nfds' >= MAX_CONNECTIONS - 1
             /\ \A answer : \A d \in Client : Fits(answer, peer[d]) => Fits(answer, peer'[d])
  <2>1. \A answer : Fits(answer, p) => Fits(answer, q)
    BY <1>5 DEF Follows, Fits
  <2>2. \A answer : \A d \in Client : Fits(answer, peer[d]) => Fits(answer, peer'[d])
    BY <1>2, <1>3, <1>5, <2>1
  <2>3. q.reply \notin {NULL, Zeros} => Fits(q.reply, q) /\ q.request # NULL
    <3>1. p.reply \notin {NULL, Zeros} => Fits(p.reply, p) /\ p.request # NULL
      BY <1>1, <1>2 DEF AnswersInv
    <3> QED BY <1>5, <2>1, <3>1 DEF Follows
  <2>4. q.reply = Zeros => nfds' >= MAX_CONNECTIONS - 1
    <3>1. p.reply = Zeros => nfds >= MAX_CONNECTIONS - 1
      BY <1>1, <1>2 DEF AnswersInv
    <3>2. fd \in wfds /\ connections[fd].response = NULL => nfds >= MAX_CONNECTIONS - 1
      BY <1>1, ParameterAssumption DEF Ready, BoundInv
    <3>3. ~(Fits(Zeros, q) /\ q.request # NULL)
      BY DEF Fits, Zeros, Answer
    <3> QED BY <1>5, <3>1, <3>2, <3>3 DEF Follows
  <2> HIDE DEF p, c
  <2>5. \A d \in Client : peer'[d] = IF d = c THEN q ELSE peer[d]
    BY <1>2, <1>3, <1>5
  <2>6. ASSUME NEW d \in Client
        PROVE  /\ peer'[d].reply \notin {NULL, Zeros} =>
                      Fits(peer'[d].reply, peer'[d]) /\ peer'[d].request # NULL
               /\ peer'[d].reply = Zeros => nfds' >= MAX_CONNECTIONS - 1
    <3>1. CASE d = c
      BY <2>3, <2>4, <2>5, <3>1
    <3>2. CASE d # c
      <4>1. peer'[d] = peer[d]
        BY <2>5, <3>2
      <4> QED BY <1>1, <4>1 DEF AnswersInv
    <3> QED BY <3>1, <3>2
  <2> QED BY <2>2, <2>6
<1>6. ASSUME NEW conn \in Conns, NEW q \in Peers, ClosesAt(fd, conn, q), Follows(fd, p, q)
      PROVE  AnswersInv'
  <2>1. peer' = [peer EXCEPT ![c] = q]
    BY <1>6 DEF ClosesAt
  <2>2. Open' = Open \ {fd} /\ \A g \in Open' : socket'[g] = socket[g]
    BY <1>6 DEF ClosesAt, Close, Open
  <2>3. \A g \in Open' : connections'[g] = connections[g]
    BY <1>3, <1>6, <2>2 DEF ClosesAt
  <2>4. \A g \in Open' : socket[g] \in Client
    BY <1>3, <2>2
  <2> HIDE DEF p, c
  <2>5. \A g \in Open' : connections'[g].response # NULL =>
                            Fits(connections'[g].response, peer'[socket'[g]])
    BY <1>1, <1>5, <1>6, <2>1, <2>2, <2>3, <2>4 DEF AnswersInv
  <2> QED BY <1>5, <1>6, <2>1, <2>5 DEF AnswersInv
<1>7. ASSUME NEW response \in Answers, NEW q \in Peers, KeepsAt(fd, response, q),
             Follows(fd, p, q), Fits(response, q)
      PROVE  AnswersInv'
  <2>1. peer' = [peer EXCEPT ![c] = q] /\ socket' = socket /\ Open' = Open
    BY <1>7 DEF KeepsAt, Open
  <2>2. \A g \in Open : connections'[g] = IF g = fd THEN Connection(response, TRUE)
                                          ELSE connections[g]
    BY <1>2, <1>3, <1>7 DEF KeepsAt
  <2>3. peer'[socket[fd]] = q
    BY <1>2, <1>3, <2>1
  <2>4. \A g \in Open : socket[g] \in Client
    BY <1>3
  <2> HIDE DEF p, c
  <2>5. ASSUME NEW g \in Open', connections'[g].response # NULL
        PROVE  Fits(connections'[g].response, peer'[socket'[g]])
    <3>1. CASE g = fd
      BY <1>7, <2>1, <2>2, <2>3, <3>1 DEF Connection
    <3>2. CASE g # fd
      <4>1. connections'[g] = connections[g] /\ g \in Open
        BY <2>1, <2>2, <3>2
      <4>2. Fits(connections[g].response, peer[socket[g]])
        BY <1>1, <2>5, <4>1 DEF AnswersInv
      <4> QED BY <1>5, <1>7, <2>1, <2>4, <4>1, <4>2
    <3> QED BY <3>1, <3>2
  <2> QED BY <1>5, <1>7, <2>1, <2>5 DEF AnswersInv
<1> QED BY <1>4, <1>6, <1>7 DEF Handled

(***************************************************************************)
(* What select, the accepting of a client and the clients keep.            *)
(***************************************************************************)

LEMMA AcceptKeeps ==
    ASSUME EngineInv, new_client_handler
    PROVE  ExitInv' /\ AnswersInv' /\ UrisInv'
<1>1. BoundInv /\ ArraysOK /\ SocketsOK /\ SetsOK /\ AnswersInv /\ UrisInv
      /\ ResetsCounted /\ AcceptsFirst /\ Ready /\ Indexed /\ ExitsOnlyAfterReset
  BY TypeParts DEF EngineInv, ExitInv
<1>2. /\ UNCHANGED <<running, peer, resets, ol>> /\ running
      /\ tcp_sock \in temp_rfds /\ tcp_sock \notin temp_rfds'
  BY <1>1
     DEF new_client_handler, Turn, SetsOK, WritingInBounds, tcp_sock, FIRST_FD, tables
<1>3. ResetsCounted' /\ AcceptsFirst'
  BY <1>1, <1>2 DEF ResetsCounted, AcceptsFirst
<1>4. rfds \cup wfds \subseteq Open \cup {udp_sock, tcp_sock}
  BY <1>1, <1>2 DEF AcceptsFirst
<1>5. CASE Accepting /\ AcceptClient
  <2>1. FreeFd \in FIRST_FD .. nfds /\ nfds \in Nat /\ nfds <= MAX_CONNECTIONS - 1
        /\ MAX_CONNECTIONS \in Nat
    BY <1>1, <1>5, FreeFdBound, ParameterAssumption DEF BoundInv, Accepting
  <2>2. FreeFd \in 0 .. MAX_CONNECTIONS - 1
    BY <2>1 DEF FIRST_FD
  <2>3. FreeFd \notin Open
    BY <1>1, FreeFdBound
  <2>4. FreeFd \notin wfds
    BY <1>4, <2>1, <2>3 DEF FIRST_FD, udp_sock, tcp_sock
  <2>5. /\ Open' = Open \cup {FreeFd} /\ nfds' = nfds + 1
        /\ socket' = [fd \in Open' |-> IF fd = FreeFd THEN Head(queue) ELSE socket[fd]]
        /\ connections' = [connections EXCEPT ![FreeFd] = init_connection(@)]
        /\ rfds' = rfds \cup {FreeFd}
        /\ wfds' = IF nfds + 1 = MAX_CONNECTIONS - 1 THEN wfds \cup {FreeFd} ELSE wfds
    BY <1>5 DEF AcceptClient, Refusing, Counted, Open
  <2> HIDE DEF FreeFd
  <2>6. \A fd \in Open : connections'[fd] = connections[fd] /\ socket'[fd] = socket[fd]
    BY <1>1, <2>2, <2>3, <2>5 DEF ArraysOK
  <2>7. connections'[FreeFd].response = NULL
    BY <1>1, <2>2, <2>5, CutType DEF ArraysOK
  <2>8. \A fd \in wfds : connections'[fd] = connections[fd]
    BY <1>1, <2>2, <2>4, <2>5 DEF ArraysOK
  <2>9. Ready'
    BY <1>1, <2>1, <2>4, <2>5, <2>8 DEF Ready
  <2>10. ExitsOnlyAfterReset'
    BY <1>1, <1>2, <1>4, <2>1, <2>5 DEF ExitsOnlyAfterReset
  <2>11. AnswersInv'
    <3>1. \A fd \in Open' : connections'[fd].response # NULL =>
                                Fits(connections'[fd].response, peer'[socket'[fd]])
      BY <1>1, <1>2, <2>5, <2>6, <2>7 DEF AnswersInv
    <3>2. nfds >= MAX_CONNECTIONS - 1 => nfds' >= MAX_CONNECTIONS - 1
      BY <2>1, <2>5
    <3> QED BY <1>1, <1>2, <3>1, <3>2 DEF AnswersInv
  <2>12. Indexed'
    BY <1>1, <2>2, <2>5, CutType DEF ArraysOK, Indexed
  <2>13. UrisInv'
    BY <1>1, <1>2, <2>2, <2>5, CutType, NoneExplained DEF ArraysOK, UrisInv
  <2> QED BY <1>3, <2>9, <2>10, <2>11, <2>12, <2>13 DEF ExitInv
<1>6. CASE AcceptFails \/ LeavesWaiting
  <2>1. UNCHANGED <<socket, nfds, rfds, wfds, connections>>
    BY <1>6 DEF AcceptFails, LeavesWaiting
  <2> QED BY <1>1, <1>2, <1>3, <2>1
          DEF ExitInv, Ready, Indexed, ExitsOnlyAfterReset, AnswersInv, UrisInv, Open
<1> QED BY <1>5, <1>6 DEF new_client_handler

LEMMA SelectKeeps ==
    ASSUME EngineInv, SelectFails \/ SelectReturns \/ Timeout \/ lsa_handler
    PROVE  ExitInv' /\ AnswersInv' /\ UrisInv'
<1>1. AnswersInv /\ UrisInv /\ ResetsCounted /\ AcceptsFirst /\ Ready /\ Indexed
      /\ ExitsOnlyAfterReset
  BY DEF EngineInv, ExitInv
<1>2. UNCHANGED <<nfds, rfds, wfds, connections, socket, peer, resets, ol>>
  BY DEF SelectFails, SelectReturns, Timeout, lsa_handler, engine, network, tables
<1>3. AnswersInv' /\ UrisInv' /\ ResetsCounted' /\ Ready' /\ Indexed'
  BY <1>1, <1>2 DEF AnswersInv, UrisInv, ResetsCounted, Ready, Indexed, Open
<1>4. AcceptsFirst'
  BY <1>1, <1>2
     DEF SelectFails, SelectReturns, Timeout, lsa_handler, engine, Turn, AcceptsFirst, BadFd,
         Open
<1>5. ExitsOnlyAfterReset'
  BY <1>1, <1>2
     DEF SelectFails, SelectReturns, Timeout, lsa_handler, Turn, AtSelect, BadFd,
         ExitsOnlyAfterReset, Open
<1> QED BY <1>3, <1>4, <1>5 DEF ExitInv

\* A client's step leaves what it was sent as it is, or begins anew without a
\* descriptor.
LEMMA EnvironmentKeeps ==
    ASSUME EngineInv, Environment
    PROVE  ExitInv' /\ AnswersInv' /\ UrisInv'
<1>1. BoundInv /\ ArraysOK /\ SocketsOK /\ CountersOK /\ AnswersInv /\ UrisInv
      /\ ResetsCounted /\ AcceptsFirst /\ Ready /\ Indexed /\ ExitsOnlyAfterReset
  BY TypeParts DEF EngineInv, ExitInv
<1>2. UNCHANGED <<running, engine, socket, tables, iterations>>
  BY DEF Environment, Connect, Send, Hangup, Finish, DatagramArrives
<1>3. peer \in [Client -> Peers] /\ resets \in Nat
  BY <1>1, ParameterAssumption DEF ArraysOK, CountersOK
<1>4. resets' = resets \/ resets' = resets + 1
  BY DEF Environment, Connect, Send, Hangup, Finish, DatagramArrives
<1>5. AcceptsFirst' /\ Ready' /\ Indexed' /\ ExitsOnlyAfterReset'
  BY <1>1, <1>2, <1>3, <1>4
     DEF AcceptsFirst, Ready, Indexed, ExitsOnlyAfterReset, Refused, engine, Open
<1>6. CASE DatagramArrives
  BY <1>1, <1>2, <1>5, <1>6
     DEF DatagramArrives, ExitInv, AnswersInv, UrisInv, ResetsCounted, engine, tables, Open
<1>7. ASSUME NEW c \in Client, NEW q \in Peers, peer' = [peer EXCEPT ![c] = q],
             q.phase \in {"reset", "error"} => resets' > 0,
             \/ /\ q.reply = peer[c].reply
                /\ \A answer : Fits(answer, peer[c]) => Fits(answer, q)
                /\ peer[c].request # NULL => q.request # NULL
             \/ q.reply = NULL /\ ~Attached(c)
      PROVE  ExitInv' /\ AnswersInv' /\ UrisInv'
  <2>1. \A d \in Client : peer'[d] = IF d = c THEN q ELSE peer[d]
    BY <1>3, <1>7
  <2>2. ResetsCounted'
    BY <1>1, <1>3, <1>4, <1>7, <2>1 DEF ResetsCounted
  <2>3. Open' = Open /\ socket' = socket /\ connections' = connections /\ nfds' = nfds
    BY <1>2 DEF engine, Open
  <2>4. \A fd \in Open : socket[fd] \in Client
    BY <1>1 DEF SocketsOK
  <2>5. ASSUME NEW fd \in Open, connections[fd].response # NULL
        PROVE  Fits(connections[fd].response, peer'[socket[fd]])
    <3>1. Fits(connections[fd].response, peer[socket[fd]])
      BY <1>1, <2>5 DEF AnswersInv
    <3>2. CASE socket[fd] # c
      BY <2>1, <2>4, <3>1, <3>2
    <3>3. CASE socket[fd] = c
      BY <1>7, <2>1, <3>1, <3>3 DEF Attached
    <3> QED BY <3>2, <3>3
  <2>6. ASSUME NEW d \in Client
        PROVE  /\ peer'[d].reply \notin {NULL, Zeros} =>
                      Fits(peer'[d].reply, peer'[d]) /\ peer'[d].request # NULL
               /\ peer'[d].reply = Zeros => nfds >= MAX_CONNECTIONS - 1
    <3>1. /\ peer[d].reply \notin {NULL, Zeros} =>
                 Fits(peer[d].reply, peer[d]) /\ peer[d].request # NULL
          /\ peer[d].reply = Zeros => nfds >= MAX_CONNECTIONS - 1
      BY <1>1 DEF AnswersInv
    <3>2. CASE d # c
      BY <2>1, <3>1, <3>2
    <3>3. CASE d = c /\ q.reply = peer[c].reply
               /\ (\A answer : Fits(answer, peer[c]) => Fits(answer, q))
               /\ (peer[c].request # NULL => q.request # NULL)
      BY <2>1, <3>1, <3>3
    <3>4. CASE d = c /\ q.reply = NULL
      BY <2>1, <3>4, NullAssumption
    <3> QED BY <1>7, <3>2, <3>3, <3>4
  <2>7. AnswersInv'
    BY <2>3, <2>5, <2>6 DEF AnswersInv
  <2>8. UrisInv'
    <3>1. ol' = ol /\ connections' = connections
      BY <1>2 DEF engine, tables
    <3>2. Explained(q.reply, ol)
      BY <1>1, <1>7, NoneExplained DEF UrisInv
    <3>3. \A d \in Client : Explained(peer'[d].reply, ol)
      BY <1>1, <2>1, <3>2 DEF UrisInv
    <3> QED BY <1>1, <3>1, <3>3 DEF UrisInv
  <2> QED BY <1>5, <2>2, <2>7, <2>8 DEF ExitInv
<1>8. ASSUME NEW c \in Client, Connect(c) \/ Send(c) \/ Hangup(c) \/ Finish(c)
      PROVE  ExitInv' /\ AnswersInv' /\ UrisInv'
  <2>1. peer[c] \in Peers
    BY <1>3
  <2>2. CASE Connect(c)
    <3> DEFINE q == [peer[c] EXCEPT !.phase = "open"]
    <3>1. q \in Peers /\ q.phase = "open" /\ q.reply = peer[c].reply
          /\ q.request = peer[c].request
      BY <2>1 DEF Peers
    <3>2. peer' = [peer EXCEPT ![c] = q] /\ peer[c].phase = "idle"
      BY <2>2 DEF Connect
    <3>3. \A answer : Fits(answer, peer[c]) => Fits(answer, q)
      BY <3>1, <3>2 DEF Fits
    <3> HIDE DEF q
    <3> QED BY <1>7, <3>1, <3>2, <3>3
  <2>3. CASE Send(c)
    <3>1. PICK r \in Request : peer' = [peer EXCEPT ![c].request = r, ![c].unread = TRUE]
      BY <2>3 DEF Send
    <3> DEFINE q == [peer[c] EXCEPT !.request = r, !.unread = TRUE]
    <3>2. q \in Peers /\ q.phase = peer[c].phase /\ q.reply = peer[c].reply
          /\ q.request = r /\ r # NULL
      BY <2>1, NullAssumption DEF Peers
    <3>3. peer' = [peer EXCEPT ![c] = q]
      BY <1>3, <3>1
    <3>4. peer[c].phase = "open" /\ peer[c].request = NULL
      BY <2>3 DEF Send
    <3>5. \A answer : ~Fits(answer, peer[c])
      BY <3>4 DEF Fits
    <3> HIDE DEF q
    <3> QED BY <1>7, <3>2, <3>3, <3>4, <3>5
  <2>4. CASE Hangup(c)
    <3>1. \E q \in Peers : /\ peer' = [peer EXCEPT ![c] = q]
                           /\ q.reply = peer[c].reply /\ q.request = peer[c].request
                           /\ q.phase = "closed" \/ resets' = resets + 1
      <4>1. CASE peer' = [peer EXCEPT ![c].phase = "closed"]
        <5> DEFINE q == [peer[c] EXCEPT !.phase = "closed"]
        <5>1. /\ q \in Peers /\ q.phase = "closed"
              /\ q.reply = peer[c].reply /\ q.request = peer[c].request
          BY <2>1 DEF Peers
        <5>2. peer' = [peer EXCEPT ![c] = q]
          BY <4>1
        <5> QED BY <5>1, <5>2
      <4>2. ASSUME NEW f \in {"reset", "error"}, resets' = resets + 1,
                   peer' = [peer EXCEPT ![c].phase = f, ![c].unread = FALSE]
            PROVE  \E q \in Peers :
                       /\ peer' = [peer EXCEPT ![c] = q]
                       /\ q.reply = peer[c].reply /\ q.request = peer[c].request
                       /\ q.phase = "closed" \/ resets' = resets + 1
        <5> DEFINE q == [peer[c] EXCEPT !.phase = f, !.unread = FALSE]
        <5>1. q \in Peers /\ q.reply = peer[c].reply /\ q.request = peer[c].request
          BY <2>1 DEF Peers
        <5>2. peer' = [peer EXCEPT ![c] = q]
          BY <1>3, <4>2
        <5> QED BY <4>2, <5>1, <5>2
      <4> QED BY <2>4, <4>1, <4>2 DEF Hangup
    <3>2. PICK q \in Peers : /\ peer' = [peer EXCEPT ![c] = q]
                             /\ q.reply = peer[c].reply /\ q.request = peer[c].request
                             /\ q.phase = "closed" \/ resets' = resets + 1
      BY <3>1
    <3>3. peer[c].phase = "open"
      BY <2>4 DEF Hangup
    <3>4. ASSUME NEW answer, Fits(answer, peer[c]) PROVE Fits(answer, q)
      <4>1. /\ answer \in Answers
            /\ answer.request = peer[c].request /\ answer.request # NULL
        BY <3>3, <3>4 DEF Fits
      <4>2. answer.request = q.request
        BY <3>2, <4>1
      <4> QED BY <4>1, <4>2 DEF Fits
    <3>5. q.phase \in {"reset", "error"} => resets' > 0
      BY <1>3, <3>2
    <3>6. /\ peer' = [peer EXCEPT ![c] = q] /\ q.reply = peer[c].reply
          /\ peer[c].request # NULL => q.request # NULL
      BY <3>2
    <3> QED BY <1>7, <3>4, <3>5, <3>6
  <2>5. CASE Finish(c)
    <3>1. NoConnection \in Peers /\ NoConnection.phase = "idle"
          /\ NoConnection.reply = NULL
      BY DEF NoConnection, Peers, Replies
    <3> QED BY <1>7, <2>5, <3>1 DEF Finish
  <2> QED BY <1>8, <2>2, <2>3, <2>4, <2>5
<1> QED BY <1>6, <1>8 DEF Environment

LEMMA InitEngine == Init => EngineInv
<1> SUFFICES ASSUME Init PROVE EngineInv
  OBVIOUS
<1>1. EngineTypeInv
  BY InitType
<1>2. FilesInv
  BY DEF Init, FilesInv, init_hash
<1>3. Open = {} /\ \A c \in Client : peer[c] = NoConnection
  BY DEF Init, Open
<1>4. ExitInv
  BY <1>3
     DEF Init, ExitInv, ResetsCounted, AcceptsFirst, Ready, Indexed, ExitsOnlyAfterReset,
         Connection, NoConnection
<1>5. AnswersInv
  BY <1>3, NullAssumption DEF AnswersInv, NoConnection
<1>6. UrisInv
  BY <1>3, NoneExplained DEF Init, UrisInv, Connection, NoConnection
<1> QED BY <1>1, <1>2, <1>4, <1>5, <1>6 DEF EngineInv

LEMMA StepEngine == EngineInv /\ [Next]_vars => EngineInv'
<1> SUFFICES ASSUME EngineInv, [Next]_vars PROVE EngineInv'
  OBVIOUS
<1>1. EngineTypeInv' /\ FilesInv'
  BY StepType, StepFiles DEF EngineInv
<1>2. CASE UNCHANGED vars
  BY <1>1, <1>2
     DEF vars, engine, network, tables, EngineInv, ExitInv, ResetsCounted, AcceptsFirst,
         Ready, Indexed, ExitsOnlyAfterReset, Refused, AnswersInv, UrisInv, Open
<1>3. ASSUME NEW fd \in Open, flask_request_handler(fd) \/ flask_response_handler(fd)
      PROVE  ExitInv' /\ AnswersInv' /\ UrisInv'
  <2>1. Handled(fd)
    BY <1>3, HandledRequest, HandledResponse
  <2>2. Turn(fd) /\ nfds' = nfds /\ resets' = resets
    BY <1>3 DEF flask_request_handler, flask_response_handler
  <2> QED BY <1>3, <2>1, <2>2, HandledExit, HandledAnswers, RequestUris, ResponseUris
<1> QED BY <1>1, <1>2, <1>3, SelectKeeps, AcceptKeeps, EnvironmentKeeps
        DEF Next, Loop, EngineInv

\* A reply is the one to the client's own request, whoever had the descriptor
\* before (flask_engine.c:217-220, 105); one that was never built is only sent
\* when the limit of connections is reached (flask_engine.c:116-120).
THEOREM RepliesAreOwn == Spec => []ReplyIsOwn
<1>1. EngineInv => ReplyIsOwn
  BY DEF EngineInv, AnswersInv, ReplyIsOwn, Fits
<1> QED BY <1>1, InitEngine, StepEngine, PTL DEF Spec

\* As long as no connection was reset or broke (flask_engine.c:158-164), the
\* daemon selects on no descriptor that it has closed, and it exits only when it
\* refuses a connection at the limit (flask_engine.c:116-120, 201-213).
THEOREM NoExitWithoutReset == Spec => []ExitsOnlyAfterReset
<1>1. EngineInv => ExitsOnlyAfterReset
  BY DEF EngineInv, ExitInv
<1> QED BY <1>1, InitEngine, StepEngine, PTL DEF Spec

\* As long as no TTL wraps, a node's own files are found at the node itself,
\* whatever LSAs and timeouts come between the requests.  And a URI that was
\* never written is only sent for an own file that was stored without its path
\* (flask_engine.c:258, 324-345).
THEOREM OwnFilesFound == Spec => []OwnFilesAreFound
<1>1. EngineInv => OwnFilesAreFound
  <2> SUFFICES ASSUME EngineInv PROVE OwnFilesAreFound
    OBVIOUS
  <2>1. NoTtlWraps => \A o \in DOMAIN ol : get_paths(gol, o) = Path(my_node_id, 0)
    BY DEF EngineInv, FilesInv, get_paths
  <2>2. ASSUME NEW c \in Client, peer[c].reply # NULL, peer[c].reply.text = "garbage"
        PROVE  Pathless(peer[c].reply.request.name)
    <3>1. peer[c].reply \in Replies
      BY TypeParts DEF EngineInv, ArraysOK, Peers
    <3>2. peer[c].reply # Zeros
      BY <2>2 DEF Zeros, Answer
    <3>3. Explained(peer[c].reply, ol)
      BY DEF EngineInv, UrisInv
    <3> QED BY <2>2, <3>1, <3>2, <3>3 DEF Replies, Explained, Pathless
  <2> QED BY <2>1, <2>2 DEF OwnFilesAreFound
<1> QED BY <1>1, InitEngine, StepEngine, PTL DEF Spec
=============================================================================
