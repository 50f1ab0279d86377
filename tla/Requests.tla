------------------------------ MODULE Requests ------------------------------
(***************************************************************************)
(* The whole network: the routing daemons, and the clients' requests that  *)
(* the webservers hand from node to node.  A webserver asks the daemon of  *)
(* its node; a file that is at another node is fetched from the webserver  *)
(* of the next hop, which asks its own daemon in turn (webserver.py).      *)
(* Between any two of these steps the daemons' tables may change, and the  *)
(* daemon may die.                                                         *)
(***************************************************************************)
EXTENDS RoutingDaemon

CONSTANTS
    Client,
    UploadPaths,   \* bound: what uploads at a node leave of their paths
    MaxRequests    \* bound: how many requests are made in all

\* An upload of which the name is one word is stored with its path.  Of one with
\* spaces only the first word becomes the name, and the path is what the next
\* two leave: nothing, or a wrong text (flask_engine.c:243-259).
StoredPaths == {"file", "empty", "other"}

ASSUME RequestAssumption ==
    UploadPaths \in [Node -> SUBSET StoredPaths] /\ MaxRequests \in Nat

VARIABLES
    paths,         \* paths[n][o]: the path in node n's list for o, if o is there
    request,       \* request[c]: client c's request, or how its last one ended
    asked          \* how many requests were made

reqvars == <<vars, paths, request, asked>>

\* What the daemon answers: "own" is the URI of a file of its own, "wrong" one of
\* its own with a wrong path, "next" one at the webserver of the node given,
\* "garbage" one that was never written.
Answer(text, node) == [text |-> text, node |-> node]

NoAnswer == Answer("none", "none")

\* entry is the node the client asked, at the one whose webserver has the request.
NoRequest ==
    [op |-> "none", name |-> "none", path |-> "none", entry |-> "none", at |-> "none",
     answer |-> NoAnswer, status |-> "idle"]

Pending(c) == request[c].status = "pending"

Waiting(c, op) ==
    /\ Pending(c)
    /\ request[c].op = op
    /\ request[c].answer = NoAnswer

ReqInit ==
    /\ Init
    /\ paths = [n \in Node |-> [o \in Names |-> "file"]]
    /\ request = [c \in Client |-> NoRequest]
    /\ asked = 0

-----------------------------------------------------------------------------
(***************************************************************************)
(* The client and the webservers.                                          *)
(***************************************************************************)

Ask(c) ==
    /\ ~Pending(c)
    /\ asked < MaxRequests
    /\ asked' = asked + 1
    /\ \E op \in {"RDGET", "ADDFILE"}, o \in Names, n \in Node :
       \E path \in IF op = "ADDFILE" THEN UploadPaths[n] ELSE {"none"} :
           request' = [request EXCEPT ![c] =
                          [op |-> op, name |-> o, path |-> path, entry |-> n, at |-> n,
                           answer |-> NoAnswer, status |-> "pending"]]
    /\ UNCHANGED <<vars, paths>>

Answered(c, answer) == request' = [request EXCEPT ![c].answer = answer]

\* The page is sent, and nothing else of the request is left.
Ends(c, status) == request' = [request EXCEPT ![c] = [NoRequest EXCEPT !.status = status]]

\* urlopen of an error page at another node raises nothing: the webserver that
\* was asked first sends the page as though it were the file.
ErrorSeen(c) == IF request[c].at = request[c].entry THEN "error" ELSE "page"

\* The next hop's webserver gets the same request.
HandOn(c) ==
    request' = [request EXCEPT ![c].at = request[c].answer.node, ![c].answer = NoAnswer]

\* rd_getrd once the daemon has answered: NOTFOUND is a 404, an exception a 500.
\* A wrong or unwritten URI may be one that can be opened, of another page or
\* file: it can hold what an earlier answer left there.
FollowAnswer(c) ==
    LET text == request[c].answer.text
    IN  /\ Pending(c) /\ request[c].op = "RDGET"
        /\ \/ text = "own" /\ Ends(c, "file")
           \/ text = "next" /\ HandOn(c)
           \/ text \in {"NOTFOUND", "garbage", "wrong", "lost"} /\ Ends(c, ErrorSeen(c))
           \/ text \in {"garbage", "wrong"} /\ Ends(c, "page")
        /\ UNCHANGED <<vars, paths, asked>>

\* The end of rd_addfile.
FinishUpload(c) ==
    LET text == request[c].answer.text
    IN  /\ Pending(c) /\ request[c].op = "ADDFILE"
        /\ \/ text = "OK" /\ Ends(c, "added")
           \/ text \in {"exists", "lost"} /\ Ends(c, "error")
        /\ UNCHANGED <<vars, paths, asked>>

\* The connection to a daemon that does not run is refused.
NoDaemon(c) ==
    /\ Pending(c)
    /\ request[c].answer = NoAnswer
    /\ ~up[request[c].at]
    /\ Answered(c, Answer("lost", "none"))
    /\ UNCHANGED <<vars, paths, asked>>

-----------------------------------------------------------------------------
(***************************************************************************)
(* The daemons.                                                            *)
(***************************************************************************)

\* Mutant of lookup_link_entry_node_id: the entry before the one that is meant.
LinkBefore(n, k) == Conf[n][LinkIndex(n, k) - 1]

lookup_link_entry_node_id(n, k) == Conf[n][LinkIndex(n, k)]

\* get_local_file_path: the path of the name's entry, or none.
LocalPath(n, o) == IF o \in ol[n] THEN paths[n][o] ELSE "empty"

\* Mutant of OwnText: an empty path is not told from others.
EmptyPathIsOwn(path) == IF path = "other" THEN "wrong" ELSE "own"

\* The URI made of the path; of an empty one none is written.
OwnText(path) ==
    CASE path = "file" -> "own" [] path = "empty" -> "garbage" [] path = "other" -> "wrong"

\* The RDGET branch of build_response.
RdgetAnswer(n, o) ==
    LET obj == get_paths(gol[n], o)
    IN  IF obj = NULL THEN Answer("NOTFOUND", "none")
        ELSE IF obj.node_id # n
        THEN Answer("next", lookup_link_entry_node_id(n, rt[n][obj.node_id].nexthop))
        ELSE Answer(OwnText(LocalPath(n, o)), "none")

Rdget(c) ==
    /\ Waiting(c, "RDGET")
    /\ up[request[c].at]
    /\ Answered(c, RdgetAnswer(request[c].at, request[c].name))
    /\ UNCHANGED <<vars, paths, asked>>

\* The ADDFILE branch: the file is added before the answer is on its way.
Addfile(c) ==
    LET n == request[c].at
        o == request[c].name
    IN  /\ Waiting(c, "ADDFILE")
        /\ up[n]
        /\ \/ /\ AddFile(n, o)
              /\ paths' = [paths EXCEPT ![n][o] = request[c].path]
              /\ Answered(c, Answer("OK", "none"))
           \/ /\ contains_object(gol[n], o)
              /\ Answered(c, Answer("exists", "none"))
              /\ UNCHANGED <<vars, paths>>
        /\ UNCHANGED asked

\* load_node_file takes the newline after an empty path for the path.
PathRead(path) == IF path = "empty" THEN "other" ELSE path

Reloaded(n) == paths' = [paths EXCEPT ![n] = [o \in Names |-> PathRead(@[o])]]

\* With a daemon die the connections it had; an answer it had sent may arrive.
NetworkStep ==
    /\ \/ \E n \in Node : Start(n) /\ Reloaded(n)
       \/ /\ \/ \E n \in Node : Tick(n) \/ lsa_handler(n) \/ Crash(n)
             \/ \E m \in net : Lose(m)
          /\ UNCHANGED paths
    /\ \E broken \in SUBSET {c \in Client : Pending(c) /\ up[request[c].at]
                                                /\ ~up'[request[c].at]} :
           request' = [c \in Client |->
                          IF c \in broken
                          THEN [request[c] EXCEPT !.answer = Answer("lost", "none")]
                          ELSE request[c]]
    /\ UNCHANGED asked

Handling(c) == Rdget(c) \/ Addfile(c) \/ FollowAnswer(c) \/ FinishUpload(c) \/ NoDaemon(c)

ReqNext == NetworkStep \/ \E c \in Client : Ask(c) \/ Handling(c)

ReqSpec == ReqInit /\ [][ReqNext]_reqvars

\* Every webserver thread and every daemon gets on with a request; nothing is
\* asked of the network, which may lose whatever it likes.
ReqFairSpec == ReqSpec /\ \A c \in Client : WF_reqvars(Handling(c))

-----------------------------------------------------------------------------
Answers ==
    [text : {"none", "own", "wrong", "garbage", "NOTFOUND", "OK", "exists", "lost"},
     node : {"none"}]
        \cup [text : {"next"}, node : Node]

Ended == {"file", "added", "error", "page"}

Asked ==
    [op : {"RDGET", "ADDFILE"}, name : Names, path : StoredPaths \cup {"none"},
     entry : Node, at : Node, answer : Answers, status : {"pending"}]

NotAsked == {[NoRequest EXCEPT !.status = status] : status \in {"idle"} \cup Ended}

\* Every variable has its type, and a request is only handed to a neighbour of
\* the node that was asked: the next hop, which is not checked, is always found
\* in the direct neighbours table (flask_engine.c:335-342).
ReqTypeOK ==
    /\ TypeOK
    /\ asked \in Nat
    /\ paths \in [Node -> [Names -> StoredPaths]]
    /\ request \in [Client -> NotAsked \cup Asked]
    /\ \A c \in Client :
          Pending(c) /\ request[c].answer.text = "next" =>
              request[c].answer.node \in Nbrs(request[c].at)

\* An RDGET is answered with a URI that was never written only for a file of the
\* node's own that an upload has left there without its path: the two tables
\* build_response goes through, gol for the node and ol for the path, agree,
\* whatever was added, has died and was started in between
\* (flask_engine.c:313-332, file_loader.c:143-155).
UnwrittenUriOnlyWithoutPath ==
    \A c \in Client :
        Pending(c) /\ request[c].answer.text = "garbage" =>
            LET r == request[c]
            IN  r.name \in files[r.at] /\ paths[r.at][r.name] # "file"

\* What the client sees of its request: not where it is, nor how it failed.
Seen(r) ==
    [op |-> r.op, name |-> r.name, node |-> r.entry,
     oneword |-> r.op = "ADDFILE" => r.path = "file",
     status |-> IF r.status \in {"error", "page"} THEN "failed" ELSE r.status]

\* The files a node can find again: those stored with their path.
Kept(n) == {o \in files[n] : paths[n][o] = "file"}

\* What a client is promised: a file it gets is one that a node has, and a file
\* it added under a name of one word is kept by its node whatever dies
\* afterwards, although the answer was found by tables of several nodes at
\* different times (readme.txt:12-21, 31-39).
Service == INSTANCE FileService WITH
               files <- [n \in Node |-> Kept(n)],
               view <- [c \in Client |-> Seen(request[c])]

IsFileService == Service!Spec

\* Every request ends: two nodes that come to have the same file, and hear of
\* each other's, do not hand a request to and fro, because a node's own file is
\* nearer than any it hears of (hashset.c:129-137, flask_engine.c:335-341).  In
\* networks with a ring in them it is not claimed: there stale tables may send a
\* request round.
RequestEnds == \A c \in Client : Pending(c) ~> ~Pending(c)
=============================================================================
