--------------------------- MODULE RequestsProofs ---------------------------
(***************************************************************************)
(* Requests leave the daemons to themselves: what was proved of the daemons *)
(* holds with clients and webservers too, and from it, that the network as *)
(* a whole is a file service.                                              *)
(***************************************************************************)
EXTENDS Requests, PathProofs

\* A running daemon's own names are in its table of global objects, so that
\* ADDFILE refuses them.
OwnListed == \A n \in Node : ol[n] \subseteq DOMAIN gol[n]

DaemonInv == HolderInv /\ DownInv /\ HopInv /\ OwnListed

RequestTypes ==
    /\ asked \in Nat
    /\ paths \in [Node -> [Names -> StoredPaths]]
    /\ request \in [Client -> NotAsked \cup Asked]

\* What the answer to the request r says of the files F and of their paths P.  An
\* ADDFILE stays where the client brought it.
AnswerHolds(r, F, P) ==
    LET text == r.answer.text
    IN  /\ r.op = "ADDFILE" => r.at = r.entry /\ r.path \in StoredPaths
        /\ text \in {"own", "garbage", "OK"} => r.name \in F[r.at]
        /\ text = "own" => P[r.at][r.name] = "file"
        /\ text = "garbage" => P[r.at][r.name] # "file"
        /\ text = "OK" /\ r.path = "file" => P[r.at][r.name] = "file"
        /\ text = "next" => r.answer.node \in Nbrs(r.at)

AnswersHold == \A c \in Client : Pending(c) => AnswerHolds(request[c], files, paths)

ReqInv == DaemonInv /\ RequestTypes /\ AnswersHold

(***************************************************************************)
(* The daemons.                                                            *)
(***************************************************************************)

\* A request that is pending has been made.
LEMMA PendingType ==
    ASSUME RequestTypes, NEW c \in Client, Pending(c)
    PROVE  request[c] \in Asked
<1>1. request[c] \in NotAsked \cup Asked
  BY DEF RequestTypes
<1>2. \A r \in NotAsked : r.status # "pending"
  BY DEF NotAsked, NoRequest, Ended
<1> QED BY <1>1, <1>2 DEF Pending

\* Whatever the clients do, the daemons take a step of their own or none.
LEMMA DaemonStep ==
    ASSUME RequestTypes, [ReqNext]_reqvars
    PROVE  [Next]_vars
<1>1. CASE NetworkStep
  BY <1>1 DEF NetworkStep, Next
<1>2. ASSUME NEW c \in Client, Addfile(c) PROVE [Next]_vars
  <2>1. request[c].at \in Node /\ request[c].name \in Names
    BY <1>2, PendingType DEF Addfile, Waiting, Asked
  <2>2. AddFile(request[c].at, request[c].name) \/ UNCHANGED vars
    BY <1>2 DEF Addfile
  <2> QED BY <2>1, <2>2 DEF Next
<1>3. ASSUME NEW c \in Client,
             Ask(c) \/ Rdget(c) \/ FollowAnswer(c) \/ FinishUpload(c) \/ NoDaemon(c)
      PROVE  UNCHANGED vars
  BY <1>3 DEF Ask, Rdget, FollowAnswer, FinishUpload, NoDaemon
<1>4. CASE UNCHANGED reqvars
  BY <1>4 DEF reqvars
<1> QED BY <1>1, <1>2, <1>3, <1>4 DEF ReqNext, Handling

\* A step that changes the table of one daemon, and lists no name anew.
LEMMA OneListed ==
    ASSUME TypeInv, OwnListed, NEW n \in Node, NEW h, gol' = [gol EXCEPT ![n] = h],
           \A i \in Node \ {n} : ol'[i] = ol[i], ol'[n] \subseteq DOMAIN h
    PROVE  OwnListed'
<1>1. DOMAIN gol = Node
  BY DEF TypeInv, TypeOK
<1>2. gol'[n] = h /\ \A i \in Node \ {n} : gol'[i] = gol[i]
  BY <1>1
<1> QED BY <1>2 DEF OwnListed

LEMMA DieListed ==
    ASSUME TypeInv, OwnListed, NEW n \in Node, Die(n)
    PROVE  OwnListed'
<1>1. ol \in [Node -> SUBSET Names]
  BY DEF TypeInv, TypeOK
<1>2. ol'[n] = {} /\ \A i \in Node \ {n} : ol'[i] = ol[i]
  BY <1>1 DEF Die
<1> QED BY <1>2, OneListed DEF Die

LEMMA StepListed == HolderInv /\ OwnListed /\ [Next]_vars => OwnListed'
<1> SUFFICES ASSUME HolderInv, OwnListed, [Next]_vars PROVE OwnListed'
  OBVIOUS
<1>1. /\ TypeInv /\ ol \in [Node -> SUBSET Names] /\ files \in [Node -> SUBSET Names]
      /\ \A i \in Node : ol[i] \subseteq DOMAIN gol[i]
  BY DEF HolderInv, TypeInv, TypeOK, OwnListed
<1>2. CASE UNCHANGED <<gol, ol>>
  BY <1>2 DEF OwnListed
<1>3. ASSUME NEW n \in Node, NEW ids,
             gol' = [gol EXCEPT ![n] = hash_remove_node(gol[n], ids)], ol' = ol
      PROVE  OwnListed'
  <2>1. DOMAIN hash_remove_node(gol[n], ids) = DOMAIN gol[n]
    BY DEF hash_remove_node
  <2> QED BY <1>1, <1>3, <2>1, OneListed
<1>4. ASSUME NEW n \in Node, Tick(n) PROVE OwnListed'
  BY <1>2, <1>3, <1>4 DEF Tick, FloodTick, RetransmitTick, IdleTick
<1>5. ASSUME NEW n \in Node, lsa_handler(n) PROVE OwnListed'
  <2>1. PICK m \in net :
            \/ IgnoreDatagram(n, m)
            \/ AcceptLsa(n, m)
            \/ AcceptAck(n, m)
            \/ AckOfLearnedEntry(n, m)
            \/ AckWithoutEntry(n, m)
    BY <1>5 DEF lsa_handler
  <2>2. CASE AcceptLsa(n, m)
    <3> DEFINE h == store_node_objects(gol[n], m.sender_node_id, Forwarder(n, m), Stored(m))
    <3>1. gol' = [gol EXCEPT ![n] = h] /\ ol' = ol
      BY <2>2 DEF AcceptLsa
    <3>2. DOMAIN gol[n] \subseteq DOMAIN h
      BY DEF store_node_objects, hash_add
    <3> QED BY <1>1, <3>1, <3>2, OneListed
  <2> QED BY <1>1, <1>2, <2>1, <2>2, DieListed
          DEF IgnoreDatagram, AcceptAck, AckOfLearnedEntry, AckWithoutEntry, memory
<1>6. ASSUME NEW n \in Node, Crash(n) PROVE OwnListed'
  BY <1>1, <1>6, DieListed DEF Crash
<1>7. ASSUME NEW n \in Node, Start(n) PROVE OwnListed'
  <2>1. DOMAIN load_node_file(n, files[n]) = files[n]
    BY DEF load_node_file, hash_add, init_hash
  <2>2. ol'[n] = files[n] /\ \A i \in Node \ {n} : ol'[i] = ol[i]
    BY <1>1, <1>7 DEF Start
  <2> QED BY <1>1, <1>7, <2>1, <2>2, OneListed DEF Start
<1>8. ASSUME NEW n \in Node, NEW o \in Names, AddFile(n, o) PROVE OwnListed'
  <2>1. DOMAIN hash_add(gol[n], {o}, n, 0) = DOMAIN gol[n] \cup {o}
    BY DEF hash_add
  <2>2. ol'[n] = ol[n] \cup {o} /\ \A i \in Node \ {n} : ol'[i] = ol[i]
    BY <1>1, <1>8 DEF AddFile
  <2>3. gol' = [gol EXCEPT ![n] = hash_add(gol[n], {o}, n, 0)]
    BY <1>8 DEF AddFile
  <2>4. ol[n] \cup {o} \subseteq DOMAIN hash_add(gol[n], {o}, n, 0)
    BY <1>1, <2>1
  <2> QED BY <1>1, <2>2, <2>3, <2>4, OneListed
<1>9. CASE (\E m \in net : Lose(m)) \/ UNCHANGED vars
  BY <1>2, <1>9 DEF Lose, vars, memory
<1> QED BY <1>4, <1>5, <1>6, <1>7, <1>8, <1>9 DEF Next

LEMMA InitListed == Init => OwnListed
BY DEF Init, OwnListed, load_node_file, hash_add, init_hash

LEMMA DaemonsKept ==
    ASSUME DaemonInv, RequestTypes, [ReqNext]_reqvars
    PROVE  DaemonInv'
BY DaemonStep, StepHeld, StepDown, StepHops, StepListed DEF DaemonInv

\* A network step leaves the files alone.
LEMMA NetworkFiles ==
    ASSUME NetworkStep
    PROVE  files' = files
<1>1. ASSUME NEW n \in Node, Tick(n) \/ Crash(n) \/ Start(n) PROVE files' = files
  BY <1>1 DEF Tick, FloodTick, RetransmitTick, IdleTick, Crash, Start, Die
<1>2. ASSUME NEW n \in Node, lsa_handler(n) PROVE files' = files
  <2>1. PICK m \in net :
            \/ IgnoreDatagram(n, m)
            \/ AcceptLsa(n, m)
            \/ AcceptAck(n, m)
            \/ AckOfLearnedEntry(n, m)
            \/ AckWithoutEntry(n, m)
    BY <1>2 DEF lsa_handler
  <2> QED BY <2>1 DEF IgnoreDatagram, AcceptLsa, AcceptAck, AckOfLearnedEntry,
                      AckWithoutEntry, Die
<1> QED BY <1>1, <1>2 DEF NetworkStep, Lose

(***************************************************************************)
(* Files and their paths: no step takes a file away, or makes a path right *)
(* or wrong that was there.                                                *)
(***************************************************************************)

Lasting ==
    \A n \in Node : \A o \in files[n] :
        o \in files'[n] /\ (paths'[n][o] = "file" <=> paths[n][o] = "file")

\* A path that was read again is right when it was right before.
LEMMA NetworkPaths ==
    ASSUME RequestTypes, NetworkStep
    PROVE  /\ paths' \in [Node -> [Names -> StoredPaths]]
           /\ \A n \in Node : \A o \in Names :
                  paths'[n][o] = "file" <=> paths[n][o] = "file"
<1>1. paths \in [Node -> [Names -> StoredPaths]]
  BY DEF RequestTypes
<1>2. \A path \in StoredPaths :
          PathRead(path) \in StoredPaths /\ (PathRead(path) = "file" <=> path = "file")
  BY DEF PathRead, StoredPaths
<1>3. ASSUME NEW n \in Node, Reloaded(n)
      PROVE  /\ paths' \in [Node -> [Names -> StoredPaths]]
             /\ \A i \in Node : \A o \in Names :
                    paths'[i][o] = "file" <=> paths[i][o] = "file"
  <2>1. paths' = [paths EXCEPT ![n] = [o \in Names |-> PathRead(paths[n][o])]]
    BY <1>3 DEF Reloaded
  <2> QED BY <1>1, <1>2, <2>1
<1> QED BY <1>1, <1>3 DEF NetworkStep

\* A name that is added was not there.
LEMMA AddedName ==
    ASSUME ReqInv, NEW c \in Client, Addfile(c),
           AddFile(request[c].at, request[c].name)
    PROVE  LET n == request[c].at
               o == request[c].name
           IN  /\ n \in Node /\ o \in Names /\ request[c].path \in StoredPaths
               /\ o \notin files[n]
               /\ files' = [files EXCEPT ![n] = @ \cup {o}]
<1> DEFINE n == request[c].at
           o == request[c].name
<1>1. request[c] \in Asked /\ Pending(c) /\ request[c].op = "ADDFILE"
  BY PendingType DEF Addfile, Waiting, ReqInv
<1>2. n \in Node /\ o \in Names
  BY <1>1 DEF Asked
<1>3. request[c].path \in StoredPaths
  BY <1>1 DEF ReqInv, AnswersHold, AnswerHolds
<1>4. up[n] /\ o \notin DOMAIN gol[n] /\ files' = [files EXCEPT ![n] = @ \cup {o}]
  BY DEF AddFile, contains_object
<1>5. ol[n] = files[n] /\ ol[n] \subseteq DOMAIN gol[n]
  BY <1>2, <1>4 DEF ReqInv, DaemonInv, HolderInv, LsasNameHeldFiles, OwnListed
<1> QED BY <1>2, <1>3, <1>4, <1>5

\* Its path is the one of the request.
LEMMA AddedPath ==
    ASSUME ReqInv, NEW c \in Client, Addfile(c),
           AddFile(request[c].at, request[c].name)
    PROVE  LET n == request[c].at
               o == request[c].name
           IN  /\ paths' = [paths EXCEPT ![n][o] = request[c].path]
               /\ Answered(c, Answer("OK", "none"))
BY DEF Addfile, AddFile

LEMMA AddfileLasts ==
    ASSUME ReqInv, NEW c \in Client, Addfile(c)
    PROVE  Lasting /\ paths' \in [Node -> [Names -> StoredPaths]]
<1> DEFINE n == request[c].at
           o == request[c].name
<1>1. /\ paths \in [Node -> [Names -> StoredPaths]]
      /\ files \in [Node -> SUBSET Names]
  BY DEF ReqInv, RequestTypes, DaemonInv, HolderInv, TypeInv, TypeOK
<1>2. CASE UNCHANGED <<vars, paths>>
  BY <1>1, <1>2 DEF Lasting, vars
<1>3. CASE AddFile(n, o)
  <2>1. /\ n \in Node /\ o \in Names /\ request[c].path \in StoredPaths
        /\ o \notin files[n] /\ files' = [files EXCEPT ![n] = @ \cup {o}]
    BY <1>3, AddedName
  <2>2. paths' = [paths EXCEPT ![n][o] = request[c].path]
    BY <1>3, AddedPath
  <2> HIDE DEF n, o
  <2>3. paths' \in [Node -> [Names -> StoredPaths]]
    BY <1>1, <2>1, <2>2
  <2>4. ASSUME NEW i \in Node, NEW p \in files[i]
        PROVE  p \in files'[i] /\ paths'[i][p] = paths[i][p]
    <3>1. CASE i = n
      BY <1>1, <2>1, <2>2, <3>1
    <3>2. CASE i # n
      BY <1>1, <2>1, <2>2, <3>2
    <3> QED BY <3>1, <3>2
  <2> QED BY <2>3, <2>4 DEF Lasting
<1> QED BY <1>2, <1>3 DEF Addfile

LEMMA NetworkLasts ==
    ASSUME ReqInv, NetworkStep
    PROVE  Lasting
<1>1. files \in [Node -> SUBSET Names]
  BY DEF ReqInv, DaemonInv, HolderInv, TypeInv, TypeOK
<1> QED BY <1>1, NetworkFiles, NetworkPaths DEF Lasting, ReqInv

(***************************************************************************)
(* Answers.                                                                *)
(***************************************************************************)

\* The entry that is looked up is the neighbour that was meant.
LEMMA NeighbourFound ==
    ASSUME NEW n \in Node, NEW j \in Nbrs(n)
    PROVE  lookup_link_entry_node_id(n, j) = j
<1>1. Len(Conf[n]) \in Nat
  BY ConfAssumption
<1>2. \E i \in 1 .. Len(Conf[n]) : Conf[n][i] = j
  BY <1>1 DEF Nbrs
<1>3. Conf[n][LinkIndex(n, j)] = j
  BY <1>2 DEF LinkIndex
<1> QED BY <1>3 DEF lookup_link_entry_node_id

\* An RDGET is answered by one of these, and what it says is so.
LEMMA RdgetAnswered ==
    ASSUME DaemonInv, RequestTypes, NEW n \in Node, up[n], NEW o \in Names
    PROVE  LET a == RdgetAnswer(n, o)
           IN  /\ a \in Answers
               /\ a.text # "OK"
               /\ a.text \in {"own", "garbage"} => o \in files[n]
               /\ a.text = "own" => paths[n][o] = "file"
               /\ a.text = "garbage" => paths[n][o] # "file"
               /\ a.text = "next" => a.node \in Nbrs(n)
<1> DEFINE obj == get_paths(gol[n], o)
<1>1. RdgetResolvable
  BY TablesFollow DEF DaemonInv
<1>2. CASE obj = NULL
  BY <1>2 DEF RdgetAnswer, Answer, Answers
<1>3. CASE obj # NULL /\ obj.node_id = n
  <2>1. o \in DOMAIN gol[n] /\ gol[n][o] = obj
    BY <1>3 DEF get_paths
  <2>2. o \in ol[n]
    BY <1>1, <1>3, <2>1 DEF RdgetResolvable
  <2>3. ol[n] = files[n]
    BY DEF DaemonInv, HolderInv, LsasNameHeldFiles
  <2>4. RdgetAnswer(n, o) = Answer(OwnText(paths[n][o]), "none")
    BY <1>3, <2>2 DEF RdgetAnswer, LocalPath
  <2>5. paths[n][o] \in StoredPaths
    BY DEF RequestTypes
  <2>6. /\ OwnText(paths[n][o]) \in {"own", "garbage", "wrong"}
        /\ OwnText(paths[n][o]) = "own" => paths[n][o] = "file"
        /\ OwnText(paths[n][o]) = "garbage" => paths[n][o] # "file"
    BY <2>5 DEF OwnText, StoredPaths
  <2> QED BY <2>2, <2>3, <2>4, <2>6 DEF Answer, Answers
<1>4. CASE obj # NULL /\ obj.node_id # n
  <2> DEFINE hop == rt[n][obj.node_id].nexthop
  <2>1. o \in DOMAIN gol[n] /\ gol[n][o] = obj
    BY <1>4 DEF get_paths
  <2>2. hop \in Nbrs(n) /\ hop \in Node
    BY <1>1, <1>4, <2>1, Links DEF RdgetResolvable
  <2>3. RdgetAnswer(n, o) = Answer("next", hop)
    BY <1>4, <2>2, NeighbourFound DEF RdgetAnswer
  <2> QED BY <2>2, <2>3 DEF Answer, Answers
<1> QED BY <1>2, <1>3, <1>4

(***************************************************************************)
(* Requests.                                                               *)
(***************************************************************************)

\* The request r is of a type, and what its answer says of F and P holds.
Sound(r, F, P) ==
    /\ r \in NotAsked \cup Asked
    /\ r.status = "pending" => AnswerHolds(r, F, P)

\* A request that was sound stays so as files are added.
LEMMA SoundKept ==
    ASSUME Lasting, NEW r, Sound(r, files, paths)
    PROVE  Sound(r, files', paths')
<1>1. CASE r \in Asked
  <2>1. r.at \in Node
    BY <1>1 DEF Asked
  <2>2. r.answer.text = "own" => r.name \in files[r.at]
    BY <1>1 DEF Sound, Asked, AnswerHolds
  <2> QED BY <1>1, <2>1, <2>2 DEF Sound, AnswerHolds, Lasting, Asked
<1>2. CASE r \in NotAsked
  <2>1. r.status # "pending"
    BY <1>2 DEF NotAsked, NoRequest, Ended
  <2> QED BY <1>2, <2>1 DEF Sound
<1> QED BY <1>1, <1>2 DEF Sound

LEMMA SoundRequests ==
    ASSUME ReqInv
    PROVE  \A d \in Client : Sound(request[d], files, paths)
BY DEF ReqInv, RequestTypes, AnswersHold, Sound, Pending

\* An answer that says nothing of the files.
LEMMA SoundAnswer ==
    ASSUME ReqInv, NEW c \in Client, Pending(c), NEW text \in {"lost", "exists"},
           NEW F, NEW P
    PROVE  Sound([request[c] EXCEPT !.answer = Answer(text, "none")], F, P)
<1> DEFINE r == [request[c] EXCEPT !.answer = Answer(text, "none")]
<1>1. request[c] \in Asked
  BY PendingType DEF ReqInv
<1>2. Answer(text, "none") \in Answers /\ Answer(text, "none").text = text
  BY DEF Answer, Answers
<1>3. /\ r \in Asked /\ r.answer = Answer(text, "none") /\ r.op = request[c].op
      /\ r.at = request[c].at /\ r.entry = request[c].entry /\ r.path = request[c].path
  BY <1>1, <1>2 DEF Asked
<1>4. request[c].op = "ADDFILE" =>
          request[c].at = request[c].entry /\ request[c].path \in StoredPaths
  BY DEF ReqInv, AnswersHold, AnswerHolds
<1> QED BY <1>2, <1>3, <1>4 DEF Sound, AnswerHolds

\* So it is enough that every request of the next state is sound.
LEMMA AllSound ==
    ASSUME asked' \in Nat, paths' \in [Node -> [Names -> StoredPaths]],
           DOMAIN request' = Client, request' = [d \in Client |-> request'[d]],
           \A d \in Client : Sound(request'[d], files', paths')
    PROVE  (RequestTypes /\ AnswersHold)'
<1>1. RequestTypes'
  BY DEF RequestTypes, Sound
<1>2. AnswersHold'
  BY DEF AnswersHold, Sound, Pending
<1> QED BY <1>1, <1>2

\* A step that changes the request of one client.
LEMMA OneRequest ==
    ASSUME ReqInv, Lasting, NEW c \in Client, NEW r, Sound(r, files', paths'),
           request' = [request EXCEPT ![c] = r], asked' \in Nat,
           paths' \in [Node -> [Names -> StoredPaths]]
    PROVE  (RequestTypes /\ AnswersHold)'
<1>1. DOMAIN request = Client
  BY DEF ReqInv, RequestTypes
<1>2. /\ DOMAIN request' = Client
      /\ request' = [d \in Client |-> request'[d]]
      /\ \A d \in Client : request'[d] = IF d = c THEN r ELSE request[d]
  BY <1>1
<1>3. \A d \in Client : Sound(request[d], files', paths')
  BY SoundRequests, SoundKept
<1> QED BY <1>2, <1>3, AllSound

\* A step of a client or a webserver: the files and their paths stay.
LEMMA QuietRequest ==
    ASSUME ReqInv, NEW c \in Client, NEW r, Sound(r, files, paths),
           request' = [request EXCEPT ![c] = r], asked' \in Nat, UNCHANGED <<vars, paths>>
    PROVE  (RequestTypes /\ AnswersHold)'
<1>1. paths' = paths /\ files' = files /\ paths \in [Node -> [Names -> StoredPaths]]
  BY DEF ReqInv, RequestTypes, vars
<1>2. Lasting
  BY <1>1 DEF Lasting
<1>3. Sound(r, files', paths')
  BY <1>1
<1>4. paths' \in [Node -> [Names -> StoredPaths]]
  BY <1>1
<1> QED BY <1>2, <1>3, <1>4, OneRequest

\* What a step makes of the request of client c: r says it.
LEMMA RdgetSound ==
    ASSUME ReqInv, NEW c \in Client, Rdget(c)
    PROVE  (RequestTypes /\ AnswersHold)'
<1> DEFINE n == request[c].at
           o == request[c].name
           a == RdgetAnswer(n, o)
           r == [request[c] EXCEPT !.answer = a]
<1>1. request[c] \in Asked /\ request[c].op = "RDGET" /\ up[n] /\ n \in Node /\ o \in Names
  BY PendingType DEF Rdget, Waiting, ReqInv, Asked
<1>2. /\ a \in Answers /\ a.text # "OK"
      /\ a.text \in {"own", "garbage"} => o \in files[n]
      /\ a.text = "own" => paths[n][o] = "file"
      /\ a.text = "garbage" => paths[n][o] # "file"
      /\ a.text = "next" => a.node \in Nbrs(n)
  BY <1>1, RdgetAnswered DEF ReqInv
<1>3. request' = [request EXCEPT ![c] = r] /\ asked' \in Nat /\ UNCHANGED <<vars, paths>>
  BY DEF Rdget, Answered, ReqInv, RequestTypes
<1> HIDE DEF a
<1>4. r \in Asked /\ r.op = "RDGET" /\ r.answer = a /\ r.name = o /\ r.at = n
  BY <1>1, <1>2 DEF Asked
<1>5. Sound(r, files, paths)
  BY <1>2, <1>4 DEF Sound, AnswerHolds
<1> HIDE DEF r
<1> QED BY <1>3, <1>5, QuietRequest

LEMMA AddfileSound ==
    ASSUME ReqInv, NEW c \in Client, Addfile(c)
    PROVE  (RequestTypes /\ AnswersHold)'
<1> DEFINE n == request[c].at
           o == request[c].name
           r(text) == [request[c] EXCEPT !.answer = Answer(text, "none")]
<1>1. request[c] \in Asked /\ Pending(c) /\ request[c].op = "ADDFILE"
  BY PendingType DEF Addfile, Waiting, ReqInv
<1>2. n = request[c].entry /\ request[c].path \in StoredPaths
  BY <1>1 DEF ReqInv, AnswersHold, AnswerHolds
<1>3. Lasting /\ paths' \in [Node -> [Names -> StoredPaths]] /\ asked' \in Nat
  BY AddfileLasts DEF Addfile, ReqInv, RequestTypes
<1>4. CASE AddFile(n, o)
  <2>1. /\ n \in Node /\ o \in Names /\ files' = [files EXCEPT ![n] = @ \cup {o}]
        /\ paths' = [paths EXCEPT ![n][o] = request[c].path]
        /\ request' = [request EXCEPT ![c] = r("OK")]
    BY <1>4, AddedName, AddedPath DEF Answered
  <2>2. o \in files'[n] /\ paths'[n][o] = request[c].path
    <3>1. /\ paths \in [Node -> [Names -> StoredPaths]]
          /\ files \in [Node -> SUBSET Names]
      BY DEF ReqInv, RequestTypes, DaemonInv, HolderInv, TypeInv, TypeOK
    <3> HIDE DEF n, o
    <3> QED BY <2>1, <3>1
  <2>3. Answer("OK", "none") \in Answers /\ Answer("OK", "none").text = "OK"
    BY DEF Answer, Answers
  <2>4. /\ r("OK") \in Asked /\ r("OK").answer = Answer("OK", "none")
        /\ r("OK").at = n /\ r("OK").name = o /\ r("OK").entry = request[c].entry
        /\ r("OK").path = request[c].path
    BY <1>1, <2>3 DEF Asked
  <2>5. Sound(r("OK"), files', paths')
    BY <1>2, <2>2, <2>3, <2>4 DEF Sound, AnswerHolds
  <2> HIDE DEF r
  <2> QED BY <1>3, <2>1, <2>5, OneRequest
<1>5. CASE Answered(c, Answer("exists", "none"))
  <2>1. request' = [request EXCEPT ![c] = r("exists")]
    BY <1>5 DEF Answered
  <2>2. Sound(r("exists"), files', paths')
    BY <1>1, SoundAnswer
  <2> HIDE DEF r
  <2> QED BY <1>3, <2>1, <2>2, OneRequest
<1> QED BY <1>4, <1>5 DEF Addfile

\* The steps that end a request, hand it on or find no daemon.
LEMMA WebserverSound ==
    ASSUME ReqInv, NEW c \in Client,
           FollowAnswer(c) \/ FinishUpload(c) \/ NoDaemon(c)
    PROVE  (RequestTypes /\ AnswersHold)'
<1>1. request[c] \in Asked /\ Pending(c)
  BY PendingType DEF FollowAnswer, FinishUpload, NoDaemon, ReqInv
<1>2. asked' \in Nat /\ UNCHANGED <<vars, paths>>
  BY DEF FollowAnswer, FinishUpload, NoDaemon, ReqInv, RequestTypes
<1>3. ASSUME NEW status \in Ended, Ends(c, status)
      PROVE  (RequestTypes /\ AnswersHold)'
  <2> DEFINE r == [NoRequest EXCEPT !.status = status]
  <2>1. r \in NotAsked /\ r.status = status /\ status # "pending"
    BY DEF NotAsked, NoRequest, Ended
  <2>2. Sound(r, files, paths)
    BY <2>1 DEF Sound
  <2>3. request' = [request EXCEPT ![c] = r]
    BY <1>3 DEF Ends
  <2> HIDE DEF r
  <2> QED BY <1>2, <2>2, <2>3, QuietRequest
<1>4. CASE request[c].op = "RDGET" /\ request[c].answer.text = "next" /\ HandOn(c)
  <2> DEFINE r == [request[c] EXCEPT !.at = request[c].answer.node, !.answer = NoAnswer]
  <2>1. request[c].answer.node \in Node
    BY <1>1, <1>4 DEF Asked, Answers
  <2>2. NoAnswer \in Answers /\ NoAnswer.text = "none"
    BY DEF NoAnswer, Answer, Answers
  <2>3. r \in Asked /\ r.op = "RDGET" /\ r.answer = NoAnswer
    BY <1>1, <1>4, <2>1, <2>2 DEF Asked
  <2>4. Sound(r, files, paths)
    BY <2>2, <2>3 DEF Sound, AnswerHolds
  <2>5. request' = [request EXCEPT ![c] = r]
    BY <1>4 DEF HandOn
  <2> HIDE DEF r
  <2> QED BY <1>2, <2>4, <2>5, QuietRequest
<1>5. CASE NoDaemon(c)
  BY <1>1, <1>2, <1>5, SoundAnswer, QuietRequest DEF NoDaemon, Answered
<1>6. ErrorSeen(c) \in Ended
  BY DEF ErrorSeen, Ended
<1>7. "file" \in Ended /\ "added" \in Ended /\ "error" \in Ended /\ "page" \in Ended
  BY DEF Ended
<1> QED BY <1>3, <1>4, <1>5, <1>6, <1>7 DEF FollowAnswer, FinishUpload

\* What a client asks for.
LEMMA AskMade ==
    ASSUME NEW c \in Client, Ask(c)
    PROVE  \E n \in Node, o \in Names, op \in {"RDGET", "ADDFILE"},
              path \in StoredPaths \cup {"none"} :
               /\ op = "ADDFILE" => path \in StoredPaths
               /\ request' = [request EXCEPT ![c] =
                                 [op |-> op, name |-> o, path |-> path, entry |-> n,
                                  at |-> n, answer |-> NoAnswer, status |-> "pending"]]
<1>1. PICK op \in {"RDGET", "ADDFILE"}, o \in Names, n \in Node :
      \E path \in IF op = "ADDFILE" THEN UploadPaths[n] ELSE {"none"} :
          request' = [request EXCEPT ![c] =
                         [op |-> op, name |-> o, path |-> path, entry |-> n, at |-> n,
                          answer |-> NoAnswer, status |-> "pending"]]
  BY DEF Ask
<1>2. PICK path \in IF op = "ADDFILE" THEN UploadPaths[n] ELSE {"none"} :
          request' = [request EXCEPT ![c] =
                         [op |-> op, name |-> o, path |-> path, entry |-> n, at |-> n,
                          answer |-> NoAnswer, status |-> "pending"]]
  BY <1>1
<1>3. UploadPaths[n] \subseteq StoredPaths
  BY RequestAssumption
<1>4. /\ path \in StoredPaths \cup {"none"}
      /\ op = "ADDFILE" => path \in StoredPaths
  BY <1>3
<1> QED BY <1>2, <1>4

LEMMA AskSound ==
    ASSUME ReqInv, NEW c \in Client, Ask(c)
    PROVE  (RequestTypes /\ AnswersHold)'
<1>1. PICK n \in Node, o \in Names, op \in {"RDGET", "ADDFILE"},
           path \in StoredPaths \cup {"none"} :
          /\ op = "ADDFILE" => path \in StoredPaths
          /\ request' = [request EXCEPT ![c] =
                            [op |-> op, name |-> o, path |-> path, entry |-> n,
                             at |-> n, answer |-> NoAnswer, status |-> "pending"]]
  BY AskMade
<1> DEFINE r == [op |-> op, name |-> o, path |-> path, entry |-> n, at |-> n,
                 answer |-> NoAnswer, status |-> "pending"]
<1>2. NoAnswer \in Answers /\ NoAnswer.text = "none"
  BY DEF NoAnswer, Answer, Answers
<1>3. r \in Asked
  BY <1>2 DEF Asked
<1>4. Sound(r, files, paths)
  BY <1>1, <1>2, <1>3 DEF Sound, AnswerHolds
<1>5. asked' \in Nat /\ UNCHANGED <<vars, paths>>
  BY DEF Ask, ReqInv, RequestTypes
<1>6. request' = [request EXCEPT ![c] = r]
  BY <1>1
<1> HIDE DEF r
<1> QED BY <1>4, <1>5, <1>6, QuietRequest

LEMMA NetworkSound ==
    ASSUME ReqInv, NetworkStep
    PROVE  (RequestTypes /\ AnswersHold)'
<1>1. PICK broken \in SUBSET {c \in Client : Pending(c)} :
          request' = [c \in Client |->
                         IF c \in broken
                         THEN [request[c] EXCEPT !.answer = Answer("lost", "none")]
                         ELSE request[c]]
  BY DEF NetworkStep
<1>2. Lasting /\ paths' \in [Node -> [Names -> StoredPaths]] /\ asked' \in Nat
  BY NetworkLasts, NetworkPaths DEF NetworkStep, ReqInv, RequestTypes
<1>3. ASSUME NEW c \in Client PROVE Sound(request'[c], files', paths')
  <2>1. CASE c \in broken
    BY <1>1, <2>1, SoundAnswer
  <2>2. CASE c \notin broken
    BY <1>1, <1>2, <2>2, SoundRequests, SoundKept
  <2> QED BY <2>1, <2>2
<1> QED BY <1>1, <1>2, <1>3, AllSound

(***************************************************************************)
(* The whole network.                                                      *)
(***************************************************************************)

LEMMA ReqStep == ReqInv /\ [ReqNext]_reqvars => ReqInv'
<1> SUFFICES ASSUME ReqInv, [ReqNext]_reqvars PROVE ReqInv'
  OBVIOUS
<1>1. DaemonInv'
  BY DaemonsKept DEF ReqInv
<1>2. CASE NetworkStep
  BY <1>1, <1>2, NetworkSound DEF ReqInv
<1>3. ASSUME NEW c \in Client, Ask(c) \/ Handling(c) PROVE ReqInv'
  BY <1>1, <1>3, AskSound, RdgetSound, AddfileSound, WebserverSound
     DEF ReqInv, Handling
<1>4. CASE UNCHANGED reqvars
  BY <1>1, <1>4 DEF ReqInv, RequestTypes, AnswersHold, Pending, reqvars, vars
<1> QED BY <1>2, <1>3, <1>4 DEF ReqNext

LEMMA ReqStart == ReqInit => ReqInv
<1> SUFFICES ASSUME ReqInit PROVE ReqInv
  OBVIOUS
<1>1. DaemonInv
  BY InitHeld, InitDown, InitHops, InitListed DEF ReqInit, DaemonInv
<1>2. NoRequest \in NotAsked /\ NoRequest.status # "pending"
  <2>1. NoRequest = [NoRequest EXCEPT !.status = "idle"] /\ NoRequest.status = "idle"
    BY DEF NoRequest
  <2> QED BY <2>1 DEF NotAsked
<1>3. RequestTypes /\ AnswersHold
  BY <1>2 DEF ReqInit, RequestTypes, AnswersHold, Pending, StoredPaths
<1> QED BY <1>1, <1>3 DEF ReqInv

\* Every variable has its type, and a request is only handed to a neighbour of
\* the node that was asked (flask_engine.c:335-342), in every network, whatever
\* dies while its request is handed on.
THEOREM RequestTypesCorrect == ReqSpec => []ReqTypeOK
<1>1. ASSUME ReqInv, NEW c \in Client, Pending(c), request[c].answer.text = "next"
      PROVE  request[c].answer.node \in Nbrs(request[c].at)
  BY <1>1 DEF ReqInv, AnswersHold, AnswerHolds
<1>2. ReqInv => ReqTypeOK
  BY <1>1 DEF ReqInv, DaemonInv, HolderInv, TypeInv, RequestTypes, ReqTypeOK
<1> QED BY <1>2, ReqStart, ReqStep, PTL DEF ReqSpec

\* A URI that was never written is answered for nothing but a file of the node's
\* own that was stored without a path (flask_engine.c:313-332): the tables of
\* global and of local objects name the same own files.
THEOREM OnlyPathlessFilesAreUnwritten == ReqSpec => []UnwrittenUriOnlyWithoutPath
<1>1. ASSUME ReqInv, NEW c \in Client, Pending(c), request[c].answer.text = "garbage"
      PROVE  /\ request[c].name \in files[request[c].at]
             /\ paths[request[c].at][request[c].name] # "file"
  BY <1>1 DEF ReqInv, AnswersHold, AnswerHolds
<1>2. ReqInv => UnwrittenUriOnlyWithoutPath
  BY <1>1 DEF UnwrittenUriOnlyWithoutPath
<1> QED BY <1>2, ReqStart, ReqStep, PTL DEF ReqSpec

(***************************************************************************)
(* The file service.                                                       *)
(***************************************************************************)

View == [c \in Client |-> Seen(request[c])]

KeptFiles == [n \in Node |-> Kept(n)]

LEMMA OneView ==
    ASSUME RequestTypes, NEW c \in Client, NEW r, request' = [request EXCEPT ![c] = r]
    PROVE  View' = [View EXCEPT ![c] = Seen(r)]
BY DEF View, RequestTypes

\* A request of which only the answer or the place changes looks the same.
LEMMA SameView ==
    ASSUME RequestTypes, NEW c \in Client, NEW r,
           request' = [request EXCEPT ![c] = r], Seen(r) = Seen(request[c])
    PROVE  View' = View
<1>1. View' = [View EXCEPT ![c] = Seen(request[c])]
  BY OneView
<1> QED BY <1>1 DEF View

LEMMA SameKept ==
    ASSUME UNCHANGED <<vars, paths>>
    PROVE  KeptFiles' = KeptFiles
BY DEF KeptFiles, Kept, vars

\* A request that ends is one the service ends.
LEMMA EndedView ==
    ASSUME RequestTypes, NEW c \in Client, Pending(c), NEW status \in Ended, Ends(c, status)
    PROVE  /\ View[c].status = "pending"
           /\ View' = [View EXCEPT ![c] =
                          Service!Over(IF status \in {"error", "page"}
                                       THEN "failed" ELSE status)]
<1> DEFINE r == [NoRequest EXCEPT !.status = status]
<1>1. Seen(r) = Service!Over(IF status \in {"error", "page"} THEN "failed" ELSE status)
  <2>1. /\ r.op = "none" /\ r.name = "none" /\ r.entry = "none" /\ r.status = status
        /\ (r.op = "ADDFILE" => r.path = "file") = TRUE
    BY DEF NoRequest
  <2> HIDE DEF r
  <2> QED BY <2>1, Zenon DEF Seen, Service!Over
<1>2. View' = [View EXCEPT ![c] = Seen(r)]
  BY OneView DEF Ends
<1>3. View[c].status = "pending"
  BY DEF View, Seen, Pending
<1> QED BY <1>1, <1>2, <1>3

LEMMA FailServes ==
    ASSUME ReqInv, NEW c \in Client, Pending(c), NEW status \in {"error", "page"},
           Ends(c, status), UNCHANGED <<vars, paths>>
    PROVE  [Service!Next]_(Service!vars)
<1>1. View[c].status = "pending"
      /\ View' = [View EXCEPT ![c] = Service!Over("failed")]
  BY EndedView DEF ReqInv, Ended
<1>2. KeptFiles' = KeptFiles
  BY SameKept
<1>3. Service!Fail(c)
  BY <1>1, <1>2 DEF Service!Fail, Service!Becomes, View, KeptFiles
<1> QED BY <1>3 DEF Service!Next

LEMMA FollowServes ==
    ASSUME ReqInv, NEW c \in Client, FollowAnswer(c)
    PROVE  [Service!Next]_(Service!vars)
<1>1. /\ request[c] \in Asked /\ Pending(c) /\ request[c].op = "RDGET"
      /\ UNCHANGED <<vars, paths>> /\ KeptFiles' = KeptFiles
  BY PendingType, SameKept DEF FollowAnswer, ReqInv
<1>2. View[c].op = "RDGET" /\ View[c].name = request[c].name
  BY <1>1 DEF View, Seen
<1>3. CASE request[c].answer.text = "own" /\ Ends(c, "file")
  <2>1. /\ request[c].at \in Node
        /\ request[c].name \in files[request[c].at]
        /\ paths[request[c].at][request[c].name] = "file"
    BY <1>1, <1>3 DEF ReqInv, AnswersHold, AnswerHolds, Asked
  <2>2. request[c].name \in KeptFiles[request[c].at]
    BY <2>1 DEF KeptFiles, Kept
  <2>3. /\ View[c].status = "pending"
        /\ View' = [View EXCEPT ![c] = Service!Over("file")]
    BY <1>1, <1>3, EndedView DEF ReqInv, Ended
  <2>4. Service!Serve(c)
    BY <1>1, <1>2, <2>1, <2>2, <2>3
       DEF Service!Serve, Service!Pending, Service!Becomes, View, KeptFiles
  <2> QED BY <2>4 DEF Service!Next
<1>4. CASE Ends(c, ErrorSeen(c)) \/ Ends(c, "page")
  BY <1>1, <1>4, FailServes DEF ErrorSeen
<1>5. CASE HandOn(c)
  <2> DEFINE r == [request[c] EXCEPT !.at = request[c].answer.node, !.answer = NoAnswer]
  <2>1. Seen(r) = Seen(request[c])
    BY <1>1 DEF Seen, Asked
  <2>2. request' = [request EXCEPT ![c] = r]
    BY <1>5 DEF HandOn, ReqInv
  <2>3. View' = View
    BY <2>1, <2>2, SameView DEF ReqInv
  <2> QED BY <1>1, <2>3 DEF Service!vars, View, KeptFiles
<1> QED BY <1>3, <1>4, <1>5 DEF FollowAnswer

LEMMA FinishServes ==
    ASSUME ReqInv, NEW c \in Client, FinishUpload(c)
    PROVE  [Service!Next]_(Service!vars)
<1>1. /\ request[c] \in Asked /\ Pending(c) /\ request[c].op = "ADDFILE"
      /\ UNCHANGED <<vars, paths>> /\ KeptFiles' = KeptFiles
  BY PendingType, SameKept DEF FinishUpload, ReqInv
<1>2. /\ View[c].op = "ADDFILE" /\ View[c].name = request[c].name
      /\ View[c].node = request[c].entry
      /\ View[c].oneword => request[c].path = "file"
  BY <1>1 DEF View, Seen
<1>3. CASE request[c].answer.text = "OK" /\ Ends(c, "added")
  <2>1. /\ request[c].at = request[c].entry /\ request[c].entry \in Node
        /\ request[c].name \in files[request[c].entry]
        /\ request[c].path = "file" =>
               paths[request[c].entry][request[c].name] = "file"
    BY <1>1, <1>3 DEF ReqInv, AnswersHold, AnswerHolds, Asked
  <2>2. request[c].path = "file" => request[c].name \in KeptFiles[request[c].entry]
    BY <2>1 DEF KeptFiles, Kept
  <2>3. /\ View[c].status = "pending"
        /\ View' = [View EXCEPT ![c] = Service!Over("added")]
    BY <1>1, <1>3, EndedView DEF ReqInv, Ended
  <2>4. Service!Confirm(c)
    BY <1>1, <1>2, <2>2, <2>3
       DEF Service!Confirm, Service!Pending, Service!Becomes, View, KeptFiles
  <2> QED BY <2>4 DEF Service!Next
<1>4. CASE Ends(c, "error")
  BY <1>1, <1>4, FailServes
<1> QED BY <1>3, <1>4 DEF FinishUpload

\* Only the answer of a request changes.
LEMMA AnsweredView ==
    ASSUME RequestTypes, NEW c \in Client, Pending(c), NEW a, Answered(c, a)
    PROVE  View' = View
<1>1. request[c] \in Asked
  BY PendingType
<1>2. Seen([request[c] EXCEPT !.answer = a]) = Seen(request[c])
  BY <1>1 DEF Seen, Asked
<1> QED BY <1>2, SameView DEF Answered

\* What a node keeps grows by the file that is added, if its path is stored.
LEMMA KeptGrows ==
    ASSUME NEW CONSTANT n \in Node, NEW CONSTANT o \in Names, NEW CONSTANT path,
           paths \in [Node -> [Names -> StoredPaths]],
           files \in [Node -> SUBSET Names], o \notin files[n],
           files' = [files EXCEPT ![n] = @ \cup {o}],
           paths' = [paths EXCEPT ![n][o] = path]
    PROVE  KeptFiles' = IF path = "file"
                        THEN [KeptFiles EXCEPT ![n] = @ \cup {o}] ELSE KeptFiles
<1>1. ASSUME NEW i \in Node, i # n PROVE Kept(i)' = Kept(i)
  <2>1. files'[i] = files[i] /\ paths'[i] = paths[i]
    BY <1>1
  <2> QED BY <2>1 DEF Kept
<1>2. Kept(n)' = IF path = "file" THEN Kept(n) \cup {o} ELSE Kept(n)
  <2>1. files'[n] = files[n] \cup {o} /\ paths'[n] = [paths[n] EXCEPT ![o] = path]
    OBVIOUS
  <2>2. paths'[n][o] = path /\ \A p \in files[n] : paths'[n][p] = paths[n][p]
    BY <2>1
  <2>3. \A p \in files[n] : p \in Kept(n)' <=> p \in Kept(n)
    BY <2>1, <2>2 DEF Kept
  <2>4. o \in Kept(n)' <=> path = "file"
    BY <2>1, <2>2 DEF Kept
  <2>5. o \notin Kept(n) /\ Kept(n) \subseteq files[n] /\ Kept(n)' \subseteq files[n] \cup {o}
    BY <2>1 DEF Kept
  <2>6. CASE path = "file"
    BY <2>3, <2>4, <2>5, <2>6
  <2>7. CASE path # "file"
    <3>1. Kept(n)' \subseteq Kept(n)
      BY <2>3, <2>4, <2>5, <2>7
    <3>2. Kept(n) \subseteq Kept(n)'
      BY <2>3, <2>5
    <3> QED BY <2>7, <3>1, <3>2
  <2> QED BY <2>6, <2>7
<1> QED BY <1>1, <1>2 DEF KeptFiles

LEMMA AddedKept ==
    ASSUME ReqInv, NEW c \in Client, Addfile(c),
           AddFile(request[c].at, request[c].name)
    PROVE  KeptFiles' = IF request[c].path = "file"
                        THEN [KeptFiles EXCEPT ![request[c].at] = @ \cup {request[c].name}]
                        ELSE KeptFiles
<1>1. PICK n \in Node, o \in Names, path \in StoredPaths :
          n = request[c].at /\ o = request[c].name /\ path = request[c].path
  BY AddedName
<1>2. /\ o \notin files[n]
      /\ files' = [files EXCEPT ![n] = @ \cup {o}]
      /\ paths' = [paths EXCEPT ![n][o] = path]
  BY <1>1, AddedName, AddedPath
<1>3. /\ paths \in [Node -> [Names -> StoredPaths]]
      /\ files \in [Node -> SUBSET Names]
  BY DEF ReqInv, RequestTypes, DaemonInv, HolderInv, TypeInv, TypeOK
<1>4. KeptFiles' = IF path = "file"
                   THEN [KeptFiles EXCEPT ![n] = @ \cup {o}] ELSE KeptFiles
  BY <1>2, <1>3, KeptGrows
<1> QED BY <1>1, <1>4

LEMMA AddfileServes ==
    ASSUME ReqInv, NEW c \in Client, Addfile(c)
    PROVE  [Service!Next]_(Service!vars)
<1>1. request[c] \in Asked /\ Pending(c) /\ request[c].op = "ADDFILE"
  BY PendingType DEF Addfile, Waiting, ReqInv
<1>2. View' = View
  BY <1>1, AnsweredView DEF Addfile, ReqInv
<1>3. CASE UNCHANGED <<vars, paths>>
  BY <1>2, <1>3, SameKept DEF Service!vars, View, KeptFiles
<1>4. CASE AddFile(request[c].at, request[c].name) /\ request[c].path # "file"
  BY <1>2, <1>4, AddedKept DEF Service!vars, View, KeptFiles
<1>5. CASE AddFile(request[c].at, request[c].name) /\ request[c].path = "file"
  <2>1. request[c].at = request[c].entry
    BY <1>1 DEF ReqInv, AnswersHold, AnswerHolds
  <2>2. /\ View[c].op = "ADDFILE" /\ View[c].status = "pending" /\ View[c].oneword
        /\ View[c].name = request[c].name /\ View[c].node = request[c].at
    BY <1>1, <1>5, <2>1 DEF View, Seen, Pending
  <2>3. KeptFiles' = [KeptFiles EXCEPT ![View[c].node] = @ \cup {View[c].name}]
    BY <1>5, <2>2, AddedKept
  <2>4. Service!Store(c)
    BY <1>2, <2>2, <2>3 DEF Service!Store, Service!Pending, View, KeptFiles
  <2> QED BY <2>4 DEF Service!Next
<1> QED BY <1>3, <1>4, <1>5 DEF Addfile

LEMMA AskServes ==
    ASSUME ReqInv, NEW c \in Client, Ask(c)
    PROVE  [Service!Next]_(Service!vars)
<1>1. PICK n \in Node, o \in Names, op \in {"RDGET", "ADDFILE"},
           path \in StoredPaths \cup {"none"} :
          request' = [request EXCEPT ![c] =
                         [op |-> op, name |-> o, path |-> path, entry |-> n,
                          at |-> n, answer |-> NoAnswer, status |-> "pending"]]
  BY AskMade
<1> DEFINE oneword == op = "ADDFILE" => path = "file"
<1>2. View' = [View EXCEPT ![c] = [op |-> op, name |-> o, node |-> n, oneword |-> oneword,
                                   status |-> "pending"]]
  BY <1>1, OneView DEF ReqInv, Seen
<1>3. View[c].status # "pending" /\ KeptFiles' = KeptFiles
  <2>1. request[c].status \notin {"pending", "failed"}
    <3>1. request[c] \in NotAsked
      BY DEF Ask, ReqInv, RequestTypes, Pending, Asked
    <3> QED BY <3>1 DEF NotAsked, NoRequest, Ended
  <2> QED BY <2>1, SameKept DEF Ask, View, Seen
<1>4. oneword \in BOOLEAN
  OBVIOUS
<1> HIDE DEF oneword
<1>5. Service!Ask(c)
  BY <1>2, <1>3, <1>4 DEF Service!Ask, View, KeptFiles
<1> QED BY <1>5 DEF Service!Next

LEMMA NetworkServes ==
    ASSUME ReqInv, NetworkStep
    PROVE  UNCHANGED <<KeptFiles, View>>
<1>1. PICK broken \in SUBSET {c \in Client : Pending(c)} :
          request' = [c \in Client |->
                         IF c \in broken
                         THEN [request[c] EXCEPT !.answer = Answer("lost", "none")]
                         ELSE request[c]]
  BY DEF NetworkStep
<1>2. ASSUME NEW c \in Client PROVE Seen(request'[c]) = Seen(request[c])
  <2>1. CASE c \in broken
    <3>1. request[c] \in Asked
      BY <2>1, PendingType DEF ReqInv
    <3> QED BY <1>1, <2>1, <3>1 DEF Seen, Asked
  <2> QED BY <1>1, <2>1
<1>3. ASSUME NEW n \in Node PROVE Kept(n)' = Kept(n)
  <2>1. files \in [Node -> SUBSET Names]
    BY DEF ReqInv, DaemonInv, HolderInv, TypeInv, TypeOK
  <2>2. files' = files /\ \A o \in Names : paths'[n][o] = "file" <=> paths[n][o] = "file"
    BY NetworkFiles, NetworkPaths DEF ReqInv
  <2> QED BY <2>1, <2>2 DEF Kept
<1> QED BY <1>2, <1>3 DEF View, KeptFiles

LEMMA ServiceStep == ReqInv /\ [ReqNext]_reqvars => [Service!Next]_(Service!vars)
<1> SUFFICES ASSUME ReqInv, [ReqNext]_reqvars PROVE [Service!Next]_(Service!vars)
  OBVIOUS
<1>1. CASE UNCHANGED <<KeptFiles, View>>
  BY <1>1 DEF Service!vars, View, KeptFiles
<1>2. ASSUME NEW c \in Client, Rdget(c) \/ NoDaemon(c)
      PROVE  UNCHANGED <<KeptFiles, View>>
  BY <1>2, AnsweredView, SameKept DEF Rdget, NoDaemon, Waiting, ReqInv
<1>3. ASSUME NEW c \in Client, Ask(c) \/ Handling(c)
      PROVE  [Service!Next]_(Service!vars)
  BY <1>1, <1>2, <1>3, AskServes, FollowServes, FinishServes, AddfileServes DEF Handling
<1>4. CASE UNCHANGED reqvars
  BY <1>1, <1>4, SameKept DEF reqvars, View
<1> QED BY <1>1, <1>3, <1>4, NetworkServes DEF ReqNext

\* At the start every file has its path.
LEMMA ServiceStart ==
    ReqInit => /\ [n \in Node |-> Kept(n)] = InitFiles
               /\ [c \in Client |-> Seen(request[c])] = [c \in Client |-> Service!Over("idle")]
<1> SUFFICES ASSUME ReqInit
             PROVE  /\ [n \in Node |-> Kept(n)] = InitFiles
                    /\ View = [c \in Client |-> Service!Over("idle")]
  BY DEF View
<1>1. [n \in Node |-> Kept(n)] = InitFiles
  BY FilesAssumption DEF ReqInit, Init, Kept
<1>2. View = [c \in Client |-> Service!Over("idle")]
  BY DEF ReqInit, View, Seen, NoRequest, Service!Over
<1> QED BY <1>1, <1>2

\* A file that a client gets is one a node keeps, and a file it was told is added
\* stays, if its name was one word, while daemons die and requests are handed from
\* node to node (readme.txt:12-21, 31-39): the network implements the file service.
THEOREM NetworkIsFileService == ReqSpec => IsFileService
<1>1. ReqInit => /\ [n \in Node |-> Kept(n)] = InitFiles
                 /\ [c \in Client |-> Seen(request[c])] = [c \in Client |-> Service!Over("idle")]
  BY ServiceStart
<1> QED BY <1>1, ReqStart, ReqStep, ServiceStep, PTL
        DEF ReqSpec, IsFileService, Service!Spec
=============================================================================
