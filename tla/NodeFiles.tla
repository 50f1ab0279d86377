----------------------------- MODULE NodeFiles -----------------------------
(***************************************************************************)
(* One node's files: the request with which the webserver adds one, the    *)
(* line that is written for it in the .files file, the daemon's tables     *)
(* that are loaded from those lines when it starts again, the LSA made     *)
(* from them and the table a neighbour makes from that LSA.                *)
(*                                                                         *)
(* Texts are records: is and value tell them apart, size is their strlen   *)
(* and value their atoi.  The name a client gives is a sequence of words.  *)
(*                                                                         *)
(* The buffers for a name, in object_entry, pair and store_node_objects,   *)
(* have MAX_OBJ_LEN bytes and no copy to them is tested: a longer word runs *)
(* into the path or the pointer behind it.  What the tables hold then is    *)
(* undefined, and everything here is said of words that fit.               *)
(***************************************************************************)
EXTENDS ObjectTable, LsaPacket, Functions

CONSTANTS
    Words,        \* the words of the names clients give, each shorter than MAX_OBJ_LEN
    Uploads,      \* the names of the uploads, sequences of one or more words
    PathNames,    \* the paths the webserver stores files under
    InitLines,    \* the .files file to begin with
    Me, Other,    \* this node's id, another's
    MaxFiles      \* bound: the lines of the .files file

Identities ==
    {"", "newline", "number", "piece"} \cup {text.is : text \in Words \cup PathNames}

Texts == [is : Identities, size : Nat, value : Nat]

\* No word or path is empty, no word is the decimal of a negative number, and every
\* word fits into name[MAX_OBJ_LEN] with its zero.
ASSUME TextAssumption ==
    /\ \A text \in Words \cup PathNames : text \in Texts /\ text.size # 0
    /\ \A word \in Words : word.size < MAX_OBJ_LEN
    /\ \A words \in Uploads : words \in Seq(Words) /\ words # << >>

\* The .files file to begin with has no name twice.
ASSUME FileAssumption ==
    /\ InitLines \in Seq([name : Words, path : Texts])
    /\ \A i, j \in DOMAIN InitLines : InitLines[i].name = InitLines[j].name => i = j

ASSUME NodeAssumption ==
    /\ Me # Other /\ MaxFiles \in Nat
    /\ NULL \notin [node_id : {Me, Other}, cost : Nat]

VARIABLES
    lines,        \* the .files file
    ol,           \* the table of local objects
    gol,          \* the table of global objects
    added,        \* the path of every one-word name whose ADDFILE was answered OK
    neighbour     \* what the last flood sent, and what a neighbour stored

memory == <<ol, gol>>
nodevars == <<lines, memory, added, neighbour>>

Line(name, path) == [name |-> name, path |-> path]

NamesOf(entries) == [i \in DOMAIN entries |-> entries[i].name]

Empty == [is |-> "", size |-> 0, value |-> 0]

Newline == [is |-> "newline", size |-> 1, value |-> 0]

Decimal(n) ==
    [is |-> "number", size |-> IF n < 10 THEN 1 ELSE IF n < 100 THEN 2 ELSE 3,
     value |-> n]

\* A text that is cut off: only its size is known.
Piece(n) == [is |-> "piece", size |-> n, value |-> 0]

strncpy(text, n) ==
    IF n = 0 THEN Empty ELSE IF n >= text.size THEN text ELSE Piece(n)

-----------------------------------------------------------------------------
(***************************************************************************)
(* Requests.  webserver.py puts the name between spaces whatever it is;    *)
(* process_buffer takes the words one by one.                              *)
(***************************************************************************)

\* The lengths of the first i words with a space before each but the first.
Lengths(words) ==
    LET len[i \in 0 .. Len(words)] ==
            IF i = 0 THEN -1 ELSE len[i - 1] + (1 + words[i].size)
    IN  len

\* len of the whole name.
NameLength(words) == Lengths(words)[Len(words)]

AddfileWords(words, path) ==
    <<Decimal(NameLength(words))>> \o words \o <<Decimal(path.size), path>>

RdgetWords(words) == <<Decimal(NameLength(words))>> \o words

\* Mutant of process_buffer: the words are counted from the method.
ShiftedWords(request) ==
    [name |-> strncpy(request[1], request[1].value),
     path |-> IF Len(request) >= 4 THEN strncpy(request[4], request[3].value) ELSE Empty]

\* request is what follows the method: tokens[1] to tokens[4].
process_buffer(request) ==
    [name |-> strncpy(request[2], request[1].value),
     path |-> IF Len(request) >= 4 THEN strncpy(request[4], request[3].value) ELSE Empty]

-----------------------------------------------------------------------------
(***************************************************************************)
(* The .files file.                                                        *)
(***************************************************************************)

\* strtok at spaces leaves the newline on the path.  The webserver's urlopen
\* strips it off; of an empty path it is all there is.
PathRead(path) == IF path = Empty THEN Newline ELSE path

load_node_file(file) == [i \in DOMAIN file |-> Line(file[i].name, PathRead(file[i].path))]

\* What a started daemon's table of global objects holds.
LoadedGol(file) == hash_add(init_hash, {file[i].name : i \in DOMAIN file}, Me, 0)

NodeInit ==
    /\ lines = InitLines
    /\ ol = load_node_file(InitLines)
    /\ gol = LoadedGol(InitLines)
    /\ added = [w \in {} |-> Empty]
    /\ neighbour = [sent |-> <<>>, stored |-> <<>>, size |-> 0]

\* The daemon dies and is started again.
Restart ==
    /\ ol' = load_node_file(lines)
    /\ gol' = LoadedGol(lines)
    /\ UNCHANGED <<lines, added, neighbour>>

\* Mutant of Appended: the file is opened for writing.
Overwritten(file, line) == <<line>>

Appended(file, line) == Append(file, line)

-----------------------------------------------------------------------------
(***************************************************************************)
(* The daemon's answers.                                                   *)
(***************************************************************************)

\* Mutant of Refused: the table of global objects is not asked.
NeverRefused(h, name) == FALSE

Refused(h, name) == contains_object(h, name)

\* The ADDFILE branch of build_response up to its answer.
Stores(request) ==
    /\ Len(lines) < MaxFiles
    /\ ~Refused(gol, request.name)
    /\ lines' = Appended(lines, Line(request.name, request.path))

\* The answer is only taken to promise something to a client whose name has no
\* space in it.
Addfile(words, path) ==
    LET request == process_buffer(AddfileWords(words, path))
    IN  /\ Stores(request)
        /\ gol' = hash_add(gol, {request.name}, Me, 0)
        /\ ol' = Append(ol, Line(request.name, request.path))
        /\ added' = IF Len(words) = 1
                    THEN [w \in DOMAIN added \cup {words[1]} |->
                             IF w = words[1] THEN path ELSE added[w]]
                    ELSE added
        /\ UNCHANGED neighbour

\* The daemon dies after it has written the line, and starts again; the client
\* gets no answer.
AddfileUnanswered(words, path) ==
    /\ Stores(process_buffer(AddfileWords(words, path)))
    /\ ol' = load_node_file(lines')
    /\ gol' = LoadedGol(lines')
    /\ UNCHANGED <<added, neighbour>>

\* The first local object of the name.
get_local_file_path(name) ==
    LET hits == {i \in DOMAIN ol : ol[i].name = name}
    IN  IF hits = {} THEN Empty
        ELSE ol[CHOOSE i \in hits : \A j \in hits : i <= j].path

\* The path in the answer to an RDGET; NULL where there is none in it.
RdgetPath(words) ==
    LET name == process_buffer(RdgetWords(words)).name
        obj  == get_paths(gol, name)
    IN  IF obj = NULL \/ obj.node_id # Me \/ get_local_file_path(name) = Empty
        THEN NULL ELSE get_local_file_path(name)

-----------------------------------------------------------------------------
(***************************************************************************)
(* The other nodes.                                                        *)
(***************************************************************************)

\* The LSA of a node two hops away, whose TTL has not wrapped, names a file; that
\* node is given up.
Learn(w) == gol' = hash_add(gol, {w}, Other, 2) /\ UNCHANGED <<lines, ol, added, neighbour>>

GiveUp == gol' = hash_remove_node(gol, {Other}) /\ UNCHANGED <<lines, ol, added, neighbour>>

Flood ==
    LET lsa == create_packet(NamesOf(ol))
    IN  /\ neighbour' = [sent |-> NamesOf(ol), size |-> lsa.size,
                         stored |-> store_node_objects(rt_recvfrom(lsa))]
        /\ UNCHANGED <<lines, memory, added>>

NodeNext ==
    \/ \E words \in Uploads, path \in PathNames :
           Addfile(words, path) \/ AddfileUnanswered(words, path)
    \/ \E w \in Words : Learn(w)
    \/ GiveUp \/ Flood \/ Restart

NodeSpec == NodeInit /\ [][NodeNext]_nodevars

-----------------------------------------------------------------------------
Entries == [name : Words, path : Texts]

\* Every variable has its type: an entry's name is always a word that a client
\* gave, never a length or a path out of the same request.
NodeTypeOK ==
    /\ lines \in Seq(Entries)
    /\ ol \in Seq(Entries)
    /\ DOMAIN gol \subseteq Words
    /\ \A w \in DOMAIN gol : gol[w] = NULL \/ gol[w] \in [node_id : {Me, Other}, cost : Nat]
    /\ added \in [DOMAIN added -> PathNames]

\* A file that was added under a name without spaces that fits into name[MAX_OBJ_LEN]
\* is found again under that name with its own path: also after any restarts, with names in between that
\* the words of a request were taken apart from, and while other nodes have
\* files of that name (flask_engine.c:243-259, 271-283, 361-366,
\* file_loader.c:143-155).
FilesSurviveRestart == \A w \in DOMAIN added : RdgetPath(<<w>>) = added[w]

\* The three places a node keeps its names in agree, whatever was restarted when,
\* and no name is in one of them twice: build_response and create_packet each
\* read another of them.  The paths beside the names are not compared, and names
\* that overrun their buffers are left out.
TablesAgree ==
    /\ NamesOf(ol) = NamesOf(lines)
    /\ IsInjective(NamesOf(ol))
    /\ \A w \in DOMAIN gol :
           (gol[w] # NULL /\ gol[w].node_id = Me) <=> \E i \in DOMAIN ol : ol[i].name = w

\* A neighbour stores exactly the names that were sent, wherever the lengths and
\* texts come to lie, as long as each name fits into object[MAX_OBJ_LEN] and at most
\* the four bytes that are never written are cut off (flooding_engine.c:262-297, 340,
\* 601-618).
StoredIsSent ==
    neighbour.size <= MAX_LSA_LEN + SIZEOF_INT => neighbour.stored = neighbour.sent
=============================================================================
