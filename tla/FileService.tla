---------------------------- MODULE FileService ----------------------------
(***************************************************************************)
(* The network of readme.txt as its clients may think of it: they ask any  *)
(* node for a file or to add one, and the files are never taken away.  How *)
(* the nodes find a file, and that they may die, does not appear.          *)
(***************************************************************************)
CONSTANTS
    Node,
    Names,        \* object names
    Client,
    InitFiles     \* InitFiles[n]: the names of node n's files at the start

VARIABLES
    files,        \* files[n]: the names of the files node n keeps
    view          \* view[c]: what client c asks for, or what it got last

vars == <<files, view>>

\* Nothing is asked for.
Over(status) ==
    [op |-> "none", name |-> "none", node |-> "none", oneword |-> TRUE,
     status |-> status]

Pending(c, op) == view[c].op = op /\ view[c].status = "pending"

Becomes(c, status) == view' = [view EXCEPT ![c] = Over(status)]

Ask(c) ==
    /\ view[c].status # "pending"
    /\ \E op \in {"RDGET", "ADDFILE"}, o \in Names, n \in Node, oneword \in BOOLEAN :
           view' = [view EXCEPT ![c] =
                       [op |-> op, name |-> o, node |-> n, oneword |-> oneword,
                        status |-> "pending"]]
    /\ UNCHANGED files

\* A file that a client gets is one that some node keeps.
Serve(c) ==
    /\ Pending(c, "RDGET")
    /\ \E n \in Node : view[c].name \in files[n]
    /\ Becomes(c, "file")
    /\ UNCHANGED files

\* A file is stored because a client asked this node to, under a name of one
\* word, ...
Store(c) ==
    /\ Pending(c, "ADDFILE") /\ view[c].oneword
    /\ files' = [files EXCEPT ![view[c].node] = @ \cup {view[c].name}]
    /\ UNCHANGED view

\* ... and is there for good when the client is told so.  Of a file whose name has
\* spaces in it the answer promises nothing.
Confirm(c) ==
    /\ Pending(c, "ADDFILE")
    /\ view[c].oneword => view[c].name \in files[view[c].node]
    /\ Becomes(c, "added")
    /\ UNCHANGED files

Fail(c) ==
    /\ view[c].status = "pending"
    /\ Becomes(c, "failed")
    /\ UNCHANGED files

Next == \E c \in Client : Ask(c) \/ Serve(c) \/ Store(c) \/ Confirm(c) \/ Fail(c)

Spec ==
    /\ files = InitFiles
    /\ view = [c \in Client |-> Over("idle")]
    /\ [][Next]_vars
=============================================================================
