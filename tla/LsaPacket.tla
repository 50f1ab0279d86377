----------------------------- MODULE LsaPacket -----------------------------
(***************************************************************************)
(* The bytes of an LSA: create_packet lays a daemon's links and the names  *)
(* of its objects out in memory, and store_node_objects finds the names    *)
(* again in what arrived.  A field is known by its offset in links_objects; *)
(* a text is a record with its strlen in size.                             *)
(***************************************************************************)
EXTENDS Integers, Sequences

CONSTANTS
    MAX_LSA_LEN,    \* 1024 in constants.h
    MAX_OBJ_LEN,    \* 64 in constants.h: a name and its zero
    NumLinks        \* lines in the .conf file, the node's own with them

ASSUME PacketAssumption ==
    MAX_LSA_LEN \in Nat /\ MAX_OBJ_LEN \in Nat /\ NumLinks \in Nat \ {0}

SIZEOF_INT == 4

SIZEOF_LSA == 5 * SIZEOF_INT

\* What is read where nothing was written.
Garbage == [is |-> "garbage", size |-> 0, value |-> 0]

\* Mutant of links_written: the node itself is counted as a link of its own.
AllLinks == NumLinks

\* The ids of the links are written from link 1 on.
links_written == NumLinks - 1

\* Where the first i names end: the length of each name is written before it.
Offsets(names) ==
    LET end[i \in 0 .. Len(names)] ==
            IF i = 0 THEN (NumLinks - 1) * SIZEOF_INT
            ELSE end[i - 1] + (SIZEOF_INT + names[i].size)
    IN  end

\* The space for the links is computed with the node's own: the last four bytes
\* sent are never written.
create_packet(names) ==
    LET n   == Len(names)
        end == Offsets(names)
    IN  [num_links |-> links_written,
         num_objects |-> n,
         lengths |-> {[at |-> end[i - 1], value |-> names[i].size] : i \in 1 .. n},
         texts |-> {[at |-> end[i - 1] + SIZEOF_INT, value |-> names[i]] : i \in 1 .. n},
         size |-> SIZEOF_LSA + end[n] + SIZEOF_INT]

\* recvfrom cuts off what is beyond MAX_LSA_LEN.
rt_recvfrom(lsa) ==
    [lsa EXCEPT
        !.lengths = {f \in @ : SIZEOF_LSA + f.at + SIZEOF_INT <= MAX_LSA_LEN},
        !.texts = {f \in @ : SIZEOF_LSA + f.at + f.value.size <= MAX_LSA_LEN},
        !.size = IF @ > MAX_LSA_LEN THEN MAX_LSA_LEN ELSE @]

LengthAt(lsa, at) ==
    IF \E f \in lsa.lengths : f.at = at
    THEN (CHOOSE f \in lsa.lengths : f.at = at).value
    ELSE 0

\* A text is copied to object[MAX_OBJ_LEN] whatever its length is: what becomes of
\* one that does not fit, and of the stack around it, is undefined, and Garbage
\* stands for it.
TextAt(lsa, at, len) ==
    LET here == {f \in lsa.texts :
                    f.at = at /\ f.value.size = len /\ len < MAX_OBJ_LEN}
    IN  IF here = {} THEN Garbage ELSE (CHOOSE f \in here : TRUE).value

\* Where store_node_objects stands after i names, and which they were.
Walk(lsa) ==
    LET read[i \in 0 .. lsa.num_objects] ==
            IF i = 0
            THEN [lsa_index |-> lsa.num_links * SIZEOF_INT, objects |-> <<>>]
            ELSE LET at  == read[i - 1].lsa_index
                     len == LengthAt(lsa, at)
                 IN  [lsa_index |-> at + SIZEOF_INT + len,
                      objects |-> Append(read[i - 1].objects,
                                         TextAt(lsa, at + SIZEOF_INT, len))]
    IN  read

\* The names store_node_objects hands to hash_add, in the order of the packet.
store_node_objects(lsa) == Walk(lsa)[lsa.num_objects].objects
=============================================================================
