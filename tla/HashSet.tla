------------------------------ MODULE HashSet ------------------------------
(***************************************************************************)
(* hashset.c: buckets of chained pairs and the array obj_names of all the  *)
(* names, which hash_remove_node goes through to find every pair.          *)
(***************************************************************************)
EXTENDS Integers, Sequences, FiniteSets

CONSTANTS
    NULL,
    Names,       \* object names
    Nodes,       \* node ids
    Costs,
    HASHSIZE,    \* number of buckets, 9377 in constants.h
    MAXOBJNUM,   \* room in obj_names, 9377 in constants.h; bounds the calls too
    Bucket,      \* Bucket[o]: super_fast_hash of o, modulo HASHSIZE
    Empty        \* the name of no characters

ASSUME ParameterAssumption ==
    /\ HASHSIZE \in Nat \ {0} /\ MAXOBJNUM \in Nat
    /\ Bucket \in [Names -> 0 .. HASHSIZE - 1]
    /\ Empty \notin Names
    /\ Costs \subseteq Nat
    /\ NULL \notin [node_id : Nodes, cost : Costs]

VARIABLES hash, obj_names, num_objs

vars == <<hash, obj_names, num_objs>>

Path(node_id, cost) == [node_id |-> node_id, cost |-> cost]

\* The positions of name o in its chain.
Found(o) == {i \in DOMAIN hash[Bucket[o]] : hash[Bucket[o]][i].obj_name = o}

\* Mutant of link_contains_obj: only the header of the chain is looked at.
HeaderContainsObj(o) == Found(o) \cap {1}

\* What a walk along the chain finds: the first position, if there is any.
link_contains_obj(o) == {i \in Found(o) : \A j \in Found(o) : i <= j}

contains_object(o) == IF num_objs = 0 THEN {} ELSE link_contains_obj(o)

get_paths(o) ==
    IF contains_object(o) = {} THEN NULL
    ELSE hash[Bucket[o]][CHOOSE i \in contains_object(o) : TRUE].path_s

EmptyHash == [b \in 0 .. HASHSIZE - 1 |-> << >>]

EmptyNames == [i \in 0 .. MAXOBJNUM - 1 |-> Empty]

init_hash == hash = EmptyHash /\ obj_names = EmptyNames /\ num_objs = 0

-----------------------------------------------------------------------------
\* Mutant of Nearer: a path of the same cost replaces the one there is.
NotFarther(curr_nearest, cost) == curr_nearest = NULL \/ curr_nearest.cost >= cost

Nearer(curr_nearest, cost) == curr_nearest = NULL \/ curr_nearest.cost > cost

\* hash_add for a name that has a pair.
AddPath(o, node_id, cost) ==
    \E i \in contains_object(o) :
        /\ hash' = IF Nearer(hash[Bucket[o]][i].path_s, cost)
                   THEN [hash EXCEPT ![Bucket[o]][i].path_s = Path(node_id, cost)]
                   ELSE hash
        /\ UNCHANGED <<obj_names, num_objs>>

\* hash_add for a name that has none: the pair becomes the header of its chain.
\* Nothing in the code compares num_objs with the size of obj_names.
AddPair(o, node_id, cost) ==
    /\ contains_object(o) = {}
    /\ num_objs < MAXOBJNUM
    /\ hash' = [hash EXCEPT ![Bucket[o]] =
                   <<[obj_name |-> o, path_s |-> Path(node_id, cost)]>> \o @]
    /\ obj_names' = [obj_names EXCEPT ![num_objs] = o]
    /\ num_objs' = num_objs + 1

hash_add(o, node_id, cost) == AddPath(o, node_id, cost) \/ AddPair(o, node_id, cost)

\* The names that hash_remove_node looks up.
Listed == {obj_names[i] : i \in 0 .. num_objs - 1}

hash_remove_node(node_id) ==
    /\ hash' = [b \in DOMAIN hash |-> [i \in DOMAIN hash[b] |->
                  LET pair == hash[b][i]
                  IN  IF /\ pair.obj_name \in Listed
                         /\ i \in link_contains_obj(pair.obj_name)
                         /\ pair.path_s # NULL /\ pair.path_s.node_id = node_id
                      THEN [pair EXCEPT !.path_s = NULL]
                      ELSE pair]]
    /\ UNCHANGED <<obj_names, num_objs>>

Without(chain, i) == SubSeq(chain, 1, i - 1) \o SubSeq(chain, i + 1, Len(chain))

\* Mutant of OneLess: hash_remove_object and remove_obj_from_objset both count.
TwoLess(n) == n - 2

OneLess(n) == n - 1

\* The pair is unlinked, the name is wiped out of obj_names where it stands, and
\* the names after it are not moved up.
hash_remove_object(o) ==
    \E i \in contains_object(o) :
        /\ hash' = [hash EXCEPT ![Bucket[o]] = Without(@, i)]
        /\ num_objs' = OneLess(num_objs)
        /\ obj_names' = [j \in DOMAIN obj_names |->
                            IF obj_names[j] = o THEN Empty ELSE obj_names[j]]

\* The table is left as it is when it is taken to be empty.
collapse ==
    /\ num_objs # 0
    /\ hash' = EmptyHash /\ obj_names' = EmptyNames /\ num_objs' = 0

Next ==
    \/ \E o \in Names, k \in Nodes, c \in Costs : hash_add(o, k, c)
    \/ \E k \in Nodes : hash_remove_node(k)
    \/ \E o \in Names : hash_remove_object(o)    \* called by no code in rd/
    \/ collapse

Spec == init_hash /\ [][Next]_vars

-----------------------------------------------------------------------------
Pairs == [obj_name : Names, path_s : [node_id : Nodes, cost : Costs] \cup {NULL}]

\* Every variable has its type.
TypeOK ==
    /\ hash \in [0 .. HASHSIZE - 1 -> Seq(Pairs)]
    /\ obj_names \in [0 .. MAXOBJNUM - 1 -> Names \cup {Empty}]
    /\ num_objs \in 0 .. MAXOBJNUM

\* A name has at most one pair, in its own bucket, so that a path that is
\* removed or replaced does not uncover an older one further down the chain; and
\* num_objs, which every lookup tests first, counts the pairs (hashset.c:55,79).
OnePairPerName ==
    LET places == UNION {{<<b, i>> : i \in DOMAIN hash[b]} : b \in DOMAIN hash}
    IN  /\ \A p, q \in places :
               hash[p[1]][p[2]].obj_name = hash[q[1]][q[2]].obj_name => p = q
        /\ \A p \in places : Bucket[hash[p[1]][p[2]].obj_name] = p[1]
        /\ num_objs = Cardinality(places)

\* The names with a pair are all listed in obj_names: it may fail after an object
\* was removed, and hold again after the table is emptied.
AllListed == UNION {{hash[b][i].obj_name : i \in DOMAIN hash[b]} : b \in DOMAIN hash}
                 \subseteq Listed

\* The buckets and the array behave as one function from names to nearest paths:
\* adding, removing an object and looking up always do, removing a node's paths
\* as long as obj_names lists every name (hashset.c:109-263).
Table ==
    INSTANCE GlobalObjects WITH
        table <- [o \in {n \in Names : contains_object(n) # {}} |-> get_paths(o)],
        trusted <- AllListed

IsTable == Table!Spec
=============================================================================
