---------------------------- MODULE ObjectTable ----------------------------
(***************************************************************************)
(* What hashset.c promises about the table of global objects, "gol".  A    *)
(* table h is a function whose domain is the set of names that have a      *)
(* pair in some bucket; h[o] is the nearest path known for o, or NULL when *)
(* the pair is there and its path_s is not (hash_remove_node frees a path  *)
(* and leaves the pair).  Buckets, chains and obj_names are left out here. *)
(***************************************************************************)
EXTENDS Integers

CONSTANT NULL    \* the C null pointer: no path, no LSA

Path(node_id, cost) == [node_id |-> node_id, cost |-> cost]

init_hash == [o \in {} |-> NULL]

contains_object(h, o) == o \in DOMAIN h

get_paths(h, o) == IF o \in DOMAIN h THEN h[o] ELSE NULL

\* Mutant of Nearer: the path heard of last is kept.
LatestHeard(old, cost) == TRUE

\* A path replaces the one a pair has only when it is strictly nearer.
Nearer(old, cost) == old = NULL \/ cost < old.cost

\* hash_add for every name of the set objs, all at the same node and cost.
hash_add(h, objs, node_id, cost) ==
    [o \in DOMAIN h \cup objs |->
        IF o \in objs /\ (o \notin DOMAIN h \/ Nearer(h[o], cost))
        THEN Path(node_id, cost)
        ELSE h[o]]

\* hash_remove_node for every node of the set ids.
hash_remove_node(h, ids) ==
    [o \in DOMAIN h |->
        IF h[o] # NULL /\ h[o].node_id \in ids THEN NULL ELSE h[o]]
=============================================================================
