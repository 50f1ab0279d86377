--------------------------- MODULE GlobalObjects ---------------------------
(***************************************************************************)
(* The table of global objects as its callers may think of it: a function  *)
(* that changes by the operations of ObjectTable, one call at a time.      *)
(* The operation nobody in rd/ calls, the removal of an object, does what  *)
(* it says, and takes away the trust in later removals of a node's paths.  *)
(***************************************************************************)
EXTENDS ObjectTable

CONSTANTS Names, Nodes, Costs

VARIABLES
    table,
    trusted    \* hash_remove_node still finds every name

vars == <<table, trusted>>

Add(o, k, c) == table' = hash_add(table, {o}, k, c) /\ UNCHANGED trusted

RemoveNode(k) ==
    /\ \E found \in SUBSET DOMAIN table :
           /\ trusted => found = DOMAIN table
           /\ table' = [o \in DOMAIN table |->
                           IF o \in found THEN hash_remove_node(table, {k})[o]
                           ELSE table[o]]
    /\ UNCHANGED trusted

RemoveObject(o) ==
    /\ o \in DOMAIN table
    /\ table' = [p \in DOMAIN table \ {o} |-> table[p]]
    /\ trusted' \in BOOLEAN

Collapse == table' = init_hash /\ trusted' = TRUE

Next ==
    \/ \E o \in Names, k \in Nodes, c \in Costs : Add(o, k, c)
    \/ \E k \in Nodes : RemoveNode(k)
    \/ \E o \in Names : RemoveObject(o)
    \/ Collapse

Spec == table = init_hash /\ trusted = TRUE /\ [][Next]_vars
=============================================================================
