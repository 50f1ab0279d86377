SPECIFICATION Spec
CONSTANTS
    NULL = NULL
    Empty = Empty
    o1 = o1
    o2 = o2
    o3 = o3
    n1 = n1
    n2 = n2
    Names = {o1, o2, o3}
    Nodes = {n1, n2}
    Costs = {0, 1, 2}
    HASHSIZE = 2
    MAXOBJNUM = 3
    Bucket <- Shared
INVARIANTS
    TypeOK
    OnePairPerName
PROPERTIES
    IsTable
