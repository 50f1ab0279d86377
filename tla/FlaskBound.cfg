SPECIFICATION MCSpec
CONSTANTS
    NULL = NULL
    c1 = c1
    c2 = c2
    c3 = c3
    c4 = c4
    o1 = o1
    me = me
    n2 = n2
    Client = {c1, c2, c3}
    Names = {o1}
    my_node_id = me
    Others = {n2}
    Costs = {1}
    MAX_CONNECTIONS = 7
    INITIAL_NFDS = 5
    FLOODING_PERIOD = 1
    Datagrams = FALSE
    MaxResets = 1
INVARIANTS
    ConnectionsInBounds
SYMMETRY Alike
