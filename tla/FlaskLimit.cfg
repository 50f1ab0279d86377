SPECIFICATION MCFairSpec
CONSTANTS
    NULL = NULL
    c1 = c1
    c2 = c2
    c3 = c3
    c4 = c4
    o1 = o1
    me = me
    n2 = n2
    Client = {c1, c2}
    Names = {o1}
    my_node_id = me
    Others = {n2}
    Costs = {1}
    MAX_CONNECTIONS = 8
    INITIAL_NFDS = 5
    FLOODING_PERIOD = 3
    Datagrams = FALSE
    MaxResets = 0
PROPERTIES
    FloodingGoesOn
