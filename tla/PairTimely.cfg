SPECIFICATION MCFairSpec
CONSTANTS
    NULL = NULL
    n1 = n1
    n2 = n2
    n3 = n3
    n4 = n4
    o1 = o1
    o2 = o2
    Node = {n1, n2}
    Names = {o1, o2}
    Conf <- PairConf
    Host <- OwnHost
    InitFiles <- FirstHasFile
    DEFAULT_TTL = 3
    RETRANSMIT_TIME = 3
    FLOODING_PERIOD = 5
    INITIAL_STATUS = 3
    Booted = {n1, n2}
    UninitReads = {}
    Duplicating = FALSE
    Timely = TRUE
    EqualClocks = TRUE
    MaxSeq <- Floods4
    MaxLosses = 0
    MaxDeaths = 0
INVARIANTS
    LiveNeighbourIsNotDown
PROPERTIES
    RetransmitsOnlyWithoutAck
    NeighbourLearns
