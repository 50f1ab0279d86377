SPECIFICATION MCFairSpec
CONSTANTS
    NULL = NULL
    n1 = n1
    n2 = n2
    n3 = n3
    n4 = n4
    o1 = o1
    o2 = o2
    Node = {n1, n2}
    Names = {o1}
    Conf <- PairConf
    Host <- OwnHost
    InitFiles <- FirstHasFile
    DEFAULT_TTL = 3
    RETRANSMIT_TIME = 3
    FLOODING_PERIOD = 4
    INITIAL_STATUS = 2
    Booted = {n1, n2}
    UninitReads = {}
    Duplicating = FALSE
    Timely = TRUE
    EqualClocks = FALSE
    MaxSeq <- Floods2
    MaxLosses = 1
    MaxDeaths = 1
PROPERTIES
    GivenUpNeighbourIsTakenBack
    DeadNeighbourIsForgotten
