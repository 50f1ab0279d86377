SPECIFICATION MCSpec
CONSTANTS
    NULL = NULL
    n1 = n1
    n2 = n2
    n3 = n3
    n4 = n4
    o1 = o1
    o2 = o2
    Node = {n1, n2}
    Names = {o1}
    Conf <- PairConf
    Host <- OwnHost
    InitFiles <- NoFiles
    DEFAULT_TTL = 3
    RETRANSMIT_TIME = 2
    FLOODING_PERIOD = 3
    INITIAL_STATUS = 1
    Booted = {n1, n2}
    UninitReads = {}
    Duplicating = TRUE
    Timely = FALSE
    EqualClocks = FALSE
    MaxSeq <- Floods2
    MaxLosses = 0
    MaxDeaths = 1
INVARIANTS
    KnownNameIsHeld
    TypeOK
    ForwardableHasLsa
    NoObjectOfADownNode
