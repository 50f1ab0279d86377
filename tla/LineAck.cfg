SPECIFICATION MCFairSpec
CONSTANTS
    NULL = NULL
    n1 = n1
    n2 = n2
    n3 = n3
    n4 = n4
    o1 = o1
    o2 = o2
    Node = {n1, n2, n3}
    Names = {o1}
    Conf <- LineConf
    Host <- OwnHost
    InitFiles <- FirstHasFile
    DEFAULT_TTL = 3
    RETRANSMIT_TIME = 3
    FLOODING_PERIOD = 5
    INITIAL_STATUS = 3
    Booted = {n1, n2, n3}
    UninitReads = {"short", "long", "fault"}
    Duplicating = FALSE
    Timely = TRUE
    EqualClocks = TRUE
    MaxSeq <- Floods3
    MaxLosses = 0
    MaxDeaths = 0
PROPERTIES
    RetransmitsOnlyWithoutAck
