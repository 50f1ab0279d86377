SPECIFICATION MCSpec
CONSTANTS
    NULL = NULL
    n1 = n1
    n2 = n2
    n3 = n3
    n4 = n4
    o1 = o1
    o2 = o2
    Node = {n1, n2, n3, n4}
    Names = {o1}
    Conf <- Line4Conf
    Host <- OwnHost
    InitFiles <- FirstHasFile
    DEFAULT_TTL = 4
    RETRANSMIT_TIME = 1
    FLOODING_PERIOD = 2
    INITIAL_STATUS = 3
    Booted = {n1, n2, n3, n4}
    UninitReads = {"short", "long", "fault"}
    Duplicating = FALSE
    Timely = TRUE
    EqualClocks = FALSE
    MaxSeq <- LineFloods
    MaxLosses = 0
    MaxDeaths = 1
INVARIANTS
    PathsLeadToHolders
