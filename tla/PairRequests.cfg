SPECIFICATION MCReqFairSpec
CONSTANTS
    NULL = NULL
    n1 = n1
    n2 = n2
    n3 = n3
    n4 = n4
    o1 = o1
    o2 = o2
    Node = {n1, n2}
    Names = {o1}
    Conf <- PairConf
    Host <- OwnHost
    InitFiles <- NoFiles
    DEFAULT_TTL = 3
    RETRANSMIT_TIME = 1
    FLOODING_PERIOD = 2
    INITIAL_STATUS = 3
    Booted = {n1, n2}
    UninitReads = {"short", "long", "fault"}
    Duplicating = FALSE
    Timely = FALSE
    EqualClocks = FALSE
    MaxSeq <- Floods1
    MaxLosses = 0
    MaxDeaths = 1
    c1 = c1
    Client = {c1}
    UploadPaths <- FirstTidy
    MaxRequests = 3
INVARIANTS
    ReqTypeOK
    UnwrittenUriOnlyWithoutPath
PROPERTIES
    IsFileService
    RequestEnds
