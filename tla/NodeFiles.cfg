SPECIFICATION NodeSpec
CONSTANTS
    NULL = NULL
    MAX_LSA_LEN = 45
    MAX_OBJ_LEN = 7
    NumLinks = 3
    Words <- ThreeWords
    Uploads <- SixNames
    PathNames <- TwoPaths
    InitLines <- NoLines
    Me = Me
    Other = Other
    MaxFiles = 3
INVARIANTS
    NodeTypeOK
    FilesSurviveRestart
    TablesAgree
    StoredIsSent
