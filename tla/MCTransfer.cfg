CONSTANTS
    a = a
    b = b
    c = c
    Senders <- MCSenders
    Killable <- MCKillable
    Nobody = Nobody
    MAX_PENDING_REQUESTS = 2
    MAX_BLOCK_COUNT = 2
    Timeout = 1
    Lead <- MCLeadBehind
    MaxAge = 1
    Pieces = 2
    FileName <- MCFileName
    FileBlocks <- MCFileBlocks
    ShortNames <- MCShort
    RootNames <- MCRoot
    RootCapacity = 2

SPECIFICATION Spec

INVARIANTS
    TypeOK
    OwnDescriptor
    NobodyForgotten
    AskedAboutOwnFile

CHECK_DEADLOCK FALSE
