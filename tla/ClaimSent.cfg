CONSTANTS
    a = a
    b = b
    c = c
    Senders <- MCSenders
    Killable <- MCKillable
    Nobody = Nobody
    MAX_PENDING_REQUESTS = 2
    MAX_BLOCK_COUNT = 2
    Timeout = 1
    Lead <- MCLead
    MaxAge = 2
    Pieces = 2
    FileName <- MCFileName
    FileBlocks <- MCFileBlocks
    ShortNames <- MCShort
    RootNames <- MCRoot
    RootCapacity = 2

SPECIFICATION Spec

INVARIANT SentFileIsStored

CHECK_DEADLOCK FALSE
