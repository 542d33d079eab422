CONSTANTS
    a = a
    b = b
    c = c
    Senders <- MCTwoSenders
    Killable <- MCKillable
    Nobody = Nobody
    MAX_PENDING_REQUESTS = 2
    MAX_BLOCK_COUNT = 2
    Timeout = 1
    Lead <- MCLead
    MaxAge = 2
    Pieces = 2
    FileName <- MCFileName
    FileBlocks <- MCFileBlocks
    ShortNames <- MCShort
    RootNames <- MCRoot
    RootCapacity = 2

SPECIFICATION FairSpec

PROPERTIES
    
    CheckEnds

CHECK_DEADLOCK FALSE
