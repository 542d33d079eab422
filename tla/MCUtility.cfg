CONSTANTS
    ann = ann
    bob = bob
    Senders <- MCSenders
    Killable <- MCKillable
    Nobody = Nobody
    MAX_PENDING_REQUESTS = 2
    Timeout = 1
    Lead <- MCLead
    MaxAge = 1
    FileName <- MCFileName
    FileText <- MCFileText
    TOTAL_INODE = 3
    TOTAL_BLOCKS = 9
    MAX_BLOCK_COUNT = 1
    INODE_SIZE = 2
    HEADER_SIZE = 0
    DirCapacity = 2
    Names <- MCNames
    ShortNames <- MCShort
    Extension <- MCExtension
    Junk = "junk"
    Texts <- MCTexts
    MaxOperations = 2

SPECIFICATION UtilitySpec

INVARIANTS
    FilesNamedOnce

PROPERTIES
    StoredAsSent
    OnlyRefusedDamages

CHECK_DEADLOCK FALSE
