CONSTANTS
    TOTAL_INODE = 3
    TOTAL_BLOCKS = 5
    MAX_BLOCK_COUNT = 2
    DirCapacity = 2
    Names <- MCOneName
    ShortNames = {}
    Extension <- MCExtension
    Junk = "junk"
    Texts <- MCTexts

SPECIFICATION Spec

INVARIANTS
    FreeSpaceClean

PROPERTIES
    DataChangesOnlyByItsOwn
    BlocksLostOnlyByRewriting
    ImplementsStore
