CONSTANTS
    TOTAL_INODE = 3
    TOTAL_BLOCKS = 4
    MAX_BLOCK_COUNT = 2
    DirCapacity = 2
    Names <- MCOneName
    ShortNames = {}
    Extension <- MCExtension
    Junk = "junk"
    Texts <- MCAnyTexts

SPECIFICATION Spec

INVARIANTS
    TypeOK
    NoSharedBlock
    UsedBlocksMarked
    NoGap

PROPERTIES
    DefragCompacts
