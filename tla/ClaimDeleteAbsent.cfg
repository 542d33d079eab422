CONSTANTS
    TOTAL_INODE = 4
    TOTAL_BLOCKS = 4
    MAX_BLOCK_COUNT = 2
    DirCapacity = 3
    Names <- MCNames
    ShortNames <- MCShort
    Extension <- MCExtension
    Junk = "junk"
    Texts <- MCTexts

SPECIFICATION Spec

PROPERTY DeletedFileWasThere
