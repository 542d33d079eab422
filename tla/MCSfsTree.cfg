CONSTANTS
    TOTAL_INODE = 4
    TOTAL_BLOCKS = 3
    MAX_BLOCK_COUNT = 1
    DirCapacity = 2
    Names <- MCNames
    ShortNames <- MCShort
    Extension <- MCExtension
    Junk = "junk"
    Texts <- MCLongTexts

SPECIFICATION Spec

INVARIANTS
    EntriesAreLive
    OneNamePerInode
    NoCycle

PROPERTIES
    OrphansOnlyByDeleteFile
