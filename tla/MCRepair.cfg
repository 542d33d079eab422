CONSTANTS
    TOTAL_INODE = 3
    TOTAL_BLOCKS = 3
    MAX_BLOCK_COUNT = 1
    DirCapacity = 2
    Names <- MCNames
    ShortNames <- MCShort
    Extension <- MCExtension
    Junk = "junk"
    Texts <- MCLongTexts
    Beyond = 1001
    MaxHarms = 2

SPECIFICATION RepairSpec

INVARIANTS
    SoundUnlessHarmed

PROPERTIES
    WalksEnd
    RepairedOrUntouched
