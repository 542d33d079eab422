CONSTANTS
    COLS = 62
    Rows <- MCRows
    Timeout = 2
    WIDTH = 3
    Page = 2
    Texts <- MCTexts
    NewLine = "nl"
    MaxEntries = 6
    Unset = Unset

SPECIFICATION FairSpec

INVARIANTS
    LinesHoldText
    WithinPages

PROPERTIES
    TerminalGivenBack
    ClickOpensItsOwn
    ShownInFull
    NoLineSkipped
    ResultEnds

CHECK_DEADLOCK FALSE
