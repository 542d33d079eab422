CONSTANTS
    BlockPieces = 2
    MAX_BLOCK_COUNT = 2
    Capacity = 4
    Pieces <- MCPieces
    Tails <- MCTails
    Behind <- MCBehind

SPECIFICATION Spec

INVARIANTS
    ReadsBack
    Concealed
    KnownAnswers
    BoxesRight
    FieldRight

CHECK_DEADLOCK FALSE
