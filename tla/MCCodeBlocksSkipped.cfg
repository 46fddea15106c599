SPECIFICATION CodeSpec
CONSTANTS
    AtomLen = 3
    WordLen = 2
    Documents <- MCDocuments
    Delimiters <- Pairs
    Digits <- Binary
    Prefix = "juice_code_block_"
    Underscore = "_"
    Empty = "=''"
    IntHalf = 32
CHECK_DEADLOCK FALSE
INVARIANTS
    SkippedIsKept
