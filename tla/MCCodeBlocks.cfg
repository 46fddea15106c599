SPECIFICATION CodeSpec
CONSTANTS
    AtomLen = 4
    WordLen = 3
    Documents <- MCDocuments
    Delimiters <- Pairs
    Digits <- Binary
    Prefix = "juice_code_block_"
    Underscore = "_"
    Empty = "=''"
    IntHalf = 32
CHECK_DEADLOCK FALSE
INVARIANTS
    CodeTypeOK
    ParserSeesNoBlock
    RoundTrip
    StaysInBounds
