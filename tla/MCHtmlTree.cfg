SPECIFICATION Spec
CONSTANTS
    ShortLen = 3
    TailLen = 2
    Documents <- MCDocuments
CHECK_DEADLOCK FALSE
INVARIANTS
    TypeOK
    NamespaceFromContext
    EverythingParsed
    RenderedAgain
PROPERTIES
    ParseEnds
