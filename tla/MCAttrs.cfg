SPECIFICATION Spec
CONSTANTS
    None = "none"
    Text <- MCText
    Hash <- HashXY
    Documents <- MCDocuments
CHECK_DEADLOCK FALSE
INVARIANTS
    TypeOK
    LinksKeepTargets
    CleanedEverywhere
    AttributesAgree
