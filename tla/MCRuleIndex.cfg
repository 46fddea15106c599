SPECIFICATION FairSpec
CONSTANTS
    a = a
    b = b
    t = t
    u = u
    Ident = {a, b, t, u}
    NoIdent = NoIdent
    Denotes <- MCDenotes
    Elements <- MCElements
    Selectors <- MCSelectors
    Sheets <- MCSheets
    Pages <- MCPages
INVARIANTS
    TypeOK
    CandidatesAscend
    EveryMatchCalled
PROPERTIES
    WalkEnds
