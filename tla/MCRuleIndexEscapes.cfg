SPECIFICATION FairSpec
CONSTANTS
    a = a
    b = b
    t = t
    u = u
    Ident = {a, b, t, u}
    NoIdent = NoIdent
    Denotes <- MCDenotes
    Elements <- MCElements
    Selectors <- EscapedSelectors
    Sheets <- EscapedSheets
    Pages <- MCPages
INVARIANTS
    EveryMatchCalled
