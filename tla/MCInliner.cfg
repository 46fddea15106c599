SPECIFICATION Spec
CONSTANTS
    Statement <- MCStatement
    Pages <- MCPages
    Extras <- MCExtras
    Shift = 4
INVARIANTS
    TypeOK
    LastStyleElementWins
    ExtraCSSWinsFromItsBase
    NothingReadIsLost
