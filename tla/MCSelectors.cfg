SPECIFICATION Spec
CONSTANTS
    MaxPieces = 3
    MaxDepth = 2
    maxExpansion = 4
    Elements <- FewElements
    Arms <- MCArms
CHECK_DEADLOCK FALSE
INVARIANTS
    TypeOK
    ExpansionExact
    CapOnlyLoses
    SpecificityOfStrongest
PROPERTIES
    ExpansionEnds
