SPECIFICATION FairSpec
CONSTANTS
    a = a
    b = b
    c = c
    color = color
    compound = compound
    None = None
    NoFallback = NoFallback
    Property = {a, b, c, color}
    CustomProperty = {a, b, c}
    Name = {a, b, c, compound}
    Piece <- MCPiece
    Pages <- MCPages
    maxVarDepth = 2
INVARIANTS
    TypeOK
    ResolvedIsExpansion
    NoneResolvableLeft
PROPERTIES
    ResolutionEnds
