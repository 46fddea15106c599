SPECIFICATION Spec
CONSTANTS
    AtKind = {"media", "font-face"}
    DeclKind = {"font-face"}
    Preserved = {"media"}
    Selectors = {"p", "a:hover, :is(p, b), ?"}
    Arms <- MCArms
    PreservePseudos = TRUE
    FirstOrd = {3}
    MaxEvents = 6
    MaxNesting = 3
INVARIANTS
    TypeOK
    InlinedAsWritten
    PreservedAsWritten
    OrdersAscend
