SPECIFICATION Spec
CONSTANTS
    MaxPieces = 2
    MaxDepth = 2
    maxExpansion = 4
    Elements <- FewElements
    Arms <- MCArms
CHECK_DEADLOCK FALSE
INVARIANTS
    ExactForEveryArm
