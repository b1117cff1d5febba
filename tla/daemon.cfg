SPECIFICATION Spec
CONSTANTS
    k1 = k1
    k2 = k2
    Callers <- TwoCallers
    Programs = {"cmdUp", "menuDown"}
    MaxCtx = 3
SYMMETRY Symmetry
INVARIANTS
    TypeOK
    OnlyActIsLive
    ActiveStatusHasOwner
PROPERTIES
    OnlyLateRunsTakeOver
CHECK_DEADLOCK FALSE
