SPECIFICATION FairSpec
CONSTANTS
    k1 = k1
    k2 = k2
    Callers <- OneCaller
    Programs = {"menuUp", "settings", "cmdDown"}
    MaxCtx = 3
PROPERTIES
    CancelledRunEnds
CHECK_DEADLOCK FALSE
