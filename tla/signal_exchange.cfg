SPECIFICATION FairSpec
CONSTANTS
    p1 = p1
    p2 = p2
    s1 = s1
    s2 = s2
    s3 = s3
    m1 = m1
    None = None
    Peers <- TwoPeers
    Streams <- ThreeStreams
    Sends <- OneSend
    MaxBreaks = 1
INVARIANTS
    NoFinishedStreamRegistered
    ReachableUnlessOverlap
    ReachableIsDelivered
    OnlyLateWaiterIsLeft
PROPERTIES
    EventuallyConnected
CHECK_DEADLOCK FALSE
