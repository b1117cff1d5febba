SPECIFICATION FairSpec
CONSTANTS
    p1 = p1
    c1 = c1
    c2 = c2
    c3 = c3
    None = None
    RemotePeers <- OnePeer
    Conns <- ThreeConns
INVARIANTS
    WireguardEntryHasConn
    ConnectedIsConfigured
PROPERTIES
    RemovedWorkerEnds
CHECK_DEADLOCK FALSE
