SPECIFICATION Spec
CONSTANTS
    a1 = a1
    a2 = a2
    p1 = p1
    p2 = p2
    r1 = r1
    r2 = r2
    o1 = o1
    o2 = o2
    l1 = l1
    l2 = l2
    h1 = h1
    h2 = h2
    None = None
    Accounts <- OneAccount
    Peers <- TwoPeers
    Keys <- ThreeKeys
    OneOff <- OneOffKeys
    Logins <- TwoLogins
    Requests <- TwoRequests
    MaxSerial = 3
    MaxFailures = 1
    MaxInvalid = 1
SYMMETRY Symmetry
INVARIANTS
    OneOffKeyAdmitsOne
    ConfirmedPeerIsDurable
    RevocationIsDurable
    SeenSerialIsDurable
CHECK_DEADLOCK FALSE
