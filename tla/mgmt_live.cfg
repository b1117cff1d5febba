SPECIFICATION FairSpec
CONSTANTS
    p1 = p1
    p2 = p2
    s1 = s1
    s2 = s2
    l1 = l1
    l2 = l2
    a1 = a1
    ip1 = ip1
    ip2 = ip2
    None = None
    Peers <- TwoPeers
    Streams <- OneStream
    IPs <- TwoIPs
    Logins <- OneLogin
    Admins <- OneAdmin
    ChanCap = 2
    TimeBasedCredentials = FALSE
    MaxSerial = 4
    MaxWriteErrors = 1
PROPERTIES
    EventuallyConverged
CHECK_DEADLOCK FALSE
