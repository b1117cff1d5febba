SPECIFICATION ApiSpec
CONSTANTS
    u1 = u1
    u2 = u2
    d1 = d1
    d2 = d2
    a1 = a1
    a2 = a2
    a3 = a3
    c1 = c1
    c2 = c2
    None = None
    Users <- TwoUsers
    Domains <- TwoDomains
    Accounts <- ThreeAccounts
    Calls <- TwoCalls
    MaxFailures = 1
    MaxRotations = 1
INVARIANTS
    ApiTypeOK
    HandlerIsAllowed
    MutexIsReleased
    OnePrimaryPerDomain
    MetadataNamesHome
PROPERTIES
    AssignedOnce
SYMMETRY Symmetry
CONSTRAINT OneRequestOrOneDomain
