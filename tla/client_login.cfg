SPECIFICATION FairSpec
CONSTANTS
    p1 = p1
    p2 = p2
    s1 = s1
    s2 = s2
    None = None
    Torn = Torn
    BadURL = BadURL
    Procs = {p1, p2}
    Servers = {s1, s2}
    DefaultServer = s1
    SSOServers = {s1}
    PreSharedKeys = {"psk"}
    Commands <- MCCommands
    MaxKeys = 2
    MaxRuns = 2
    MaxFaults = 2
    MaxTries = 4
    MaxStarts = 2
INVARIANTS
    TypeOK
    KeyIsOnDisk
    IdentitySurvivesRebrand
    AnsweredIsRegistered
PROPERTIES
    ValidKeyLogsIn
CHECK_DEADLOCK FALSE
