SPECIFICATION Spec
SYMMETRY Symmetric
CONSTANTS
    s1 = s1
    s2 = s2
    s3 = s3
    d1 = d1
    d2 = d2
    r1 = r1
    None = None
    Sockets <- MCSockets
    Devices <- MCDevices
    Remotes <- MCRemotes
    FirstPort = 2
    LastPort = 3
    BindPorts = {2}
    BindAddresses <- MCBindAddresses
    BindDevices <- MCBindDevices
    Routes <- MCRoutes
INVARIANTS
    TypeOK
    AmbiguityHasCause
    AnswersFindSender
CHECK_DEADLOCK FALSE
