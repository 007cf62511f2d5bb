SPECIFICATION FairSpec
CONSTANTS
    host = host
    ghost = ghost
    Addr <- MCAddr
    Hosts <- MCHosts
    MaxRetries = 1
    PendingQueueSize = 2
    WaitReplyTimeout = 2
    AliveTimeout = 1
    DeadTimeout = 1
    MaxPackets = 3
INVARIANTS
    TypeOK
    TimerCoversWaiting
    NoFatalError
    BoundedWait
PROPERTIES
    KeepsPromise
    EveryPacketSettles
