SPECIFICATION FairSpec
CONSTANTS
    host = host
    m1 = m1
    m2 = m2
    nomac = nomac
    Addr <- MCAddr
    LinkLocal <- MCLinkLocal
    Macs <- MCMacs
    NoMac <- nomac
    MaxMulticastSolicit = 2
    MaxUnicastSolicit = 2
    UnresolvedQueueSize = 2
    MaxPackets = 4
INVARIANT
    Consistent
PROPERTIES
    TimerLostOnlyToAdvertisement
    KeepsPromise
    SolicitingEnds
CHECK_DEADLOCK FALSE
