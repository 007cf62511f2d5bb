SPECIFICATION FairSpec
CONSTANTS
    unicast = unicast
    multicast = multicast
    Packets = {unicast, multicast}
    Multicast = {multicast}
    Length <- LongAndShort
    Mtus = {1, 2}
    FragmentTimeout = 2
    DuplicateExpire = 1
    PurgePeriod = 1
    MaxArrivals = 5
INVARIANTS
    Consistent
    DeliversTheWhole
    PartsAreKnown
PROPERTY
    BecomesQuiet
CHECK_DEADLOCK FALSE
