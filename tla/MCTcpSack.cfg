SPECIFICATION FairSpec
CONSTANTS
    SegmentSize = 2
    DupThresh = 2
    MaxSackBlocks = 2
    SackModes = {TRUE, FALSE}
    LimitedTx = TRUE
    DelAckMax = 2
    AllowedSackBlocks = 2
    StreamLength = 4
    MaxLosses = 1
    MaxTimeouts = 1
INVARIANTS
    Consistent
    SackedIsReceived
    LostHasWitness
    SackListIsTrue
PROPERTIES
    SackedStays
    StreamDelivered
CHECK_DEADLOCK FALSE
