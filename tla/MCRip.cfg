SPECIFICATION FairSpec
CONSTANTS
    r1 = r1
    r2 = r2
    r3 = r3
    stub = stub
    Router <- MCRouter
    Stub <- stub
    Cost <- MCCost
    Unstable <- MCBoth
    LinkDown = 4
    TimeoutDelay = 3
    GarbageCollectionDelay = 2
    Strategies = {"POISON_REVERSE", "SPLIT_HORIZON"}
    MaxChanges = 2
    MaxLosses = 1
    MaxSenders = 1
INVARIANTS
    NeverTooShort
    Consistent
    NeighboursAgree
PROPERTY
    Converges
