SPECIFICATION Spec
CONSTANTS
    N = 4
    Members <- MCMembers
    Lans = {4, 5}
    Metrics <- MCMetrics
    Injectors = {2, 4}
    MaxChanges = 1
INVARIANTS
    Consistent
    ExitsAreAllShortest
    EveryRouteArrives
CHECK_DEADLOCK FALSE
