SPECIFICATION Spec
CONSTANTS
    Estimators <- MCEstimators
    InitialEstimation = 200
    ClockGranularity = 24
    MinRto = 0
    TicksPerMs = 24
    Samples = {25, 49, 97, 120}
    MaxSamples = 5
INVARIANT
    SamplesAreCounted
