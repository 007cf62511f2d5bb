SPECIFICATION Spec
CONSTANTS
    client = client
    server = server
    Client = client
    Server = server
    Writes <- ServerWritesTwo
    Shutters = {client}
    SynRetries = 1
    DataRetries = 1
    DelAckMaxCount = 2
    CWnd = {2}
    Capacity = 2
    MaxLosses = 1
INVARIANTS
    AckedIsReceived
    EofAfterAllData
    Consistent
PROPERTY
    NeverBackwards
CHECK_DEADLOCK FALSE
