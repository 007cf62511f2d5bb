SPECIFICATION Spec
CONSTANTS
    client = client
    server = server
    Client = client
    Server = server
    Writes <- ServerWritesTwo
    Shutters = {server}
    SynRetries = 1
    DataRetries = 2
    DelAckMaxCount = 2
    CWnd = {2}
    Capacity = 2
    MaxLosses = 0
INVARIANT
    FinishedHasAllData
CHECK_DEADLOCK FALSE
