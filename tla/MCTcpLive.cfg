SPECIFICATION LiveSpec
CONSTANTS
    client = client
    server = server
    Client = client
    Server = server
    Writes <- ClientWritesOne
    Shutters = {client}
    SynRetries = 2
    DataRetries = 1
    DelAckMaxCount = 1
    CWnd = {1}
    Capacity = 1
    MaxLosses = 1
INVARIANT
    HandshakeAgrees
PROPERTIES
    HandshakeEnds
    AcceptedDataSettles
CHECK_DEADLOCK FALSE
