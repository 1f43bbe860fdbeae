SPECIFICATION ConnectionsSpec
CONSTANTS
    c1 = c1  c2 = c2  c3 = c3
    Client = {c1, c2, c3}
    MAX_CONNECTION_WORKERS = 2
    Request <- MCRequest
    Sends <- MCSends
    CAPABILITIES = {"kv", "transactions", "prefix-list"}
    Key = {"k"}
    Value = {"v"}
    MaxRequests = 2
    SocketBuffer = 1
    NoClient = NoClient
    NotNegotiated = NotNegotiated
    Absent = Absent
    Faults = {"spawn", "panic"}
    Task = {t1, t2}
    Thread = t1
    MaxCalls = 5
    Method = {"call", "garbled"}
    SyncFaults = {"timeout", "close"}
    AsyncFaults = {"cancel", "close"}
    LargeAnswers = {2, 3}
    Nobody = Nobody
    Unanswered = Unanswered
    Failed = Failed
INVARIANTS SlotsAccounted EachGetsItsOwn EachPromiseItsAnswer
PROPERTIES ImplementsWire SlotsComeBack CallsReturn
CHECK_DEADLOCK FALSE
