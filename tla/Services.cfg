CONSTANTS
    n0 = n0
    n1 = n1
    n2 = n2
    Client = {c1, c2, c3}
    Key = {k1, k2}
    Idle = Idle
    PutFails = TRUE
    MaxCalls = 4
    N = 4
    Id = 1
    MaxQueueSize = 4
    BatchSize = 3
    TxCap = 3
    BatchCap = 2
    MaxTx = 15
    Node <- MCNode
    Peer <- MCNode
    Deaf = {n2}
    MaxSent <- MCSent
    MsgCap = 1
    ConnCap = 1
    WireCap = 1
    RecvCap = 1
    FaultKind = {"dial", "break", "restart"}
    MaxFaults = 1
    Caller = {c1, c2, c3}
    None = None
    ReqCap = 2
    MaxRequests = 2
    MaxBatches = 6
SPECIFICATION FairSpec
INVARIANTS TypeOK BufferInOrder AskedOnce NoLostWakeup PeersListen RequestInOnePlace DistinctDigests
PROPERTIES ImplementsStream GetReturns NotifyAnswered ImplementsLinks ReadersServed AllRun EveryCallReturns
CHECK_DEADLOCK FALSE
