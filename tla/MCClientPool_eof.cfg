SPECIFICATION Spec
CONSTANTS
    PoolCount = 1
    NRecs = 3
    N = 2
    BufSize = 1
    BufLimit = 0
    MaxOut = 1
    MaxPending = 1
    MaxRecvs = 1
    MaxCq = 2
    Faults = {"close"}
INVARIANT RecvHasBuffer
CHECK_DEADLOCK FALSE
