SPECIFICATION Spec
CONSTANTS
    Conns = {c1}
    NoConn = NoConn
    FixedCount = 2
    ReplCC = 1
    N = 2
    BufLimit = 0
    SendLimit = 9
    MaxChunks = 1
    HugePages = 4
    MaxRecvs = 1
    MaxCq = 3
    MaxFull = 0
    Faults = {"busyclose"}
INVARIANT NoStaleCompletion
CHECK_DEADLOCK FALSE
