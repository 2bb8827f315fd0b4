SPECIFICATION FairSpec
CONSTANTS
    Conns = {c1, c2}
    NoConn = NoConn
    FixedCount = 3
    ReplCC = 2
    N = 2
    BufLimit = 1
    SendLimit = 9
    MaxChunks = 1
    HugePages = 4
    MaxRecvs = 1
    MaxCq = 12
    MaxFull = 0
    Faults = {}
INVARIANTS
    AcceptsReplenished
    CountersCoverSends
    NoSlotLeak
PROPERTY ClosedReleased
CHECK_DEADLOCK FALSE
