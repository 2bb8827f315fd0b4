SPECIFICATION Spec
CONSTANTS
    Conns = {c1, c2, c3}
    NoConn = NoConn
    FixedCount = 3
    ReplCC = 1
    N = 2
    BufLimit = 0
    SendLimit = 0
    MaxChunks = 1
    HugePages = 3
    MaxRecvs = 1
    MaxCq = 3
    MaxFull = 1
    Faults = {"busyclose", "reset", "sendfail", "unset"}
SYMMETRY ConnSymmetry
INVARIANTS
    TypeOK
    RecvNeverStale
    SlotOwnership
    BlueprintOwn
    AcceptsBounded
    PagesConserved
    OnlyEofDropsStream
CHECK_DEADLOCK FALSE
