SPECIFICATION FairSpec
CONSTANTS
    PoolCount = 2
    NRecs = 4
    N = 2
    BufSize = 2
    BufLimit = 1
    MaxOut = 2
    MaxPending = 2
    MaxRecvs = 1
    MaxCq = 2
    Faults = {"refuse", "nopages", "unset", "again"}
INVARIANTS
    TypeOK
    NoRecordLeak
    BufsCoverRecords
    UnmixedCovered
    RecordsHaveStream
    CountsMatchPool
PROPERTY Settles
CHECK_DEADLOCK FALSE
