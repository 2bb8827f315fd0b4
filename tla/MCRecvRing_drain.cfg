SPECIFICATION DataSpec
CONSTANTS
    BufSize = 5
    NBufs = 3
    MaxSeg = 2
    MaxBacklog = 4
    MaxLeft = 0
INVARIANTS
    NoBufferLost
    NoPanic
PROPERTY ImplementsPipe
