SPECIFICATION DataSpec
CONSTANTS
    BufSize = 4
    NBufs = 3
    MaxSeg = 4
    MaxBacklog = 2
    MaxLeft = 6
INVARIANTS
    TypeOK
    KeptInPage
PROPERTY PipeWhileInPage
CHECK_DEADLOCK FALSE
