SPECIFICATION Spec
CONSTANTS
    BufSize = 4
    NBufs = 3
    MaxSeg = 2
    MaxBacklog = 1
    MaxLeft = 0
INVARIANT ReuseBehindCursor
CHECK_DEADLOCK FALSE
