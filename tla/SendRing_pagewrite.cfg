SPECIFICATION Spec
CONSTANTS
    BufSize = 2
    NBufs = 5
    HugeCap = 10
    MaxPendingSends = 2
    MaxPendingBufs = 1
    MaxQueueBufs = 5
    Faults = {}
INVARIANT ZeroCopyStable
