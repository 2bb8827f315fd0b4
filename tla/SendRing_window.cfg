SPECIFICATION DataFairSpec
CONSTANTS
    BufSize = 2
    NBufs = 5
    HugeCap = 10
    MaxPendingSends = 2
    MaxPendingBufs = 1
    MaxQueueBufs = 2
    M = 7
    Faults = {}
INVARIANT ZeroCopyStable
PROPERTIES
    ImplementsPipe
    QueueFullySubmitted
    QueueDrains
