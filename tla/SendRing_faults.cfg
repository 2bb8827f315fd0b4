SPECIFICATION Spec
CONSTANTS
    BufSize = 2
    NBufs = 5
    HugeCap = 10
    MaxPendingSends = 2
    MaxPendingBufs = 1
    MaxQueueBufs = 2
    Faults = {"short", "error", "sqfull", "shutdown"}
INVARIANTS
    TypeOK
    CountersCoverKernel
CHECK_DEADLOCK FALSE
