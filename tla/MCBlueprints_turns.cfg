SPECIFICATION FairSpec
CONSTANTS
    Layers = {0, 1}
    InterCap = 3
    Handshake = 2
    MaxSent = 8
    MaxSeg = 4
    MaxAnswer = 4
    M = 7
    Quirks = {{}, {"waits", "parts", "both", "slices", "silent"}}
INVARIANT TypeOK
PROPERTIES
    InImplementsPipe
    NothingDropped
    OutImplementsPipe
    CallReturns
    InputRead
    AnswersFinish
CHECK_DEADLOCK FALSE
