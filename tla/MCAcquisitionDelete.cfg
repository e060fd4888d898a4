SPECIFICATION Spec
CONSTANTS
    P = 23
    Order = 24
    Root <- Root23
    M = 8
    N_SAMPLES = 3
    N_FREQ = 2
    F_S = 24
    ThresholdNum = 1
    ThresholdDen = 1
    SampleValues <- OneSample
    CodeValues <- OneChip
    Frequencies <- OneList
    Capacities = {3}
    Junk <- Garbage
    MaxStarts = 1
INVARIANTS
    NothingLeftBehind
CHECK_DEADLOCK FALSE
