SPECIFICATION Spec
CONSTANTS
    P = 23
    Order = 24
    Root <- Root23
    M = 4
    N_SAMPLES = 4
    N_FREQ = 2
    F_S = 24
    ThresholdNum = 1
    ThresholdDen = 1
    SampleValues <- TwoSamples
    CodeValues <- Chips
    Frequencies <- OneList
    Capacities = {4}
    Junk <- Garbage
    MaxStarts = 1
PROPERTIES
    KeepsPromise
CHECK_DEADLOCK FALSE
