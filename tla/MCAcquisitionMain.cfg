SPECIFICATION MainSpec
CONSTANTS
    P = 23
    Order = 24
    Root <- Root23
    M = 8
    N_SAMPLES = 3
    N_FREQ = 2
    F_S = 24
    ThresholdNum = 2
    ThresholdDen = 1
    SampleValues <- TableSamples
    CodeValues <- TableCodes
    Frequencies <- TableFrequencies
    Capacities <- Sizes
    Junk <- Garbage
    MaxStarts = 1
    Cases <- Table
    Arguments <- CommandLines
INVARIANTS
    ExitCodeTellsAnswer
    CompleteCasesAreDefined
PROPERTIES
    MainEnds
CHECK_DEADLOCK FALSE
