SPECIFICATION Spec
CONSTANTS
    P = 23
    Order = 24
    Root <- Root23
    M = 8
    N_SAMPLES = 3
    N_FREQ = 2
    F_S = 24
    ThresholdNum = 1
    ThresholdDen = 1
    SampleValues <- ManySamples
    CodeValues <- Chips
    Frequencies <- LongLists
    Capacities = {2, 3, 4}
    Junk <- Garbage
    MaxStarts = 2
INVARIANTS
    TypeOK
    SpectraCorrect
    AnswerIsCandidate
    PaddingZero
    DefinedWithinContract
PROPERTIES
    KeepsPromise
CHECK_DEADLOCK FALSE
