SPECIFICATION Spec
CONSTANTS
    OptionSets <- BothTraces
    Functions <- AcquisitionFunctions
    Calls <- AcquisitionCalls
    Ranges = {"start:0x1200-0x1400"}
    MaxDepth = 4
    Configs <- Registry
    Shortest <- ShortestTimeSteps
    ProfiledTicks <- Ticks
    Synthesizable = {"fft", "inverseFft", "start", "main", "start:0x1200-0x1400"}
    Blacklisted = {"main"}
    AliasingDisabled = FALSE
INVARIANTS
    TraceFileHoldsAll
CHECK_DEADLOCK FALSE
