SPECIFICATION Spec
CONSTANTS
    OptionSets <- ManyOptions
    Functions <- AcquisitionFunctions
    Calls <- AcquisitionCalls
    Ranges = {"start:0x1200-0x1400"}
    MaxDepth = 4
    Configs <- Registry
    Shortest <- ShortestTimeSteps
    ProfiledTicks <- Ticks
    Synthesizable = {"fft", "inverseFft", "start", "main", "start:0x1200-0x1400"}
    Blacklisted = {"main"}
    AliasingDisabled = FALSE
INVARIANTS
    TypeOK
    TracerFollowsKernel
    ReferenceComplete
    UnseenIsReported
    AccelerationAfterReference
    AcceptedMeansPassed
    OpenAtTheEnd
PROPERTIES
    CommandEnds
CHECK_DEADLOCK FALSE
