SPECIFICATION Spec
CONSTANTS
    P = 47
    Order = 48
    Root <- MCRoot
    M = 8
    Levels = 3
    Inputs <- MCInputs
    Junk = {0, 5}
INVARIANTS
    TypeOK
    ButterflyInRange
    EachEntryOncePerStage
    StageCoversData
    StageTransforms
    ReturnsTransform
PROPERTIES
    Terminates
CHECK_DEADLOCK FALSE
