SPECIFICATION MCSpec
CONSTANTS
    MaxRows = 2
    MaxColumns = 3
    MaxPower = 2
INVARIANTS
    TypeOK
    PeakOfScanned
    ReturnsAfterAll
PROPERTIES
    SilenceKeepsOldAnswer
    Returns
CHECK_DEADLOCK FALSE
