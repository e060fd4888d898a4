SPECIFICATION Spec
CONSTANTS
    Names <- AllGrids
INVARIANTS
    TypeOK
    LinksBothWays
    NoInputTwice
    ShippedIsAccepted
PROPERTIES
    ResultIsStored
CHECK_DEADLOCK FALSE
