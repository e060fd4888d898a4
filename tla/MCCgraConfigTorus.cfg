SPECIFICATION Spec
CONSTANTS
    Names = {"toroidal"}
INVARIANTS
    TorusHasNoBorder
CHECK_DEADLOCK FALSE
