SPECIFICATION Spec
CONSTANTS
    Types <- MCTypes
INVARIANT ReadInRange
CHECK_DEADLOCK FALSE
