SPECIFICATION Spec
CONSTANTS
    Types <- MCTypes
INVARIANT ConversionIsDefined
CHECK_DEADLOCK FALSE
