SPECIFICATION Spec
CONSTANTS
    Types <- MCTypes
INVARIANTS TypeOK RoundTrip FitsItsBits ReadsWhatIsSent
CHECK_DEADLOCK FALSE
