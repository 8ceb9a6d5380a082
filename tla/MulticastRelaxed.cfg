SPECIFICATION Spec
CONSTANTS
    Callers = {c1}
    Payloads = {p1}
    WordBytes = 2
    MaxSend = 4
    FlagMask = 8
    MaxMessages = 2
    RequestSizes = {0, 2, 3, 5}
    Lengths = {1, 3}
    NoPayload = NoPayload
    WeakMemory = TRUE
INVARIANT NoReadAfterFree
