SPECIFICATION FairSpec
CONSTANTS
    Callers = {c1, c2}
    Payloads = {p1, p2}
    WordBytes = 2
    MaxSend = 2
    FlagMask = 4
    MaxMessages = 2
    RequestSizes <- MCRequestSizes
    Lengths <- MCLengths
    NoPayload = NoPayload
    WeakMemory = FALSE
INVARIANTS
    TypeOK
    RefCountIsHolders
    NoDanglingReference
    NoLeak
    NoReadAfterFree
    SentSizeFits
PROPERTIES
    RefinesOwnership
    SentIsFreed
