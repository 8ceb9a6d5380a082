SPECIFICATION TransportSpec
CONSTANTS
    ByteBits = 2
    SizeMod = 65536
    LengthMod = 65536
    Values <- MCValues
    Ranges <- MCRanges
    Data <- MCData
    ByteCounts = {0, 1, 3}
    StringLens = {0, 4}
    CharBytes = {1}
    MaxLengths = {4}
    WordCounts = {1, 2, 3}
    LogicalBytes = {1, 2, 3, 4, 5, 6, 7, 8, 9, 10, 11, 12}
    Sender = Sender
    Payloads = {p1}
    NoPayload = NoPayload
    MaxSend = 12
    FlagMask = 16
    MaxMessages = 1
    MaxCalls = 2
INVARIANTS
    TransportTypeOK
    UsedIsWithinPayload
    RoundingsAgree
    PaddingIsZero
    StoredIsRead
    PeekIsSent
PROPERTY RefinesLetters
