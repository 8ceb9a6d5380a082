SPECIFICATION Spec
CONSTANTS
    ByteBits = 1
    SizeMod = 32
    LengthMod = 16
    Ranges <- MCRanges
    ByteCounts = {0, 3, 11}
    MaxLengths = {1, 4}
    CharBytes = {1, 2}
    Buffers <- MCBuffers
    LogicalBytes = {10, 35}
INVARIANTS
    TypeOK
    CursorsAgree
    NoOverread
    ScratchIsNext
    LoopFits
    TakenIsPrefix
PROPERTY RefinesSource
