SPECIFICATION Spec
CONSTANTS
    ByteBits = 1
    SizeMod = 32
    LengthMod = 16
    Ranges <- MCRanges
    ByteCounts = {3, 32}
    MaxLengths = {4}
    CharBytes = {1}
    Buffers <- MCBuffers
    LogicalBytes = {10}
INVARIANT LoopFits
