SPECIFICATION Spec
CONSTANTS
    ByteBits = 1
    SizeMod = 64
    LengthMod = 16
    Ranges <- MCRanges
    ByteCounts = {0, 3, 11}
    MaxLengths = {1, 4}
    CharBytes = {1, 2}
    Buffers <- ShortBuffers
    LogicalBytes = {10, 13}
INVARIANT PeekNegativeFails
