SPECIFICATION Spec
CONSTANTS
    ByteBits = 2
    SizeMod = 16
    Values <- MCValues
    ByteCounts = {1, 8}
    StringLens = {0}
    CharBytes = {1}
    WordCounts = {1}
    LogicalBytes = {4}
INVARIANT LoopFits
