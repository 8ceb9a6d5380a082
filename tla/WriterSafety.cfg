SPECIFICATION MeasuredSpec
CONSTANTS
    ByteBits = 1
    SizeMod = 64
    Values <- MCValues
    ByteCounts = {0, 3, 11}
    StringLens = {0, 1, 2, 4}
    CharBytes = {1, 2}
    WordCounts = {0, 3}
    LogicalBytes = {10, 13}
INVARIANTS
    TypeOK
    CursorsAgree
    NoOverrun
    ScratchIsClean
    LoopFits
    UnusableStaysFailed
    StreamIsWritten
    MeasureIsExact
PROPERTIES RefinesSink MeasureSuffices
