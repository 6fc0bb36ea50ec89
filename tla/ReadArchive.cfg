SPECIFICATION Spec
CONSTANTS
    MajorBlocks = 5
    IndexSkip = 1
    SampleCount = 2
    Duration = 2
    Gaps <- GapOrDrop
    MaxDelta = 1
    MaxBlocks = 6
    DecimationLog2 = 0
    Lengths <- Ranges
    MaxSamples = 2
    Options <- PlainOrContiguous
INVARIANTS
    LookupFindsBlock
    StampsMatchData
    NothingBeyondEndUnlessRaced
    NothingMissingAtStart
    SentIsContiguous
CHECK_DEADLOCK FALSE
