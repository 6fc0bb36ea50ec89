SPECIFICATION Spec
CONSTANTS
    MajorBlocks = 5
    IndexSkip = 1
    SampleCount = 2
    Duration = 2
    Gaps <- GapOnly
    MaxDelta = 1
    MaxBlocks = 6
    DecimationLog2 = 0
    Lengths <- Ranges
    MaxSamples = 3
    Options <- AllDataOnly
INVARIANTS
    NothingBeyondEndUnlessRaced
CHECK_DEADLOCK FALSE
