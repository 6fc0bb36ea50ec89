SPECIFICATION Spec
CONSTANTS
    Word = 128
    PageSize = 8
    FaEntryCount = 3
    Params <- Fitting
    Captures <- ProperCaptures
    Period = 20
    Jitter <- ZeroOrOne
    MaxDelta = 10
    MaxInputs = 10
    MaxGaps = 2
    MaxRestarts = 1
INVARIANTS
    SamplesAreInPlace
    DecimatedDataMatches
    GapsAreSeen
CHECK_DEADLOCK FALSE
