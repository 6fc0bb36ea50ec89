CONSTANTS
    FaEntryCount = 32
    ArchiveMask <- AllButTwo
    Masks <- SomeMasks
    Fields <- SomeFields
    BlockSize = 2
    BufferLines = 3
    MaxSamples = 5
    Width = 2
    TimeLength = 20
    LineLimit = 58

SPECIFICATION Spec
INVARIANT RequestIsUnderstood
INVARIANT LinesAreAsLabelled
INVARIANT ReadsStayInStep
INVARIANT FramesAreStamped
INVARIANT OutputIsAsReported
CHECK_DEADLOCK FALSE
