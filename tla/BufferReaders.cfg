SPECIFICATION FairSpec
CONSTANTS
    transform = transform
    subscriber = subscriber
    Readers = {transform, subscriber}
    Reserved = {transform}
    NoReader = NoReader
    BlockCount = 2
    MaxFrames = 4
INVARIANTS
    CleanRelease
    ReservedNeverUnderflows
    NoLostWakeup
    CutOffOnlyWhenLapped
    IInv
PROPERTIES
    ImplementsFrameStream
    InterruptEndsWait
