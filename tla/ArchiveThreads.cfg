SPECIFICATION FairSpec
CONSTANTS
    client = client
    Clients = {client}
    MajorBlocks = 4
    MinorBlocks = 2
    IndexSkip = 1
    MaxAttempts = 5
    MaxErrors = 1
    MaxCrashes = 1
    MaxStops = 1
INVARIANTS
    IInv
    BlocksReadable
    ReadsAreFresh
    LossBounded
PROPERTY ShutdownCompletesOrLeftBehind
CHECK_DEADLOCK FALSE
