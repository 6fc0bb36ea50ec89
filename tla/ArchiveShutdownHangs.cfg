SPECIFICATION FairSpec
CONSTANTS
    client = client
    Clients = {}
    MajorBlocks = 3
    MinorBlocks = 2
    IndexSkip = 1
    MaxAttempts = 4
    MaxErrors = 0
    MaxCrashes = 0
    MaxStops = 1
PROPERTIES
    ShutdownCompletes
CHECK_DEADLOCK FALSE
