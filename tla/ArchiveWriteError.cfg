SPECIFICATION FairSpec
CONSTANTS
    client = client
    Clients = {client}
    MajorBlocks = 3
    MinorBlocks = 1
    IndexSkip = 1
    MaxAttempts = 5
    MaxErrors = 1
    MaxCrashes = 0
    MaxStops = 0
PROPERTIES
    ReadsProceed
CHECK_DEADLOCK FALSE
