SPECIFICATION Spec
CONSTANTS
    client1 = client1
    client2 = client2
    Clients <- TwoClients
    FaEntryCount = 7
    MajorSampleCount = 2
    SamplesPerBlock = 2
    Ids <- SomeIds
    MaxSamples = 4
    MaxRequests = 1
INVARIANTS
    PoolIsWhole
    NothingLeaked
    DelayedBuffersSuffice
PROPERTY
    RefusedOnlyWhenBusy
CHECK_DEADLOCK FALSE
SYMMETRY Symmetry
