CONSTANTS
    Sizes <- TwoSizes
    MaxPreparations = 2
    Clients = {c1}
    MaxLetters = 1
    MaxData = 1
    MaxLost = 1
    MaxStarts = 2

SPECIFICATION FairSpec
INVARIANT MappedIsConsistent
INVARIANT ArchiveOutlivesThreads
INVARIANT PidFileTellsTheTruth
INVARIANT StackIsBalanced
INVARIANT AnswerIsOneOrTheOther
INVARIANT NothingHeldAtEnd
PROPERTY ClientThreadsEnd
CHECK_DEADLOCK FALSE
