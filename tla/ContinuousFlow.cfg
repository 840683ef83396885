CONSTANTS
    Readers = {r1}
    BufferLength = 5
    Counts = {1, 2, 3}
    ReadCounts = {0, 2}
    SyncBatchSize = 3
    CommitBatchSize = 2
    SizeBits = 4
    MaxIndex = 6
    MaxSkip = 1
    MaxRestarts = 1
SPECIFICATION FairSpec
INVARIANTS
    FragmentsFit
PROPERTIES
    GivenSamplesUntouched
    WaitingReaderReturns
CHECK_DEADLOCK FALSE
