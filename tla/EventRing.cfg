CONSTANTS
    Readers = {r1}
    EventCount = 2
    PayloadWords = 1
    MaxIndex = 2
    Timestamps = {0, 1}
    Values = {0, 1}
    Events <- MCEvents
    MaxCrashes = 2
SPECIFICATION FairSpec
INVARIANTS
    SnapshotIntegrity
    WriterNeverStuck
    LogConsistent
PROPERTIES
    ImplementsLog
    BlockedReaderReturns
CHECK_DEADLOCK FALSE
