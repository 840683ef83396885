CONSTANTS
    Readers = {r1}
    GrainCount = 2
    TotalSlices = 2
    MinSlices = {1, 3}
    MaxIndex = 1
    MaxSkip = 0
    MaxBack = 0
    MaxMissing = 1
    MaxCommits = 2
    MaxReleases = 0
    MaxCrashes = 0
SPECIFICATION FairSpec
PROPERTIES
    WaitingReaderReturns
CHECK_DEADLOCK FALSE
