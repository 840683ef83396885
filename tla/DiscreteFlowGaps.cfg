CONSTANTS
    Readers = {}
    GrainCount = 4
    TotalSlices = 1
    MinSlices = {1}
    MaxIndex = 4
    MaxSkip = 2
    MaxBack = 1
    MaxMissing = 4
    MaxCommits = 3
    MaxReleases = 0
    MaxCrashes = 1
SPECIFICATION Spec
INVARIANTS
    NoStaleGrain
CHECK_DEADLOCK FALSE
