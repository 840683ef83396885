CONSTANTS
    Readers = {r1}
    GrainCount = 2
    TotalSlices = 1
    MinSlices = {0, 1}
    MaxIndex = 3
    MaxSkip = 0
    MaxBack = 0
    MaxMissing = 1
    MaxCommits = 2
    MaxReleases = 1
    MaxCrashes = 1
SPECIFICATION Spec
INVARIANTS
    ReadIsRequested
    GrainsRetained
CHECK_DEADLOCK FALSE
