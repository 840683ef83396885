CONSTANTS
    Targets = {t}
    Formats = {"grains", "samples"}
    BusyRemovals = {"grains"}
    SliceSizes <- MCSliceSizes
    TotalSlices = 2
    SourceCount = 3
    TargetCount = 2
    Channels = 2
    SourceLength = 3
    TargetLength = 4
    MaxBatch = 2
    IovLimit = 2
    PendingBits = 3
    MaxGrain = 3
    MaxSample = 5
    MaxTokens = 2
    MaxWire = 4
SPECIFICATION Spec
INVARIANTS
    TypeOK
    WritesAccounted
    ReadableIsComplete
PROPERTIES
    GrainsArrive
    SamplesArrive
CHECK_DEADLOCK FALSE
