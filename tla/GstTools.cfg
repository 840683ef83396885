CONSTANTS
    Setups <- MCSetups
    VideoRate <- MCVideoRate
    AudioRate <- MCAudioRate
    Second = 2
    Batch = 2
    WindowSize = 2
    GrainCount = 4
    TotalSlices = 2
    CommitSlices = 1
    SyncSlices = 1
    BufferLength = 8
    ReadDelay = 2
    Margin = 1
    PtsBits = 6
    Lead = 2
    Shifts <- MCShifts
    Epoch = 6
    MaxTime = 12
    MaxFlows = 2
    OtherOffsets = {5}
SPECIFICATION FairSpec
PROPERTIES
    ShownIsTrue
    PlaybackOrdered
    BuffersFollow
    SinkReconnects
CHECK_DEADLOCK FALSE
