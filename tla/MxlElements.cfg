CONSTANTS
    video = video
    audio = audio
    first = first
    second = second
    Flows = {video, audio}
    Continuous = {audio}
    Second = 2
    GrainCount = 3
    BufferLength = 8
    BufferSamples = 4
    Batch = 2
    Epoch = 20
    Jump = 10
    MaxJumps = 1
    MaxTime <- MCMaxTime
    MaxDrops = 1
    MaxPauses = 1
    MaxDisturbed = 1
    Rate <- MCRate
    MaxUnits <- MCMaxUnits
    Bias <- MCBias
    FirstClock <- MCFirstClock
SPECIFICATION FairSpec
INVARIANTS
    TypeOK
    StreamsStayInSync
    PtsInRunningTime
PROPERTIES
    DiscontinuityFlagged
    CreateReturns
CHECK_DEADLOCK FALSE
