CONSTANTS
    video = video
    audio = audio
    data = data
    Groups = {g1}
    Readers = {video, audio, data}
    Discrete = {video}
    Second = 4
    Rate <- MCRate
    OutputRate <- MCOutputRate
    TotalSlices = 2
    MinSlices = {1}
    Depth = 1
    MaxOutput = 2
    MaxIndex = 2
    Timeouts = {0, 2}
    MaxTime = 5
    MaxReferences = 1
SPECIFICATION Spec
INVARIANTS
    NoDanglingReader
PROPERTIES
    DataAvailable
    ReorderingKeepsOrder
CHECK_DEADLOCK FALSE
