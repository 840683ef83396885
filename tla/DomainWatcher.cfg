CONSTANTS
    Writers = {w1, w2}
    MaxFlows = 2
    MaxWatches = 3
    MaxQueue = 2
SPECIFICATION FairSpec
INVARIANTS
    WatchesMatchRecords
PROPERTIES
    TouchIsRecorded
    StopReturns
CHECK_DEADLOCK FALSE
