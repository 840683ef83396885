CONSTANTS
    Peers = {p}
    Ids = {1, 2}
    Planes = 2
    Modes = {"poll", "block", "short"}
    MaxPending = 2
    TargetDepth = 1
    MaxFailures = 1
SPECIFICATION FairSpec
INVARIANTS
    TypeOK
    ReadyIsQuiet
    WritesAccounted
    NoCrash
PROPERTIES
    ShutdownCompletes
    PeerLossNoticed
CHECK_DEADLOCK FALSE
