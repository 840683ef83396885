CONSTANTS
    Instances = {a, b, c}
    Producers = {a, b}
    Consumers = {b}
    Collectors = {c}
    MaxFlows = 2
    MaxReferences = 2
    MaxCrashes = 1
SPECIFICATION FairSpec
INVARIANTS
    ReleasedFlowIsGone
PROPERTIES
    AbandonedFlowIsCollected
CHECK_DEADLOCK FALSE
