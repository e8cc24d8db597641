SPECIFICATION Spec
CONSTANTS
    Queues = {"_ready", "_sleeping"}
    Ordered = {"_sleeping"}
    Keys = {1, 2}
    Pages = 6
    StackPages = 1
    SlicesPerPage = 5
    NodesPerSlice = 1
    PcbsPerSlice = 2
INVARIANTS PoolsConsistent BothWays
PROPERTY ImplementsQueues
CHECK_DEADLOCK FALSE
