CONSTANTS
    p1 = p1
    p2 = p2
    Partition <- MCPartition
    Workers = 1
    Empty <- MCNoEmpty
    MaxOffset = 1
    MaxCrashes = 0
    MaxRebalances = 0
    MaxRetries = 1
SPECIFICATION Spec
CHECK_DEADLOCK FALSE
INVARIANT NothingLeftPaused
