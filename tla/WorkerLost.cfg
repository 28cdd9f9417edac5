CONSTANTS
    p1 = p1
    p2 = p2
    Partition <- MCOnePartition
    Workers = 2
    Empty <- MCNoEmpty
    MaxOffset = 1
    MaxCrashes = 1
    MaxRebalances = 0
    MaxRetries = 1
SPECIFICATION Spec
CHECK_DEADLOCK FALSE
INVARIANT NoSubmissionLost
