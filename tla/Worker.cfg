CONSTANTS
    p1 = p1
    p2 = p2
    Partition <- MCPartition
    Workers = 2
    Empty <- MCEmpty
    MaxOffset = 1
    MaxCrashes = 1
    MaxRebalances = 1
    MaxRetries = 2
SPECIFICATION Spec
CHECK_DEADLOCK FALSE
INVARIANTS
    TypeOK
    JobsHaveOwnBox
    ParkedMeansPaused
    CommitCoversFinished
    DeliveredIsAccounted
    OneJobPerMessage
    BoxesLostToEmpties
PROPERTY ImplementsQueue
