CONSTANTS
    Workers = 2
    MaxWaiting = 2
    t1 = t1
    t2 = t2
    t3 = t3
    t4 = t4
    Task <- MCTask
    MaxOffset = 3
    p1 = p1
    p2 = p2
    Partition <- MCPartition
SPECIFICATION ServicesSpec
INVARIANTS
    BoxExclusive
    NoIdlePermit
    CommittedIsSafe
PROPERTIES
    ParkedIsServed
    CommittedNeverDecreases
    CompletionCommitsAllBelow
