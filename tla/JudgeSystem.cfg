CONSTANTS
    Partition = {"p1"}
    Workers = 1
    Empty = {}
    MaxOffset = 1
    MaxCrashes = 1
    MaxRebalances = 1
    MaxRetries = 2
    Submission = {"s1", "s2"}
    Tests <- MCTests
    Problem <- MCProblem
    Memory = {1024}
    Faults = TRUE
SPECIFICATION FairSystemSpec
CHECK_DEADLOCK FALSE
INVARIANTS
    PauseHasEnd
    AcknowledgedIsKept
    CommittedIsWritten
    RowsPerDelivery
PROPERTIES
    FinalUntilRedelivered
    AcknowledgedIsDecided
