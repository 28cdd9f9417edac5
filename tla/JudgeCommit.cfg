CONSTANTS
    Partition = {"p1"}
    Workers = 1
    Empty = {}
    MaxOffset = 0
    MaxCrashes = 0
    MaxRebalances = 0
    MaxRetries = 1
    Submission = {"s1"}
    Tests <- MCOneTest
    Problem <- MCProblem
    Memory = {3340}
    Faults = FALSE
SPECIFICATION SystemSpec
CHECK_DEADLOCK FALSE
INVARIANT CommittedHasVerdict
