CONSTANTS
    Submission = {"s1"}
    Tests <- MCTwoTests
    Problem <- MCProblem
    Memory = {1024, 3340}
    Faults = TRUE
    MaxDeliveries = 2
    MaxCrashes = 1
SPECIFICATION Spec
CHECK_DEADLOCK FALSE
INVARIANTS
    TypeOK
    VerdictIsFirstFailure
    MessageHasRow
    RowsExplainVerdict
