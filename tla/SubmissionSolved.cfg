CONSTANTS
    Submission = {"s1", "s2"}
    Tests <- MCOneTest
    Problem <- MCProblem
    Memory = {1024}
    Faults = FALSE
    MaxDeliveries = 1
    MaxCrashes = 0
SPECIFICATION Spec
CHECK_DEADLOCK FALSE
INVARIANT AcceptedIsSolved
