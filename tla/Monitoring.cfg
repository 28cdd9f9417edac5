CONSTANTS
    r1 = r1
    r2 = r2
    r3 = r3
    Request <- MCRequest
    Route <- MCRoute
SPECIFICATION Spec
CHECK_DEADLOCK FALSE
INVARIANT GaugeCountsProcessed
