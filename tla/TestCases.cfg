CONSTANTS
    a = a
    b = b
    c = c
    Key = {"tests"}
    Caller <- MCCaller
    KeyOf <- MCKeyOf
    NullKeys = {}
    MaxVersion = 2
    Faults = TRUE
    LastTest = 1
    Page = 2
    Uploads = {{1, 2}}
SPECIFICATION FairTestsSpec
CHECK_DEADLOCK FALSE
INVARIANTS
    OneFetchPerKey
    NoStaleEntry
    ContentsMoveForward
    SuiteIsAsListed
PROPERTY CallReturns
