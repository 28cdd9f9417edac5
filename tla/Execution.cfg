CONSTANTS
    cpp = cpp
    python = python
    other = other
    Job <- MCJob
    Box = {0}
    Tests <- MCTests
    Compiled <- MCCompiled
    Unsupported <- MCOther
    Oversize <- MCNone
    Large <- MCLarge
    KeeperDies = FALSE
    MaxCrashes = 1
SPECIFICATION FairSpec
CHECK_DEADLOCK FALSE
INVARIANTS
    TypeOK
    RunsOwnProgram
    NoForeignOutput
    BoxesAreCleaned
PROPERTIES
    BatchEnds
    ImplementsBatch
