SPECIFICATION FairSpec
CONSTANTS
    AppThreads = {a, b, c}
    Workers = {w}
    NoThread = NoThread
    MaxManagers = 3
    MaxHandled = 2
    MaxFailures = 1
INVARIANTS
    SingleManager
    NoDeadManager
PROPERTIES
    GetReturns
    DestroyedUnlessStuck
CHECK_DEADLOCK FALSE
