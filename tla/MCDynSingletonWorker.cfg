SPECIFICATION FairSpec
CONSTANTS
    AppThreads = {a}
    Workers = {w}
    NoThread = NoThread
    MaxManagers = 3
    MaxHandled = 1
    MaxFailures = 0
PROPERTY UnreferencedDestroyed
CHECK_DEADLOCK FALSE
