SPECIFICATION Spec
CONSTANTS
    AppThreads = {a, b, c}
    Workers = {w}
    NoThread = NoThread
    MaxManagers = 3
    MaxHandled = 0
    MaxFailures = 0
INVARIANT WptrThreadSafe
