SPECIFICATION FairSpec
CONSTANTS
    t1 = t1
    t2 = t2
    Threads = {t1, t2}
    c1 = c1
    c2 = c2
    Conns = {c1}
    NoConn = NoConn
    RouterConns = {}
    WorkerCount = 2
    Hash <- MCHash
    MaxRequests = 2
    MaxClosures = 2
    MaxCommands = 2
    MaxReplies = 1
    FrontHWM = 2
    ConnHWM = 1
INVARIANTS
    ClosureOnce
PROPERTIES
    DeadlineHonoured
    ResponseHandled
    ShutdownCompletes
