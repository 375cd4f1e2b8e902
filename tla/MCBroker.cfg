SPECIFICATION Spec
CONSTANTS
    t1 = t1
    t2 = t2
    Threads = {t1, t2}
    c1 = c1
    c2 = c2
    Conns = {c1, c2}
    NoConn = NoConn
    RouterConns = {c2}
    WorkerCount = 2
    Hash <- MCHash
    MaxRequests = 2
    MaxClosures = 0
    MaxCommands = 2
    MaxReplies = 2
    FrontHWM = 2
    ConnHWM = 1
SYMMETRY ThreadSymmetry
INVARIANTS
    NoDangling
    NoLeak
    StartFirst
    NothingAfterQuit
PROPERTY RefinesRpcCall
