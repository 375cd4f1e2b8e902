SPECIFICATION LocalSpec
CONSTANTS
    t1 = t1
    t2 = t2
    Threads = {t1}
    c1 = c1
    c2 = c2
    Conns = {c1}
    NoConn = NoConn
    RouterConns = {}
    WorkerCount = 1
    Hash <- MCHash
    MaxRequests = 2
    MaxClosures = 0
    MaxCommands = 2
    MaxReplies = 0
    FrontHWM = 1
    ConnHWM = 1
PROPERTY
    DeadlineHonoured
