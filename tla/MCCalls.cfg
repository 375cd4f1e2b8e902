SPECIFICATION CallsSpec
CONSTANTS
    AppThreads = {t1}
    Pool = {w1, w2}
    Nobody = Nobody
    MaxCalls = 2
    Wanting = {1}
    Answers = {"bad"}
    MaxArrivals = 1
    MaxRuns = 2
    PyThreads = {p1, p2}
    PyPool = {v1, v2}
    NoHolder = NoHolder
    MaxRpcs = 2
    MaxServed = 2
    Users = {u1, u2}
    Wrappers = {o1, o2}
    PyServices = {s1}
    ThreadCounts = {0, 2}
    MaxManagers = 2
INVARIANTS
    HandlerAlive
    FirstAnswerWins
    UsedAlive
    NothingLeaks
    ChannelDeletedOnce
    WaitSees
    AppUsesAlive
PROPERTIES
    TimedCallReturns
    WaitEnds
    RunReleased
CHECK_DEADLOCK FALSE
