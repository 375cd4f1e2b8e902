SPECIFICATION FairSpec
CONSTANTS
    Threads = {t1}
    NoThread = NoThread
    WorkerCount = 2
    Endpoints = {e1}
    Senders = {s1}
    NoSender = NoSender
    Names = {"echo"}
    Singletons = {"echo"}
    Hash <- MCHash
    MaxBinds = 1
    MaxConnects = 1
    MaxRequests = 2
    MaxRegs = 1
CHECK_DEADLOCK FALSE
INVARIANTS
    NotRefused
    CommandsLegal
    GoneIsSilent
PROPERTIES
    RefinesRpcServe
    CommandsAnswered
    RequestHandled
