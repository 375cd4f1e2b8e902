SPECIFICATION Spec
CONSTANTS
    Threads = {t1}
    NoThread = NoThread
    WorkerCount = 2
    Endpoints = {e1}
    Senders = {s1}
    NoSender = NoSender
    Names = {"echo"}
    Singletons = {"echo"}
    Hash <- MCHash
    MaxBinds = 1
    MaxConnects = 0
    MaxRequests = 1
    MaxRegs = 0
CHECK_DEADLOCK FALSE
INVARIANT NoDeadService
