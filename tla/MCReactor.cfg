SPECIFICATION FairSpec
CONSTANTS
    Front = front
    Peers = {s1, s2}
    MaxTime = 2
    MaxTimers = 1
    MaxDels = 2
    MaxPending = 1
    Interrupts = TRUE
INVARIANTS
    Aligned
    DeletedBeforePoll
    TimersOnTime
    NoBlockingReceive
PROPERTIES
    TimersRunUnlessBlocked
    MessagesReceived
