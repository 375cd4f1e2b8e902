SPECIFICATION FairSpec
CONSTANTS
    Front = front
    Peers = {}
    MaxTime = 2
    MaxTimers = 1
    MaxDels = 0
    MaxPending = 1
    Interrupts = TRUE
PROPERTY
    TimersRun
