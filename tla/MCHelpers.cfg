SPECIFICATION HSpec
CONSTANTS
    MaxClosures = 2
    MaxPermRuns = 2
    MaxFrames = 4
    MaxPositional = 7
    MaxNameLength = 3
    MaxFileSize = 121
    MaxBytes = 3
    IntBits = 3
    LongBits = 5
INVARIANTS
    MessagesUnderstood
    ClosureLife
    ArgumentsBound
    StubReachesMethod
    
CHECK_DEADLOCK FALSE
