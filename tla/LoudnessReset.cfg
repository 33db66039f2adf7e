SPECIFICATION MCSpec
CONSTANTS
    ChunkFrames = 2
    QueueLength = 1
    Attempts = 2
    MaxFrames = 4
    MaxRequests = 2
    MaxLifecycles = 2
    Budget = 3
INVARIANTS
    ResetIsNeverUndone
    ResetIsExact
