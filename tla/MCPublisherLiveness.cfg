SPECIFICATION FairSpec
CONSTANTS
    QueueMaxSize = 1
    MaxFrames = 2
    MaxAttempts = 2
    BackoffInitial = 1
    BackoffMax = 2
PROPERTIES
    CloseTerminates
    StaleGeneratorsExit
    FramesLeaveQueue
