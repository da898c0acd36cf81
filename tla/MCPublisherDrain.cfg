SPECIFICATION Spec
CONSTANTS
    QueueMaxSize = 2
    MaxFrames = 3
    MaxAttempts = 2
    BackoffInitial = 1
    BackoffMax = 2
INVARIANT CloseDrainsQueue
