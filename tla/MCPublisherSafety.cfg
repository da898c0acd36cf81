SPECIFICATION Spec
CONSTANTS
    QueueMaxSize = 2
    MaxFrames = 3
    MaxAttempts = 2
    BackoffInitial = 1
    BackoffMax = 3
INVARIANTS
    TypeOK
    SentInOrder
    Accounted
    LossBound
    AtMostOneSentAfterClose
    NoStraySentinel
    NothingLeftRunning
PROPERTIES
    ImplementsLossyFifo
    NeverPutBack
