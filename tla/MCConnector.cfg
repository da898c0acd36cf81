SPECIFICATION FairSpec
CONSTANTS
    Tasks = {t1, t2}
    Assets = {a1, a2}
    MaxRetries = 2
    Console = TRUE
    ErrorAnswers = TRUE
    Restarts = TRUE
INVARIANTS
    TypeOK
    ReturnedExists
    KnownNeverRedeemed
PROPERTY
    EnsureEnds
CHECK_DEADLOCK TRUE
