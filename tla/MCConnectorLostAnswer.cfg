SPECIFICATION Spec
CONSTANTS
    Tasks = {t1}
    Assets = {a1}
    MaxRetries = 2
    Console = FALSE
    ErrorAnswers = FALSE
    Restarts = FALSE
INVARIANT
    NoneMeansMissing
CHECK_DEADLOCK TRUE
