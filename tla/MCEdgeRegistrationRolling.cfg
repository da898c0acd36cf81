SPECIFICATION Spec
CONSTANTS
    Instances = {a, b}
    NoEntry = NoEntry
    Environments = {{"overlap"}}
INVARIANT
    DiscoverableWhileServing
CHECK_DEADLOCK TRUE
