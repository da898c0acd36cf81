SPECIFICATION FairSpec
CONSTANTS
    Instances = {a, b}
    NoEntry = NoEntry
    Environments = {{"overlap"}, {"crashes", "early"}, {"overlap", "faults"}, {"overlap", "early"}}
INVARIANTS
    TypeOK
    OnlineMeansListening
    DiscoverableAlone
PROPERTIES
    ServesWithoutRegistry
    StopCompletes
    ImplementsDiscovery
CHECK_DEADLOCK TRUE
