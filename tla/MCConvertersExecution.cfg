CONSTANTS
    Tasks <- MCTasks
    Assets <- MCAssets
    Listed <- MCListed
    Executions <- MCExecutions
    Readings <- MCReadings
    PublisherSn = "dock"
SPECIFICATION Spec
INVARIANT ExecutionAccepted
CHECK_DEADLOCK FALSE
