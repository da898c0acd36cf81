CONSTANTS
    Tasks <- MCTasks
    Assets <- MCAssets
    Listed <- MCListed
    Executions <- MCExecutions
    Readings <- MCReadings
    PublisherSn = "dock"
SPECIFICATION Spec
INVARIANTS MeantIsRead NoPartialConfig AssetSurvives NamedExecutionAccepted ReadingsArrive
CHECK_DEADLOCK FALSE
