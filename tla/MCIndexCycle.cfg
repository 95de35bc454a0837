CONSTANTS
    NumReaders = 2
    MaxSessions = 3
    PoolSize = 2
    Cancellable = TRUE
SPECIFICATION Spec
INVARIANTS TypeOK OneWorkerPerSession PoolQuiet ProgressHonest
PROPERTIES CycleReturns ImplementsRound
CHECK_DEADLOCK FALSE
