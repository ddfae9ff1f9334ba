SPECIFICATION FairGroupSpec
CONSTANTS
    LocalMode = FALSE
    EnableInternalEmitter = TRUE
INVARIANTS ConnectionOutlivesUsers LockOutlivesWatcher
CHECK_DEADLOCK FALSE
PROPERTIES ShutdownCompletes FailureEndsProcess
