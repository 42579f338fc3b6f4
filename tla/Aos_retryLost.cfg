SPECIFICATION Spec
CONSTANTS
    CREATE_REG_FAILURE_MAX_COUNT = 1
    MaxQueue = 3
    MaxFaults = 0
    MaxEvents = 0
    Events <- MCQuiet
INVARIANT RestoredAfterTimer
CHECK_DEADLOCK FALSE
