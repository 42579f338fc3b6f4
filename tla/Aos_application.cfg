SPECIFICATION Spec
CONSTANTS
    CREATE_REG_FAILURE_MAX_COUNT = 1
    MaxQueue = 2
    MaxFaults = 2
    MaxEvents = 3
    Events <- MCEvents
INVARIANTS
    AosTypeOK
    RadioReleased
    StartedIsCurrent
    TryingHasRequest
    HeldGoesOn
    UpdateIsKept
CHECK_DEADLOCK FALSE
