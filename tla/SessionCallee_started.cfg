SPECIFICATION Spec
CONSTANTS
    MaxInvites = 1
    MaxFailing = 1
    MaxUpdates = 1
    MaxTerminates = 1
    Intervals = 2
    Faults = {}
INVARIANT EstablishedIsTold
CHECK_DEADLOCK FALSE
