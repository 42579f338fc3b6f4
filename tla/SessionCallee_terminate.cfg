SPECIFICATION FairSpec
CONSTANTS
    MaxInvites = 1
    MaxFailing = 1
    MaxUpdates = 0
    MaxTerminates = 1
    Intervals = 2
    Faults = {}
PROPERTY TerminateGoesAhead
CHECK_DEADLOCK FALSE
