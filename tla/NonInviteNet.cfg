CONSTANTS
    T1 = 1
    T2 = 8
    TimerF = 64
    TimerK = 10
    TimerJ = 64
    Faults = {"net", "transp", "transpErr"}
SPECIFICATION NetFairSpec
CHECK_DEADLOCK FALSE
INVARIANTS
    ReqTypeOK
    ReqTimeoutExact
    ClientBehindServer
PROPERTIES
    QuietAfterOutcome
    ReqImplementsContract
    RequestResolved
