CONSTANTS
    T1 = 1
    T2 = 4
    TimerH = 9
    TimerI = 2
    TimerL = 3
    MaxRSeq = 2
    Faults = {"timer", "net", "transp", "transpErr"}
SPECIFICATION SrvSpec
CHECK_DEADLOCK FALSE
INVARIANTS
    SrvTypeOK
PROPERTIES
    RprTimeoutExact
    AckTimeoutExact
    PrackReachesUser
