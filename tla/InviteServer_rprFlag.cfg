CONSTANTS
    T1 = 1
    T2 = 4
    TimerH = 9
    TimerI = 2
    TimerL = 3
    MaxRSeq = 1
    Faults = {}
SPECIFICATION SrvFairSpec
CHECK_DEADLOCK FALSE
PROPERTY FailureRetransmitted
