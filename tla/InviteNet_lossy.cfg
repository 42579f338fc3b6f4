CONSTANTS
    T1 = 1
    T2 = 2
    TimerB = 3
    TimerD = 1
    TimerM = 1
    TimerH = 3
    TimerI = 1
    TimerL = 1
    MaxRSeq = 2
    Tags = {a}
    a = a
    Faults = {"transp", "transpErr"}
SPECIFICATION NetFairSpec
CHECK_DEADLOCK FALSE
INVARIANTS
    OutcomeAgreed
    RprLockstep
    RprPending
PROPERTIES
    AnsweredEnds
